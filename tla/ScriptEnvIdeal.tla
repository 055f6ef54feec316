--------------------------- MODULE ScriptEnvIdeal ---------------------------
(***************************************************************************)
(* What script_env (vc.py) promises its callers, with its caches left out: *)
(* a call for the key <<script, args>> returns the bindings the script     *)
(* prints, or raises BatchFileExecutionError when the script prints the    *)
(* error line.  A call either answers at once (the caller cannot tell a    *)
(* cached answer from a fresh one) or runs the script and answers when the *)
(* script exits.  Several SCons processes call it; a process may end at    *)
(* any time; the installation (what each script prints) may change.        *)
(***************************************************************************)
EXTENDS Naturals

CONSTANTS
    None,        \* no call in progress, no answer
    Procs,       \* the SCons processes
    Keys,        \* the <<script, args>> pairs the processes ask for
    Outputs,     \* the bindings a script may print
    ErrLine,     \* the output starting with the error line
    Raised,      \* the answer of a call that raised BatchFileExecutionError
    MaxChanges   \* the number of installation changes

VARIABLES
    calling,     \* calling[p]: the key p's call is running the script for, or None
    answer,      \* answer[p]: <<key, what p's last call returned or raised>>, or None
    out,         \* out[k]: what the script of k prints today
    changes      \* the installation changes so far

ivars == <<calling, answer, out, changes>>

\* The answer of a call that ran the script of k.
RunAnswer(k) == IF out[k] = ErrLine THEN Raised ELSE out[k]

Init ==
    /\ calling = [p \in Procs |-> None]
    /\ answer = [p \in Procs |-> None]
    /\ out \in [Keys -> Outputs \cup {ErrLine}]
    /\ changes = 0

\* A call answered without waiting: the bindings the script prints today.
Serve(p, k) ==
    /\ calling[p] = None
    /\ out[k] # ErrLine
    /\ answer' = [answer EXCEPT ![p] = <<k, out[k]>>]
    /\ UNCHANGED <<calling, out, changes>>

\* A call that runs the script.
Start(p, k) ==
    /\ calling[p] = None
    /\ calling' = [calling EXCEPT ![p] = k]
    /\ UNCHANGED <<answer, out, changes>>

\* The script exits: the call returns its bindings or raises.
Complete(p) ==
    /\ calling[p] # None
    /\ answer' = [answer EXCEPT ![p] = <<calling[p], RunAnswer(calling[p])>>]
    /\ calling' = [calling EXCEPT ![p] = None]
    /\ UNCHANGED <<out, changes>>

\* The process ends (finished, killed or crashed) and SCons runs again.
Exit(p) ==
    /\ calling' = [calling EXCEPT ![p] = None]
    /\ answer' = [answer EXCEPT ![p] = None]
    /\ UNCHANGED <<out, changes>>

\* Visual Studio is updated or repaired: a script prints something else.
Change(k, o) ==
    /\ changes < MaxChanges
    /\ out' = [out EXCEPT ![k] = o]
    /\ changes' = changes + 1
    /\ UNCHANGED <<calling, answer>>

Next ==
    \/ \E p \in Procs :
         \/ \E k \in Keys : Serve(p, k) \/ Start(p, k)
         \/ Complete(p) \/ Exit(p)
    \/ \E k \in Keys, o \in Outputs \cup {ErrLine} : Change(k, o)

SafetySpec == Init /\ [][Next]_ivars

\* A script that was started exits (no timeout is enforced: this is the
\* assumption that the wrapped batch files terminate).
Spec == SafetySpec /\ \A p \in Procs : WF_ivars(Complete(p))

=============================================================================
