--------------------------- MODULE ScriptEnvCache ---------------------------
(***************************************************************************)
(* script_env (vc.py) in several SCons processes that run at the same     *)
(* time and share the persistent cache file (SCONS_CACHE_MSVC_CONFIG).    *)
(* Each process has its own script_env_cache, read from the file on its   *)
(* first call and written back whole after every new entry.  A call is    *)
(* split where it waits: the lookup (with the first read of the file),    *)
(* then, on a miss, the exit of the script started by common.get_output,  *)
(* at which the output is checked, parsed, stored and the file rewritten. *)
(* Between the two, the other processes and the installation move on.     *)
(***************************************************************************)
EXTENDS Naturals

CONSTANTS
    None,        \* Python None
    Procs,       \* the SCons processes
    Keys,        \* the <<script, args>> pairs the processes ask for
    Outputs,     \* the bindings common.parse_output can extract
    ErrLine,     \* an output that starts with the error line
    Raised,      \* BatchFileExecutionError
    ConfigCache, \* SCONS_CACHE_MSVC_CONFIG is set
    MaxChanges   \* the number of installation changes

ASSUME ScriptEnvCacheAssumption ==
    /\ ConfigCache \in BOOLEAN
    /\ MaxChanges \in Nat
    /\ ErrLine \notin Outputs

VARIABLES
    file,        \* the cache file: cache key -> bindings
    mem,         \* mem[p]: process p's script_env_cache, None until loaded
    running,     \* running[p]: the key whose script p is waiting for, or None
    answer,      \* answer[p]: <<key, what p's last call returned or raised>>
    out,         \* out[k]: what the script of k prints today
    changes,     \* the installation changes so far
    printed      \* history: every <<key, answer>> a run of a script gave

vars == <<file, mem, running, answer, out, changes, printed>>

-----------------------------------------------------------------------------
EmptyCache == [c \in {} |-> None]

\* common.read_script_env_cache / write_script_env_cache.
ReadScriptEnvCache == IF ConfigCache THEN file ELSE EmptyCache
WriteScriptEnvCache(m) == IF ConfigCache THEN m ELSE file

\* Mutant: the key is built from the script alone.
CacheKeyScriptOnly(k) == k[1]

\* cache_key = "{}--{}".format(script, args)
CacheKey(k) == k

Put(m, c, b) == [x \in DOMAIN m \cup {c} |-> IF x = c THEN b ELSE m[x]]

\* script_env_cache, read from the file when it is still None.
Loaded(p) == IF mem[p] = None THEN ReadScriptEnvCache ELSE mem[p]

-----------------------------------------------------------------------------
Init ==
    /\ file = EmptyCache
    /\ mem = [p \in Procs |-> None]
    /\ running = [p \in Procs |-> None]
    /\ answer = [p \in Procs |-> None]
    /\ out \in [Keys -> Outputs \cup {ErrLine}]
    /\ changes = 0
    /\ printed = {}

\* script_env(script, args) finds the key: it returns the cached bindings.
CallHit(p, k) ==
    /\ running[p] = None
    /\ CacheKey(k) \in DOMAIN Loaded(p)
    /\ mem' = [mem EXCEPT ![p] = Loaded(p)]
    /\ answer' = [answer EXCEPT ![p] = <<k, Loaded(p)[CacheKey(k)]>>]
    /\ UNCHANGED <<file, running, out, changes, printed>>

\* A miss: common.get_output(script, args) starts the script.
CallMiss(p, k) ==
    /\ running[p] = None
    /\ CacheKey(k) \notin DOMAIN Loaded(p)
    /\ mem' = [mem EXCEPT ![p] = Loaded(p)]
    /\ running' = [running EXCEPT ![p] = k]
    /\ UNCHANGED <<file, answer, out, changes, printed>>

\* Mutant: the output is stored and written before the error line is
\* looked for.
ScriptFailsCaches(p) ==
    LET k == running[p]
        m == Put(mem[p], CacheKey(k), out[k])
    IN  /\ k # None
        /\ out[k] = ErrLine
        /\ answer' = [answer EXCEPT ![p] = <<k, Raised>>]
        /\ running' = [running EXCEPT ![p] = None]
        /\ printed' = printed \cup {<<k, Raised>>}
        /\ mem' = [mem EXCEPT ![p] = m]
        /\ file' = WriteScriptEnvCache(m)
        /\ UNCHANGED <<out, changes>>

\* The script exits with the error line: BatchFileExecutionError is
\* raised and nothing is cached.
ScriptFails(p) ==
    LET k == running[p]
    IN  /\ k # None
        /\ out[k] = ErrLine
        /\ answer' = [answer EXCEPT ![p] = <<k, Raised>>]
        /\ running' = [running EXCEPT ![p] = None]
        /\ printed' = printed \cup {<<k, Raised>>}
        /\ UNCHANGED <<file, mem, out, changes>>

\* Mutant: the first line of the output is not checked.
ScriptStoresUnchecked(p) ==
    LET k == running[p]
        m == Put(mem[p], CacheKey(k), out[k])
    IN  /\ k # None
        /\ mem' = [mem EXCEPT ![p] = m]
        /\ file' = WriteScriptEnvCache(m)
        /\ answer' = [answer EXCEPT ![p] = <<k, out[k]>>]
        /\ running' = [running EXCEPT ![p] = None]
        /\ printed' = printed \cup {<<k, out[k]>>}
        /\ UNCHANGED <<out, changes>>

\* The script exits cleanly: its parsed output is stored under the key and
\* the whole script_env_cache is written to the file, replacing it.
ScriptStores(p) ==
    LET k == running[p]
        m == Put(mem[p], CacheKey(k), out[k])
    IN  /\ k # None
        /\ out[k] # ErrLine
        /\ mem' = [mem EXCEPT ![p] = m]
        /\ file' = WriteScriptEnvCache(m)
        /\ answer' = [answer EXCEPT ![p] = <<k, out[k]>>]
        /\ running' = [running EXCEPT ![p] = None]
        /\ printed' = printed \cup {<<k, out[k]>>}
        /\ UNCHANGED <<out, changes>>

\* The process ends (finished, killed or crashed, a script still running
\* or not); SCons is run again with script_env_cache = None.
Exit(p) ==
    /\ mem' = [mem EXCEPT ![p] = None]
    /\ running' = [running EXCEPT ![p] = None]
    /\ answer' = [answer EXCEPT ![p] = None]
    /\ UNCHANGED <<file, out, changes, printed>>

\* Visual Studio is updated or repaired: a script prints something else.
Change(k, o) ==
    /\ changes < MaxChanges
    /\ out' = [out EXCEPT ![k] = o]
    /\ changes' = changes + 1
    /\ UNCHANGED <<file, mem, running, answer, printed>>

Next ==
    \/ \E p \in Procs :
         \/ \E k \in Keys : CallHit(p, k) \/ CallMiss(p, k)
         \/ ScriptFails(p) \/ ScriptStores(p) \/ Exit(p)
    \/ \E k \in Keys, o \in Outputs \cup {ErrLine} : Change(k, o)

\* A started script exits (script_env sets no timeout: this is the
\* assumption that the batch files terminate).
Fairness == \A p \in Procs : WF_vars(ScriptFails(p) \/ ScriptStores(p))

Spec == Init /\ [][Next]_vars /\ Fairness

-----------------------------------------------------------------------------
(* Properties.                                                             *)

Answers == Keys \X (Outputs \cup {Raised})

\* Type invariant.
TypeOK ==
    /\ \A p \in Procs :
         /\ running[p] \in Keys \cup {None}
         /\ answer[p] \in Answers \cup {None}
    /\ out \in [Keys -> Outputs \cup {ErrLine}]
    /\ changes \in 0..MaxChanges
    /\ printed \subseteq Answers

\* The caches are invisible: the processes' calls of script_env, with the
\* in-memory caches and the shared file hidden, behave as if every call ran
\* the script (a cached answer is what the script prints today), and every
\* call that runs a script ends (ScriptEnvIdeal).  Neither a process
\* rewriting the file with an old copy (last writer wins) nor a process
\* ending between reading and writing the file may break this.
Ideal == INSTANCE ScriptEnvIdeal WITH calling <- running

CacheTransparent == Ideal!Spec

\* Whatever the installation did since, every answer a process holds for
\* a key was given by a run of that key's script, in this process or in
\* another one that wrote the file: answers are never mixed between keys.
AnswersPrinted == \A p \in Procs : answer[p] # None => answer[p] \in printed

=============================================================================
