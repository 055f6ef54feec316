------------------------ MODULE ScriptEnvCacheProofs ------------------------
(***************************************************************************)
(* TLAPS proofs about ScriptEnvCache: with an installation that does not  *)
(* change, the processes' script_env calls refine ScriptEnvIdeal (the     *)
(* caches are invisible), for any number of processes and keys.  The      *)
(* argument is the inductive invariant IInv: every cache, the file and     *)
(* every loaded memory, holds under each key exactly what the key's        *)
(* script prints, never the error line.                                    *)
(***************************************************************************)
EXTENDS ScriptEnvCache, TLAPS

\* The caches script_env can hold: some keys, each with parsed bindings.
CacheType == UNION {[D -> Outputs] : D \in SUBSET Keys}

\* A cache holds, under each key, what the key's script prints.
Sound(m) == \A c \in DOMAIN m : m[c] = out[c]

IInv ==
    /\ file \in CacheType
    /\ mem \in [Procs -> CacheType \cup {None}]
    /\ running \in [Procs -> Keys \cup {None}]
    /\ answer \in [Procs -> Answers \cup {None}]
    /\ out \in [Keys -> Outputs \cup {ErrLine}]
    /\ changes = 0
    /\ Sound(file)
    /\ \A p \in Procs : mem[p] # None => Sound(mem[p])
    /\ \A p \in Procs : running[p] # None => mem[p] \in CacheType /\ Sound(mem[p])


USE ScriptEnvCacheAssumption

\* Storing a key's bindings keeps a cache well formed and sound.
LEMMA PutSound ==
    ASSUME NEW m \in CacheType, Sound(m), NEW c \in Keys, NEW b \in Outputs,
           b = out[c]
    PROVE  Put(m, c, b) \in CacheType /\ Sound(Put(m, c, b))
<1>1. PICK D \in SUBSET Keys : m \in [D -> Outputs]
  BY DEF CacheType
<1>2. Put(m, c, b) \in [D \cup {c} -> Outputs]
  BY <1>1 DEF Put
<1>3. Put(m, c, b) \in CacheType
  BY <1>2 DEF CacheType
<1>4. Sound(Put(m, c, b))
  BY <1>1 DEF Put, Sound
<1>. QED  BY <1>3, <1>4

\* The empty cache a disabled or missing file reads as.
LEMMA EmptyCacheSound == EmptyCache \in CacheType /\ Sound(EmptyCache)
<1>1. EmptyCache \in [{} -> Outputs]
  BY DEF EmptyCache
<1>. QED  BY <1>1 DEF CacheType, Sound, EmptyCache

\* What script_env looks a key up in is a sound cache.
LEMMA LoadedSound ==
    ASSUME IInv, NEW p \in Procs
    PROVE  Loaded(p) \in CacheType /\ Sound(Loaded(p))
BY EmptyCacheSound DEF IInv, Loaded, ReadScriptEnvCache

\* What a process writes to the file keeps it sound.
LEMMA WriteSound ==
    ASSUME IInv, NEW m \in CacheType, Sound(m)
    PROVE  WriteScriptEnvCache(m) \in CacheType /\ Sound(WriteScriptEnvCache(m))
BY DEF IInv, WriteScriptEnvCache

LEMMA InitIInv == Init => IInv
BY EmptyCacheSound DEF Init, IInv, CacheType

LEMMA NextIInv == MaxChanges = 0 /\ IInv /\ [Next]_vars => IInv'
<1> SUFFICES ASSUME MaxChanges = 0, IInv, [Next]_vars PROVE IInv'
  OBVIOUS
<1>1. ASSUME NEW p \in Procs, NEW k \in Keys, CallHit(p, k) PROVE IInv'
  <2>1. Loaded(p) \in CacheType /\ Sound(Loaded(p))
    BY LoadedSound
  <2>2. Loaded(p)[k] \in Outputs
    <3>1. k \in DOMAIN Loaded(p)
      BY <1>1 DEF CallHit, CacheKey
    <3>2. PICK D \in SUBSET Keys : Loaded(p) \in [D -> Outputs]
      BY <2>1 DEF CacheType
    <3>. QED  BY <3>1, <3>2
  <2>3. mem' = [mem EXCEPT ![p] = Loaded(p)]
        /\ answer' = [answer EXCEPT ![p] = <<k, Loaded(p)[k]>>]
        /\ UNCHANGED <<file, running, out, changes>>
    BY <1>1 DEF CallHit, CacheKey
  <2>4. (\A q \in Procs : mem[q] # None => Sound(mem[q]))'
    BY <2>1, <2>3 DEF IInv, Sound
  <2>. QED  BY <2>1, <2>2, <2>3, <2>4 DEF IInv, Sound, Answers
<1>2. ASSUME NEW p \in Procs, NEW k \in Keys, CallMiss(p, k) PROVE IInv'
  <2>1. Loaded(p) \in CacheType /\ Sound(Loaded(p))
    BY LoadedSound
  <2>2. mem' = [mem EXCEPT ![p] = Loaded(p)]
        /\ running' = [running EXCEPT ![p] = k]
        /\ UNCHANGED <<file, answer, out, changes>>
    BY <1>2 DEF CallMiss
  <2>. QED  BY <2>1, <2>2 DEF IInv, Sound
<1>3. ASSUME NEW p \in Procs, ScriptFails(p) PROVE IInv'
  BY <1>3 DEF ScriptFails, IInv, Sound, Answers
<1>4. ASSUME NEW p \in Procs, ScriptStores(p) PROVE IInv'
  <2> DEFINE k == running[p]
             m == Put(mem[p], k, out[k])
  <2>1. k # None /\ out[k] # ErrLine
    BY <1>4 DEF ScriptStores
  <2>2. k \in Keys /\ out[k] \in Outputs
    BY <2>1 DEF IInv
  <2>3. mem[p] \in CacheType /\ Sound(mem[p])
    \* CallMiss loaded the cache before the script started.
    BY <2>1 DEF IInv
  <2>4. m \in CacheType /\ Sound(m)
    BY <2>2, <2>3, PutSound
  <2>5. /\ mem' = [mem EXCEPT ![p] = m]
        /\ file' = WriteScriptEnvCache(m)
        /\ answer' = [answer EXCEPT ![p] = <<k, out[k]>>]
        /\ running' = [running EXCEPT ![p] = None]
        /\ out' = out /\ changes' = changes
    BY <1>4 DEF ScriptStores, CacheKey
  <2>6. file' \in CacheType /\ Sound(file)'
    BY <2>4, <2>5, WriteSound DEF Sound
  <2>7. (\A q \in Procs : mem[q] # None => Sound(mem[q]))'
    BY <2>4, <2>5 DEF IInv, Sound
  <2>8. mem' \in [Procs -> CacheType \cup {None}]
    BY <2>4, <2>5 DEF IInv
  <2>9. running' \in [Procs -> Keys \cup {None}] /\ answer' \in [Procs -> Answers \cup {None}]
    BY <2>2, <2>5 DEF IInv, Answers
  <2>10. (\A q \in Procs : running[q] # None => mem[q] \in CacheType /\ Sound(mem[q]))'
    BY <2>4, <2>5 DEF IInv, Sound
  <2>. QED  BY <2>5, <2>6, <2>7, <2>8, <2>9, <2>10 DEF IInv
<1>5. ASSUME NEW p \in Procs, Exit(p) PROVE IInv'
  BY <1>5 DEF Exit, IInv, Sound
<1>6. ASSUME NEW k \in Keys, NEW o \in Outputs \cup {ErrLine}, Change(k, o) PROVE IInv'
  BY <1>6 DEF Change, IInv
<1>7. CASE UNCHANGED vars
  BY <1>7 DEF vars, IInv, Sound
<1>. QED  BY <1>1, <1>2, <1>3, <1>4, <1>5, <1>6, <1>7 DEF Next

-----------------------------------------------------------------------------
\* The variables of ScriptEnvIdeal under the refinement mapping.
ivarsBar == <<running, answer, out, changes>>

\* Each step of the processes is a step of ScriptEnvIdeal or leaves its
\* variables alone: a hit answers what the script prints today (Serve),
\* a miss starts the script (Start), its exit is Complete.
LEMMA NextRefines == IInv /\ [Next]_vars => [Ideal!Next]_ivarsBar
<1> SUFFICES ASSUME IInv, [Next]_vars PROVE [Ideal!Next]_ivarsBar
  OBVIOUS
<1>1. ASSUME NEW p \in Procs, NEW k \in Keys, CallHit(p, k) PROVE Ideal!Serve(p, k)
  <2>1. Loaded(p)[CacheKey(k)] = out[k] /\ out[k] \in Outputs
    <3>1. Loaded(p) \in CacheType /\ Sound(Loaded(p)) /\ k \in DOMAIN Loaded(p)
      BY <1>1, LoadedSound DEF CallHit, CacheKey
    <3>2. PICK D \in SUBSET Keys : Loaded(p) \in [D -> Outputs]
      BY <3>1 DEF CacheType
    <3>. QED  BY <3>1, <3>2 DEF Sound, CacheKey
  <2>2. out[k] # ErrLine
    BY <2>1
  <2>. QED  BY <1>1, <2>1, <2>2 DEF CallHit, Ideal!Serve
<1>2. ASSUME NEW p \in Procs, NEW k \in Keys, CallMiss(p, k) PROVE Ideal!Start(p, k)
  BY <1>2 DEF CallMiss, Ideal!Start
<1>3. ASSUME NEW p \in Procs, ScriptFails(p) PROVE Ideal!Complete(p)
  BY <1>3 DEF ScriptFails, Ideal!Complete, Ideal!RunAnswer
<1>4. ASSUME NEW p \in Procs, ScriptStores(p) PROVE Ideal!Complete(p)
  BY <1>4 DEF ScriptStores, Ideal!Complete, Ideal!RunAnswer
<1>5. ASSUME NEW p \in Procs, Exit(p) PROVE Ideal!Exit(p)
  BY <1>5 DEF Exit, Ideal!Exit
<1>6. ASSUME NEW k \in Keys, NEW o \in Outputs \cup {ErrLine}, Change(k, o)
      PROVE Ideal!Change(k, o)
  BY <1>6 DEF Change, Ideal!Change
<1>7. CASE UNCHANGED vars
  BY <1>7 DEF vars, ivarsBar
<1>. QED  BY <1>1, <1>2, <1>3, <1>4, <1>5, <1>6, <1>7 DEF Next, Ideal!Next

\* With the installation fixed (no Visual Studio update while the cache
\* file is in use), every behaviour of processes sharing the cache file
\* through script_env (vc.py 1000-1021) is a behaviour of ScriptEnvIdeal:
\* a cached answer is always what running the script would give, whatever
\* the interleaving of the processes' reads and whole-file rewrites.
THEOREM CacheRefinesIdeal == MaxChanges = 0 => (Spec => Ideal!SafetySpec)
<1> SUFFICES ASSUME MaxChanges = 0 PROVE Spec => Ideal!SafetySpec
  OBVIOUS
<1>1. Init => Ideal!Init
  BY DEF Init, Ideal!Init
<1>2. Init => IInv
  BY InitIInv
<1>3. IInv /\ [Next]_vars => IInv'
  BY NextIInv
<1>4. IInv /\ [Next]_vars => [Ideal!Next]_ivarsBar
  BY NextRefines
<1>. QED  BY <1>1, <1>2, <1>3, <1>4, PTL DEF Spec, Ideal!SafetySpec, Ideal!ivars, ivarsBar


-----------------------------------------------------------------------------
(* AnswersPrinted, for any number of installation changes.  It is not      *)
(* inductive: a hit answers with a cache entry, so every entry of the file *)
(* and of every loaded cache must itself be an answer some run gave.       *)

\* Every entry of cache m was printed by a run of its key's script.
Recorded(m) == \A c \in DOMAIN m : <<c, m[c]>> \in printed

PInv ==
    /\ file \in CacheType
    /\ mem \in [Procs -> CacheType \cup {None}]
    /\ running \in [Procs -> Keys \cup {None}]
    /\ answer \in [Procs -> Answers \cup {None}]
    /\ out \in [Keys -> Outputs \cup {ErrLine}]
    /\ changes \in 0..MaxChanges
    /\ printed \subseteq Answers
    /\ Recorded(file)
    /\ \A p \in Procs : mem[p] # None => Recorded(mem[p])
    /\ \A p \in Procs : running[p] # None => mem[p] \in CacheType /\ Recorded(mem[p])
    /\ AnswersPrinted

\* A cache stays recorded when printed grows and when a printed answer is
\* stored in it.
LEMMA PutRecorded ==
    ASSUME NEW m \in CacheType, NEW c \in Keys, NEW b \in Outputs,
           NEW P, NEW P2, P \subseteq P2, <<c, b>> \in P2,
           \A x \in DOMAIN m : <<x, m[x]>> \in P
    PROVE  /\ Put(m, c, b) \in CacheType
           /\ \A x \in DOMAIN Put(m, c, b) : <<x, Put(m, c, b)[x]>> \in P2
<1>1. PICK D \in SUBSET Keys : m \in [D -> Outputs]
  BY DEF CacheType
<1>2. Put(m, c, b) \in [D \cup {c} -> Outputs]
  BY <1>1 DEF Put
<1>3. Put(m, c, b) \in CacheType
  BY <1>2 DEF CacheType
<1>. QED  BY <1>1, <1>3 DEF Put

LEMMA LoadedRecorded ==
    ASSUME PInv, NEW p \in Procs
    PROVE  Loaded(p) \in CacheType /\ Recorded(Loaded(p))
<1>1. EmptyCache \in CacheType /\ Recorded(EmptyCache)
  BY EmptyCacheSound DEF Recorded, EmptyCache
<1>. QED  BY <1>1 DEF PInv, Loaded, ReadScriptEnvCache

LEMMA InitPInv == Init => PInv
BY EmptyCacheSound DEF Init, PInv, Recorded, EmptyCache, AnswersPrinted

LEMMA NextPInv == PInv /\ [Next]_vars => PInv'
<1> SUFFICES ASSUME PInv, [Next]_vars PROVE PInv'
  OBVIOUS
<1>1. ASSUME NEW p \in Procs, NEW k \in Keys, CallHit(p, k) PROVE PInv'
  <2>1. Loaded(p) \in CacheType /\ Recorded(Loaded(p))
    BY LoadedRecorded
  <2>2. k \in DOMAIN Loaded(p)
    BY <1>1 DEF CallHit, CacheKey
  <2>3. <<k, Loaded(p)[k]>> \in printed /\ Loaded(p)[k] \in Outputs
    <3>1. PICK D \in SUBSET Keys : Loaded(p) \in [D -> Outputs]
      BY <2>1 DEF CacheType
    <3>. QED  BY <2>1, <2>2, <3>1 DEF Recorded
  <2>4. mem' = [mem EXCEPT ![p] = Loaded(p)]
        /\ answer' = [answer EXCEPT ![p] = <<k, Loaded(p)[k]>>]
        /\ UNCHANGED <<file, running, out, changes, printed>>
    BY <1>1 DEF CallHit, CacheKey
  <2>. QED  BY <2>1, <2>3, <2>4 DEF PInv, Recorded, Answers, AnswersPrinted
<1>2. ASSUME NEW p \in Procs, NEW k \in Keys, CallMiss(p, k) PROVE PInv'
  <2>1. Loaded(p) \in CacheType /\ Recorded(Loaded(p))
    BY LoadedRecorded
  <2>2. mem' = [mem EXCEPT ![p] = Loaded(p)]
        /\ running' = [running EXCEPT ![p] = k]
        /\ UNCHANGED <<file, answer, out, changes, printed>>
    BY <1>2 DEF CallMiss
  <2>. QED  BY <2>1, <2>2 DEF PInv, Recorded, AnswersPrinted
<1>3. ASSUME NEW p \in Procs, ScriptFails(p) PROVE PInv'
  <2>1. running[p] \in Keys
    BY <1>3 DEF ScriptFails, PInv
  <2>2. answer' = [answer EXCEPT ![p] = <<running[p], Raised>>]
        /\ printed' = printed \cup {<<running[p], Raised>>}
        /\ running' = [running EXCEPT ![p] = None]
        /\ UNCHANGED <<file, mem, out, changes>>
    BY <1>3 DEF ScriptFails
  <2>. QED  BY <2>1, <2>2 DEF PInv, Recorded, Answers, AnswersPrinted
<1>4. ASSUME NEW p \in Procs, ScriptStores(p) PROVE PInv'
  <2> DEFINE k == running[p]
             m == Put(mem[p], k, out[k])
  <2>1. k \in Keys /\ out[k] \in Outputs
    BY <1>4 DEF ScriptStores, PInv
  <2>2. mem[p] \in CacheType /\ Recorded(mem[p])
    BY <1>4 DEF ScriptStores, PInv
  <2>3. /\ mem' = [mem EXCEPT ![p] = m]
        /\ file' = WriteScriptEnvCache(m)
        /\ answer' = [answer EXCEPT ![p] = <<k, out[k]>>]
        /\ running' = [running EXCEPT ![p] = None]
        /\ printed' = printed \cup {<<k, out[k]>>}
        /\ out' = out /\ changes' = changes
    BY <1>4 DEF ScriptStores, CacheKey
  <2>4. m \in CacheType /\ \A x \in DOMAIN m : <<x, m[x]>> \in printed'
    <3>1. printed \subseteq printed' /\ <<k, out[k]>> \in printed'
      BY <2>3
    <3>2. \A x \in DOMAIN mem[p] : <<x, mem[p][x]>> \in printed
      BY <2>2 DEF Recorded
    <3>. QED  BY <2>1, <2>2, <3>1, <3>2, PutRecorded
  <2>5. file' \in CacheType /\ Recorded(file)'
    BY <2>3, <2>4 DEF PInv, Recorded, WriteScriptEnvCache
  <2>6. (\A q \in Procs : mem[q] # None => Recorded(mem[q]))'
    BY <2>3, <2>4 DEF PInv, Recorded
  <2>7. (\A q \in Procs : running[q] # None => mem[q] \in CacheType /\ Recorded(mem[q]))'
    BY <2>3, <2>4 DEF PInv, Recorded
  <2>8. mem' \in [Procs -> CacheType \cup {None}]
    BY <2>3, <2>4 DEF PInv
  <2>9. running' \in [Procs -> Keys \cup {None}] /\ answer' \in [Procs -> Answers \cup {None}]
        /\ printed' \subseteq Answers
    BY <2>1, <2>3 DEF PInv, Answers
  <2>10. AnswersPrinted'
    BY <2>3 DEF PInv, AnswersPrinted
  <2>. QED  BY <2>3, <2>5, <2>6, <2>7, <2>8, <2>9, <2>10 DEF PInv
<1>5. ASSUME NEW p \in Procs, Exit(p) PROVE PInv'
  BY <1>5 DEF Exit, PInv, Recorded, AnswersPrinted
<1>6. ASSUME NEW k \in Keys, NEW o \in Outputs \cup {ErrLine}, Change(k, o) PROVE PInv'
  BY <1>6 DEF Change, PInv, Recorded, AnswersPrinted
<1>7. CASE UNCHANGED vars
  BY <1>7 DEF vars, PInv, Recorded, AnswersPrinted
<1>. QED  BY <1>1, <1>2, <1>3, <1>4, <1>5, <1>6, <1>7 DEF Next

\* However Visual Studio changes under them and however the processes
\* interleave their reads and rewrites of the shared file, every answer a
\* process's script_env call gives for a key (vc.py 1004-1021, cache hits
\* included) was given by a run of that key's own script: the cache never
\* answers one key with another key's bindings.
THEOREM AnswersPrintedHolds == Spec => []AnswersPrinted
<1>1. Init => PInv
  BY InitPInv
<1>2. PInv /\ [Next]_vars => PInv'
  BY NextPInv
<1>3. PInv => AnswersPrinted
  BY DEF PInv
<1>. QED  BY <1>1, <1>2, <1>3, PTL DEF Spec

\* The type invariant holds whatever the processes, keys and outputs: no
\* process's state, the shared file, the installation or the number of its
\* changes leaves its domain, a script_env call in progress included.
THEOREM TypeCorrect == Spec => []TypeOK
<1>1. Init => PInv
  BY InitPInv
<1>2. PInv /\ [Next]_vars => PInv'
  BY NextPInv
<1>3. PInv => TypeOK
  BY DEF PInv, TypeOK
<1>. QED  BY <1>1, <1>2, <1>3, PTL DEF Spec

=============================================================================
