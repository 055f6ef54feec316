---------------------------- MODULE TargetArchProofs ----------------------------
(***************************************************************************)
(* TLAPS proof that msvc_find_valid_batch_script leaves TARGET_ARCH       *)
(* consistent with the bindings it applies (TargetArchConsistent), for    *)
(* every installation, every set of Environments and every settings.      *)
(*                                                                         *)
(* TargetArchConsistent is not inductive: it speaks of finished           *)
(* Environments only, and what FinishFind writes comes from the loop in    *)
(* progress.  LoopInv says what the loop carries: the Environment it       *)
(* configures has not finished, its MSVC_VERSION is the loop's version,    *)
(* the loop's host and requested target are those of the settings, and    *)
(* bindings the loop found are those of the current target's script.      *)
(* It also says that an Environment no loop is working on still has the   *)
(* TARGET_ARCH it was created with until it finishes.  The bindings come  *)
(* from script_env, so the proof rests on CacheInv (MSVCSetupProofs): a    *)
(* cache hit returns what the keyed script prints.                         *)
(***************************************************************************)
EXTENDS MSVCSetupProofs

\* The canonical host msvc_find_valid_batch_script uses for Environment e.
HostOf(e) == GetHostTarget(cfg[e].host, cfg[e].target).host

\* An Environment that has not started, or is waiting for another one's
\* loop, keeps the TARGET_ARCH it was created with.
IdleTargets ==
    \A e \in Envs :
       alive /\ ~env[e].setupRun /\ (call = NoCall \/ call.e # e) =>
          env[e].target = cfg[e].target

\* What the loop of msvc_find_valid_batch_script carries.
CallFacts ==
    call # NoCall =>
       /\ alive
       /\ ~env[call.e].setupRun
       /\ call.ver # None /\ env[call.e].version = call.ver
       /\ cfg[call.e].userScript = None /\ cfg[call.e].useScript
       /\ call.req = cfg[call.e].target
       /\ call.host = HostOf(call.e)
       /\ call.d # None => call.d \in FittingBindings(call.e)

LoopInv == IdleTargets /\ CallFacts

TAInv == TypeOK /\ CacheInv /\ LoopInv /\ TargetArchConsistent

\* TargetArchConsistent, one Environment at a time.
TACAt(e) ==
    ViaFindScript(e) =>
        IF env[e].applied = None THEN env[e].target = cfg[e].target
        ELSE env[e].applied \in FittingBindings(e)

\* A step leaves the fields TargetArchConsistent reads of Environment e.
Keeps(e) ==
    /\ env'[e].target = env[e].target
    /\ env'[e].version = env[e].version
    /\ env'[e].setupRun = env[e].setupRun
    /\ env'[e].applied = env[e].applied

-----------------------------------------------------------------------------
(* The version tables and find_batch_file.                                 *)

LEMMA RelExpParts ==
    ASSUME NEW a, NEW b
    PROVE  /\ Rel(a, b)[1] = a /\ Rel(a, b)[2] = b
           /\ Exp(a, b)[1] = a /\ Exp(a, b)[2] = b
BY Zenon DEF Rel, Exp, Ver

\* The float a known version compares as is a number.
LEMMA VerNumNat == \A v \in VCVerSet : VerNum(v) \in Nat
<1>1. VCVerSet = {Rel(14,3), Rel(14,2), Rel(14,1), Exp(14,1), Rel(14,0), Exp(14,0),
                  Rel(12,0), Exp(12,0), Rel(11,0), Exp(11,0), Rel(10,0), Exp(10,0),
                  Rel(9,0), Exp(9,0), Rel(8,0), Exp(8,0), Rel(7,1), Rel(7,0), Rel(6,0)}
  BY DEF VCVerSet, VCVER
<1>. QED BY <1>1, RelExpParts DEF VerNum

\* find_batch_file returns (rather than raising) only for a known version
\* and a pair it has a batch file name for; the scripts it returns are
\* those of the version, the host and the target asked for.
LEMMA FindBatchFileOk ==
    ASSUME NEW v, NEW rel, NEW h, NEW tp, FindBatchFile(v, rel, h, tp).err = None
    PROVE  LET fb == FindBatchFile(v, rel, h, tp)
           IN  /\ VerNum(v) <= 140 \/ TableHas(BAT_ARCH_GT14_PAIRS, h, tp)
               /\ fb.useArg = (VerNum(v) <= 140)
               /\ fb.bat # None => fb.bat = VcScriptPath(v, h, tp)
               /\ fb.sdk # None => fb.sdk = SdkScriptPath(v, h, tp)
<1>0. "NoVersionFound" # None /\ "UnsupportedVersion" # None
      /\ "MissingConfiguration" # None /\ "KeyError" # None
  BY NoneAssumption DEF FindBatchErrors
<1>1. FindVcPdir(v, rel) = "ok"
  <2>1. FindVcPdir(v, rel) \in {"UnsupportedVersion", "ok", "None", "MissingConfiguration"}
    BY DEF FindVcPdir
  <2>2. FindVcPdir(v, rel) # "None"
    <3>. SUFFICES ASSUME FindVcPdir(v, rel) = "None" PROVE FALSE
      OBVIOUS
    <3>1. FindBatchFile(v, rel, h, tp) = [err |-> "NoVersionFound"]
      BY Zenon DEF FindBatchFile
    <3>. QED BY <3>1, <1>0
  <2>3. FindVcPdir(v, rel) \notin {"UnsupportedVersion", "MissingConfiguration"}
    <3>. SUFFICES ASSUME FindVcPdir(v, rel) \in {"UnsupportedVersion", "MissingConfiguration"}
                  PROVE FALSE
      OBVIOUS
    <3>1. FindBatchFile(v, rel, h, tp) = [err |-> FindVcPdir(v, rel)]
      BY Zenon DEF FindBatchFile
    <3>. QED BY <3>1, <1>0
  <2>. QED BY <2>1, <2>2, <2>3
<1>2. v \in VCVerSet
  BY <1>1 DEF FindVcPdir
<1>3. VerNum(v) \in Nat
  BY <1>2, VerNumNat
<1>4. ~(VerNum(v) > 140 /\ ~TableHas(BAT_ARCH_GT14_PAIRS, h, tp))
  <2>. SUFFICES ASSUME VerNum(v) > 140, ~TableHas(BAT_ARCH_GT14_PAIRS, h, tp)
                PROVE FALSE
    OBVIOUS
  <2>1. FindBatchFile(v, rel, h, tp) = [err |-> "KeyError"]
    BY <1>1, Zenon DEF FindBatchFile
  <2>. QED BY <2>1, <1>0
<1>5. FindBatchFile(v, rel, h, tp) = [err |-> None,
            bat |-> IF <<v, BatName(v, h, tp)>> \in BatFiles
                    THEN VcScriptPath(v, h, tp) ELSE None,
            useArg |-> VerNum(v) <= 140,
            sdk |-> IF <<v, h, tp>> \in SdkScripts
                    THEN SdkScriptPath(v, h, tp) ELSE None]
  BY <1>1, <1>4, Zenon DEF FindBatchFile
<1>. QED BY <1>3, <1>4, <1>5

\* With sound caches, a script_env call that does not raise returns what
\* its script prints, whether from the cache or from a run.
LEMMA ScriptEnvResult ==
    ASSUME CacheInv, NEW s, NEW a, ~ScriptEnv(s, a).fail
    PROVE  ScriptEnv(s, a).d = ParseOutput(s, a)
<1>1. SoundCache(Loaded)
  BY LoadedSound
<1>2. CASE CacheKey(s, a) \in DOMAIN Loaded
  <2>1. ScriptEnv(s, a).d = Loaded[<<s, a>>]
    BY <1>2 DEF ScriptEnv, Loaded, CacheKey
  <2>. QED BY <1>1, <1>2, <2>1 DEF SoundCache, CacheKey
<1>3. CASE CacheKey(s, a) \notin DOMAIN Loaded
  BY <1>3 DEF ScriptEnv, Loaded
<1>. QED BY <1>2, <1>3

-----------------------------------------------------------------------------
(* Frame lemmas.                                                           *)

LEMMA TACParts == TargetArchConsistent <=> \A e \in Envs : TACAt(e)
BY DEF TargetArchConsistent, TACAt

\* An Environment whose fields a step leaves alone stays consistent.
LEMMA FrameTAC ==
    ASSUME NEW e, cfg' = cfg, Keeps(e), TACAt(e)
    PROVE  TACAt(e)'
BY DEF Keeps, TACAt, ViaFindScript, FittingBindings

\* An Environment that has not finished is consistent.
LEMMA NotRunTAC ==
    ASSUME NEW e, ~env'[e].setupRun
    PROVE  TACAt(e)'
BY DEF TACAt, ViaFindScript


\* FittingBindings(e) with the target and the version as parameters.
Fits(e, tp, v) ==
    LET h == HostOf(e)
    IN  (IF /\ TableHas(BAT_ARCH_PAIRS, h, tp)
            /\ VerNum(v) <= 140 \/ TableHas(BAT_ARCH_GT14_PAIRS, h, tp)
         THEN {ParseOutput(VcScriptPath(v, h, tp),
                           VcArg(VerNum(v) <= 140, TableGet(BAT_ARCH_PAIRS, h, tp),
                                 v, cfg[e].uwp))}
         ELSE {})
        \cup {ParseOutput(SdkScriptPath(v, h, tp), None)}

LEMMA FitsPrime ==
    ASSUME NEW e, cfg' = cfg
    PROVE  FittingBindings(e)' = Fits(e, env'[e].target, env'[e].version)
BY DEF FittingBindings, Fits, HostOf

\* Setting one field of one Environment leaves the others.
LEMMA SetTarget ==
    ASSUME TypeOK, NEW c \in Envs, NEW t, NEW x \in Envs
    PROVE  LET E == [env EXCEPT ![c].target = t]
           IN  /\ E[x].version = env[x].version
               /\ E[x].setupRun = env[x].setupRun
               /\ E[x].applied = env[x].applied
               /\ E[x].target = IF x = c THEN t ELSE env[x].target
BY DEF TypeOK, EnvFields

-----------------------------------------------------------------------------
(* The bindings one iteration of the loop finds.                           *)

\* The VC script's bindings fit the target the loop has just set.
LEMMA VcBindingsFit ==
    ASSUME TypeOK, CacheInv, CallFacts, Looping, BatArch,
           FB.err = None, FB.bat # None,
           NEW arg, arg = VcArg(FB.useArg, TableGet(BAT_ARCH_PAIRS, call.host, CurTarget),
                                call.ver, cfg[call.e].uwp),
           ~ScriptEnv(FB.bat, arg).fail
    PROVE  ScriptEnv(FB.bat, arg).d \in Fits(call.e, CurTarget, call.ver)
<1>1. ScriptEnv(FB.bat, arg).d = ParseOutput(FB.bat, arg)
  BY ScriptEnvResult
<1>2. /\ VerNum(call.ver) <= 140 \/ TableHas(BAT_ARCH_GT14_PAIRS, call.host, CurTarget)
      /\ FB.useArg = (VerNum(call.ver) <= 140)
      /\ FB.bat = VcScriptPath(call.ver, call.host, CurTarget)
  BY FindBatchFileOk DEF FB
<1>3. call.host = HostOf(call.e)
  BY DEF CallFacts, Looping
<1>. QED BY <1>1, <1>2, <1>3 DEF Fits, BatArch

\* The SDK script's bindings fit the target the loop has just set.
LEMMA SdkBindingsFit ==
    ASSUME TypeOK, CacheInv, CallFacts, Looping,
           FB.err = None, FB.sdk # None, ~ScriptEnv(FB.sdk, None).fail
    PROVE  ScriptEnv(FB.sdk, None).d \in Fits(call.e, CurTarget, call.ver)
<1>1. ScriptEnv(FB.sdk, None).d = ParseOutput(FB.sdk, None)
  BY ScriptEnvResult
<1>2. FB.sdk = SdkScriptPath(call.ver, call.host, CurTarget)
  BY FindBatchFileOk DEF FB
<1>3. call.host = HostOf(call.e)
  BY DEF CallFacts, Looping
<1>. QED BY <1>1, <1>2, <1>3 DEF Fits

-----------------------------------------------------------------------------
(* Steps of the whole system.                                              *)

\* An escaping exception stops the SConstruct; the Environment it escapes
\* from has not finished, or keeps its TARGET_ARCH.
LEMMA RaiseStep ==
    ASSUME TypeOK, TargetArchConsistent, cfg' = cfg,
           NEW e \in Envs, NEW x, NEW t, Raise(e, x, t),
           ~env[e].setupRun \/ t = env[e].target
    PROVE  LoopInv' /\ TargetArchConsistent'
<1>1. IdleTargets' /\ CallFacts'
  BY DEF Raise, IdleTargets, CallFacts
<1>2. ASSUME NEW y \in Envs PROVE TACAt(y)'
  <2>1. env' = [[env EXCEPT ![e].target = t] EXCEPT ![e].outcome = x]
    BY DEF Raise, TypeOK, EnvFields
  <2>2. /\ env'[y].setupRun = env[y].setupRun
        /\ env'[y].version = env[y].version
        /\ env'[y].applied = env[y].applied
        /\ env'[y].target = IF y = e THEN t ELSE env[y].target
    BY <2>1, SetTarget DEF TypeOK, EnvFields
  <2>3. CASE y = e /\ ~env[e].setupRun
    BY <2>2, <2>3, NotRunTAC
  <2>4. CASE ~(y = e /\ ~env[e].setupRun)
    <3>1. Keeps(y)
      BY <2>2, <2>4 DEF Keeps
    <3>. QED BY <3>1, FrameTAC, TACParts
  <2>. QED BY <2>3, <2>4
<1>. QED BY <1>1, <1>2 DEF LoopInv, TargetArchConsistent, TACAt

\* msvc_setup_env_once marks an Environment that did not take
\* msvc_find_valid_batch_script's path.
LEMMA FinishedStep ==
    ASSUME TypeOK, LoopInv, TargetArchConsistent, cfg' = cfg,
           NEW e \in Envs, NEW v, NEW d, Finished(e, v, d),
           call = NoCall, call' = NoCall, alive' = alive,
           ~(v # None /\ cfg[e].userScript = None /\ cfg[e].useScript)
    PROVE  LoopInv' /\ TargetArchConsistent'
<1>1. ASSUME NEW y \in Envs, y # e
      PROVE  /\ env'[y] = env[y]
  BY <1>1 DEF Finished, TypeOK
<1>2. /\ env'[e].setupRun = TRUE /\ env'[e].version = v
  BY DEF Finished, TypeOK, EnvFields
<1>3. IdleTargets'
  BY <1>1, <1>2 DEF LoopInv, IdleTargets
<1>4. ASSUME NEW y \in Envs PROVE TACAt(y)'
  <2>1. CASE y = e
    BY <1>2, <2>1 DEF TACAt, ViaFindScript
  <2>2. CASE y # e
    BY <1>1, <2>2, FrameTAC, TACParts DEF Keeps
  <2>. QED BY <2>1, <2>2
<1>. QED BY <1>3, <1>4 DEF LoopInv, CallFacts, TargetArchConsistent, TACAt

\* One iteration of the loop sets TARGET_ARCH to the target it tries and
\* keeps the loop's Environment, version, host and requested target; what
\* it found fits that target.
LEMMA IterStep ==
    ASSUME TypeOK, LoopInv, TargetArchConsistent, cfg' = cfg, Looping,
           env' = EnvAt(CurTarget), alive' = alive, call' # NoCall,
           call'.e = call.e, call'.ver = call.ver,
           call'.req = call.req, call'.host = call.host,
           call'.d # None => call'.d \in Fits(call.e, CurTarget, call.ver)
    PROVE  LoopInv' /\ TargetArchConsistent'
<1>. DEFINE c == call.e
<1>1. c \in Envs
  BY DEF TypeOK, Looping
<1>2. ASSUME NEW y \in Envs
      PROVE  /\ env'[y].version = env[y].version
             /\ env'[y].setupRun = env[y].setupRun
             /\ env'[y].applied = env[y].applied
             /\ env'[y].target = IF y = c THEN CurTarget ELSE env[y].target
  BY <1>1, SetTarget DEF EnvAt
<1>3. IdleTargets'
  BY <1>2 DEF LoopInv, IdleTargets
<1>4. CallFacts'
  <2>1. /\ ~env'[c].setupRun /\ env'[c].version = call.ver
        /\ call.ver # None /\ alive
        /\ cfg[c].userScript = None /\ cfg[c].useScript
        /\ call.req = cfg[c].target /\ call.host = HostOf(c)
    BY <1>1, <1>2 DEF LoopInv, CallFacts, Looping
  <2>2. FittingBindings(c)' = Fits(c, CurTarget, call.ver)
    BY <1>1, <1>2, <2>1, FitsPrime
  <2>. QED BY <2>1, <2>2 DEF CallFacts, HostOf
<1>5. ASSUME NEW y \in Envs PROVE TACAt(y)'
  <2>1. CASE y = c
    BY <1>2, <2>1, NotRunTAC DEF LoopInv, CallFacts, Looping
  <2>2. CASE y # c
    BY <1>2, <2>2, FrameTAC, TACParts DEF Keeps
  <2>. QED BY <2>1, <2>2
<1>. QED BY <1>3, <1>4, <1>5 DEF LoopInv, TargetArchConsistent, TACAt

\* The next target is tried: nothing found yet.
LEMMA NextTryFields ==
    ASSUME TypeOK, Looping
    PROVE  /\ NextTry # NoCall
           /\ NextTry.e = call.e /\ NextTry.ver = call.ver
           /\ NextTry.req = call.req /\ NextTry.host = call.host
           /\ NextTry.d = None
<1>1. DOMAIN call = CallFields
  BY DEF TypeOK, Looping
<1>2. DOMAIN NextTry = CallFields
  BY <1>1 DEF NextTry
<1>3. NextTry # NoCall
  BY <1>2 DEF NoCall, CallFields
<1>. QED BY <1>1, <1>3 DEF NextTry, Looping, CallFields

\* The loop stops with the bindings it found.
LEMMA FoundFields ==
    ASSUME TypeOK, Looping, NEW d
    PROVE  LET C == [call EXCEPT !.d = d]
           IN  /\ C # NoCall
               /\ C.e = call.e /\ C.ver = call.ver
               /\ C.req = call.req /\ C.host = call.host /\ C.d = d
<1>1. DOMAIN call = CallFields
  BY DEF TypeOK, Looping
<1>2. DOMAIN [call EXCEPT !.d = d] = CallFields
  BY <1>1
<1>3. [call EXCEPT !.d = d] # NoCall
  BY <1>2 DEF NoCall, CallFields
<1>. QED BY <1>1, <1>3 DEF CallFields

LEMMA FitsNow ==
    ASSUME NEW e
    PROVE  FittingBindings(e) = Fits(e, env[e].target, env[e].version)
BY DEF FittingBindings, Fits, HostOf

\* A step that leaves the settings, the Environments, the loop and the
\* process alone.
LEMMA FrameStep ==
    ASSUME LoopInv, TargetArchConsistent, UNCHANGED <<cfg, env, call, alive>>
    PROVE  LoopInv' /\ TargetArchConsistent'
BY DEF LoopInv, IdleTargets, CallFacts, TargetArchConsistent, ViaFindScript,
       FittingBindings, HostOf

\* msvc_find_valid_batch_script starts its loop for Environment e, whose
\* TARGET_ARCH is still the one it was created with.
LEMMA StartStep ==
    ASSUME TypeOK, LoopInv, TargetArchConsistent,
           NEW e \in Envs, SetupFindScript(e),
           GetHostTarget(cfg[e].host, env[e].target).err = None
    PROVE  LoopInv' /\ TargetArchConsistent'
<1>. DEFINE dv == GetDefaultVersion(e)
            ht == GetHostTarget(cfg[e].host, env[e].target)
<1>1. /\ alive /\ call = NoCall /\ ~env[e].setupRun
      /\ dv.ver # None /\ cfg[e].userScript = None /\ cfg[e].useScript
      /\ cfg' = cfg /\ alive' = alive
      /\ env' = [env EXCEPT ![e].version = dv.ver]
      /\ call' = [e |-> e, ver |-> dv.ver, host |-> ht.host,
                  req |-> cfg[e].target,
                  tries |-> TryTargetArchs(cfg[e].target, ht.target),
                  i |-> 1, d |-> None]
  BY DEF SetupFindScript, StartsSetup, Idle, Raise
<1>2. call' # NoCall /\ call'.e = e
  BY <1>1 DEF NoCall
<1>3. ASSUME NEW y \in Envs
      PROVE  /\ env'[y].target = env[y].target
             /\ env'[y].setupRun = env[y].setupRun
             /\ env'[y].applied = env[y].applied
             /\ env'[y].version = IF y = e THEN dv.ver ELSE env[y].version
  BY <1>1 DEF TypeOK, EnvFields
<1>4. env[e].target = cfg[e].target
  BY <1>1 DEF LoopInv, IdleTargets
<1>5. IdleTargets'
  BY <1>1, <1>2, <1>3 DEF LoopInv, IdleTargets
<1>6. CallFacts'
  BY <1>1, <1>2, <1>3, <1>4 DEF CallFacts, HostOf
<1>7. ASSUME NEW y \in Envs PROVE TACAt(y)'
  <2>1. CASE y = e
    BY <1>1, <1>3, <2>1, NotRunTAC
  <2>2. CASE y # e
    BY <1>1, <1>3, <2>2, FrameTAC, TACParts DEF Keeps
  <2>. QED BY <2>1, <2>2
<1>. QED BY <1>5, <1>6, <1>7 DEF LoopInv, TargetArchConsistent, TACAt

\* The loop is over: TARGET_ARCH is restored when nothing was found, and
\* the bindings found are applied.
LEMMA FinishStep ==
    ASSUME TypeOK, LoopInv, TargetArchConsistent, FinishFind
    PROVE  LoopInv' /\ TargetArchConsistent'
<1>0. PICK c \in Envs : c = call.e
  BY DEF FinishFind, TypeOK
<1>1. /\ alive /\ ~env[c].setupRun /\ call.ver # None
      /\ env[c].version = call.ver
      /\ cfg[c].userScript = None /\ cfg[c].useScript
      /\ call.req = cfg[c].target
      /\ call.d # None => call.d \in FittingBindings(c)
  BY <1>0 DEF FinishFind, TypeOK, LoopInv, CallFacts
<1>2. ASSUME NEW y \in Envs
      PROVE  IF y = c
             THEN /\ env'[y].target = RestoreTargetArch(call.d, call.req, env[y].target)
                  /\ env'[y].applied = call.d /\ env'[y].setupRun
                  /\ env'[y].version = env[y].version
             ELSE env'[y] = env[y]
  BY <1>0, <1>1 DEF FinishFind, TypeOK, EnvFields
<1>3. IdleTargets'
  BY <1>0, <1>1, <1>2 DEF FinishFind, LoopInv, IdleTargets
<1>4. CallFacts'
  BY DEF FinishFind, CallFacts
<1>5. TACAt(c)'
  <2>1. CASE call.d = None
    BY <1>1, <1>2, <2>1 DEF FinishFind, TACAt, RestoreTargetArch
  <2>2. CASE call.d # None
    <3>1. /\ env'[c].target = env[c].target /\ env'[c].applied = call.d
          /\ env'[c].version = env[c].version
      BY <1>1, <1>2, <2>2 DEF RestoreTargetArch
    <3>2. FittingBindings(c)' = FittingBindings(c)
      BY <3>1, FitsPrime, FitsNow DEF FinishFind
    <3>. QED BY <1>1, <2>2, <3>1, <3>2 DEF TACAt
  <2>. QED BY <2>1, <2>2
<1>6. ASSUME NEW y \in Envs, y # c PROVE TACAt(y)'
  BY <1>2, <1>6, FrameTAC, TACParts DEF Keeps, FinishFind
<1>. QED BY <1>3, <1>4, <1>5, <1>6 DEF LoopInv, TargetArchConsistent, TACAt

\* A new SCons process: every Environment is created anew.
LEMMA RestartStep ==
    ASSUME TypeOK, Restart
    PROVE  LoopInv' /\ TargetArchConsistent'
<1>1. ASSUME NEW y \in Envs
      PROVE  ~env'[y].setupRun /\ env'[y].target = cfg'[y].target
  BY DEF Restart, FreshEnv
<1>2. \A y \in Envs : TACAt(y)'
  BY <1>1, NotRunTAC
<1>. QED BY <1>1, <1>2 DEF Restart, LoopInv, IdleTargets, CallFacts,
                              TargetArchConsistent, TACAt

\* Every step of the system keeps LoopInv and TargetArchConsistent.
LEMMA LoopStep ==
    ASSUME TypeOK, CacheInv, LoopInv, TargetArchConsistent, [Next]_vars
    PROVE  LoopInv' /\ TargetArchConsistent'
<1>1. ASSUME NEW e \in Envs, SetupDefaultVersionFails(e)
      PROVE  LoopInv' /\ TargetArchConsistent'
  BY <1>1, RaiseStep DEF SetupDefaultVersionFails, StartsSetup
<1>2. ASSUME NEW e \in Envs, SetupReturnsNone(e)
      PROVE  LoopInv' /\ TargetArchConsistent'
  BY <1>2, FinishedStep DEF SetupReturnsNone, StartsSetup, Idle
<1>3. ASSUME NEW e \in Envs, SetupUserScript(e)
      PROVE  LoopInv' /\ TargetArchConsistent'
  BY <1>3, RaiseStep, FinishedStep DEF SetupUserScript, StartsSetup, Idle
<1>4. ASSUME NEW e \in Envs, SetupFindScript(e)
      PROVE  LoopInv' /\ TargetArchConsistent'
  <2>1. CASE GetHostTarget(cfg[e].host, env[e].target).err = None
    BY <1>4, <2>1, StartStep
  <2>2. CASE GetHostTarget(cfg[e].host, env[e].target).err # None
    BY <1>4, <2>2, RaiseStep DEF SetupFindScript, StartsSetup
  <2>. QED BY <2>1, <2>2
<1>5. ASSUME NEW e \in Envs, MsvcExists(e)
      PROVE  LoopInv' /\ TargetArchConsistent'
  BY <1>5, RaiseStep, FrameStep DEF MsvcExists
<1>a. ASSUME Looping
      PROVE  call.e \in Envs /\ ~env[call.e].setupRun
  BY <1>a DEF Looping, TypeOK, LoopInv, CallFacts
<1>6. ASSUME TryNoBatArch \/ TryNoBatFileName
      PROVE  LoopInv' /\ TargetArchConsistent'
  BY <1>6, <1>a, RaiseStep DEF TryNoBatArch, TryNoBatFileName
<1>7. ASSUME TryNotInstalled
      PROVE  LoopInv' /\ TargetArchConsistent'
  <2>. DEFINE g == GetInstalledVcs(call.e, CurTarget)
  <2>1. CASE g.err # None
    BY <1>7, <1>a, <2>1, RaiseStep DEF TryNotInstalled
  <2>2. CASE g.err = None
    BY <1>7, <2>2, NextTryFields, IterStep DEF TryNotInstalled
  <2>. QED BY <2>1, <2>2
<1>8. ASSUME TryVcScript
      PROVE  LoopInv' /\ TargetArchConsistent'
  <2>. DEFINE arg == VcArg(FB.useArg, TableGet(BAT_ARCH_PAIRS, call.host, CurTarget),
                           call.ver, cfg[call.e].uwp)
              r == ScriptEnv(FB.bat, arg)
  <2>1. CASE r.fail
    BY <1>8, <2>1, NextTryFields, IterStep DEF TryVcScript
  <2>2. CASE ~r.fail
    <3>1. r.d \in Fits(call.e, CurTarget, call.ver)
      BY <1>8, <2>2, VcBindingsFit DEF TryVcScript, LoopInv
    <3>. QED BY <1>8, <2>2, <3>1, FoundFields, IterStep DEF TryVcScript
  <2>. QED BY <2>1, <2>2
<1>9. ASSUME TrySdkScript
      PROVE  LoopInv' /\ TargetArchConsistent'
  <2>. DEFINE r == ScriptEnv(FB.sdk, None)
  <2>1. CASE r.fail
    BY <1>9, <2>1, NextTryFields, IterStep DEF TrySdkScript
  <2>2. CASE ~r.fail
    <3>1. r.d \in Fits(call.e, CurTarget, call.ver)
      BY <1>9, <2>2, SdkBindingsFit DEF TrySdkScript, LoopInv
    <3>. QED BY <1>9, <2>2, <3>1, FoundFields, IterStep DEF TrySdkScript
  <2>. QED BY <2>1, <2>2
<1>10. ASSUME TryNoScript
       PROVE  LoopInv' /\ TargetArchConsistent'
  BY <1>10, NextTryFields, IterStep DEF TryNoScript
<1>11. ASSUME FinishFind
       PROVE  LoopInv' /\ TargetArchConsistent'
  BY <1>11, FinishStep
<1>12. ASSUME ResetInstalledVcs
       PROVE  LoopInv' /\ TargetArchConsistent'
  BY <1>12, FrameStep DEF ResetInstalledVcs
<1>13. ASSUME Restart
       PROVE  LoopInv' /\ TargetArchConsistent'
  BY <1>13, RestartStep
<1>14. ASSUME UNCHANGED vars
       PROVE  LoopInv' /\ TargetArchConsistent'
  BY <1>14, FrameStep DEF vars
<1>. QED BY <1>1, <1>2, <1>3, <1>4, <1>5, <1>6, <1>7, <1>8, <1>9, <1>10,
            <1>11, <1>12, <1>13, <1>14 DEF Next

\* The strengthened invariant holds initially and is kept by every step.
LEMMA InitTAInv == Init => TAInv
<1>. SUFFICES ASSUME Init PROVE TAInv
  OBVIOUS
<1>1. TypeOK
  BY InitTypeOK
<1>2. CacheInv
  BY DEF Init, CacheInv, CacheSound, MemHoldsFile, SoundCache, EmptyCache
<1>3. \A e \in Envs : ~env[e].setupRun /\ env[e].target = cfg[e].target
  BY DEF Init, FreshEnv
<1>4. LoopInv
  BY <1>3 DEF Init, LoopInv, IdleTargets, CallFacts
<1>5. TargetArchConsistent
  BY <1>3 DEF TargetArchConsistent, ViaFindScript
<1>. QED BY <1>1, <1>2, <1>4, <1>5 DEF TAInv

LEMMA StepTAInv == TAInv /\ [Next]_vars => TAInv'
BY TypeStep, CacheStep, LoopStep DEF TAInv

\* After msvc_setup_env_once has run for an Environment along
\* msvc_find_valid_batch_script's path, TARGET_ARCH agrees with what was
\* applied to env['ENV'] (the requested target when nothing was applied,
\* else a target whose script printed the applied bindings), for every
\* installation, settings and set of Environments, across restarts.
THEOREM TargetArchCorrect == Spec => []TargetArchConsistent
<1>1. Init => TAInv
  BY InitTAInv
<1>2. TAInv /\ [Next]_vars => TAInv'
  BY StepTAInv
<1>3. TAInv => TargetArchConsistent
  BY DEF TAInv
<1>. QED BY <1>1, <1>2, <1>3, PTL DEF Spec

=============================================================================
