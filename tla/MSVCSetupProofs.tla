--------------------------- MODULE MSVCSetupProofs ---------------------------
(***************************************************************************)
(* Proofs about MSVCSetup for every installation, every set of             *)
(* Environments and every set of settings: the type invariant, the        *)
(* soundness of script_env's caches, and that the cache file only grows   *)
(* within one process.                                                     *)
(***************************************************************************)
EXTENDS MSVCSetup, TLAPS

ArchErrors == {"MSVCUnsupportedHostArch", "MSVCUnsupportedTargetArch"}
InstalledLists == [BOOLEAN -> SUBSET VCVerSet]

-----------------------------------------------------------------------------
(* The tables and the pure helpers.                                        *)

\* Every version vswhere reports is one of _VCVER.
LEMMA VswhereVersionsKnown == VSWHERE_SUPPORTED_VCVER \subseteq VCVerSet
<1>1. /\ VCVER[1] = Rel(14,3) /\ VCVER[2] = Rel(14,2)
      /\ VCVER[3] = Rel(14,1) /\ VCVER[4] = Exp(14,1)
      /\ 1..4 \subseteq 1..Len(VCVER)
  BY DEF VCVER
<1>. QED BY <1>1 DEF VSWHERE_SUPPORTED_VCVER, VCVerSet

\* get_installed_vcs builds, for each release flag, a list of known versions.
LEMMA InstalledVcsType == \A ht : InstalledVcs(ht) \in InstalledLists
<1>1. \A p \in VCVER_SETUP : p[1] \in VCVerSet
  <2>1. \A v \in VCVerSet : <<v, TRUE>>[1] \in VCVerSet
    OBVIOUS
  <2>2. \A v \in VSWHERE_SUPPORTED_VCVER : <<v, FALSE>>[1] \in VCVerSet
    BY VswhereVersionsKnown
  <2>. QED BY <2>1, <2>2, Zenon DEF VCVER_SETUP
<1>. QED BY <1>1 DEF InstalledVcs, InstalledLists

\* get_host_target raises only the two architecture exceptions.
LEMMA HostTargetErr ==
    \A h, t : GetHostTarget(h, t).err \in {None} \cup ArchErrors
BY DEF GetHostTarget, ArchErrors

\* get_installed_vcs raises only what get_host_target raises, and leaves a
\* well-typed cache.
LEMMA GetInstalledVcsType ==
    ASSUME TypeOK, NEW e \in Envs, NEW t
    PROVE  /\ GetInstalledVcs(e, t).err \in {None} \cup ArchErrors
           /\ GetInstalledVcs(e, t).cache \in {None} \cup InstalledLists
<1>1. GetHostTarget(cfg[e].host, t).err \in {None} \cup ArchErrors
  BY HostTargetErr
<1>2. InstalledVcs(GetHostTarget(cfg[e].host, t)) \in InstalledLists
  BY InstalledVcsType
<1>. QED BY <1>1, <1>2 DEF GetInstalledVcs, TypeOK, InstalledLists

\* get_default_version raises only an architecture exception, and leaves
\* a well-typed installed-version cache.
LEMMA GetDefaultVersionType ==
    ASSUME TypeOK, NEW e \in Envs
    PROVE  /\ GetDefaultVersion(e).err \in {None} \cup ArchErrors
           /\ GetDefaultVersion(e).cache \in {None} \cup InstalledLists
<1>1. /\ GetInstalledVcs(e, env[e].target).err \in {None} \cup ArchErrors
      /\ GetInstalledVcs(e, env[e].target).cache \in {None} \cup InstalledLists
  BY GetInstalledVcsType
<1>. QED BY <1>1 DEF GetDefaultVersion, TypeOK, InstalledLists

-----------------------------------------------------------------------------
(* The type invariant.                                                     *)

\* The conjuncts of TypeOK on env and on call.
EnvTyped(E) ==
    /\ DOMAIN E = Envs
    /\ \A d \in Envs : /\ DOMAIN E[d] = EnvFields
                       /\ E[d].outcome \in Outcomes
                       /\ E[d].setupRun \in BOOLEAN
CallTyped(C) == C = NoCall \/ (DOMAIN C = CallFields /\ C.e \in Envs)

LEMMA TypeOKParts ==
    TypeOK <=> /\ cfg \in [Envs -> Settings]
               /\ EnvTyped(env)
               /\ installedRun \in {None} \cup InstalledLists
               /\ alive \in BOOLEAN
               /\ CallTyped(call)
BY DEF TypeOK, EnvTyped, CallTyped, InstalledLists

\* Setting TARGET_ARCH, MSVC_VERSION or the applied bindings of one
\* Environment keeps env well-typed.
LEMMA SetFieldType ==
    ASSUME NEW E, EnvTyped(E), NEW e \in Envs,
           NEW f \in {"target", "version", "applied"}, NEW v
    PROVE  EnvTyped([E EXCEPT ![e][f] = v])
<1>. DEFINE E2 == [E EXCEPT ![e][f] = v]
<1>1. DOMAIN E2 = Envs
  BY DEF EnvTyped
<1>2. ASSUME NEW d \in Envs
      PROVE  /\ DOMAIN E2[d] = EnvFields
             /\ E2[d].outcome \in Outcomes /\ E2[d].setupRun \in BOOLEAN
  <2>1. CASE d = e
    <3>1. E2[d] = [E[e] EXCEPT ![f] = v]
      BY <2>1 DEF EnvTyped
    <3>2. f \notin {"outcome", "setupRun"}
      OBVIOUS
    <3>. QED BY <3>1, <3>2, <2>1, Zenon DEF EnvTyped, EnvFields
  <2>2. CASE d # e
    BY <2>2, Zenon DEF EnvTyped
  <2>. QED BY <2>1, <2>2
<1>. QED BY <1>1, <1>2 DEF EnvTyped

\* FinishFind's update of the Environment keeps env well-typed.
LEMMA FinishFindEnvType ==
    ASSUME NEW E, EnvTyped(E), NEW e \in Envs, NEW t, NEW d
    PROVE  EnvTyped([E EXCEPT ![e].target = t, ![e].applied = d,
                              ![e].setupRun = TRUE, ![e].outcome = "done"])
<1>. DEFINE E1 == [E EXCEPT ![e].target = t]
            E2 == [E1 EXCEPT ![e].applied = d]
            E3 == [E2 EXCEPT ![e].setupRun = TRUE]
            E4 == [E3 EXCEPT ![e].outcome = "done"]
<1>1. [E EXCEPT ![e].target = t, ![e].applied = d,
                ![e].setupRun = TRUE, ![e].outcome = "done"] = E4
  OBVIOUS
<1>2. EnvTyped(E2)
  BY SetFieldType
<1>3. EnvTyped(E4)
  <2>1. DOMAIN E4 = Envs
    BY <1>2 DEF EnvTyped
  <2>2. ASSUME NEW x \in Envs
        PROVE  /\ DOMAIN E4[x] = EnvFields
               /\ E4[x].outcome \in Outcomes /\ E4[x].setupRun \in BOOLEAN
    <3>1. CASE x = e
      BY <1>2, <3>1, Zenon DEF EnvTyped, EnvFields, Outcomes
    <3>2. CASE x # e
      BY <1>2, <3>2, Zenon DEF EnvTyped
    <3>. QED BY <3>1, <3>2
  <2>. QED BY <2>1, <2>2 DEF EnvTyped
<1>. QED BY <1>1, <1>3

\* The primed type invariant from its parts.
LEMMA TypeOKPrime ==
    ASSUME cfg' \in [Envs -> Settings], EnvTyped(env'),
           installedRun' \in {None} \cup InstalledLists,
           alive' \in BOOLEAN, CallTyped(call')
    PROVE  TypeOK'
BY DEF TypeOK, EnvTyped, CallTyped, InstalledLists

\* An exception escaping msvc_setup_env leaves a well-typed Environment.
LEMMA RaiseType ==
    ASSUME EnvTyped(env), NEW e \in Envs, NEW x \in Outcomes, NEW t, Raise(e, x, t)
    PROVE  EnvTyped(env') /\ CallTyped(call') /\ alive' \in BOOLEAN
<1>1. EnvTyped([env EXCEPT ![e].outcome = x, ![e].target = t])
  <2>. DEFINE E1 == [env EXCEPT ![e].outcome = x]
  <2>1. EnvTyped(E1)
    BY Zenon DEF EnvTyped, EnvFields
  <2>2. EnvTyped([E1 EXCEPT ![e].target = t])
    BY <2>1, SetFieldType
  <2>. QED BY <2>2
<1>. QED BY <1>1 DEF Raise, CallTyped

\* msvc_setup_env returning leaves a well-typed Environment.
LEMMA FinishedType ==
    ASSUME EnvTyped(env), NEW e \in Envs, NEW v, NEW d, Finished(e, v, d)
    PROVE  EnvTyped(env')
<1>. DEFINE E1 == [env EXCEPT ![e].version = v]
            E2 == [E1 EXCEPT ![e].applied = d]
            E3 == [E2 EXCEPT ![e].setupRun = TRUE]
<1>1. env' = [E3 EXCEPT ![e].outcome = "done"]
  BY DEF Finished
<1>2. EnvTyped(E2)
  BY SetFieldType
<1>3. EnvTyped(E3)
  BY <1>2, Zenon DEF EnvTyped, EnvFields
<1>. QED BY <1>1, <1>3, Zenon DEF EnvTyped, EnvFields, Outcomes

\* Every step keeps the type invariant.
LEMMA TypeStep == TypeOK /\ [Next]_vars => TypeOK'
<1> SUFFICES ASSUME TypeOK, [Next]_vars PROVE TypeOK'
  OBVIOUS
<1>0. /\ cfg \in [Envs -> Settings] /\ EnvTyped(env)
      /\ installedRun \in {None} \cup InstalledLists
      /\ alive \in BOOLEAN /\ CallTyped(call)
  BY TypeOKParts
<1>a. ArchErrors \subseteq Outcomes
  BY DEF ArchErrors, Outcomes
<1>1. ASSUME NEW e \in Envs, SetupDefaultVersionFails(e) PROVE TypeOK'
  <2>1. GetDefaultVersion(e).err \in Outcomes
    BY <1>1, <1>a, GetDefaultVersionType DEF SetupDefaultVersionFails
  <2>. QED BY <1>0, <1>1, <2>1, RaiseType, TypeOKPrime DEF SetupDefaultVersionFails
<1>2. ASSUME NEW e \in Envs, SetupReturnsNone(e) PROVE TypeOK'
  BY <1>0, <1>2, GetDefaultVersionType, FinishedType, TypeOKPrime
     DEF SetupReturnsNone
<1>3. ASSUME NEW e \in Envs, SetupUserScript(e) PROVE TypeOK'
  <2>1. installedRun' \in {None} \cup InstalledLists
    BY <1>3, GetDefaultVersionType DEF SetupUserScript
  <2>2. {"MSVCScriptNotFound", "BatchFileExecutionError"} \subseteq Outcomes
    BY DEF Outcomes
  <2>. QED BY <1>0, <1>3, <2>1, <2>2, RaiseType, FinishedType, TypeOKPrime
           DEF SetupUserScript
<1>4. ASSUME NEW e \in Envs, SetupFindScript(e) PROVE TypeOK'
  <2>. DEFINE ht == GetHostTarget(cfg[e].host, env[e].target)
  <2>1. installedRun' \in {None} \cup InstalledLists
    BY <1>4, GetDefaultVersionType DEF SetupFindScript
  <2>2. ht.err \in {None} \cup ArchErrors
    BY HostTargetErr
  <2>3. CASE ht.err # None
    BY <1>0, <1>4, <1>a, <2>1, <2>2, <2>3, RaiseType, TypeOKPrime
       DEF SetupFindScript
  <2>4. CASE ht.err = None
    <3>1. EnvTyped(env') /\ CallTyped(call')
      BY <1>0, <1>4, <2>4, SetFieldType DEF SetupFindScript, CallTyped, CallFields
    <3>2. alive' = alive /\ cfg' = cfg
      BY <1>4, <2>4 DEF SetupFindScript
    <3>. QED BY <1>0, <2>1, <3>1, <3>2, TypeOKPrime
  <2>. QED BY <2>3, <2>4
<1>5. ASSUME NEW e \in Envs, MsvcExists(e) PROVE TypeOK'
  <2>1. GetInstalledVcs(e, env[e].target).err \in {None} \cup ArchErrors
        /\ GetInstalledVcs(e, env[e].target).cache \in {None} \cup InstalledLists
    BY <1>0, GetInstalledVcsType
  <2>. QED BY <1>0, <1>5, <1>a, <2>1, RaiseType, TypeOKPrime DEF MsvcExists
<1>6. CASE TryNoBatArch \/ TryNoBatFileName
  <2>1. call.e \in Envs /\ "KeyError" \in Outcomes
    BY <1>0, <1>6 DEF TryNoBatArch, TryNoBatFileName, Looping, CallTyped, Outcomes
  <2>. QED BY <1>0, <1>6, <2>1, RaiseType, TypeOKPrime
           DEF TryNoBatArch, TryNoBatFileName
<1>7. CASE TryNotInstalled
  <2>. DEFINE g == GetInstalledVcs(call.e, CurTarget)
  <2>1. call # NoCall /\ call.e \in Envs /\ DOMAIN call = CallFields
    BY <1>0, <1>7 DEF TryNotInstalled, Looping, CallTyped
  <2>2. g.err \in {None} \cup ArchErrors /\ g.cache \in {None} \cup InstalledLists
    BY <1>0, <2>1, GetInstalledVcsType
  <2>3. CASE g.err # None
    BY <1>0, <1>7, <1>a, <2>1, <2>2, <2>3, RaiseType, TypeOKPrime
       DEF TryNotInstalled
  <2>4. CASE g.err = None
    <3>1. EnvTyped(env')
      BY <1>0, <1>7, <2>1, <2>4, SetFieldType DEF TryNotInstalled, EnvAt
    <3>2. CallTyped(call')
      BY <1>7, <2>1, <2>4 DEF TryNotInstalled, NextTry, CallTyped, CallFields
    <3>. QED BY <1>0, <1>7, <2>2, <2>4, <3>1, <3>2, TypeOKPrime DEF TryNotInstalled
  <2>. QED BY <2>3, <2>4
<1>8. CASE TryVcScript \/ TrySdkScript \/ TryNoScript
  <2>1. call # NoCall /\ call.e \in Envs /\ DOMAIN call = CallFields
    BY <1>0, <1>8 DEF TryVcScript, TrySdkScript, TryNoScript, Looping, CallTyped
  <2>2. EnvTyped(env')
    BY <1>0, <1>8, <2>1, SetFieldType DEF TryVcScript, TrySdkScript, TryNoScript, EnvAt
  <2>3. CallTyped(call')
    BY <1>8, <2>1 DEF TryVcScript, TrySdkScript, TryNoScript, NextTry, CallTyped,
                      CallFields
  <2>. QED BY <1>0, <1>8, <2>2, <2>3, TypeOKPrime
           DEF TryVcScript, TrySdkScript, TryNoScript
<1>9. CASE FinishFind
  <2>1. call.e \in Envs
    BY <1>0, <1>9 DEF FinishFind, CallTyped
  <2>2. EnvTyped(env')
    BY <1>0, <1>9, <2>1, FinishFindEnvType DEF FinishFind
  <2>. QED BY <1>0, <1>9, <2>2, TypeOKPrime DEF FinishFind, CallTyped
<1>10. CASE ResetInstalledVcs
  BY <1>0, <1>10, TypeOKPrime DEF ResetInstalledVcs
<1>11. CASE Restart
  <2>1. EnvTyped(env')
    <3>1. ASSUME NEW e \in Envs
          PROVE  /\ DOMAIN env'[e] = EnvFields
                 /\ env'[e].outcome \in Outcomes /\ env'[e].setupRun \in BOOLEAN
      <4>1. env'[e] = FreshEnv(cfg[e])
        BY <1>11 DEF Restart
      <4>2. /\ DOMAIN FreshEnv(cfg[e]) = EnvFields
            /\ FreshEnv(cfg[e]).outcome = "none"
            /\ FreshEnv(cfg[e]).setupRun = FALSE
        BY DEF FreshEnv, EnvFields
      <4>. QED BY <4>1, <4>2, Zenon DEF Outcomes
    <3>. QED BY <1>11, <3>1 DEF Restart, EnvTyped
  <2>. QED BY <1>0, <1>11, <2>1, TypeOKPrime DEF Restart, CallTyped
<1>12. CASE UNCHANGED vars
  BY <1>12 DEF vars, TypeOK
<1>. QED BY <1>1, <1>2, <1>3, <1>4, <1>5, <1>6, <1>7, <1>8, <1>9, <1>10,
            <1>11, <1>12 DEF Next

\* The initial Environments are well typed.
LEMMA InitTypeOK == Init => TypeOK
<1> SUFFICES ASSUME Init PROVE TypeOK
  OBVIOUS
<1>1. ASSUME NEW e \in Envs
      PROVE  /\ DOMAIN env[e] = EnvFields
             /\ env[e].outcome \in Outcomes /\ env[e].setupRun \in BOOLEAN
  <2>1. env[e] = FreshEnv(cfg[e])
    BY DEF Init
  <2>2. /\ DOMAIN FreshEnv(cfg[e]) = EnvFields
        /\ FreshEnv(cfg[e]).outcome = "none"
        /\ FreshEnv(cfg[e]).setupRun = FALSE
    BY DEF FreshEnv, EnvFields
  <2>. QED BY <2>1, <2>2, Zenon DEF Outcomes
<1>. QED BY <1>1 DEF Init, TypeOK

\* Every step of the model keeps the type invariant: the exceptions that
\* escape msvc_setup_env are those of Outcomes, and get_installed_vcs
\* only ever stores lists of known versions.
THEOREM TypeCorrect == Spec => []TypeOK
<1>1. Init => TypeOK
  BY InitTypeOK
<1>2. TypeOK /\ [Next]_vars => TypeOK'
  BY TypeStep
<1>. QED BY <1>1, <1>2, PTL DEF Spec

-----------------------------------------------------------------------------
(* script_env's caches.                                                    *)

\* The inductive invariant: both caches are sound, and a loaded memory
\* cache holds the whole file.
CacheInv == CacheSound /\ MemHoldsFile

\* The cache script_env works on: the memory, or the file just read.
Loaded == IF mem = None THEN ReadScriptEnvCache ELSE mem

\* script_env either leaves both caches as they were (a hit, or a run that
\* printed the error line), or adds the new key, absent before, with the
\* bindings its script printed, and writes the result.
LEMMA ScriptEnvShape ==
    ASSUME NEW s, NEW a
    PROVE  LET r == ScriptEnv(s, a)
               k == CacheKey(s, a)
               b == ParseOutput(s, a)
           IN  \/ r.mem = Loaded /\ r.file = file
               \/ /\ k \notin DOMAIN Loaded /\ k \notin ScriptFails
                  /\ r.mem = Put(Loaded, k, b)
                  /\ r.file = WriteScriptEnvCache(Put(Loaded, k, b))
<1>. DEFINE k == CacheKey(s, a)
            b == ParseOutput(s, a)
<1>1. CASE k \in DOMAIN Loaded
  <2>1. ScriptEnv(s, a).mem = Loaded /\ ScriptEnv(s, a).file = file
    BY <1>1, Zenon DEF ScriptEnv, Loaded
  <2>. QED BY <2>1
<1>2. CASE k \notin DOMAIN Loaded /\ <<s, a>> \in ScriptFails
  <2>1. ScriptEnv(s, a) = [fail |-> TRUE, d |-> None, mem |-> Loaded, file |-> file]
    BY <1>2 DEF ScriptEnv, Loaded
  <2>. QED BY <2>1
<1>3. CASE k \notin DOMAIN Loaded /\ <<s, a>> \notin ScriptFails
  <2>1. ScriptEnv(s, a) = [fail |-> FALSE, d |-> b, mem |-> Put(Loaded, k, b),
                           file |-> WriteScriptEnvCache(Put(Loaded, k, b))]
    BY <1>3 DEF ScriptEnv, Loaded
  <2>. QED BY <1>3, <2>1 DEF CacheKey
<1>. QED BY <1>1, <1>2, <1>3

\* Storing a script's own bindings under its key keeps a cache sound.
LEMMA PutSound ==
    ASSUME NEW m, SoundCache(m), NEW s, NEW a, <<s, a>> \notin ScriptFails
    PROVE  SoundCache(Put(m, CacheKey(s, a), ParseOutput(s, a)))
BY DEF SoundCache, Put, CacheKey

\* Adding a key that was absent keeps every entry of the cache.
LEMMA PutExtends ==
    ASSUME NEW m, NEW k, k \notin DOMAIN m, NEW b
    PROVE  Extends(Put(m, k, b), m)
BY DEF Extends, Put

\* The cache script_env starts from is sound and holds the whole file.
LEMMA LoadedSound ==
    ASSUME CacheInv
    PROVE  SoundCache(Loaded) /\ (ConfigCache => Extends(Loaded, file))
<1>1. SoundCache(EmptyCache)
  BY DEF SoundCache, EmptyCache
<1>2. Extends(file, file)
  BY DEF Extends
<1>. QED BY <1>1, <1>2, ConfigCacheAssumption
         DEF CacheInv, CacheSound, MemHoldsFile, Loaded, ReadScriptEnvCache

\* One script_env call keeps the invariant, and the file only grows.
LEMMA ScriptEnvStep ==
    ASSUME CacheInv, NEW s, NEW a,
           mem' = ScriptEnv(s, a).mem, file' = ScriptEnv(s, a).file
    PROVE  CacheInv' /\ Extends(file', file)
<1>. DEFINE k == CacheKey(s, a)
            b == ParseOutput(s, a)
<1>1. SoundCache(Loaded) /\ (ConfigCache => Extends(Loaded, file))
  BY LoadedSound
<1>2. CASE mem' = Loaded /\ file' = file
  <2>1. Extends(file, file)
    BY DEF Extends
  <2>. QED BY <1>1, <1>2, <2>1
           DEF CacheInv, CacheSound, MemHoldsFile
<1>3. CASE /\ k \notin DOMAIN Loaded /\ k \notin ScriptFails
           /\ mem' = Put(Loaded, k, b)
           /\ file' = WriteScriptEnvCache(Put(Loaded, k, b))
  <2>1. SoundCache(Put(Loaded, k, b))
    BY <1>1, <1>3, PutSound DEF CacheKey
  <2>2. Extends(Put(Loaded, k, b), Loaded)
    BY <1>3, PutExtends
  <2>3. Extends(Put(Loaded, k, b), Put(Loaded, k, b))
    BY DEF Extends
  <2>5. CASE ConfigCache
    <3>1. file' = Put(Loaded, k, b)
      BY <1>3, <2>5 DEF WriteScriptEnvCache
    <3>2. Extends(file', file)
      BY <1>1, <2>2, <2>5, <3>1 DEF Extends
    <3>. QED BY <1>3, <2>1, <2>3, <3>1, <3>2
             DEF CacheInv, CacheSound, MemHoldsFile
  <2>6. CASE ~ConfigCache
    <3>1. file' = file
      BY <1>3, <2>6 DEF WriteScriptEnvCache
    <3>2. Extends(file, file)
      BY DEF Extends
    <3>. QED BY <1>3, <2>1, <2>6, <3>1, <3>2
             DEF CacheInv, CacheSound, MemHoldsFile
  <2>. QED BY <2>5, <2>6
<1>. QED BY <1>2, <1>3, ScriptEnvShape

\* A step that leaves both caches alone keeps the invariant.
LEMMA UnchangedCaches ==
    ASSUME CacheInv, UNCHANGED <<mem, file>>
    PROVE  CacheInv' /\ Extends(file', file)
BY DEF CacheInv, CacheSound, MemHoldsFile, Extends

\* Every step keeps the invariant and never drops or changes an entry of
\* the cache file.
LEMMA CacheStep ==
    ASSUME CacheInv, [Next]_vars
    PROVE  CacheInv' /\ Extends(file', file)
<1>1. ASSUME NEW e \in Envs, SetupUserScript(e)
      PROVE  CacheInv' /\ Extends(file', file)
  <2>. DEFINE r == ScriptEnv(<<"user", cfg[e].userScript>>, NoArgs)
  <2>1. UNCHANGED <<mem, file>> \/ (mem' = r.mem /\ file' = r.file)
    BY <1>1 DEF SetupUserScript
  <2>. QED BY <2>1, UnchangedCaches, ScriptEnvStep
<1>2. CASE TryVcScript
  <2>. DEFINE arg == VcArg(FB.useArg, TableGet(BAT_ARCH_PAIRS, call.host, CurTarget),
                           call.ver, cfg[call.e].uwp)
              r == ScriptEnv(FB.bat, arg)
  <2>1. mem' = r.mem /\ file' = r.file
    BY <1>2 DEF TryVcScript
  <2>. QED BY <2>1, ScriptEnvStep
<1>3. CASE TrySdkScript
  <2>1. mem' = ScriptEnv(FB.sdk, None).mem /\ file' = ScriptEnv(FB.sdk, None).file
    BY <1>3 DEF TrySdkScript
  <2>. QED BY <2>1, ScriptEnvStep
<1>4. CASE Restart
  BY <1>4 DEF Restart, CacheInv, CacheSound, MemHoldsFile, Extends
<1>5. CASE \/ \E e \in Envs : \/ SetupDefaultVersionFails(e) \/ SetupReturnsNone(e)
                               \/ SetupFindScript(e) \/ MsvcExists(e)
           \/ TryNoBatArch \/ TryNoBatFileName \/ TryNotInstalled \/ TryNoScript
           \/ FinishFind \/ ResetInstalledVcs \/ UNCHANGED vars
  <2>1. UNCHANGED <<mem, file>>
    BY <1>5 DEF SetupDefaultVersionFails, SetupReturnsNone, SetupFindScript,
                MsvcExists, TryNoBatArch, TryNoBatFileName, TryNotInstalled,
                TryNoScript, FinishFind, ResetInstalledVcs, vars
  <2>. QED BY <2>1, UnchangedCaches
<1>. QED BY <1>1, <1>2, <1>3, <1>4, <1>5 DEF Next

\* script_env's caches, in memory and in the persistent file, only ever
\* hold the bindings the keyed script printed, never those of a run that
\* printed the error line, across restarts of the process.
THEOREM CacheSoundness == Spec => []CacheSound
<1>1. Init => CacheInv
  BY DEF Init, CacheInv, CacheSound, MemHoldsFile, SoundCache, EmptyCache
<1>2. CacheInv /\ [Next]_vars => CacheInv'
  BY CacheStep
<1>3. CacheInv => CacheSound
  BY DEF CacheInv
<1>. QED BY <1>1, <1>2, <1>3, PTL DEF Spec

\* script_env never drops or changes an entry of the persistent cache file
\* within one process: it reads the file before its first write and only
\* ever writes the memory cache, which holds the whole file.
THEOREM FileGrows == Spec => FileOnlyGrows
<1>1. Init => CacheInv
  BY DEF Init, CacheInv, CacheSound, MemHoldsFile, SoundCache, EmptyCache
<1>2. CacheInv /\ [Next]_vars => CacheInv'
  BY CacheStep
<1>3. CacheInv /\ [Next]_vars => [Extends(file', file)]_file
  BY CacheStep
<1>. QED BY <1>1, <1>2, <1>3, PTL DEF Spec, FileOnlyGrows

=============================================================================
