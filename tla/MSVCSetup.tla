------------------------------ MODULE MSVCSetup ------------------------------
(***************************************************************************)
(* One SCons process configuring MSVC for its construction environments   *)
(* (SCons/Tool/MSCommon/vc.py): msvc_setup_env_once / msvc_setup_env,     *)
(* get_default_version, get_installed_vcs with its process-wide cache,    *)
(* the target-architecture loop of msvc_find_valid_batch_script,          *)
(* find_batch_file, _check_cl_exists_in_vc_dir, and script_env with its   *)
(* in-memory cache backed by the persistent cache file.  A process may be *)
(* killed at any step and a new one started; only the cache file          *)
(* survives it.                                                           *)
(*                                                                         *)
(* The installation (registry, vswhere answer, files on disk, the output  *)
(* of each batch file) is fixed by CONSTANTS.                              *)
(***************************************************************************)
EXTENDS VCTables, FiniteSets

CONSTANTS
    None,          \* Python None, and an unset construction variable
    Envs,          \* the construction environments a process configures
    Settings,      \* the construction-variable settings an Environment may have
    Machine,       \* platform.machine()
    Machine64,     \* platform.architecture()[0] == "64bit"
    RegPdir,       \* registry versions -> "ok" | "stale" | "absent"
    VswPdir,       \* (vswhere version, release) -> "ok" | "absent"
    ClPairs,       \* version -> canonical (host, target) pairs with a cl.exe
    NoToolsetFile, \* 2017+ versions whose Microsoft.VCToolsVersion file is unreadable
    BatFiles,      \* <<version, batch file name>> that exist in the install
    SdkScripts,    \* <<version, host, target>> for which an SDK script exists
    ScriptFails,   \* <<script, args>> whose output starts with the error line
    UserScripts,   \* MSVC_USE_SCRIPT paths that exist
    ConfigCache    \* SCONS_CACHE_MSVC_CONFIG is set: the cache file is used

ASSUME SettingsAssumption ==
    \A s \in Settings :
        /\ s.useScript \in BOOLEAN /\ s.preview \in BOOLEAN /\ s.uwp \in BOOLEAN
ASSUME ConfigCacheAssumption == ConfigCache \in BOOLEAN
\* The exceptions find_batch_file raises, by name.
FindBatchErrors == {"NoVersionFound", "UnsupportedVersion",
                    "MissingConfiguration", "KeyError"}

\* Python None is not an exception: no exception name is None.
ASSUME NoneAssumption == None \notin FindBatchErrors

VARIABLES
    cfg,          \* cfg[e]: the settings Environment e was created with
    env,          \* env[e]: the variables msvc_setup_env reads back or writes
    installedRun, \* __INSTALLED_VCS_RUN: None or [release -> versions]
    mem,          \* script_env_cache: None until the first script_env call
    file,         \* the persistent cache file (common.read/write_script_env_cache)
    call,         \* the msvc_find_valid_batch_script loop in progress, or NoCall
    alive         \* FALSE once an exception escaped msvc_setup_env

vars == <<cfg, env, installedRun, mem, file, call, alive>>

Outcomes == {"none", "done", "KeyError", "MSVCUnsupportedHostArch",
             "MSVCUnsupportedTargetArch", "MSVCScriptNotFound",
             "BatchFileExecutionError"}

-----------------------------------------------------------------------------
(* get_host_target: (HOST_ARCH or the machine, TARGET_ARCH or the host),  *)
(* canonicalised, or the exception naming the unknown one.                 *)
HostPlatform(hostArch) ==
    LET hp == IF hostArch # None THEN hostArch ELSE Machine
    IN  IF hp = "i86pc" THEN (IF Machine64 THEN "amd64" ELSE "x86") ELSE hp

GetHostTarget(hostArch, targetArch) ==
    LET hp == HostPlatform(hostArch)
        tp == IF targetArch # None THEN targetArch ELSE hp
    IN  CASE Lower(hp) \notin ArchKnown ->
               [err |-> "MSVCUnsupportedHostArch", host |-> None, target |-> None]
          [] Lower(tp) \notin ArchKnown ->
               [err |-> "MSVCUnsupportedTargetArch", host |-> None, target |-> None]
          [] OTHER ->
               [err |-> None, host |-> ARCH_TO_CANONICAL[Lower(hp)],
                target |-> ARCH_TO_CANONICAL[Lower(tp)]]

\* _msvc_isrelease(env): MSVC_PREVIEW selects the preview instances.
MsvcIsRelease(s) == ~s.preview

\* find_vc_pdir: "ok", "None", or the exception it raises.
FindVcPdir(v, rel) ==
    IF v \notin VCVerSet THEN "UnsupportedVersion"
    ELSE IF v \in VSWHERE_SUPPORTED_VCVER
         THEN (IF VswPdir[<<v, rel>>] = "ok" THEN "ok" ELSE "None")
    ELSE CASE RegPdir[v] = "ok" -> "ok"
           [] RegPdir[v] = "stale" -> "MissingConfiguration"
           [] OTHER -> "None"

\* _check_cl_exists_in_vc_dir for the canonical pair of ht.
CheckClExists(ht, v) ==
    LET h == ARCH_TO_CANONICAL[ht.host]
        t == ARCH_TO_CANONICAL[ht.target]
        n == VerNum(v)
    IN  CASE n > 140 ->
               /\ v \notin NoToolsetFile
               /\ <<h, t>> \in CL_DIR_GT14_PAIRS
               /\ \/ <<h, t>> \in ClPairs[v]
                  \/ h = "amd64" /\ <<"x86", t>> \in ClPairs[v]
          [] 80 <= n /\ n <= 140 ->
               /\ <<h, t>> \in CL_DIR_PAIRS
               /\ \/ <<h, t>> \in ClPairs[v]
                  \/ /\ h = "amd64"
                     /\ <<"x86", t>> \in CL_DIR_PAIRS
                     /\ <<"x86", t>> \in ClPairs[v]
          [] 60 <= n /\ n < 80 -> ClPairs[v] # {}
          [] OTHER -> FALSE

\* The two lists get_installed_vcs builds for host/target ht.
InstalledVcs(ht) ==
    [rel \in BOOLEAN |->
        {q[1] : q \in {p \in VCVER_SETUP :
                         /\ p[2] = rel
                         /\ FindVcPdir(p[1], rel) = "ok"
                         /\ CheckClExists(ht, p[1])}}]

\* get_host_target inside _check_cl_exists_in_vc_dir raises only once an
\* install directory has been found; the arch exceptions are re-raised.
InstalledError(ht) ==
    ht.err # None /\ \E p \in VCVER_SETUP : FindVcPdir(p[1], p[2]) = "ok"

\* get_installed_vcs(env) for Environment e whose TARGET_ARCH is target: the list for its release
\* flag and the new value of the cache, or the exception.
GetInstalledVcs(e, target) ==
    LET rel == MsvcIsRelease(cfg[e])
        ht  == GetHostTarget(cfg[e].host, target)
    IN  CASE installedRun # None ->
               [err |-> None, list |-> installedRun[rel], cache |-> installedRun]
          [] InstalledError(ht) ->
               [err |-> ht.err, list |-> {}, cache |-> None]
          [] OTHER ->
               [err |-> None, list |-> InstalledVcs(ht)[rel],
                cache |-> InstalledVcs(ht)]

\* get_default_version(env): the version, and the installed-version cache
\* after it, or the exception raised by get_installed_vcs.
GetDefaultVersion(e) ==
    LET s == cfg[e]
        g == GetInstalledVcs(e, env[e].target)
    IN  CASE s.msvs # None ->
               [err |-> None, ver |-> s.msvs, cache |-> installedRun]
          [] s.msvc # None ->
               [err |-> None, ver |-> s.msvc, cache |-> installedRun]
          [] g.err # None ->
               [err |-> g.err, ver |-> None, cache |-> installedRun]
          [] OTHER ->
               [err |-> None,
                ver |-> IF g.list = {} THEN None ELSE FirstInstalled(g.list),
                cache |-> g.cache]

-----------------------------------------------------------------------------
(* find_batch_file(env, version, host, target).                            *)

\* The batch file name find_batch_file looks for (KeyError outside the
\* 2017+ table is handled by the caller of this operator).
BatName(v, host, tp) ==
    LET n == VerNum(v)
    IN  CASE 70 <= n /\ n < 80 -> "vsvars32.bat"
          [] n < 70 -> "vcvars32.bat"
          [] 80 <= n /\ n <= 140 -> "vcvarsall.bat"
          [] OTHER -> TableGet(BAT_ARCH_GT14_PAIRS, host, tp)

VcScriptPath(v, host, tp) == <<"vc", v, BatName(v, host, tp)>>
SdkScriptPath(v, host, tp) == <<"sdk", v, host, tp>>

FindBatchFile(v, rel, host, tp) ==
    LET pd == FindVcPdir(v, rel)
    IN  CASE pd = "None" -> [err |-> "NoVersionFound"]
          [] pd \notin {"ok", "None"} -> [err |-> pd]
          [] pd = "ok" /\ VerNum(v) > 140 /\ ~TableHas(BAT_ARCH_GT14_PAIRS, host, tp) ->
               [err |-> "KeyError"]
          [] OTHER ->
               [err |-> None,
                bat |-> IF <<v, BatName(v, host, tp)>> \in BatFiles
                        THEN VcScriptPath(v, host, tp) ELSE None,
                useArg |-> VerNum(v) <= 140,
                sdk |-> IF <<v, host, tp>> \in SdkScripts
                        THEN SdkScriptPath(v, host, tp) ELSE None]

\* An empty argument string.
NoArgs == ""

\* The arguments msvc_find_valid_batch_script passes to the VC script:
\* none for a 2017+ per-pair script, " store" added for a UWP app.
VcArg(useArg, arg0, v, uwp) ==
    LET a == IF useArg THEN arg0 ELSE NoArgs
    IN  IF v[1] >= 14 /\ uwp THEN (IF a = NoArgs THEN "store" ELSE a \o " store")
        ELSE a

-----------------------------------------------------------------------------
(* script_env(script, args).                                               *)

\* The variables common.parse_output extracts from the script's output:
\* one binding set per (script, args).
ParseOutput(s, a) == [script |-> s, args |-> a]

EmptyCache == [k \in {} |-> None]

\* Mutant: a cache read that loses the file (an unreadable file taken for
\* an empty one).
ReadScriptEnvCacheLost == EmptyCache

\* common.read_script_env_cache / write_script_env_cache.
ReadScriptEnvCache == IF ConfigCache THEN file ELSE EmptyCache
WriteScriptEnvCache(m) == IF ConfigCache THEN m ELSE file

\* cache_key = "{}--{}".format(script, args)
CacheKey(s, a) == <<s, a>>

Put(m, k, b) == [x \in DOMAIN m \cup {k} |-> IF x = k THEN b ELSE m[x]]

\* Mutant: the output is stored before the error line is looked for.
ScriptEnvCachesFailure(s, a) ==
    LET m == IF mem = None THEN ReadScriptEnvCache ELSE mem
        k == CacheKey(s, a)
        b == ParseOutput(s, a)
    IN  IF k \in DOMAIN m
        THEN [fail |-> FALSE, d |-> m[k], mem |-> m, file |-> file]
        ELSE [fail |-> <<s, a>> \in ScriptFails,
              d |-> IF <<s, a>> \in ScriptFails THEN None ELSE b,
              mem |-> Put(m, k, b), file |-> WriteScriptEnvCache(Put(m, k, b))]

\* The whole call: the cache is loaded on first use; a hit returns the
\* cached bindings; a miss runs the script, raises on the error line, else
\* stores the parsed bindings and writes the cache file.
ScriptEnv(s, a) ==
    LET m == IF mem = None THEN ReadScriptEnvCache ELSE mem
        k == CacheKey(s, a)
        b == ParseOutput(s, a)
    IN  CASE k \in DOMAIN m ->
               [fail |-> FALSE, d |-> m[k], mem |-> m, file |-> file]
          [] <<s, a>> \in ScriptFails ->
               [fail |-> TRUE, d |-> None, mem |-> m, file |-> file]
          [] OTHER ->
               [fail |-> FALSE, d |-> b, mem |-> Put(m, k, b),
                file |-> WriteScriptEnvCache(Put(m, k, b))]

-----------------------------------------------------------------------------
(* Process life cycle.                                                     *)

\* No msvc_find_valid_batch_script loop is in progress: a function with no
\* fields, so that it differs from every loop record.
NoCall == <<>>

FreshEnv(s) == [target |-> s.target, version |-> s.msvc, setupRun |-> FALSE,
                applied |-> None, outcome |-> "none"]

Init ==
    /\ cfg \in [Envs -> Settings]
    /\ env = [e \in Envs |-> FreshEnv(cfg[e])]
    /\ installedRun = None
    /\ mem = None
    /\ file = EmptyCache
    /\ call = NoCall
    /\ alive = TRUE

\* The process ends (killed, crashed or finished) and SCons is run again on
\* the same SConstruct: the Environments are created anew with the same
\* settings, every in-memory cache starts empty, the cache file is kept.
Restart ==
    /\ env' = [e \in Envs |-> FreshEnv(cfg[e])]
    /\ installedRun' = None
    /\ mem' = None
    /\ call' = NoCall
    /\ alive' = TRUE
    /\ UNCHANGED <<cfg, file>>

\* An exception escapes msvc_setup_env: the SConstruct stops.
Raise(e, x, target) ==
    /\ env' = [env EXCEPT ![e].outcome = x, ![e].target = target]
    /\ call' = NoCall
    /\ alive' = FALSE

Idle == alive /\ call = NoCall


\* The targets msvc_find_valid_batch_script tries, in order: the target,
\* then a pseudo target asking for the 32-bit-hosted tools, and x86 last
\* when no TARGET_ARCH was given and the target is 64-bit.  req is the raw
\* TARGET_ARCH, compared as the user wrote it.
TryTargetArchs(req, target) ==
    CASE req \in {"amd64", "x86_64"} -> <<target, "x86_amd64">>
      [] req = "x86" -> <<target, "x86_x86">>
      [] req = "arm" -> <<target, "x86_arm">>
      [] req = "arm64" -> <<target, "x86_arm64">>
      [] req = None /\ target \in {"amd64", "x86_64"} ->
           <<target, "x86_amd64", "x86">>
      [] OTHER -> <<target>>

\* msvc_setup_env_once sets MSVC_SETUP_RUN once msvc_setup_env returned.
Finished(e, ver, d) ==
    env' = [env EXCEPT ![e].version = ver, ![e].applied = d,
                       ![e].setupRun = TRUE, ![e].outcome = "done"]

StartsSetup(e) == Idle /\ ~env[e].setupRun

\* get_default_version raises: get_installed_vcs met an unknown HOST_ARCH
\* or TARGET_ARCH after finding an install directory.
SetupDefaultVersionFails(e) ==
    /\ StartsSetup(e)
    /\ GetDefaultVersion(e).err # None
    /\ Raise(e, GetDefaultVersion(e).err, env[e].target)
    /\ UNCHANGED <<cfg, installedRun, mem, file>>

\* msvc_setup_env returns None: no version, or MSVC_USE_SCRIPT is False.
SetupReturnsNone(e) ==
    /\ StartsSetup(e)
    /\ LET dv == GetDefaultVersion(e)
       IN  /\ dv.err = None
           /\ dv.ver = None \/ (cfg[e].userScript = None /\ ~cfg[e].useScript)
           /\ installedRun' = dv.cache
           /\ Finished(e, dv.ver, None)
    /\ UNCHANGED <<cfg, mem, file, call, alive>>

\* MSVC_USE_SCRIPT names a script: it must exist, and it is run through
\* script_env with $MSVC_USE_SCRIPT_ARGS (empty here).
SetupUserScript(e) ==
    /\ StartsSetup(e)
    /\ LET dv == GetDefaultVersion(e)
           p  == cfg[e].userScript
           r  == ScriptEnv(<<"user", p>>, NoArgs)
       IN  /\ dv.err = None /\ dv.ver # None /\ p # None
           /\ installedRun' = dv.cache
           /\ \/ /\ p \notin UserScripts
                 /\ Raise(e, "MSVCScriptNotFound", env[e].target)
                 /\ UNCHANGED <<mem, file>>
              \/ /\ p \in UserScripts /\ r.fail
                 /\ Raise(e, "BatchFileExecutionError", env[e].target)
                 /\ mem' = r.mem /\ file' = r.file
              \/ /\ p \in UserScripts /\ ~r.fail
                 /\ Finished(e, dv.ver, r.d)
                 /\ mem' = r.mem /\ file' = r.file
                 /\ UNCHANGED <<call, alive>>
    /\ UNCHANGED cfg

\* MSVC_USE_SCRIPT is true: msvc_find_valid_batch_script computes the host
\* and the targets to try (or raises on an unknown architecture).
SetupFindScript(e) ==
    /\ StartsSetup(e)
    /\ LET dv == GetDefaultVersion(e)
           ht == GetHostTarget(cfg[e].host, env[e].target)
       IN  /\ dv.err = None /\ dv.ver # None
           /\ cfg[e].userScript = None /\ cfg[e].useScript
           /\ installedRun' = dv.cache
           /\ \/ /\ ht.err # None
                 /\ Raise(e, ht.err, env[e].target)
              \/ /\ ht.err = None
                 /\ env' = [env EXCEPT ![e].version = dv.ver]
                 /\ call' = [e |-> e, ver |-> dv.ver, host |-> ht.host,
                             req |-> cfg[e].target,
                             tries |-> TryTargetArchs(cfg[e].target, ht.target),
                             i |-> 1, d |-> None]
                 /\ UNCHANGED alive
    /\ UNCHANGED <<cfg, mem, file>>

-----------------------------------------------------------------------------
(* One iteration of the loop over try_target_archs.  Each one first sets  *)
(* env['TARGET_ARCH'] = tp.                                                *)

Looping == alive /\ call # NoCall /\ call.d = None /\ call.i <= Len(call.tries)
CurTarget == call.tries[call.i]
EnvAt(tp) == [env EXCEPT ![call.e].target = tp]
NextTry == [call EXCEPT !.i = @ + 1]
FB == FindBatchFile(call.ver, MsvcIsRelease(cfg[call.e]), call.host, CurTarget)
BatArch == TableHas(BAT_ARCH_PAIRS, call.host, CurTarget)

\* arg = _HOST_TARGET_ARCH_TO_BAT_ARCH[host_target] raises KeyError.
TryNoBatArch ==
    /\ Looping /\ ~BatArch
    /\ Raise(call.e, "KeyError", CurTarget)
    /\ UNCHANGED <<cfg, installedRun, mem, file>>

\* find_batch_file raises KeyError on a pair outside the 2017+ table (not
\* a VisualCException, so it is not caught).
TryNoBatFileName ==
    /\ Looping /\ BatArch
    /\ FB.err = "KeyError"
    /\ Raise(call.e, "KeyError", CurTarget)
    /\ UNCHANGED <<cfg, installedRun, mem, file>>

\* find_batch_file raises a VisualCException: the warning lists
\* get_installed_vcs(env), computed with the TARGET_ARCH just set, and the
\* next target is tried.  (get_installed_vcs cannot raise here: the same
\* exception met the first target, a canonical one, and filled its cache.)
TryNotInstalled ==
    /\ Looping /\ BatArch
    /\ FB.err \in {"UnsupportedVersion", "MissingConfiguration", "NoVersionFound"}
    /\ LET g == GetInstalledVcs(call.e, CurTarget)
       IN  IF g.err # None
           THEN Raise(call.e, g.err, CurTarget) /\ UNCHANGED installedRun
           ELSE /\ installedRun' = g.cache
                /\ env' = EnvAt(CurTarget)
                /\ call' = NextTry
                /\ UNCHANGED alive
    /\ UNCHANGED <<cfg, mem, file>>

\* A VC script was found: run it.  On the error line the next target is
\* tried at once; otherwise the loop stops with its bindings.
TryVcScript ==
    /\ Looping /\ BatArch
    /\ FB.err = None /\ FB.bat # None
    /\ LET arg == VcArg(FB.useArg, TableGet(BAT_ARCH_PAIRS, call.host, CurTarget),
                        call.ver, cfg[call.e].uwp)
           r   == ScriptEnv(FB.bat, arg)
       IN  /\ mem' = r.mem /\ file' = r.file
           /\ call' = IF r.fail THEN NextTry ELSE [call EXCEPT !.d = r.d]
    /\ env' = EnvAt(CurTarget)
    /\ UNCHANGED <<cfg, installedRun, alive>>

\* No VC script but an SDK script: run it without arguments.
TrySdkScript ==
    /\ Looping /\ BatArch
    /\ FB.err = None /\ FB.bat = None /\ FB.sdk # None
    /\ LET r == ScriptEnv(FB.sdk, None)
       IN  /\ mem' = r.mem /\ file' = r.file
           /\ call' = IF r.fail THEN NextTry ELSE [call EXCEPT !.d = r.d]
    /\ env' = EnvAt(CurTarget)
    /\ UNCHANGED <<cfg, installedRun, alive>>

\* Neither script exists for this target.
TryNoScript ==
    /\ Looping /\ BatArch
    /\ FB.err = None /\ FB.bat = None /\ FB.sdk = None
    /\ env' = EnvAt(CurTarget)
    /\ call' = NextTry
    /\ UNCHANGED <<cfg, installedRun, mem, file, alive>>

\* Mutant: the requested TARGET_ARCH restored after a success too.
RestoreTargetArchAlways(d, req, cur) == req

\* After the loop: TARGET_ARCH goes back to the requested value when no
\* script gave bindings.
RestoreTargetArch(d, req, cur) == IF d = None THEN req ELSE cur

\* The loop is over (bindings found, or every target tried); msvc_setup_env
\* returns None without bindings, else prepends them to env['ENV'].
FinishFind ==
    /\ alive /\ call # NoCall
    /\ call.d # None \/ call.i > Len(call.tries)
    /\ env' = [env EXCEPT
                 ![call.e].target = RestoreTargetArch(call.d, call.req, @),
                 ![call.e].applied = call.d,
                 ![call.e].setupRun = TRUE,
                 ![call.e].outcome = "done"]
    /\ call' = NoCall
    /\ UNCHANGED <<cfg, installedRun, mem, file, alive>>

-----------------------------------------------------------------------------
\* msvc_exists(env): get_installed_vcs(env) fills the cache or raises.
MsvcExists(e) ==
    /\ Idle
    /\ LET g == GetInstalledVcs(e, env[e].target)
       IN  \/ /\ g.err # None
              /\ Raise(e, g.err, env[e].target)
              /\ UNCHANGED installedRun
           \/ /\ g.err = None
              /\ installedRun' = g.cache
              /\ UNCHANGED <<env, call, alive>>
    /\ UNCHANGED <<cfg, mem, file>>

\* Mutant: the memo reset to an empty list rather than to None.
ResetInstalledVcsEmpty ==
    /\ Idle
    /\ installedRun' = <<>>
    /\ UNCHANGED <<cfg, env, mem, file, call, alive>>

\* reset_installed_vcs (used by the tests).
ResetInstalledVcs ==
    /\ Idle
    /\ installedRun' = None
    /\ UNCHANGED <<cfg, env, mem, file, call, alive>>

Next ==
    \/ \E e \in Envs :
         \/ SetupDefaultVersionFails(e) \/ SetupReturnsNone(e)
         \/ SetupUserScript(e) \/ SetupFindScript(e) \/ MsvcExists(e)
    \/ TryNoBatArch \/ TryNoBatFileName \/ TryNotInstalled
    \/ TryVcScript \/ TrySdkScript \/ TryNoScript \/ FinishFind
    \/ ResetInstalledVcs
    \/ Restart

Spec == Init /\ [][Next]_vars

-----------------------------------------------------------------------------
(* Properties.                                                             *)

EnvFields == {"target", "version", "setupRun", "applied", "outcome"}
CallFields == {"e", "ver", "host", "req", "tries", "i", "d"}

\* Type invariant.
TypeOK ==
    /\ cfg \in [Envs -> Settings]
    /\ DOMAIN env = Envs
    /\ \A e \in Envs :
         /\ DOMAIN env[e] = EnvFields
         /\ env[e].outcome \in Outcomes
         /\ env[e].setupRun \in BOOLEAN
    /\ installedRun \in {None} \cup [BOOLEAN -> SUBSET VCVerSet]
    /\ alive \in BOOLEAN
    /\ call = NoCall \/ (DOMAIN call = CallFields /\ call.e \in Envs)

\* A cache holds, for each key, exactly what that script printed, and
\* never the output of a script that reported the error line.
SoundCache(m) ==
    \A k \in DOMAIN m : m[k] = ParseOutput(k[1], k[2]) /\ k \notin ScriptFails

\* script_env's caches, in memory and in the persistent file, across every
\* process that read and rewrote the file, only hold the bindings the keyed
\* script really produced, and no failed run (vc.py script_env).
CacheSound == SoundCache(file) /\ (mem # None => SoundCache(mem))

\* The Environment's settings took msvc_find_valid_batch_script's path.
ViaFindScript(e) ==
    /\ env[e].setupRun /\ env[e].version # None
    /\ cfg[e].userScript = None /\ cfg[e].useScript

\* The bindings that configure Environment e's final TARGET_ARCH.
FittingBindings(e) ==
    LET h  == GetHostTarget(cfg[e].host, cfg[e].target).host
        tp == env[e].target
        v  == env[e].version
    IN  (IF /\ TableHas(BAT_ARCH_PAIRS, h, tp)
            /\ VerNum(v) <= 140 \/ TableHas(BAT_ARCH_GT14_PAIRS, h, tp)
         THEN {ParseOutput(VcScriptPath(v, h, tp),
                           VcArg(VerNum(v) <= 140, TableGet(BAT_ARCH_PAIRS, h, tp),
                                 v, cfg[e].uwp))}
         ELSE {})
        \cup {ParseOutput(SdkScriptPath(v, h, tp), None)}

\* After msvc_find_valid_batch_script, the TARGET_ARCH left in the
\* Environment agrees with what was applied to env['ENV']: the requested
\* value when no script worked, else the (possibly pseudo) target whose
\* script produced the bindings, whichever of the earlier targets failed
\* and whatever the cache held.
TargetArchConsistent ==
    \A e \in Envs :
        ViaFindScript(e) =>
            IF env[e].applied = None THEN env[e].target = cfg[e].target
            ELSE env[e].applied \in FittingBindings(e)

\* m2 holds every entry of m1, unchanged.
Extends(m2, m1) == \A k \in DOMAIN m1 : k \in DOMAIN m2 /\ m2[k] = m1[k]

\* Once loaded, the in-memory cache holds every entry of the file: the
\* file is read before the first write and every write is of the memory.
MemHoldsFile == ConfigCache /\ mem # None => Extends(mem, file)

\* Within one process the persistent cache file only grows: an entry once
\* written is never dropped or changed (script_env loads the file before
\* its first write, and rewrites it whole).
FileOnlyGrows ==
    [][Extends(file', file)]_file

-----------------------------------------------------------------------------
(* What the spec says of the program and the code does not do.  Each is   *)
(* checked by a run that expects a violation.                              *)

\* Spec 4.6: a (host, target) pair missing from a lookup table "must
\* surface as a catchable condition, not a crash".  No Environment's
\* msvc_setup_env ends in KeyError from _HOST_TARGET_ARCH_TO_BAT_ARCH or
\* _HOST_TARGET_TO_BAT_ARCH_GT14 (msvc_find_valid_batch_script, find_batch_file).
LookupFailuresCaught == \A e \in Envs : env[e].outcome # "KeyError"

\* The SDK script find_batch_file returns for target tp would run cleanly.
SdkWorks(v, rel, h, tp) ==
    LET fb == FindBatchFile(v, rel, h, tp)
    IN  /\ TableHas(BAT_ARCH_PAIRS, h, tp)
        /\ fb.err = None
        /\ fb.sdk # None
        /\ <<fb.sdk, None>> \notin ScriptFails

\* Spec 4.6 and 7: the caller may "fall back to the SDK script when the
\* main script's execution fails".  No Environment leaves
\* msvc_find_valid_batch_script without bindings while the SDK script of
\* one of the targets it tried would have given them.
SdkFallbackUsed ==
    \A e \in Envs :
        ViaFindScript(e) /\ env[e].applied = None =>
            LET ht == GetHostTarget(cfg[e].host, cfg[e].target)
                T  == TryTargetArchs(cfg[e].target, ht.target)
            IN  \A i \in 1..Len(T) :
                    ~SdkWorks(env[e].version, MsvcIsRelease(cfg[e]), ht.host, T[i])

\* Spec 4.7 with 4.4: with no MSVC_VERSION, get_default_version picks the
\* first installed version whose compiler exists for this Environment's
\* host and target (the installed list is built from the Environment's
\* TARGET_ARCH).
DefaultVersionIsBest ==
    \A e \in Envs :
        LET ht == GetHostTarget(cfg[e].host, cfg[e].target)
            L  == InstalledVcs(ht)[MsvcIsRelease(cfg[e])]
        IN  /\ env[e].setupRun /\ cfg[e].msvc = None /\ cfg[e].msvs = None
            /\ ht.err = None
            => env[e].version = IF L = {} THEN None ELSE FirstInstalled(L)

=============================================================================
