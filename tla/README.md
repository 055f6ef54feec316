# Verification of SCons' MSVC configuration (`src/SCons/Tool/MSCommon/vc.py`) and host path groups (`src/SCons/Host/`)

This directory holds TLA+ models of the MSVC detection and set-up code in
`src/SCons/Tool/MSCommon/vc.py` and of the search-path groups in
`src/SCons/Host/`, the TLC configurations that model-check them, and TLAPS
proofs.

## 1. The system

`src/` contains five program files and three test scripts:

| Part | Source | What it does |
|---|---|---|
| Version and architecture tables | `vc.py` 88-180, 241-355 | `_ARCH_TO_CANONICAL`, the host/target → compiler-directory tables, the host/target → batch-file tables, `_VCVER`, `_VCVER_SETUP`, `_VCVER_TO_PRODUCT_DIR` |
| Host/target resolution | `vc.py` 200-237 | `get_host_target`: `HOST_ARCH` (or the machine) and `TARGET_ARCH` (or the host), canonicalised, or `MSVCUnsupportedHostArch` / `MSVCUnsupportedTargetArch` |
| vswhere query | `vc.py` 395-686 | runs `vswhere.exe`, ranks instances per version, and memoizes the result in `__VSWHERE_VCS_RUN` |
| Installed-compiler detection | `vc.py` 688-978 | `find_vc_pdir` (registry or vswhere), `_check_cl_exists_in_vc_dir`, and `get_installed_vcs` with its process-wide memo `__INSTALLED_VCS_RUN`, cleared by `reset_installed_vcs` |
| Batch-script selection | `vc.py` 750-797, 1067-1184 | `find_batch_file`, and `msvc_find_valid_batch_script`, which loops over the target and its "pseudo targets" (`x86_amd64`, ...), sets `env['TARGET_ARCH']` to each, and runs the VC script or the SDK script |
| Script-environment cache | `vc.py` 998-1021 | `script_env`: an in-memory cache loaded from a persistent file (`SCONS_CACHE_MSVC_CONFIG`) on first use, and written back after every new entry |
| Set-up driver | `vc.py` 1023-1065, 1187-1241 | `get_default_version`, `msvc_setup_env_once` (`MSVC_SETUP_RUN`), `msvc_setup_env` (`MSVC_USE_SCRIPT`: a path, True or False), `msvc_exists` |
| Host path groups | `Host/hostpaths.py`, `Host/vswhere.py`, `Host/mingw.py` | named groups of default search paths, flattened and de-duplicated |
| gdc tool | `Tool/gdc.py` | sets D-compiler construction variables |
| Tests | `src/test/...` | test scripts |

How the parts interact:
- An SConstruct creates construction environments (Environments). For each one, `msvc_setup_env_once` calls `msvc_setup_env`.
- `msvc_setup_env` asks `get_default_version` for a version. With no `MSVC_VERSION`, that calls `get_installed_vcs`, which probes every version through `find_vc_pdir` and `_check_cl_exists_in_vc_dir`. It uses the host and target of the Environment that asked, and memoizes the answer for the whole process.
- `msvc_find_valid_batch_script` then tries each target. `find_batch_file` locates a VC script and an SDK script, and `script_env` runs them or answers from its cache.
- Every exception that is not caught ends the SConstruct. A new SCons process starts with empty memos, but with the same cache file.

Behaviours that are hard to test:
- **Order of Environments:** the installed-version memo is filled by whichever Environment asks first.
- **Pseudo targets:** the loop leaves a pseudo target in `TARGET_ARCH` on success.
- **Failing scripts:** their output must never be cached.
- **Restarts:** a process may be stopped between any two script runs, and the next one reads the file.
- **Lookup failures:** table lookups raise `KeyError` only on the second or third target of the loop.

## 2. Modules

| Module | Models | Notes |
|---|---|---|
| `VCTables.tla` | the static tables and the pure helpers of `vc.py` | no state; version tokens are `<<major, minor, suffix>>`; `VerNum` is the float the code compares, times ten (exact, since every minor is one digit) |
| `MSVCSetup.tla` | one SCons process configuring its Environments, and process restarts | the core specification |
| `MC_MSVCSetup.tla` | the TLC instance: two Environments, 14 settings, one installation | |
| `MSVCSetupProofs.tla` | TLAPS proofs about `MSVCSetup`: the type, the caches | |
| `TargetArchProofs.tla` | TLAPS proofs about `MSVCSetup`: `TargetArchConsistent` | extends `MSVCSetupProofs` |
| `ScriptEnvCache.tla` | `script_env` (`vc.py` 998-1021) in several SCons processes running at once and sharing the cache file, while Visual Studio may be updated | a call is split where it waits for the script |
| `ScriptEnvIdeal.tla` | what `script_env` promises: the caches hidden, a call answers what the script prints today | the abstract specification `ScriptEnvCache` refines |
| `MC_ScriptEnvCache.tla` | two processes, two keys (`vcvarsall.bat` with `amd64` and `x86`), two outputs plus the error line | |
| `ScriptEnvCacheProofs.tla` | TLAPS proofs: the refinement, `AnswersPrinted` and `TypeOK` | |
| `HostPaths.tla` | `hostpaths.py`: `path_group_push`, `_path_group_pop`, `get_path_group_paths` and their helpers; the instances in `vswhere.py` and `mingw.py` | loops as `FoldLeft` with an early-return flag |
| `MC_HostPaths.tla` | five strings, one non-string, links, a glob with three hits | |
| `VSWhere.tla` | `_get_vswhere_msvc_dict`, `find_vc_pdir_vswhere`, the `__VSWHERE_VCS_RUN` memo and its reset (`vc.py` 258-348, 469-686, 973-978) | the JSON is a sequence of instance records |
| `MC_VSWhere.tla` | eight instances and every order of up to three of them | |
| `VSWhereProofs.tla` | TLAPS proofs: `SortedInstances` is a stable sort by the comparator, for lists of any length; `BestInstanceChosen` | |

### MSVCSetup: state

| Variable | Code |
|---|---|
| `cfg[e]` | the construction variables Environment `e` was created with (`HOST_ARCH`, `TARGET_ARCH`, `MSVC_VERSION`, `MSVS_VERSION`, `MSVC_USE_SCRIPT`, `MSVC_PREVIEW`, `MSVC_UWP_APP`) |
| `env[e]` | what set-up writes back: `TARGET_ARCH`, `MSVC_VERSION`, `MSVC_SETUP_RUN`, the bindings prepended to `env['ENV']`, and the exception that ended the process, if any |
| `installedRun` | `__INSTALLED_VCS_RUN` |
| `mem` | `script_env_cache` |
| `file` | the persistent cache file |
| `call` | the state of a `msvc_find_valid_batch_script` loop in progress: the target list, the index and `d`; `NoCall` (`<<>>`, a function without fields) when no loop runs |
| `alive` | FALSE once an exception escaped |

The installation is a set of CONSTANTS:
- the registry verdict per version (`RegPdir`: ok, stale or absent);
- the vswhere answer (`VswPdir`);
- the host/target pairs whose `cl.exe` exists (`ClPairs`), and `NoToolsetFile`;
- the batch files and SDK scripts on disk;
- the scripts whose output starts with the error line (`ScriptFails`);
- the existing `MSVC_USE_SCRIPT` paths;
- whether the cache file is enabled.

### MSVCSetup: actions

There is one action per branch of the code:

| Action(s) | Code |
|---|---|
| `SetupDefaultVersionFails`, `SetupReturnsNone`, `SetupUserScript` (3 outcomes), `SetupFindScript` | `msvc_setup_env` up to the loop |
| `TryNoBatArch`, `TryNoBatFileName`, `TryNotInstalled`, `TryVcScript`, `TrySdkScript`, `TryNoScript` | one iteration of the loop, from `env['TARGET_ARCH'] = tp` to `continue` or `break` |
| `FinishFind` | restoring `TARGET_ARCH` and applying the bindings |
| `MsvcExists`, `ResetInstalledVcs` | the other entry points |
| `Restart` | a new process on the same SConstruct |

`ScriptEnv` is the whole of `script_env`:
- it loads the file when `mem` is None;
- a hit returns the cached bindings;
- a run that prints the error line raises and caches nothing;
- otherwise it stores the bindings and writes the file.

An exception (`Raise`) ends the process. `common.read/write_script_env_cache` and `common.parse_output` are not under `src/`, so they are modelled from the spec.

### ScriptEnvCache: state and actions

| Variable | Code |
|---|---|
| `file` | the cache file, key → bindings |
| `mem[p]` | process `p`'s `script_env_cache`, None until loaded |
| `running[p]` | the key whose script `p`'s `common.get_output` waits for |
| `answer[p]` | what `p`'s last call returned or raised |
| `out[k]` | what the script of `k` prints today (the installation) |
| `changes` | installation changes so far, bounded by `MaxChanges` |
| `printed` | history variable: every answer a run of a script gave |

The actions are:
- `CallHit`: lines 1003-1006 and 1021, a key found;
- `CallMiss`: lines 1003-1008, up to the start of the script;
- `ScriptFails`: lines 1012-1014;
- `ScriptStores`: lines 1016-1021, the store and the whole-file rewrite;
- `Exit`: a process ends at any point, a script still running or not;
- `Change`: Visual Studio is updated.

The refinement mapping to `ScriptEnvIdeal` hides `file`, `mem` and `printed`, and maps `running` to `calling`:
- `CallHit` is `Serve`;
- `CallMiss` is `Start`;
- `ScriptFails` and `ScriptStores` are `Complete`;
- `Exit` and `Change` are the same steps in both specifications.

**Fairness.** `Fairness` is weak fairness of each process's script exit (`ScriptFails \/ ScriptStores`). `script_env` sets no timeout on `common.get_output`, so this is exactly the assumption that the batch files terminate. `ScriptEnvIdeal` asks the same of `Complete`. Nothing else is fair: a process need not call again.

### HostPaths

State:
- `groups`: the group list;
- `pushes`: the pushes so far, bounded by `MaxPushes`;
- `outcome`: what the last call returned or raised.

Actions:
- `Init` is the push made when the module is imported;
- `PathGroupPush` flattens first, raises `HostPathsError` on a non-str item, and otherwise inserts at the front or the back;
- `PathGroupPop` pops, raising `IndexError` on an empty list;
- `Query(findAll, filter)` is `get_path_group_paths`.

What `os.path` and `glob` do to a string is given by CONSTANTS:
- `PathOf`: strip, join, expand, `realpath`, `normcase`;
- `GlobOf`, `Exists`, `IsFile`;
- `RealOf`: the `realpath` of a glob hit;
- `Matching`: the paths the filter accepts.

`path_suffix` and `file_name` are folded into `PathOf`. `vswhere.py` and `mingw.py` are instances of this module: `Defaults` is their default list, and their `get_*_exe_paths` is `Query(TRUE, "none")`.

### VSWhere

One JSON instance is a record:
- `name`: the installation path;
- `component`: the last part of `productId`;
- `install`: the first failing path check, or "ok";
- `major`: the major of `installationVersion`;
- `pre`: `isPrerelease`.

`Verdict` applies the checks of the loop in the code's order, including the missing `continue` at line 578. `InstanceOrder` is the comparator, written as the code's chain of early returns, and `SortedInstances` is Python's stable `sorted` with it. `BuildVswhereDict` builds the `setdefault` lists. Both lists that a loop builds by appending the elements it keeps (`msvc_instances`, and the list of one key) are `SubSeqAt(s, I)`. This is the elements of `s` at the positions `I`, in their order: the element at position `i` goes to the place that counts the kept positions up to `i`. This closed form gives the same 5503 states as a `SelectSeq` filter, and TLAPS can reason about it (section 4).

`VSWhereAssumption` states what the constants must satisfy. A vswhere list holds no installation twice, since vswhere prints one object per installation. `isPrerelease` is a Boolean (`vc.py:596`). None is not one of the exception names. `MC_VSWhere` satisfies it: its lists are orders of distinct instances.

The variables:
- `json` is the output of `_vswhere_query_json` for this run;
- `vswhereRun` is `__VSWHERE_VCS_RUN`.

Actions:
- `FindVcPdirVswhere(v, rel)` ranges over the supported versions, an unsupported one, and both release values;
- `ResetVswhereRun` is the memo reset of `reset_installed_vcs`.

## 3. Runs

### MSVCSetup runs

All of these runs use `MC_MSVCSetup.tla`. Its instance has:
- host AMD64;
- two Environments, symmetric under permutation;
- 14 settings chosen so that every branch fires: default target; `arm`; `arm` with 14.2; x86 with an unknown version; x86→ia64 with 14.2; Express 14.1 with UWP; x86 with 14.0; three `MSVC_USE_SCRIPT` paths (good, missing, failing); `MSVC_USE_SCRIPT=False`; conflicting `MSVS_VERSION`; preview; an unknown host;
- the installation: 14.2, 14.1Exp and preview 14.3 through vswhere; 14.0 in the registry; a stale 12.0 key; a failing 14.0 `vcvarsall` for arm; 14.0 and 14.2 SDK scripts for arm.

Together the runs fire every action and every disjunct. The passing run reaches 4060 distinct states in about 5 s.

| Run | cfg | Expect | Checks |
|---|---|---|---|
| setup | `MC_MSVCSetup.cfg` | pass | `TypeOK`; `CacheSound` (both caches hold only what the keyed script printed, never a failed run, across restarts); `TargetArchConsistent` (after the loop, `TARGET_ARCH` is the requested value when nothing was applied, else a target whose script produced the applied bindings); `FileOnlyGrows` (action property: within a process no file entry is dropped or changed) |
| lookup_keyerror | `MC_LookupFailuresCaught.cfg` | violation | spec §4.6 says an unsupported pair must be catchable. The x86 host and x86 target pair reaches `('x86','x86_x86')` at `vc.py:1126`, and `('x86','ia64')` with 14.2 reaches `vc.py:779`; both raise an uncaught `KeyError` |
| sdk_fallback | `MC_SdkFallbackUsed.cfg` | violation | after the VC script fails, the loop `continue`s (`vc.py:1163`), so the SDK script that would work is never tried (spec §4.6, §7) |
| default_version | `MC_DefaultVersionIsBest.cfg` | violation | the installed-version memo built for an `arm` Environment gives a default-target Environment 14.0, although 14.2 has its compiler (`vc.py:943`) |

Each property of the passing run has a mutant, a plausible bug that TLC must catch:

| Property | Mutant |
|---|---|
| `CacheSound` | output cached before the error-line check |
| `TargetArchConsistent` | `TARGET_ARCH` always restored |
| `FileOnlyGrows` | an unreadable file read as empty |
| `TypeOK` | the memo reset to `[]` instead of None |

No fairness is assumed in `MSVCSetup`. All of its properties are safety properties, and the model may stop after any step (`Restart` is always enabled).

### Other runs

| Run | Module / cfg | Expect | Checks |
|---|---|---|---|
| cache_transparent | `MC_ScriptEnvCache` / `MC_ScriptEnvCache.cfg` (`MaxChanges = 0`) | pass, 1822 states | `CacheTransparent == Ideal!Spec`, fairness included. With every interleaving of two processes' loads, script exits, whole-file rewrites and process ends, the answers are those of the cache-free specification. The last writer wins at line 1019 and entries are lost, but no answer changes |
| cache_changes | `MC_ScriptEnvCache` / `MC_CacheChanges.cfg` (`MaxChanges = 1`) | pass, 17024 states | `TypeOK`; `AnswersPrinted`: every answer a process holds for a key was printed by a run of that key's script, even after an installation change |
| stale_cache | `MC_ScriptEnvCache` / `MC_StaleCache.cfg` (`MaxChanges = 1`) | violation | `CacheTransparent` fails. p1 caches the amd64 bindings, Visual Studio is updated, and p2 loads the file and answers with the old bindings. Spec §4.5/§5 says the entries derive from immutable script content; the code never invalidates them (`vc.py:1004`) |
| hostpaths | `MC_HostPaths` / `MC_HostPaths.cfg` (`MaxPushes = 3`) | pass, 2335 states | `TypeOK` (the group list holds lists of str only); `QueryFollowsReference`: every query returns `RefPaths`, a loop-free definition (the existing files the entries name, in search order, under their normalised names, first occurrences only, the first one alone without `find_all`) |
| str_filter | `MC_HostPaths` / `MC_StrFilter.cfg` | violation | `StrFilterAccepted`: a str `filter_regex` raises `NameError`, because `re` is never imported (`hostpaths.py:104`) |
| vswhere | `MC_VSWhere` / `MC_VSWhere.cfg` | pass, 5503 states | `BestInstanceChosen`: for any order of any three instances, and also for no output, fresh or memoised, the answer is the eligible instance of highest component rank (the first listed among equals), and None only when no instance is eligible |
| unknown_major | `MC_VSWhere` / `MC_UnknownMajor.cfg` | violation | `UnknownMajorIgnored`: a Visual Studio 18 instance makes every lookup raise `KeyError` (`vc.py:578`) |

Why these bounds are enough:
- **ScriptEnvCache.** Two processes and two keys are the least that lets one process overwrite another's entry and one key be looked up under the other. One installation change is enough to make the file stale.
- **HostPaths.** The instance gives:
  - two spellings of one file (`s1`, `s3`);
  - a blank string;
  - a glob with three hits: one a link to an entry's own file, one not a file, and one the filter rejects;
  - nested lists, and a list with a non-str item.

  Three pushes at either end place a duplicate in front of, inside and behind the defaults, and pops can empty the list.
- **VSWhere.** The instances cover:
  - two equal Enterprise 16 instances, for the stable tie-break;
  - BuildTools 16;
  - a prerelease Community 17;
  - Express 15;
  - a non-candidate component;
  - a missing VC directory;
  - a VS 18 instance, in the violation run only.

  Every subset of up to three instances appears in every order.

Mutants of the new properties:

| Property | Mutant |
|---|---|
| `CacheTransparent` | a failed run cached before the error check |
| `TypeOK` (ScriptEnvCache) | the first output line not checked |
| `AnswersPrinted` | the cache key built from the script alone |
| `TypeOK` (HostPaths) | the flattened values not type-checked |
| `QueryFollowsReference` | no de-duplication across lists |
| `BestInstanceChosen` | the component rank compared in ascending order |

A caution about what `QueryFollowsReference` does not show. `_process_pathlist` adds an entry's own path to `seen_path` before it filters the entry's glob hits (`hostpaths.py:135-145`), so a filter that rejects one spelling of a file and accepts another drops that file. The instance's filter treats every spelling of a file alike.

Its inner de-duplication of glob hits against `seen_path` (lines 148-156) is never observable. `_group_list_paths` removes the same duplicates afterwards, so a mutant without the inner check is not caught, and none is listed.

## 4. Proofs (TLAPS)

### `MSVCSetupProofs.tla`

They hold for every set of Environments, every settings and every installation. The assumptions are `SettingsAssumption` and `ConfigCacheAssumption`, which say that the flags are Boolean, and `NoneAssumption`, which says that None is not the name of one of the exceptions `find_batch_file` raises (Python's None is not an exception). TLC evaluates all three on every `MC_MSVCSetup` run.

- **`TypeCorrect: Spec => []TypeOK`.** `TypeOK` is inductive as it stands. The proof has one step per action, and relies on these lemmas:
  - `get_host_target`, `get_installed_vcs` and `get_default_version` raise only the architecture exceptions;
  - `get_installed_vcs` stores only versions of `_VCVER`;
  - the `EXCEPT` updates of an Environment keep its fields.
- **`CacheSoundness: Spec => []CacheSound`.** The proof uses the strengthening `CacheInv == CacheSound /\ MemHoldsFile`, where `MemHoldsFile` says that a loaded memory cache holds every entry of the file. TLC checked `CacheInv` on the instance before it was proved. The argument: `script_env` either leaves both caches alone, or adds a key that was absent, with the bindings of its own script, and writes that memory to the file (`ScriptEnvShape`, `PutSound`, `LoadedSound`).
- **`FileGrows: Spec => FileOnlyGrows`.** This follows from the same invariant. The file is only ever overwritten with a memory cache that already held it, plus one new key.

### `TargetArchProofs.tla`

Same assumptions as `MSVCSetupProofs`.

- **`TargetArchCorrect: Spec => []TargetArchConsistent`.** `TargetArchConsistent` speaks only of finished Environments, and what `FinishFind` writes comes from the loop in progress, so it is not inductive. The strengthening is `TAInv == TypeOK /\ CacheInv /\ LoopInv /\ TargetArchConsistent`; TLC checked `TAInv` on the `setup` instance (4060 states) before it was proved. `LoopInv` has two parts:
  - `IdleTargets`: while the process lives, an Environment that has not finished and that no loop is working on still has the `TARGET_ARCH` it was created with. This is why the host the loop computes is that of the settings.
  - `CallFacts`: the loop's Environment has not finished, its `MSVC_VERSION` is the loop's version, the loop's host and requested target are those of its settings, and bindings the loop found are in `FittingBindings` of the target just set.

  The argument, by lemmas:
  - `FindBatchFileOk`: `find_batch_file` returns only for a known version, only for a pair it has a batch file name for, and only the scripts of that version, host and target;
  - `ScriptEnvResult`: with sound caches (`CacheInv`), a `script_env` call that does not raise returns what its script prints, from the cache or from a run;
  - `IterStep`: one iteration sets `TARGET_ARCH` to the target it tries and keeps the loop's other fields;
  - `FinishStep`: `FinishFind` either restores the requested target (nothing found) or applies bindings that fit the current one;
  - `RaiseStep`, `FinishedStep`, `StartStep`, `RestartStep`, `FrameStep` cover the other actions. `LoopStep` combines them, one case per action.

Two model choices make these proofs possible and change no behaviour (the `setup` run reaches the same 4060 states):
- "no loop" is `NoCall == <<>>`, not None, so that a loop record provably differs from it;
- the arms of `FindVcPdir` and `FindBatchFile` are exclusive, as in the code's `if`/`elif` chains. TLC takes the first true arm of a `CASE`, but TLAPS reads a `CASE` with overlapping arms as a choice among them.

### `VSWhereProofs.tla`

`SortedInstances` does not run a sort. It gives each instance the place one more than the number of instances that must come before it (`Before`: the comparator puts them first, or they compare equal and vswhere listed them first). That formula is a sort only if the comparator is consistent and the places are a permutation. These results hold for lists of every length, for instances whose numeric version and rank are integers and whose release flag is Boolean (`Comparable`, which `MsvcInstanceComparable` proves of every record `_get_vswhere_msvc_dict` builds).

- `OrderAntisymmetric` and `OrderTransitive` show that `msvc_instances_default_order` returns -1, 0 or 1, is antisymmetric and is transitive.
- From these, `BeforeIsStrictTotalOrder` shows that `Before` is irreflexive, total on distinct positions and transitive.
- `PlaceRange` and `PlaceMonotone` show that the places lie in `1..n` and follow `Before`. The argument is a strict inclusion of the sets of predecessors, then `FS_Subset`.
- `PlaceBijection` follows. The places are injective, and `FS_Injection` turns an injection of `1..n` into itself into a surjection.
- **`SortedIsStableSort`.** `SortedInstances(s)` is `s` permuted by a bijection `p` of `1..n`, and `k1 < k2` implies `Before(s, p[k1], p[k2])`. The `CHOOSE` in `SortedInstances` picks the inverse of the places.
- **`SortedHeadIsBest`.** The head of a non-empty sorted list comes before every other instance.
- `CntOrder` and `SubSeqAtSpec` describe `SubSeqAt(s, I)` for any finite set `I` of positions. The place of a kept position is in `1..Cardinality(I)`, and places grow strictly with positions. `SubSeqIndex(I)` is the position taken at each place. It is onto `I` and order-preserving.
- `SortedIndex` combines `SubSeqAtSpec` with `SortedIsStableSort`. The sorted `msvc_instances` list is the list of `MsvcInstance(js[g[k]])`, for a map `g` onto the kept positions of the JSON. `k1 < k2` implies that the comparator puts entry `k1` first, or compares them equal with `g[k1] < g[k2]`.
- `DictShape` says what `_get_vswhere_msvc_dict` returns. Its keys are those of the sorted instances, and the list of a key is `SubSeqAt` of the sorted list at the positions with that key.
- `SameKeyCompare` holds for two kept instances with the same key (version and release). If the comparator puts one no later than the other, that one's component rank is at least the other's, and strictly greater if the comparator puts it strictly first.
- `DictAnswerIsBest` covers one fresh query. `msvc_instance_list[0]` of the key's list exists exactly when an instance is eligible. It is the first sorted instance with that key, so it has the highest rank. An eligible instance listed earlier in the JSON sorts after it only if its rank is strictly lower: with equal comparison, stability keeps the JSON order. This uses the assumption that the JSON lists each installation once. Otherwise two listings of one installation would be the same record at two positions, and Preferred's third conjunct would compare the chosen instance with itself.
- **`BestInstanceChosenHolds: Spec => []BestInstanceChosen`.** This holds for every list vswhere can print. `BestInstanceChosen` is not inductive, because an answer read from the memo is right only if the memo holds what a fresh query builds. `IInv` adds `MemoInv`: `__VSWHERE_VCS_RUN` is None, or it is the dictionary built from the current JSON, and that build did not raise. Each case of `NextIInv` follows one path through `find_vc_pdir_vswhere`:
  - the unsupported version raises;
  - an error from the build raises;
  - otherwise the dictionary read is the fresh one, and `DictAnswerIsBest` applies.
  
  `ResetVswhereRun` empties the memo. TLC checked `IInv` as an invariant of the `vswhere` run before the proof.

### `ScriptEnvCacheProofs.tla`

These hold for any sets of processes, keys and outputs, and any `MaxChanges`. The proofs use only `ScriptEnvCacheAssumption`: the flag is Boolean, `MaxChanges` is a natural number, and the error line is not an output.

- **`CacheRefinesIdeal: MaxChanges = 0 => (Spec => Ideal!SafetySpec)`.** With the installation fixed, the shared-file processes implement the safety part of `ScriptEnvIdeal`.
  - `IInv` is the inductive invariant. The file and every loaded cache are sound, meaning each entry equals what its script prints now. A process waiting on a script holds a loaded, sound cache.
  - `NextRefines` maps each step as listed in section 2. A hit is `Serve` because a sound cache returns `out[k]`, and that is not the error line.
  - The fairness part of `Ideal!Spec` (weak fairness of `Complete`) is checked by TLC only.
- **`AnswersPrintedHolds: Spec => []AnswersPrinted`.** This holds for any number of installation changes. `AnswersPrinted` is not inductive, because a hit answers with a cache entry. The strengthening `PInv` says that every entry of the file and of each loaded cache is in `printed`, which only grows.
- **`TypeCorrect: Spec => []TypeOK`.** This follows from `PInv`, which includes the types and bounds the change count by `MaxChanges`.

What stays with TLC:
- the violations;
- the fairness part of `CacheTransparent`;
- `HostPaths`' `TypeOK` and `QueryFollowsReference`. `HostPaths` declares RECURSIVE operators (the flattening of nested lists), and a module that reaches one cannot be proved about. What the flattening returns would also need induction over data;
- anything about liveness, which needs ENABLED and fairness and is out of TLAPS' reach.

The SMT backend cannot encode the empty string, so `""` is named (`Rel`, `NoArgs`) and kept opaque in the proofs.

## 5. Not modelled

- **`find_vc_pdir`'s registry probing.** The order of the keys, with Wow6432Node first and a stale key raising `MissingConfiguration` (`vc.py:747`), is abstracted to one verdict per version (`RegPdir`). The registry is an external database whose key order the code does not fix.
- **VSWhere and MSVCSetup are not composed.** `MSVCSetup` takes the vswhere answer as the constant `VswPdir`, and `VSWhere` checks how that answer is computed. Composing them would multiply the two state spaces and add no interaction, since the vswhere memo and `__INSTALLED_VCS_RUN` are only reset together.
- **`_vswhere_query_json` and `msvc_find_vswhere`.** They run a subprocess, decode JSON and search the file system. Their results are the constants `VswOrders` (None for no output or a decode error) and the path list.
- **Script output.** `common.get_output` is not under `src/`. A script's output is abstracted to its bindings or the error line that `vc.py:1013` tests for.
- **Empty bindings.** A script whose parsed bindings are `{}` is treated as found by the loop and then as not found (`vc.py:1181`). Bindings are non-empty in the model.
- **Paths and cache keys as strings.** `CacheKey` is the `(script, args)` pair, and the string `"{}--{}"` builds (`vc.py:1005`) is not represented. Two pairs would give one string only if a batch file path contained `--`.
- **Other parts:**
  - `gdc.py`, which only assigns construction variables;
  - the tests;
  - `is_host_target_supported`, which only warns;
  - the `find_program_path('cl')` warning;
  - logging.
- **Proofs left to TLC:** `HostPaths`' invariants, the violations and the liveness properties, see section 4.
