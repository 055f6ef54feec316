------------------------------- MODULE VSWhere -------------------------------
(***************************************************************************)
(* The vswhere query of vc.py: _get_vswhere_msvc_dict turns the JSON list  *)
(* that `vswhere -all -products * -prerelease -format json` prints into a  *)
(* dict (vc_version_scons, release) -> instances, best first, and keeps it *)
(* in the process-wide __VSWHERE_VCS_RUN; find_vc_pdir_vswhere answers     *)
(* with the VC directory of the first instance of the key;                 *)
(* reset_installed_vcs clears the memo.                                    *)
(*                                                                         *)
(* An instance of the JSON is a record: its name (its installation path),  *)
(* the component at the end of productId (None when productId is missing), *)
(* install: "ok", or the first of the path checks that fails ("noPath":    *)
(* installationPath missing, "noDir": it does not exist, "noVC": it has no *)
(* VC directory), the major of installationVersion (None when missing) and *)
(* isPrerelease.                                                           *)
(***************************************************************************)
EXTENDS VCTables, FiniteSets, Integers

CONSTANTS
    None,
    Instances,   \* the instances vswhere may list
    VswOrders    \* the JSON lists vswhere may print: sequences of Instances, or None

\* vswhere prints one JSON object per installation, so a list holds no
\* instance twice; isPrerelease is read as a Boolean (vc.py:596).  None is
\* Python's None, not one of the exception names.
ASSUME VSWhereAssumption ==
    /\ \A js \in VswOrders :
          \/ js = None
          \/ /\ js \in Seq(Instances)
             /\ \A i, j \in DOMAIN js : js[i] = js[j] => i = j
    /\ \A r \in Instances : r.pre \in BOOLEAN
    /\ None \notin {"KeyError", "UnsupportedVersion"}

VARIABLES
    json,        \* what _vswhere_query_json returns in this run (None: no vswhere,
                 \* no output, or a JSON decode error)
    vswhereRun,  \* __VSWHERE_VCS_RUN: None or the dict
    outcome      \* the last find_vc_pdir_vswhere answer or exception

vvars == <<json, vswhereRun, outcome>>

-----------------------------------------------------------------------------
\* _VSWHERE_VSMAJOR_TO_VCVERSION
VSMajors == {15, 16, 17}
VSMajorToVcVersion(m) == CASE m = 17 -> Rel(14, 3) [] m = 16 -> Rel(14, 2)
                           [] OTHER -> Rel(14, 1)

\* _VSWHERE_COMPONENTID_CANDIDATES and _RANKING; only WDExpress has the
\* scons suffix "Exp".
ComponentRanking ==
    [Enterprise |-> 140, Professional |-> 130, Community |-> 120,
     BuildTools |-> 110, WDExpress |-> 100]
ComponentCandidates == DOMAIN ComponentRanking

\* The MSVC_INSTANCE built from a JSON instance that passed every check.
MsvcInstance(r) ==
    LET v == VSMajorToVcVersion(r.major)
    IN  [path |-> r.name, version |-> v,
         numeric |-> VerNum(v),
         scons |-> IF r.component = "WDExpress" THEN Exp(v[1], v[2]) ELSE v,
         release |-> ~r.pre,
         rank |-> ComponentRanking[r.component]]

\* The checks of the loop over the JSON, in order: "skip" (continue),
\* "KeyError" (line 578, reached also after the "ignore vs_major" debug
\* message), or "keep".
Verdict(r) ==
    CASE r.component = None -> "skip"
      [] r.install # "ok" -> "skip"
      [] r.major = None -> "skip"
      [] r.major \notin VSMajors -> "KeyError"
      [] r.component \notin ComponentCandidates -> "skip"
      [] OTHER -> "keep"

\* Mutant: the ranking compared in ascending order.
InstanceOrderAscendingRank(a, b) ==
    IF a.numeric # b.numeric THEN (IF a.numeric < b.numeric THEN 1 ELSE -1)
    ELSE IF a.release # b.release THEN (IF ~a.release THEN 1 ELSE -1)
    ELSE IF a.rank # b.rank THEN (IF a.rank > b.rank THEN 1 ELSE -1)
    ELSE 0

\* msvc_instances_default_order: version, release (release first), then
\* component rank, each descending.
InstanceOrder(a, b) ==
    IF a.numeric # b.numeric THEN (IF a.numeric < b.numeric THEN 1 ELSE -1)
    ELSE IF a.release # b.release THEN (IF ~a.release THEN 1 ELSE -1)
    ELSE IF a.rank # b.rank THEN (IF a.rank < b.rank THEN 1 ELSE -1)
    ELSE 0

\* sorted(s, key=cmp_to_key(InstanceOrder)): Python's sort is stable, so
\* s[i] goes to the place given by the elements that sort before it and
\* the equal ones that come before it in s.
SortedInstances(s) ==
    LET before(j, i) == InstanceOrder(s[j], s[i]) < 0 \/
                        (InstanceOrder(s[j], s[i]) = 0 /\ j < i)
        place(i) == Cardinality({j \in DOMAIN s : before(j, i)}) + 1
    IN  [k \in DOMAIN s |-> s[CHOOSE i \in DOMAIN s : place(i) = k]]

\* The elements of s at the positions I, in their order: the list a loop
\* builds that appends the elements it keeps (msvc_instances.append, and
\* setdefault(key, []).append for one key).  The element at position i
\* goes to the place that counts the kept positions up to i.
SubSeqAt(s, I) ==
    LET place(i) == Cardinality({j \in I : j <= i})
    IN  [k \in 1..Cardinality(I) |-> s[CHOOSE i \in I : place(i) = k]]

\* _get_vswhere_msvc_dict without its memo: KeyError, or the dict built by
\* setdefault(key, []).append over the sorted instances.
BuildVswhereDict(js) ==
    IF js = None THEN [err |-> None, dict |-> [k \in {} |-> <<>>]]
    ELSE IF \E i \in DOMAIN js : Verdict(js[i]) = "KeyError"
    THEN [err |-> "KeyError", dict |-> None]
    ELSE LET kept == SubSeqAt(js, {i \in DOMAIN js : Verdict(js[i]) = "keep"})
             sorted == SortedInstances([i \in DOMAIN kept |-> MsvcInstance(kept[i])])
             keys == {<<sorted[i].scons, sorted[i].release>> : i \in DOMAIN sorted}
         IN  [err |-> None,
              dict |-> [k \in keys |->
                          SubSeqAt(sorted, {i \in DOMAIN sorted :
                                              <<sorted[i].scons, sorted[i].release>> = k})]]

-----------------------------------------------------------------------------
Init ==
    /\ json \in VswOrders
    /\ vswhereRun = None
    /\ outcome = None

\* find_vc_pdir_vswhere(msvc_version) with _msvc_isrelease = rel.
FindVcPdirVswhere(v, rel) ==
    IF v \notin VSWHERE_SUPPORTED_VCVER
    THEN /\ outcome' = [ver |-> v, rel |-> rel, err |-> "UnsupportedVersion", path |-> None]
         /\ UNCHANGED <<json, vswhereRun>>
    ELSE LET d == IF vswhereRun # None THEN [err |-> None, dict |-> vswhereRun]
                  ELSE BuildVswhereDict(json)
             key == <<v, rel>>
         IN  IF d.err # None
             THEN /\ outcome' = [ver |-> v, rel |-> rel, err |-> d.err, path |-> None]
                  /\ UNCHANGED <<json, vswhereRun>>
             ELSE /\ vswhereRun' = d.dict
                  /\ outcome' = [ver |-> v, rel |-> rel, err |-> None,
                                 path |-> IF key \in DOMAIN d.dict
                                          THEN d.dict[key][1].path ELSE None]
                  /\ UNCHANGED json

\* reset_installed_vcs clears __VSWHERE_VCS_RUN.
ResetVswhereRun ==
    /\ vswhereRun' = None
    /\ UNCHANGED <<json, outcome>>

Next ==
    \/ \E v \in VSWHERE_SUPPORTED_VCVER \cup {Rel(14, 0)}, rel \in BOOLEAN :
         FindVcPdirVswhere(v, rel)
    \/ ResetVswhereRun

Spec == Init /\ [][Next]_vvars

-----------------------------------------------------------------------------
(* Properties.                                                             *)

\* The instances of the JSON list js that may answer for version v and
\* release rel: they pass every check and have that scons version.
Eligible(js, v, rel) ==
    IF js = None THEN {} ELSE
    {js[i] : i \in {i \in DOMAIN js : /\ Verdict(js[i]) = "keep"
                                     /\ MsvcInstance(js[i]).scons = v
                                     /\ MsvcInstance(js[i]).release = rel}}

\* The instance find_vc_pdir_vswhere is meant to pick ("preferred ranking:
\* Enterprise, Professional, Community, BuildTools, Express", vc.py
\* 327-332): the eligible one with the highest component rank, the first
\* listed among equals.
Preferred(js, v, rel, r) ==
    /\ r \in Eligible(js, v, rel)
    /\ \A r2 \in Eligible(js, v, rel) :
         ComponentRanking[r2.component] <= ComponentRanking[r.component]
    /\ \A i, j \in DOMAIN js :
         js[i] = r /\ j < i /\ js[j] \in Eligible(js, v, rel) =>
            ComponentRanking[js[j].component] < ComponentRanking[r.component]

\* Whatever vswhere lists and in whatever order, and whether the answer
\* comes from the memo or from a fresh query, find_vc_pdir_vswhere answers
\* with the preferred installation of the version and release asked for,
\* and None only when there is none (_get_vswhere_msvc_dict's sort and
\* setdefault lists, find_vc_pdir_vswhere's msvc_instance_list[0]).
BestInstanceChosen ==
    outcome # None /\ outcome.err = None =>
        IF Eligible(json, outcome.ver, outcome.rel) = {}
        THEN outcome.path = None
        ELSE \E r \in Eligible(json, outcome.ver, outcome.rel) :
                r.name = outcome.path /\ Preferred(json, outcome.ver, outcome.rel, r)

\* The loop says "ignore vs_major" for an installationVersion whose major
\* is not in _VSWHERE_VSMAJOR_TO_VCVERSION (vc.py:575-576): such an
\* instance is ignored, and the query does not raise.
UnknownMajorIgnored == outcome # None => outcome.err # "KeyError"

=============================================================================
