----------------------------- MODULE MC_VSWhere -----------------------------
(* vswhere lists up to three of seven installations, in any order: two    *)
(* Enterprise 2019 and a BuildTools 2019 (same key, equal and lower rank), *)
(* a Community 2022 preview, an Express 2017, a TeamExplorer 2019 (not a   *)
(* candidate component) and a Professional 2019 without a VC directory;    *)
(* or one of two lists with a VS 18 instance; or nothing.                  *)
EXTENDS VSWhere, SequencesExt

Inst(n, c, inst, m, pre) ==
    [name |-> n, component |-> c, install |-> inst, major |-> m, pre |-> pre]

iEnt16 == Inst("ent16", "Enterprise", "ok", 16, FALSE)
iEnt16b == Inst("ent16b", "Enterprise", "ok", 16, FALSE)
iBT16 == Inst("bt16", "BuildTools", "ok", 16, FALSE)
iCom17pre == Inst("com17pre", "Community", "ok", 17, TRUE)
iExp15 == Inst("exp15", "WDExpress", "ok", 15, FALSE)
iTeam16 == Inst("team16", "TeamExplorer", "ok", 16, FALSE)
iNoVC16 == Inst("pro16", "Professional", "noVC", 16, FALSE)
iCom18 == Inst("com18", "Community", "ok", 18, FALSE)

MCBase == {iEnt16, iEnt16b, iBT16, iCom17pre, iExp15, iTeam16, iNoVC16}
MCInstances == MCBase \cup {iCom18}
MCVswOrders ==
    {None, <<iCom18>>, <<iBT16, iCom18>>}
    \cup UNION {SetToSeqs(S) : S \in {S \in SUBSET MCBase : Cardinality(S) <= 3}}

=============================================================================
