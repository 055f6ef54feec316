---------------------------- MODULE MC_MSVCSetup ----------------------------
(***************************************************************************)
(* A 64-bit Windows machine with VS2019 (14.2), VS2017 Express (14.1Exp)  *)
(* and a VS2022 preview (14.3) known to vswhere, VS2015 (14.0) in the     *)
(* registry, and a stale VS2013 (12.0) registry entry.  VS2015 has no     *)
(* amd64-hosted arm tools: vcvarsall.bat prints the error line for both   *)
(* arm arguments, while a Windows SDK ships an amd64->arm script.         *)
(***************************************************************************)
EXTENDS MSVCSetup, TLC

CONSTANTS e1, e2

MCEnvs == {e1, e2}

V142 == Rel(14,2)
V141X == Exp(14,1)
V143 == Rel(14,3)
V140 == Rel(14,0)

Base == [host |-> None, target |-> None, msvc |-> None, msvs |-> None,
         useScript |-> TRUE, userScript |-> None, preview |-> FALSE, uwp |-> FALSE]

\* The settings an Environment is created with.
MCSettings ==
    { Base,
      [Base EXCEPT !.target = "arm"],
      [Base EXCEPT !.host = "x86", !.target = "x86", !.msvc = Rel(99,9)],
      [Base EXCEPT !.target = "x86_64", !.msvc = V141X, !.uwp = TRUE],
      [Base EXCEPT !.target = "x86", !.msvc = V140],
      [Base EXCEPT !.userScript = "setup.bat"],
      [Base EXCEPT !.userScript = "missing.bat"],
      [Base EXCEPT !.userScript = "fail.bat"],
      [Base EXCEPT !.host = "x86", !.target = "ia64", !.msvc = V142],
      [Base EXCEPT !.target = "arm", !.msvc = V142],
      [Base EXCEPT !.useScript = FALSE],
      [Base EXCEPT !.msvc = V142, !.msvs = V140],
      [Base EXCEPT !.preview = TRUE],
      [Base EXCEPT !.host = "sparc"] }

MCRegPdir ==
    [v \in RegistryVCVer |-> CASE v = V140 -> "ok"
                               [] v = Rel(12,0) -> "stale"
                               [] OTHER -> "absent"]

MCVswPdir ==
    [p \in VSWHERE_SUPPORTED_VCVER \X BOOLEAN |->
        IF p \in {<<V142, TRUE>>, <<V141X, TRUE>>, <<V143, FALSE>>}
        THEN "ok" ELSE "absent"]

MCClPairs ==
    [v \in VCVerSet |->
        CASE v = V142  -> {<<"amd64", "amd64">>, <<"amd64", "x86">>,
                           <<"x86", "x86">>, <<"x86", "amd64">>}
          [] v = V141X -> {<<"x86", "x86">>, <<"x86", "amd64">>}
          [] v = V143  -> {<<"amd64", "amd64">>}
          [] v = V140  -> {<<"x86", "x86">>, <<"x86", "amd64">>,
                           <<"amd64", "amd64">>, <<"x86", "arm">>}
          [] OTHER -> {}]

MCBatFiles ==
    { <<V142, "vcvars64.bat">>, <<V142, "vcvarsamd64_x86.bat">>,
      <<V142, "vcvars32.bat">>, <<V142, "vcvarsx86_amd64.bat">>,
      <<V141X, "vcvars32.bat">>, <<V141X, "vcvarsx86_amd64.bat">>,
      <<V143, "vcvars64.bat">>, <<V140, "vcvarsall.bat">> }

MCSdkScripts == {<<V140, "amd64", "arm">>, <<V142, "amd64", "arm">>}

MCScriptFails ==
    { <<<<"vc", V140, "vcvarsall.bat">>, "amd64_arm">>,
      <<<<"vc", V140, "vcvarsall.bat">>, "x86_arm">>,
      <<<<"user", "fail.bat">>, NoArgs>> }

Symm == Permutations(MCEnvs)
=============================================================================
