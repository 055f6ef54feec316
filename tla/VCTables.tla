------------------------------- MODULE VCTables -------------------------------
(***************************************************************************)
(* The static tables of SCons/Tool/MSCommon/vc.py and the pure helpers    *)
(* that read them.                                                         *)
(*                                                                         *)
(* A version token such as "14.1Exp" is represented by what the code       *)
(* reads out of it: get_msvc_version_numeric strips every character that  *)
(* is not a digit or a dot, msvc_version_to_maj_min splits the rest at    *)
(* the dot.  A token is therefore the triple <<major, minor, suffix>>,    *)
(* and the float the code compares ("14.1" -> 14.1) is 10*major + minor,  *)
(* exact because every minor in the tables is a single digit.             *)
(* Architecture names stay strings, as in the code.                        *)
(***************************************************************************)
EXTENDS Naturals, Sequences

\* A version token <<major, minor, suffix>>.
Ver(maj, mn, sfx) == <<maj, mn, sfx>>

\* A release token ("14.1") and an Express token ("14.1Exp").
Rel(maj, mn) == Ver(maj, mn, "")
Exp(maj, mn) == Ver(maj, mn, "Exp")

\* get_msvc_version_numeric: the token without its edition suffix.
GetMsvcVersionNumeric(v) == <<v[1], v[2]>>

\* float(get_msvc_version_numeric(v)), scaled by ten.
VerNum(v) == 10 * v[1] + v[2]

\* _VCVER: every version this file knows, in order of preference.
VCVER == << Rel(14,3), Rel(14,2), Rel(14,1), Exp(14,1), Rel(14,0), Exp(14,0),
            Rel(12,0), Exp(12,0), Rel(11,0), Exp(11,0), Rel(10,0), Exp(10,0),
            Rel(9,0), Exp(9,0), Rel(8,0), Exp(8,0), Rel(7,1), Rel(7,0), Rel(6,0) >>

VCVerSet == {VCVER[i] : i \in 1..Len(VCVER)}

\* _VSWHERE_SUPPORTED_VCVER: the versions found through vswhere (2017+).
VSWHERE_SUPPORTED_VCVER ==
    {Rel(14,3), Rel(14,2), Rel(14,1), Exp(14,1)}

\* The versions of _VCVER_TO_PRODUCT_DIR that name a registry key.
RegistryVCVer == VCVerSet \ VSWHERE_SUPPORTED_VCVER

\* _VCVER_SETUP: every (version, release) pair get_installed_vcs probes;
\* a vswhere version is probed as release and as preview.
VCVER_SETUP ==
    {<<v, TRUE>> : v \in VCVerSet} \cup
    {<<v, FALSE>> : v \in VSWHERE_SUPPORTED_VCVER}

\* Position of a version in _VCVER; the lists get_installed_vcs builds
\* keep this order, so the first entry is the one of least position.
VerIndex(v) == CHOOSE i \in 1..Len(VCVER) : VCVER[i] = v

\* The first entry of an installed-version list, given as the set of its
\* entries (installed_vcs[0] in get_default_version).
FirstInstalled(S) == CHOOSE v \in S : \A w \in S : VerIndex(v) <= VerIndex(w)

-----------------------------------------------------------------------------
(* Architectures.                                                          *)

CanonArch == {"amd64", "x86", "ia64", "arm", "arm64"}

\* _ARCH_TO_CANONICAL as a set of (raw, canonical) pairs.
ARCH_TO_CANONICAL_PAIRS ==
    { <<"amd64", "amd64">>, <<"emt64", "amd64">>, <<"i386", "x86">>,
      <<"i486", "x86">>, <<"i586", "x86">>, <<"i686", "x86">>,
      <<"ia64", "ia64">>, <<"itanium", "ia64">>, <<"x86", "x86">>,
      <<"x86_64", "amd64">>, <<"arm", "arm">>, <<"arm64", "arm64">>,
      <<"aarch64", "arm64">> }

ArchKnown == {p[1] : p \in ARCH_TO_CANONICAL_PAIRS}

ARCH_TO_CANONICAL ==
    [a \in ArchKnown |-> CHOOSE c \in CanonArch :
                            <<a, c>> \in ARCH_TO_CANONICAL_PAIRS]

\* str.lower() on the raw names the model uses: the upper-case ones are
\* listed, every other name is already lower case.
UPPER_TO_LOWER == {<<"AMD64", "amd64">>, <<"X86", "x86">>, <<"ARM64", "arm64">>}

Lower(s) == IF \E p \in UPPER_TO_LOWER : p[1] = s
            THEN (CHOOSE p \in UPPER_TO_LOWER : p[1] = s)[2]
            ELSE s

\* _HOST_TARGET_TO_CL_DIR_GREATER_THAN_14: the (host, target) pairs with a
\* Host*/target directory.  The table is injective and the fallback to
\* Hostx86 lands on the directory of ("x86", target), so the model names a
\* compiler directory by its canonical pair.
CL_DIR_GT14_PAIRS == {"amd64", "x86"} \X {"amd64", "x86", "arm", "arm64"}

\* _HOST_TARGET_TO_CL_DIR: the pairs with a bin/<subdir> (injective too).
CL_DIR_PAIRS == CL_DIR_GT14_PAIRS \cup {<<"arm", "arm">>}

\* _HOST_TARGET_TO_BAT_ARCH_GT14: (host, target) -> vcvars*.bat name.
BAT_ARCH_GT14_PAIRS ==
    { <<"amd64", "amd64", "vcvars64.bat">>,
      <<"amd64", "x86", "vcvarsamd64_x86.bat">>,
      <<"amd64", "x86_amd64", "vcvarsx86_amd64.bat">>,
      <<"amd64", "x86_x86", "vcvars32.bat">>,
      <<"amd64", "arm", "vcvarsamd64_arm.bat">>,
      <<"amd64", "x86_arm", "vcvarsx86_arm.bat">>,
      <<"amd64", "arm64", "vcvarsamd64_arm64.bat">>,
      <<"amd64", "x86_arm64", "vcvarsx86_arm64.bat">>,
      <<"x86", "x86", "vcvars32.bat">>,
      <<"x86", "amd64", "vcvarsx86_amd64.bat">>,
      <<"x86", "x86_amd64", "vcvarsx86_amd64.bat">>,
      <<"x86", "arm", "vcvarsx86_arm.bat">>,
      <<"x86", "x86_arm", "vcvarsx86_arm.bat">>,
      <<"x86", "arm64", "vcvarsx86_arm64.bat">>,
      <<"x86", "x86_arm64", "vcvarsx86_arm64.bat">> }

\* _HOST_TARGET_ARCH_TO_BAT_ARCH: (host, target) -> vcvarsall.bat argument.
BAT_ARCH_PAIRS ==
    { <<"x86", "x86", "x86">>, <<"x86", "amd64", "x86_amd64">>,
      <<"x86", "x86_amd64", "x86_amd64">>,
      <<"amd64", "x86_amd64", "x86_amd64">>,
      <<"amd64", "amd64", "amd64">>, <<"amd64", "x86", "x86">>,
      <<"amd64", "x86_x86", "x86">>, <<"x86", "ia64", "x86_ia64">>,
      <<"x86", "arm", "x86_arm">>, <<"x86", "arm64", "x86_arm64">>,
      <<"amd64", "arm", "amd64_arm">>, <<"amd64", "arm64", "amd64_arm64">>,
      <<"x86", "x86_arm", "x86_arm">>, <<"x86", "x86_arm64", "x86_arm64">>,
      <<"amd64", "x86_arm", "x86_arm">>,
      <<"amd64", "x86_arm64", "x86_arm64">> }

\* Domain and lookup of a (host, target) -> value table given as triples;
\* a lookup outside the domain is the KeyError of the dictionary.
TableHas(T, h, t) == \E r \in T : r[1] = h /\ r[2] = t
TableGet(T, h, t) == (CHOOSE r \in T : r[1] = h /\ r[2] = t)[3]

=============================================================================
