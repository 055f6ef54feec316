---------------------------- MODULE MC_HostPaths ----------------------------
(* One group list searched for vswhere.exe.  s1 and s3 are two spellings  *)
(* of the same file c1; s2 is blank; s4 is a wildcard pattern whose hits   *)
(* are h1 (c1 again, reached through another spelling), h2 (a directory)   *)
(* and h3 (the file c2); s5 names a file that does not exist; n1 is not a  *)
(* str.                                                                    *)
EXTENDS HostPaths

CONSTANTS s1, s2, s3, s4, s5, n1, c1, c2, cm, g, h1, h2, h3

MCPathOf == [s \in {s1, s3, s4, s5} |->
               CASE s \in {s1, s3} -> c1 [] s = s4 -> g [] OTHER -> cm]
MCGlobOf == [c \in {g} |-> <<h1, h2, h3>>]
MCRealOf == [p \in {c1, c2, cm, g, h1, h2, h3} |->
               CASE p = h1 -> c1 [] p = h3 -> c2 [] OTHER -> p]
MCDefaults == <<s1, s5, s4>>
MCInputs == {s3, <<s2, s4>>, <<s1, <<n1>>>>, <<<<s3>>, s1, s2>>}

=============================================================================
