------------------------- MODULE MC_ScriptEnvCache -------------------------
(* Two SCons processes sharing the cache file; two keys, for the same     *)
(* vcvarsall.bat with two argument strings (so that a key built from the *)
(* script alone would collide), and two possible bindings.                 *)
EXTENDS ScriptEnvCache

MCKeys == {<<"vcvarsall.bat", "amd64">>, <<"vcvarsall.bat", "x86">>}

=============================================================================
