------------------------------ MODULE HostPaths ------------------------------
(***************************************************************************)
(* A group list of search paths (SCons/Host/hostpaths.py): path_group_push *)
(* flattens a string or a nested list of strings into one path list and    *)
(* puts it in front of (or behind) the others; get_path_group_paths        *)
(* expands, normalises and globs every entry, keeps the existing files     *)
(* that pass the filter, and de-duplicates them within each path list      *)
(* (_process_pathlist) and across the lists (_group_list_paths).           *)
(*                                                                         *)
(* Paths are model values.  What os.path does to them is given by         *)
(* CONSTANTS: PathOf (strip, join with the file name, expanduser,          *)
(* expandvars, realpath, normcase), GlobOf (the list glob.glob returns for *)
(* a pattern), RealOf (realpath and normcase of a glob hit).               *)
(***************************************************************************)
EXTENDS Naturals, SequencesExt, FiniteSets

CONSTANTS
    None,
    Strs,        \* str values callers pass
    Blank,       \* the str values that are empty once stripped
    NonStrs,     \* values of other types (numbers, None, ...)
    Paths,       \* normalised paths and glob hits
    PathOf,      \* PathOf[s] for s \in Strs \ Blank: the path searched for s
    Magic,       \* the paths that hold glob wildcards
    GlobOf,      \* GlobOf[c] for c \in Magic: what glob.glob(c) returns
    Exists,      \* the paths os.path.lexists accepts
    RealOf,      \* RealOf[h]: os.path.normcase(os.path.realpath(h))
    IsFile,      \* the paths os.path.isfile accepts
    Matching,    \* the paths the filter's match method accepts
    Defaults,    \* the default path list pushed when the module is imported
    Inputs,      \* the string_or_list values a caller may push
    MaxPushes    \* the number of pushes

ASSUME HostPathsAssumption ==
    /\ Blank \subseteq Strs
    /\ PathOf \in [Strs \ Blank -> Paths]
    /\ RealOf \in [Paths -> Paths]
    /\ MaxPushes \in Nat

VARIABLES
    groups,      \* the group list: a sequence of path lists
    pushes,      \* the pushes so far
    outcome      \* what the last call returned or raised

hvars == <<groups, pushes, outcome>>

\* The filter_regex values get_path_group_paths is given: None or "", a
\* str, an object with a callable match, or an object without one.
Filters == {"none", "str", "regex", "object"}

-----------------------------------------------------------------------------
(* _flatten_string_or_list(string_or_list): the errors (one per non-str    *)
(* value) and the gathered values, stripped strings without the empty      *)
(* ones.                                                                   *)
RECURSIVE FlattenStringOrList(_), FlattenItems(_)
FlattenStringOrList(x) ==
    CASE x \in Strs -> [errors |-> 0, gather |-> IF x \in Blank THEN <<>> ELSE <<x>>]
      [] x \in NonStrs -> [errors |-> 1, gather |-> <<x>>]
      [] OTHER -> FlattenItems(x)
FlattenItems(s) ==
    IF s = <<>> THEN [errors |-> 0, gather |-> <<>>]
    ELSE LET h == FlattenStringOrList(Head(s))
             t == FlattenItems(Tail(s))
         IN  [errors |-> h.errors + t.errors, gather |-> h.gather \o t.gather]

\* Mutant: the values are not checked for being strings.
FlattenUnchecked(x) == [err |-> None, list |-> FlattenStringOrList(x).gather]

\* _flatten: HostPathsError when any value was not a str.
Flatten(x) ==
    LET r == FlattenStringOrList(x)
    IN  IF r.errors > 0 THEN [err |-> "HostPathsError", list |-> <<>>]
        ELSE [err |-> None, list |-> r.gather]

-----------------------------------------------------------------------------
(* get_path_group_paths(group_list, file_name=..., filter_regex, find_all) *)

\* glob.glob(c): the matches of a pattern, else c itself if it exists.
Glob(c) == IF c \in Magic THEN GlobOf[c] ELSE IF c \in Exists THEN <<c>> ELSE <<>>

\* One glob hit h of the entry whose path is c (the inner loop of
\* _process_pathlist); seen and result are the loop's, done is the early
\* return of find_all=False.
HitStep(a, c, h, findAll, match) ==
    CASE a.done -> a
      [] h \notin IsFile -> a
      [] match /\ h \notin Matching -> a
      [] h # c /\ RealOf[h] \in a.seen -> a
      [] OTHER ->
           LET path == IF h = c THEN h ELSE RealOf[h]
           IN  [seen |-> a.seen \cup {path}, result |-> Append(a.result, path),
                done |-> ~findAll]

\* One entry p of a path list (the outer loop of _process_pathlist).
EntryStep(a, p, findAll, match) ==
    CASE a.done -> a
      [] p \in Blank -> a
      [] PathOf[p] \in a.seen -> a
      [] OTHER ->
           LET c == PathOf[p]
           IN  FoldLeft(LAMBDA b, h : HitStep(b, c, h, findAll, match),
                        [a EXCEPT !.seen = @ \cup {c}], Glob(c))

ProcessPathlist(pl, findAll, match) ==
    FoldLeft(LAMBDA a, p : EntryStep(a, p, findAll, match),
             [seen |-> {}, result |-> <<>>, done |-> FALSE], pl).result

\* Mutant: the paths of every list are appended without seen_path.
GroupStepNoDedup(a, pl, findAll, match) ==
    LET rval == ProcessPathlist(pl, findAll, match)
    IN  CASE a.done \/ rval = <<>> -> a
          [] ~findAll -> [a EXCEPT !.result = rval, !.done = TRUE]
          [] OTHER -> [a EXCEPT !.result = @ \o rval]

\* _group_list_paths: the first non-empty list when find_all is False,
\* else every list's paths with the duplicates across lists dropped.
GroupStep(a, pl, findAll, match) ==
    LET rval == ProcessPathlist(pl, findAll, match)
    IN  CASE a.done \/ rval = <<>> -> a
          [] ~findAll -> [a EXCEPT !.result = rval, !.done = TRUE]
          [] OTHER ->
               FoldLeft(LAMBDA b, x :
                          IF x \in b.seen THEN b
                          ELSE [b EXCEPT !.seen = @ \cup {x}, !.result = Append(@, x)],
                        a, rval)

GroupListPaths(gl, findAll, match) ==
    FoldLeft(LAMBDA a, pl : GroupStep(a, pl, findAll, match),
             [seen |-> {}, result |-> <<>>, done |-> FALSE], gl).result

\* _prepare_arguments then _group_list_paths.  A str filter_regex reaches
\* re.compile, but hostpaths.py never imports re: NameError.  An object
\* without a callable match is ignored.
GetPathGroupPaths(gl, findAll, f) ==
    IF f = "str" THEN [err |-> "NameError", paths |-> <<>>]
    ELSE [err |-> None, paths |-> GroupListPaths(gl, findAll, f = "regex")]

-----------------------------------------------------------------------------
\* The module is imported: the default paths are pushed.
Init ==
    /\ groups = <<Flatten(Defaults).list>>
    /\ pushes = 0
    /\ outcome = None

\* path_group_push(group_list, string_or_list, front): _flatten raises
\* before the list is touched, else the flat list is inserted.
PathGroupPush(x, front) ==
    /\ pushes < MaxPushes
    /\ pushes' = pushes + 1
    /\ LET r == Flatten(x)
       IN  /\ outcome' = [call |-> "push", err |-> r.err]
           /\ groups' = CASE r.err # None -> groups
                          [] front -> <<r.list>> \o groups
                          [] OTHER -> Append(groups, r.list)

\* _path_group_pop(group_list, front): list.pop raises IndexError on an
\* empty group list.
PathGroupPop(front) ==
    /\ IF groups = <<>>
       THEN /\ outcome' = [call |-> "pop", err |-> "IndexError"]
            /\ UNCHANGED groups
       ELSE /\ outcome' = [call |-> "pop", err |-> None]
            /\ groups' = IF front THEN Tail(groups) ELSE SubSeq(groups, 1, Len(groups) - 1)
    /\ UNCHANGED pushes

\* get_path_group_paths(group_list, filter_regex=f, find_all=findAll).
Query(findAll, f) ==
    /\ outcome' = [call |-> "get", findAll |-> findAll, filter |-> f]
                  @@ GetPathGroupPaths(groups, findAll, f)
    /\ UNCHANGED <<groups, pushes>>

Next ==
    \/ \E x \in Inputs, front \in BOOLEAN : PathGroupPush(x, front)
    \/ \E front \in BOOLEAN : PathGroupPop(front)
    \/ \E findAll \in BOOLEAN, f \in Filters : Query(findAll, f)

Spec == Init /\ [][Next]_hvars

-----------------------------------------------------------------------------
(* What get_path_group_paths is meant to return, stated without its loops: *)
(* the existing files named by the entries, in search order (lists in      *)
(* group order, entries in list order, glob hits in glob order), each      *)
(* under its normalised name, once; with find_all False, the first one.    *)

\* The accepted hits of entry p, under their normalised names.
EntryPaths(p, match) ==
    IF p \in Blank THEN <<>>
    ELSE LET c == PathOf[p]
             acc(h) == h \in IsFile /\ (~match \/ h \in Matching)
         IN  [i \in 1..Len(SelectSeq(Glob(c), acc)) |->
                LET h == SelectSeq(Glob(c), acc)[i]
                IN  IF h = c THEN h ELSE RealOf[h]]

Candidates(gl, match) ==
    FlattenSeq([i \in 1..Len(gl) |->
                  FlattenSeq([j \in 1..Len(gl[i]) |-> EntryPaths(gl[i][j], match)])])

\* s without the elements that occur earlier in it.
FirstOccurrences(s) ==
    LET I == {i \in 1..Len(s) : \A j \in 1..(i - 1) : s[j] # s[i]}
        ix == SetToSortSeq(I, <)
    IN  [k \in 1..Len(ix) |-> s[ix[k]]]

RefPaths(gl, findAll, match) ==
    LET all == FirstOccurrences(Candidates(gl, match))
    IN  IF findAll \/ all = <<>> THEN all ELSE <<all[1]>>


-----------------------------------------------------------------------------
(* Properties.                                                             *)

\* Type invariant: the group list holds lists of str only.
TypeOK ==
    /\ groups \in Seq(Seq(Strs))
    /\ pushes \in 0..MaxPushes

\* get_path_group_paths returns what it is meant to: every existing file
\* the entries name, once, under its normalised name, in search order,
\* whatever duplicates the entries, their spellings, symbolic links and
\* glob hits hold across and within the pushed lists; with find_all False,
\* only the first.  (_process_pathlist and _group_list_paths keep two
\* separate seen sets, and the first also holds the patterns themselves.)
QueryFollowsReference ==
    outcome # None /\ outcome.call = "get" /\ outcome.err = None =>
        outcome.paths = RefPaths(groups, outcome.findAll, outcome.filter = "regex")

\* _prepare_arguments compiles a str filter_regex with
\* re.compile(filter_regex, re.IGNORECASE) (hostpaths.py:104-105): a
\* query with a str filter returns the matching paths and raises nothing.
StrFilterAccepted ==
    outcome # None /\ outcome.call = "get" => outcome.err # "NameError"

=============================================================================
