----------------------------- MODULE PathRules -----------------------------
(***************************************************************************)
(* The include and exclude rules of a git material (filter_pattern), by    *)
(* which PathMatcher decides whether a commit concerns its pipelines.      *)
(*                                                                         *)
(* A filter stands for what it does: whether there is a "!" in it, and the *)
(* paths that its expression (GetPathRegex) matches, none if it is not     *)
(* valid.                                                                  *)
(***************************************************************************)
EXTENDS Integers, Sequences

\* GetPathRegex: the filters over a set of paths.
Filter(paths) == [exclude: BOOLEAN, matches: SUBSET paths]

Matched(f, paths) == f.matches \cap paths # {}

\* The paths a commit is known to change.  There are none without
\* EnableFileStats, and where git cannot compare the commit with its parent.
Changed(files, enableFileStats, comparable) ==
    IF enableFileStats /\ comparable THEN files ELSE {}

\* PathMatcher: the filters are tried from the last one to the first.
PathMatcher(filters, paths) ==
    LET Verdict[i \in 0..Len(filters)] ==      \* i filters are left
          IF i = 0 THEN FALSE
          ELSE IF Matched(filters[i], paths) THEN filters[i].exclude
          ELSE IF i = 1 THEN ~filters[1].exclude
          ELSE Verdict[i - 1]
    IN Verdict[Len(filters)]

\* What it is for: the last filter that matches decides; where none does, the
\* first one says whether the list is one of inclusions or of exclusions.
LastMatchDecides(filters, paths) ==
    LET at == {i \in DOMAIN filters : Matched(filters[i], paths)}
    IN IF at = {} THEN filters # <<>> /\ ~filters[1].exclude
       ELSE filters[CHOOSE i \in at : \A j \in at : j <= i].exclude

=============================================================================
