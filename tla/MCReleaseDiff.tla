---------------------------- MODULE MCReleaseDiff ----------------------------
(***************************************************************************)
(* Bounds of the model checking of ReleaseDiff: all histories of MaxCommit *)
(* commits, numbered so that parents come first.                           *)
(***************************************************************************)
EXTENDS ReleaseDiff

CONSTANT MaxCommit

MCCommit == 1..MaxCommit
MCHistories == {f \in [MCCommit -> SUBSET MCCommit] : \A c \in MCCommit : f[c] \subseteq 1..(c - 1)}

=============================================================================
