---------------------------- MODULE MCGitWatcher ----------------------------
(* Bounds of the model checking of GitWatcher: see the .cfg files. *)
EXTENDS GitWatcher, TLC

\* Pipelines are interchangeable, and so are branches.
WatcherSymmetry == Permutations(Pipelines) \cup Permutations(Branches)

=============================================================================
