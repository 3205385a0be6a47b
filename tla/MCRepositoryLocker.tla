------------------------- MODULE MCRepositoryLocker -------------------------
(***************************************************************************)
(* The model checking of RepositoryLocker: see RepositoryLocker.cfg for    *)
(* the bounds.  Goroutines and addresses are interchangeable, but TLC may  *)
(* not use a symmetry in a run that checks liveness, as this one does.     *)
(***************************************************************************)
EXTENDS RepositoryLocker

=============================================================================
