-------------------------- MODULE MCCommitObservers --------------------------
(* Instances of CommitObservers for TLC. *)
EXTENDS CommitObservers
=============================================================================
