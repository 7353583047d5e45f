---------------------------- MODULE MCWriteBatch ----------------------------
(* Instances of WriteBatch for TLC. *)
EXTENDS WriteBatch, TLC

Symmetry == Permutations(Writes) \cup Permutations(Loans)
=============================================================================
