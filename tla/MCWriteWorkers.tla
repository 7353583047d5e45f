--------------------------- MODULE MCWriteWorkers ---------------------------
(* Instances of WriteWorkers for TLC. *)
EXTENDS WriteWorkers, TLC
=============================================================================
