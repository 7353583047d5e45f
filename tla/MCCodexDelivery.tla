-------------------------- MODULE MCCodexDelivery --------------------------
(* Instances of CodexDelivery for TLC. *)
EXTENDS CodexDelivery
=============================================================================
