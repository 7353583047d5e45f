----------------------------- MODULE MCReadPool -----------------------------
(* Instances of ReadPool for TLC. *)
EXTENDS ReadPool, TLC

CONSTANTS t1, t2

(* One thread nests requests and snapshots, the other requests and raw reads. *)
MCKinds == (t1 :> {"request", "snapshot"}) @@ (t2 :> {"request", "raw"})
=============================================================================
