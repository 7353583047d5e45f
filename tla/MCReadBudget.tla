---------------------------- MODULE MCReadBudget ----------------------------
(* An instance of ReadBudget for TLC: a request and a query below it.       *)
EXTENDS ReadBudget, TLC

CONSTANTS t1, t2, t3, request, query

MCParent == (request :> None) @@ (query :> request)
MCOf == (t1 :> query) @@ (t2 :> query) @@ (t3 :> request)
=============================================================================
