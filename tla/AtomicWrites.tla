---------------------------- MODULE AtomicWrites ----------------------------
(***************************************************************************)
(* What the writer promises its callers, whatever it batches: rows become   *)
(* durable in atomic groups while their callers wait; a caller told "ok"    *)
(* has a durable row, one told "undone" never does.  Only a caller told     *)
(* that the writer stopped does not know.                                   *)
(***************************************************************************)
CONSTANT Rows

VARIABLES durable, told

vars == <<durable, told>>

Init == durable = {} /\ told = [r \in Rows |-> "waiting"]

MayTell(r, after) ==
  {"stopped"} \cup (IF r \in after THEN {"ok"} ELSE {"undone"})

Waiting == {r \in Rows : told[r] = "waiting"}

Commit ==
  \E group \in SUBSET (Waiting \ durable) : durable' = durable \cup group

Tell ==
  /\ DOMAIN told' = Rows
  /\ \A r \in Rows : \/ told'[r] = told[r]
                     \/ told[r] = "waiting" /\ told'[r] \in MayTell(r, durable')

Next == Commit /\ Tell

Spec == Init /\ [][Next]_vars
=============================================================================
