--------------------------- MODULE DeliveryLedger ---------------------------
(***************************************************************************)
(* The durable delivery record of a native driver                          *)
(* (crates/fractal-drivers/src/delivery_ledger.rs): one entry per inbox    *)
(* file, a phase that only grows, negative receipts that authorise a       *)
(* retry, and one binding for all entries.  A ledger is a function from    *)
(* the files it owns to their entries; the operators below are its methods *)
(* before `persist`, which the driver's module adds.                       *)
(*                                                                         *)
(* Left out: correlations, which are an injective hash of binding and      *)
(* file; attestations, which no decision reads; and the one-time           *)
(* translation of records of earlier releases.                             *)
(***************************************************************************)
EXTENDS Naturals

CONSTANTS
  Files,        \* inbox filenames; their order is the order of delivery
  Bindings,     \* the threads or sessions of the harness
  Proves        \* the phases the harness has an observation for

ASSUME FilesAssumption == Files \subseteq Nat

(* Phases in declaration order, which is the order of the lattice. *)
Attempted == 1
TransportAccepted == 2
Persisted == 3
Consumed == 4
Phase == Attempted .. Consumed

ASSUME ProvesAssumption == {Attempted, Consumed} \subseteq Proves /\ Proves \subseteq Phase

NoTurn == 0

Entry == [binding : Bindings, phase : Phase, incarnation : Nat,
          accepted_turn : Nat, negative : {"none", "absent", "rejected"}]

IsLedger(ledger) == DOMAIN ledger \subseteq Files /\ ledger \in [DOMAIN ledger -> Entry]

Empty == [f \in {} |-> f]

Larger(a, b) == IF a >= b THEN a ELSE b

Put(ledger, f, entry) ==
  [g \in DOMAIN ledger \cup {f} |-> IF g = f THEN entry ELSE ledger[g]]

Keep(ledger, kept) == [g \in DOMAIN ledger \cap kept |-> ledger[g]]

(***************************************************************************)
(* What decides                                                            *)
(***************************************************************************)
releases(phase) == phase >= Consumed

retention(ledger, f) ==
  IF f \notin DOMAIN ledger THEN "release"
  ELSE IF ledger[f].negative # "none" THEN "negative"
  ELSE IF releases(ledger[f].phase) THEN "release"
  ELSE IF ledger[f].phase >= Persisted THEN "unread"
  ELSE "ambiguous"

settled(ledger, f) == f \in DOMAIN ledger /\ retention(ledger, f) = "release"

(* Mutant: an entry that transport accepted no longer holds. *)
holds_other_than_attempted(ledger, f) ==
  \E g \in DOMAIN ledger \ {f} : ledger[g].phase = Attempted

holds_other_than(ledger, f) ==
  \E g \in DOMAIN ledger \ {f} : retention(ledger, g) # "release"

(* Mutant: whatever is not settled is sent again. *)
retryUnsettled(ledger, f) == f \notin DOMAIN ledger \/ retention(ledger, f) # "release"

retry(ledger, f) == f \notin DOMAIN ledger \/ retention(ledger, f) = "negative"

(* `binding` reads the first entry; `accept` keeps all of them alike. *)
BoundTo(ledger, b) == \A f \in DOMAIN ledger : ledger[f].binding = b

(***************************************************************************)
(* What a method leaves in memory                                          *)
(***************************************************************************)
(* Mutant: a retry keeps the turn of the refused attempt. *)
beginKeepsTurn(ledger, f, b, i) ==
  Put(ledger, f,
      IF f \in DOMAIN ledger
      THEN [ledger[f] EXCEPT !.binding = b, !.incarnation = i, !.negative = "none"]
      ELSE [binding |-> b, phase |-> Attempted, incarnation |-> i,
            accepted_turn |-> NoTurn, negative |-> "none"])

begin(ledger, f, b, i) ==
  Put(ledger, f,
      IF f \in DOMAIN ledger
      THEN [ledger[f] EXCEPT
              !.binding = b, !.incarnation = i, !.negative = "none",
              !.phase = Larger(@, Attempted),
              !.accepted_turn = IF ledger[f].negative # "none" THEN NoTurn ELSE @]
      ELSE [binding |-> b, phase |-> Attempted, incarnation |-> i,
            accepted_turn |-> NoTurn, negative |-> "none"])

record(ledger, f, phase) ==
  IF f \in DOMAIN ledger /\ phase \in Proves /\ phase > ledger[f].phase
  THEN Put(ledger, f, [ledger[f] EXCEPT !.phase = phase, !.negative = "none"])
  ELSE ledger

RecordAll(ledger, seen) ==
  [g \in DOMAIN ledger |-> IF g \in seen THEN record(ledger, g, Consumed)[g] ELSE ledger[g]]

accept_turn_conflicts(ledger, f, turn) ==
  f \in DOMAIN ledger /\ ledger[f].accepted_turn \notin {NoTurn, turn}

(* Mutant: the phase is assigned, not raised. *)
accept_codex_turn_lowers(ledger, f, turn) ==
  IF f \in DOMAIN ledger
  THEN Put(ledger, f, [ledger[f] EXCEPT !.phase = TransportAccepted,
                                        !.accepted_turn = turn, !.negative = "none"])
  ELSE ledger

accept_codex_turn(ledger, f, turn) ==
  IF f \in DOMAIN ledger
  THEN Put(ledger, f, [ledger[f] EXCEPT !.phase = Larger(@, TransportAccepted),
                                        !.accepted_turn = turn, !.negative = "none"])
  ELSE ledger

negative(ledger, f, receipt) ==
  IF f \in DOMAIN ledger /\ retention(ledger, f) # "release"
  THEN Put(ledger, f, [ledger[f] EXCEPT !.negative = receipt])
  ELSE ledger

rebind(ledger, b) == Keep(ledger, {f \in DOMAIN ledger : ledger[f].binding = b})

prune(ledger, unread) == Keep(ledger, unread)

(***************************************************************************)
(* `accept` and `validate`: what a file must satisfy to be opened.  One    *)
(* that fails quarantines the seat's delivery for good.                    *)
(***************************************************************************)
Opens(ledger) ==
  /\ \A f \in DOMAIN ledger :
       /\ ledger[f].phase \in Proves
       /\ ledger[f].accepted_turn # NoTurn => ledger[f].phase >= TransportAccepted
  /\ \A f, g \in DOMAIN ledger : ledger[f].binding = ledger[g].binding
=============================================================================
