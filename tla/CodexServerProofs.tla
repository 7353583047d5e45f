------------------------- MODULE CodexServerProofs --------------------------
(* The inductive invariant of CodexDelivery, what the ledger's functions     *)
(* return, and that the steps of the mailbox, of the app-server, of launches *)
(* and ends of sessions and of a resume's reconciliation keep it.            *)
EXTENDS CodexDelivery, TLAPS

(* The leaves are first-order, for Zenon, but for those that cite SMT. *)
USE Zenon

-----------------------------------------------------------------------------
(* The inductive invariant. *)

Seen(f) == view[f] # "absent"

(* A turn that accepted a message for thread b still has it to take, has    *)
(* taken it, or is over without having completed.                           *)
Took(f, turn, b) ==
  /\ turn \in 1 .. Len(turns)
  /\ \/ f \in Landed(b)
     \/ running = turn /\ f \in queue /\ b = thread
     \/ running # turn /\ turn \notin completed

(* What the pump may rely on of an entry, in memory and on disk. *)
EntryOK(f, e) ==
  /\ Seen(f)
  /\ e.binding <= thread
  /\ e.phase \in Proves
  /\ e.phase = Consumed => e.negative = "none" /\ f \in Landed(e.binding)
  /\ e.accepted_turn # NoTurn =>
       e.phase >= TransportAccepted /\ Took(f, e.accepted_turn, e.binding)

LedgerOK(ledger) ==
  /\ \A f \in DOMAIN ledger : EntryOK(f, ledger[f])
  /\ \A f, g \in DOMAIN ledger : ledger[f].binding = ledger[g].binding

(* The memory of a bound session is ahead of the file by receipts only. *)
Ahead ==
  /\ DOMAIN mem = DOMAIN disk
  /\ \A f \in DOMAIN mem :
       \/ mem[f] = disk[f]
       \/ mem[f].phase = Consumed /\ mem[f].binding = disk[f].binding

SessionOK ==
  /\ session # "bound" => request = None /\ pending = None /\ frames = {} /\ queue = {}
  /\ session = "down" => mem = Empty /\ running = NoTurn
  /\ session = "resuming" => mem = disk
  /\ session = "bound" => Ahead

(* The app-server. *)
ServerOK ==
  /\ running <= Len(turns) /\ running \notin completed
  /\ \A n \in completed : n <= Len(turns)
  /\ queue # {} => running # NoTurn
  /\ \A b \in Bindings : b > thread => history[b] = << >>
  /\ \A f \in queue : Seen(f)
  /\ \A b \in Bindings : \A f \in Landed(b) : Seen(f)

IsAnswer(frame) == frame.kind \in {"accepted", "rejected"}

(* The outstanding request has one answer, and every frame is true. *)
WireOK ==
  /\ head # None => Seen(head)
  /\ pending # None => Seen(pending)
  /\ request # None => request.file = pending
  /\ \A frame \in frames : IsAnswer(frame) => frame.file = pending /\ request = None
  /\ \A f1, f2 \in frames : IsAnswer(f1) /\ IsAnswer(f2) => f1 = f2
  /\ \A frame \in frames :
       /\ frame.kind = "accepted" => Took(frame.file, frame.turn, thread)
       /\ frame.kind = "item" => frame.file \in Landed(thread)
       /\ frame.kind = "completed" => frame.turn \in completed

(* The entry of the outstanding request is this thread's and has no turn. *)
PendingOK ==
  pending # None =>
    /\ BoundTo(mem, thread)
    /\ pending \in DOMAIN mem => mem[pending].accepted_turn = NoTurn

(* What is unread enters the thread once. *)
DeliveryOK ==
  /\ AtMostOnce /\ OwnershipFirst /\ RefusalTrue /\ OneOutstanding
  /\ \A f \in Unread \cap queue : request = None \/ request.file # f
  /\ \A frame \in frames :
       frame.kind = "rejected" /\ frame.file \in Unread
         => frame.file \notin Landed(thread) /\ ~ InTransit(frame.file)

CodexInv ==
  /\ TypeOK /\ LedgerOK(mem) /\ LedgerOK(disk)
  /\ SessionOK /\ ServerOK /\ WireOK /\ PendingOK /\ DeliveryOK

-----------------------------------------------------------------------------
(* The methods of the ledger, entry by entry. *)

(* Keep, and with it prune and rebind, changes no entry it keeps. *)
LEMMA KeepEntry ==
  ASSUME NEW L, IsLedger(L), NEW K
  PROVE  /\ IsLedger(Keep(L, K))
         /\ DOMAIN Keep(L, K) = DOMAIN L \cap K
         /\ \A g \in DOMAIN L \cap K : Keep(L, K)[g] = L[g]
  BY DEF IsLedger, Keep

(* An entry's fields. *)
LEMMA EntryFields ==
  ASSUME NEW L, IsLedger(L), NEW f \in DOMAIN L
  PROVE  /\ f \in Files /\ L[f] \in Entry
         /\ L[f].binding \in Bindings /\ L[f].phase \in 1 .. 4
         /\ L[f].incarnation \in Nat /\ L[f].accepted_turn \in Nat
         /\ L[f].negative \in {"none", "absent", "rejected"}
  BY DEF IsLedger, Entry, Phase, Attempted, Consumed

(* M is L with another entry for f. *)
Amends(M, L, f) ==
  /\ IsLedger(M) /\ DOMAIN M = DOMAIN L \cup {f}
  /\ \A g \in DOMAIN L \ {f} : M[g] = L[g]

(* begin: a new attempt keeps the phase, and a refused attempt's turn goes. *)
LEMMA BeginEntry ==
  ASSUME NEW L, IsLedger(L), NEW f \in Files, NEW b \in Bindings, NEW i \in Nat
  PROVE  LET M == begin(L, f, b, i) IN
         /\ Amends(M, L, f)
         /\ M[f].binding = b /\ M[f].negative = "none"
         /\ f \notin DOMAIN L => M[f].phase = Attempted /\ M[f].accepted_turn = NoTurn
         /\ f \in DOMAIN L => M[f].phase = L[f].phase
         /\ f \in DOMAIN L /\ L[f].negative # "none" => M[f].accepted_turn = NoTurn
<1>1. CASE f \in DOMAIN L
  <2> DEFINE e == [L[f] EXCEPT
                     !.binding = b, !.incarnation = i, !.negative = "none",
                     !.phase = Larger(@, Attempted),
                     !.accepted_turn = IF L[f].negative # "none" THEN NoTurn ELSE @]
  <2>1. L[f] \in Entry
    BY <1>1, EntryFields
  <2>2. Larger(L[f].phase, Attempted) = L[f].phase
    BY <2>1, SMT DEF Entry, Phase, Attempted, Consumed, Larger
  <2>3. NoTurn \in Nat
    BY DEF NoTurn
  <2>4. e \in Entry /\ e.binding = b /\ e.negative = "none" /\ e.phase = L[f].phase
        /\ (L[f].negative # "none" => e.accepted_turn = NoTurn)
    BY <2>1, <2>2, <2>3 DEF Entry
  <2>5. begin(L, f, b, i) = Put(L, f, e)
    BY <1>1 DEF begin
  <2> HIDE DEF e
  <2>6. /\ IsLedger(Put(L, f, e)) /\ DOMAIN Put(L, f, e) = DOMAIN L \cup {f}
        /\ Put(L, f, e)[f] = e /\ \A g \in DOMAIN L \ {f} : Put(L, f, e)[g] = L[g]
    BY <2>4 DEF IsLedger, Put
  <2> QED
    BY <1>1, <2>4, <2>5, <2>6 DEF Amends
<1>2. CASE f \notin DOMAIN L
  <2> DEFINE e == [binding |-> b, phase |-> Attempted, incarnation |-> i,
                   accepted_turn |-> NoTurn, negative |-> "none"]
  <2>1. e \in Entry
    BY SMT DEF Entry, Phase, Attempted, Consumed, NoTurn
  <2>2. begin(L, f, b, i) = Put(L, f, e)
    BY <1>2 DEF begin
  <2>3. e.binding = b /\ e.negative = "none" /\ e.phase = Attempted /\ e.accepted_turn = NoTurn
    OBVIOUS
  <2> HIDE DEF e
  <2>4. /\ IsLedger(Put(L, f, e)) /\ DOMAIN Put(L, f, e) = DOMAIN L \cup {f}
        /\ Put(L, f, e)[f] = e /\ \A g \in DOMAIN L \ {f} : Put(L, f, e)[g] = L[g]
    BY <2>1 DEF IsLedger, Put
  <2> QED
    BY <1>2, <2>2, <2>3, <2>4 DEF Amends
<1> QED
  BY <1>1, <1>2

(* record(Consumed) settles an entry, or changes nothing. *)
LEMMA RecordEntry ==
  ASSUME NEW L, IsLedger(L), NEW f \in DOMAIN L
  PROVE  LET e == record(L, f, Consumed)[f] IN
         /\ e \in Entry
         /\ e.binding = L[f].binding /\ e.accepted_turn = L[f].accepted_turn
         /\ e = L[f] \/ (e.phase = Consumed /\ e.negative = "none")
         /\ L[f].phase < Consumed => e.phase = Consumed /\ e.negative = "none"
<1>1. L[f] \in Entry /\ f \in Files
  BY EntryFields
<1> DEFINE e == [L[f] EXCEPT !.phase = Consumed, !.negative = "none"]
<1>2. /\ e \in Entry /\ e.binding = L[f].binding /\ e.accepted_turn = L[f].accepted_turn
      /\ e.phase = Consumed /\ e.negative = "none"
  <2>1. Consumed \in Phase
    BY SMT DEF Phase, Attempted, Consumed
  <2> QED
    BY <1>1, <2>1 DEF Entry
<1>3. record(L, f, Consumed) = IF Consumed \in Proves /\ Consumed > L[f].phase
                               THEN Put(L, f, e) ELSE L
  BY DEF record
<1>4. Consumed \in Proves /\ (L[f].phase < Consumed => Consumed > L[f].phase)
  BY <1>1, ProvesAssumption DEF Entry, Phase, Consumed, Attempted
<1> HIDE DEF e
<1>5. Put(L, f, e)[f] = e
  BY <1>1, <1>2 DEF Put
<1> QED
  BY <1>1, <1>2, <1>3, <1>4, <1>5

(* M is L with a receipt for some of the entries of S. *)
Settles(M, L, S) ==
  /\ IsLedger(M) /\ DOMAIN M = DOMAIN L
  /\ \A g \in DOMAIN L :
       /\ M[g].binding = L[g].binding /\ M[g].accepted_turn = L[g].accepted_turn
       /\ M[g] = L[g] \/ (g \in S /\ M[g].phase = Consumed /\ M[g].negative = "none")

(* Receipts recorded for a set of entries. *)
LEMMA RecordAllEntry ==
  ASSUME NEW L, IsLedger(L), NEW S
  PROVE  Settles(RecordAll(L, S), L, S)
<1>1. \A g \in DOMAIN L :
        /\ record(L, g, Consumed)[g] \in Entry /\ L[g] \in Entry /\ g \in Files
        /\ record(L, g, Consumed)[g].binding = L[g].binding
        /\ record(L, g, Consumed)[g].accepted_turn = L[g].accepted_turn
        /\ \/ record(L, g, Consumed)[g] = L[g]
           \/ /\ record(L, g, Consumed)[g].phase = Consumed
              /\ record(L, g, Consumed)[g].negative = "none"
  BY RecordEntry, EntryFields, SMT
<1>2. /\ DOMAIN RecordAll(L, S) = DOMAIN L
      /\ \A g \in DOMAIN L : RecordAll(L, S)[g] =
           IF g \in S THEN record(L, g, Consumed)[g] ELSE L[g]
  BY DEF RecordAll
<1>3. IsLedger(RecordAll(L, S))
  <2>1. RecordAll(L, S) = [g \in DOMAIN L |-> RecordAll(L, S)[g]]
    BY DEF RecordAll
  <2>2. \A g \in DOMAIN L : RecordAll(L, S)[g] \in Entry
    BY <1>1, <1>2
  <2> QED
    BY <1>2, <2>1, <2>2 DEF IsLedger
<1> QED
  BY <1>1, <1>2, <1>3 DEF Settles

(* accept_codex_turn raises the phase and names the turn. *)
LEMMA AcceptEntry ==
  ASSUME NEW L, IsLedger(L), NEW f \in DOMAIN L, NEW turn \in Nat
  PROVE  LET M == accept_codex_turn(L, f, turn) IN
         /\ Amends(M, L, f)
         /\ M[f].binding = L[f].binding /\ M[f].accepted_turn = turn
         /\ M[f].negative = "none"
         /\ M[f].phase = Larger(L[f].phase, TransportAccepted)
<1>1. L[f] \in Entry /\ f \in Files
  BY EntryFields
<1> DEFINE p == Larger(L[f].phase, TransportAccepted)
           e == [L[f] EXCEPT !.phase = p, !.accepted_turn = turn, !.negative = "none"]
<1>2. p \in Phase
  BY <1>1, SMT DEF Entry, Phase, Attempted, TransportAccepted, Consumed, Larger
<1>3. accept_codex_turn(L, f, turn) = Put(L, f, e)
  BY DEF accept_codex_turn
<1> HIDE DEF p
<1>4. /\ e \in Entry /\ e.binding = L[f].binding /\ e.accepted_turn = turn
      /\ e.negative = "none" /\ e.phase = p
  BY <1>1, <1>2 DEF Entry
<1> HIDE DEF e
<1>5. /\ IsLedger(Put(L, f, e)) /\ DOMAIN Put(L, f, e) = DOMAIN L
      /\ Put(L, f, e)[f] = e /\ \A g \in DOMAIN L \ {f} : Put(L, f, e)[g] = L[g]
  BY <1>1, <1>4 DEF IsLedger, Put
<1> QED
  BY <1>3, <1>4, <1>5 DEF p, Amends

(* negative touches only an entry that does not release its message. *)
LEMMA NegativeEntry ==
  ASSUME NEW L, IsLedger(L), NEW f \in DOMAIN L, NEW receipt \in {"absent", "rejected"}
  PROVE  LET M == negative(L, f, receipt) IN
         /\ Amends(M, L, f)
         /\ M[f] \in Entry
         /\ M[f].binding = L[f].binding /\ M[f].accepted_turn = L[f].accepted_turn
         /\ M[f].phase = L[f].phase
         /\ M[f] = L[f] \/ (L[f].negative # "none" \/ L[f].phase < Consumed)
<1>1. L[f] \in Entry /\ f \in Files
  BY EntryFields
<1> DEFINE e == [L[f] EXCEPT !.negative = receipt]
<1>2. /\ e \in Entry /\ e.binding = L[f].binding /\ e.accepted_turn = L[f].accepted_turn
      /\ e.phase = L[f].phase
  BY <1>1 DEF Entry
<1>3. negative(L, f, receipt) = IF retention(L, f) # "release" THEN Put(L, f, e) ELSE L
  BY DEF negative
<1>4. retention(L, f) # "release" => L[f].negative # "none" \/ L[f].phase < Consumed
  BY <1>1, SMT DEF retention, releases, Entry, Phase, Attempted, Consumed
<1> HIDE DEF e
<1>5. /\ IsLedger(Put(L, f, e)) /\ DOMAIN Put(L, f, e) = DOMAIN L
      /\ Put(L, f, e)[f] = e /\ \A g \in DOMAIN L \ {f} : Put(L, f, e)[g] = L[g]
  BY <1>1, <1>2 DEF IsLedger, Put
<1> QED
  BY <1>1, <1>2, <1>3, <1>4, <1>5 DEF Amends

(* A launch ages the entries it finds. *)
LEMMA AgedEntry ==
  ASSUME NEW L, IsLedger(L)
  PROVE  /\ IsLedger(Aged(L)) /\ DOMAIN Aged(L) = DOMAIN L
         /\ \A g \in DOMAIN L :
              /\ Aged(L)[g].binding = L[g].binding /\ Aged(L)[g].phase = L[g].phase
              /\ Aged(L)[g].accepted_turn = L[g].accepted_turn
              /\ Aged(L)[g].negative = L[g].negative
<1>1. \A g \in DOMAIN L : L[g] \in Entry /\ g \in Files
  BY EntryFields
<1>2. Earlier \in Nat
  BY DEF Earlier
<1> QED
  BY <1>1, <1>2 DEF IsLedger, Aged, Entry

-----------------------------------------------------------------------------
(* Steps that leave the ledger alone. *)

(* Nothing that was seen or landed is undone, and what a turn took stays    *)
(* taken.                                                                   *)
Grows ==
  /\ \A f \in Files : Seen(f) => Seen(f)'
  /\ thread' \in Nat /\ thread <= thread'
  /\ \A b \in Bindings : \A f \in Landed(b) : f \in Landed(b)'
  /\ \A f, n : \A b \in Bindings : Took(f, n, b) => Took(f, n, b)'

(* Threads are numbered from one. *)
LEMMA Threads == Bindings \subseteq Nat \ {0} /\ MaxTurns \in Nat /\ None \notin Files
  BY BoundsAssumption

(* An entry that holds goes on holding. *)
LEMMA EntryKept ==
  ASSUME Grows, thread \in Nat, NEW f \in Files, NEW e \in Entry, EntryOK(f, e)
  PROVE  EntryOK(f, e)'
<1>1. e.binding \in Bindings /\ e.binding \in Nat
  BY Threads DEF Entry
<1> QED
  BY <1>1, SMT DEF EntryOK, Grows

(* So does a ledger. *)
LEMMA LedgerKept ==
  ASSUME Grows, thread \in Nat, NEW L, IsLedger(L), LedgerOK(L)
  PROVE  LedgerOK(L)'
  BY EntryKept, EntryFields DEF LedgerOK

(* Steps that move nothing but the snapshot: maybe_snapshot_request, its    *)
(* answer, and accept_transcript_recovery.                                  *)
LEMMA SnapshotKeeps ==
  ASSUME CodexInv, snapshot' \in {"none", "asked", "verified"},
         UNCHANGED <<mem, disk, session, thread, view, replayed, head, pending, wire, server>>
  PROVE  CodexInv'
<1> USE DEF CodexInv, wire, server
<1>1. TypeOK'
  BY DEF TypeOK
<1>2. LedgerOK(mem)' /\ LedgerOK(disk)'
  <2>1. thread \in Nat /\ IsLedger(mem) /\ IsLedger(disk)
    BY Threads DEF TypeOK
  <2>2. Grows
    BY <2>1, SMT DEF Grows, Took, Landed, Seen
  <2> QED
    BY <2>1, <2>2, LedgerKept
<1>3. SessionOK' /\ ServerOK' /\ PendingOK'
  BY DEF SessionOK, Ahead, ServerOK, PendingOK, Seen, Landed
<1>4. WireOK'
  BY DEF WireOK, Took, Seen, Landed
<1>5. DeliveryOK'
  BY SMT DEF DeliveryOK, AtMostOnce, OwnershipFirst, RefusalTrue, OneOutstanding, Outstanding,
         Unread, InTransit, Landed
<1> QED
  BY <1>1, <1>2, <1>3, <1>4, <1>5

(* The mailbox is replaced: a message once seen never becomes absent, nor   *)
(* an archived one unread.                                                  *)
LEMMA MailboxKeeps ==
  ASSUME CodexInv,
         view' \in [Files -> {"absent", "active", "ready", "archived"}], replayed' \in BOOLEAN,
         \A f \in Files : Seen(f) => Seen(f)',
         \A f \in Unread' : f \in Unread \/ ~ Seen(f),
         UNCHANGED <<mem, disk, session, thread, head, snapshot, pending, wire, server>>
  PROVE  CodexInv'
<1> USE DEF CodexInv, wire, server
<1>0. thread \in Nat /\ thread' = thread /\ IsLedger(mem) /\ IsLedger(disk)
  BY Threads DEF TypeOK
<1>1. TypeOK'
  BY DEF TypeOK
<1>2. Grows
  BY <1>0, SMT DEF Grows, Took, Landed
<1>3. LedgerOK(mem)' /\ LedgerOK(disk)'
  BY <1>0, <1>2, LedgerKept
<1>4. SessionOK' /\ PendingOK'
  BY DEF SessionOK, Ahead, PendingOK
<1>5. ServerOK'
  <2>1. \A b \in Bindings : Landed(b)' = Landed(b) /\ Landed(b) \subseteq Files
    BY SMT DEF TypeOK, Landed
  <2>2. queue \subseteq Files
    BY DEF TypeOK
  <2> QED
    BY <2>1, <2>2 DEF ServerOK
<1>6. WireOK'
  <2>1. head \in Files \cup {None} /\ pending \in Files \cup {None}
    BY DEF TypeOK
  <2>2. UNCHANGED <<turns, running, queue, history, completed>>
    OBVIOUS
  <2> QED
    BY <2>1, <2>2, SMT DEF WireOK, Took, Landed
<1>7. DeliveryOK'
  <2>1. \A f \in Unread' : f \in Files
    BY DEF Unread
  <2>2. \A f \in Unread' \ Unread :
          f \notin queue /\ f # pending /\ (request = None \/ request.file # f)
          /\ f \notin Landed(thread) /\ f \notin DOMAIN mem
    BY Threads, SMT DEF ServerOK, WireOK, LedgerOK, EntryOK, TypeOK, Seen, Unread
  <2>3. Landed(thread)' = Landed(thread) /\ \A f : InTransit(f)' <=> InTransit(f)
    BY DEF Landed, InTransit
  <2>4. \A f \in Unread' \ Unread : ~ InTransit(f)
    BY <2>2 DEF InTransit
  <2>5. \A f, n : n \in DOMAIN history[thread] /\ history[thread][n][1] = f => f \in Landed(thread)
    BY DEF Landed
  <2>6. AtMostOnce'
    BY <2>2, <2>3, <2>5, SMT DEF DeliveryOK, AtMostOnce
  <2>7. OwnershipFirst'
    BY <2>2, <2>3, <2>4 DEF DeliveryOK, OwnershipFirst
  <2>8. RefusalTrue' /\ OneOutstanding'
    BY <2>2, <2>3, <2>4 DEF DeliveryOK, RefusalTrue, OneOutstanding, Outstanding
  <2>9. \A frame \in frames : frame.kind = "rejected" => frame.file = pending
    BY DEF WireOK, IsAnswer
  <2> QED
    BY <2>2, <2>3, <2>6, <2>7, <2>8, <2>9 DEF DeliveryOK
<1> QED
  BY <1>1, <1>3, <1>4, <1>5, <1>6, <1>7

-----------------------------------------------------------------------------
(* The app-server's steps. *)

(* What has to be shown of a step of the app-server. *)
LEMMA ServerStep ==
  ASSUME CodexInv, UNCHANGED <<driver, disk, view>>, TypeOK', Grows,
         ServerOK', WireOK', DeliveryOK',
         session # "bound" => request' = None /\ frames' = {} /\ queue' = {},
         session = "down" => running' = NoTurn
  PROVE  CodexInv'
<1>1. thread \in Nat /\ IsLedger(mem) /\ IsLedger(disk)
  BY Threads DEF CodexInv, TypeOK
<1>2. LedgerOK(mem)' /\ LedgerOK(disk)'
  BY <1>1, LedgerKept DEF CodexInv, driver
<1>3. SessionOK' /\ PendingOK'
  BY DEF CodexInv, SessionOK, Ahead, PendingOK, driver
<1> QED
  BY <1>2, <1>3 DEF CodexInv

(* What the invariant says of the ledger, and of deliveries. *)
LEMMA LedgerParts ==
  ASSUME CodexInv
  PROVE  /\ IsLedger(mem) /\ LedgerOK(mem) /\ IsLedger(disk) /\ LedgerOK(disk)
         /\ session = "bound" => Ahead
         /\ replayed \in BOOLEAN /\ snapshot \in {"none", "asked", "verified"}
  BY DEF CodexInv, TypeOK, SessionOK

LEMMA DeliveryParts ==
  ASSUME CodexInv
  PROVE  /\ AtMostOnce /\ OwnershipFirst /\ RefusalTrue /\ OneOutstanding
         /\ \A f \in Unread \cap queue : request = None \/ request.file # f
         /\ \A frame \in frames :
              frame.kind = "rejected" /\ frame.file \in Unread
                => frame.file \notin Landed(thread) /\ ~ InTransit(frame.file)
  BY DEF CodexInv, DeliveryOK

(* Nothing new is under way or has landed. *)
LEMMA NothingNew ==
  ASSUME CodexInv, UNCHANGED <<driver, disk, view, history>>,
         \A f : InTransit(f)' => InTransit(f),
         \A f \in Unread \cap queue' : request' = None \/ request'.file # f,
         \A frame \in frames' :
           frame.kind = "rejected" /\ frame.file \in Unread
             => frame.file \notin Landed(thread) /\ ~ InTransit(frame.file)'
  PROVE  DeliveryOK'
<1>1. Unread' = Unread /\ Landed(thread)' = Landed(thread)
  BY DEF Unread, Landed, driver
<1>2. AtMostOnce' /\ OwnershipFirst'
  BY <1>1, DeliveryParts, SMT DEF AtMostOnce, OwnershipFirst, driver
<1>3. RefusalTrue' /\ OneOutstanding'
  BY <1>1, DeliveryParts DEF RefusalTrue, OneOutstanding, Outstanding, driver
<1> QED
  BY <1>1, <1>2, <1>3 DEF DeliveryOK

(* A request is refused: its message was neither taken nor is it under way. *)
LEMMA RefuseKeeps == ASSUME CodexInv, Refuse PROVE CodexInv'
<1> DEFINE answer == [kind |-> "rejected", file |-> request.file]
<1>1. /\ request # None /\ request' = None /\ frames' = frames \cup {answer}
      /\ UNCHANGED <<driver, disk, view, turns, running, queue, history, completed>>
  BY DEF Refuse, server
<1>2. request.file \in Files /\ request.file = pending
  BY <1>1 DEF CodexInv, WireOK, TypeOK, Request
<1>3. answer.kind = "rejected" /\ answer.file = request.file /\ answer \in Frame
  BY <1>2 DEF Frame
<1> HIDE DEF answer
<1>4. thread \in Nat
  BY Threads DEF CodexInv, TypeOK
<1>5. TypeOK'
  BY <1>1, <1>3 DEF CodexInv, TypeOK, driver
<1>6. Grows
  BY <1>1, <1>4, SMT DEF Grows, Took, Landed, Seen, driver
<1>7. ServerOK'
  BY <1>1 DEF CodexInv, ServerOK, Landed, Seen, driver
<1>8. WireOK'
  <2>1. \A frame \in frames : ~ IsAnswer(frame)
    BY <1>1 DEF CodexInv, WireOK
  <2>2. \A f, n : Took(f, n, thread) => Took(f, n, thread)'
    BY <1>1 DEF Took, Landed, driver
  <2>3. Landed(thread)' = Landed(thread) /\ pending' = pending /\ head' = head
    BY <1>1 DEF Landed, driver
  <2> QED
    BY <1>1, <1>2, <1>3, <2>1, <2>2, <2>3 DEF CodexInv, WireOK, IsAnswer, Seen
<1>9. DeliveryOK'
  <2>1. \A f : InTransit(f)' <=> f \in queue
    BY <1>1 DEF InTransit
  <2>2. \A f : f \in queue => InTransit(f)
    BY DEF InTransit
  <2>3. request.file \in Unread =>
          request.file \notin Landed(thread) /\ request.file \notin queue
    BY <1>1, DeliveryParts DEF AtMostOnce, InTransit, Landed
  <2>4. \A frame \in frames : frame.kind # "rejected"
    BY <1>1 DEF CodexInv, WireOK, IsAnswer
  <2> QED
    BY <1>1, <1>3, <2>1, <2>2, <2>3, <2>4, NothingNew
<1>10. session = "bound"
  BY <1>1 DEF CodexInv, SessionOK
<1> QED
  BY <1>1, <1>5, <1>6, <1>7, <1>8, <1>9, <1>10, ServerStep

(* A turn starts, for a request or for the person at the TUI. *)
LEMMA StartTurnFacts ==
  ASSUME CodexInv, StartTurn
  PROVE  /\ turns' \in Seq(Bindings) /\ Len(turns') = Len(turns) + 1 /\ Len(turns) \in Nat
         /\ running' = Len(turns) + 1 /\ running' \in Turns
<1>1. turns \in Seq(Bindings) /\ thread \in Bindings /\ Len(turns) < MaxTurns
      /\ turns' = Append(turns, thread) /\ running' = Len(turns')
  BY DEF CodexInv, TypeOK, StartTurn
<1>2. Len(turns') = Len(turns) + 1 /\ turns' \in Seq(Bindings) /\ Len(turns) \in Nat
  BY <1>1, SMT
<1> QED
  BY <1>1, <1>2, Threads, SMT DEF Turns

(* The person at the TUI takes a turn. *)
LEMMA UserTurnKeeps == ASSUME CodexInv, UserTurn PROVE CodexInv'
<1>1. /\ session # "down" /\ running = NoTurn
      /\ UNCHANGED <<driver, disk, view, queue, history, completed, request, frames>>
  BY DEF UserTurn, wire
<1>2. /\ turns' \in Seq(Bindings) /\ Len(turns') = Len(turns) + 1 /\ Len(turns) \in Nat
      /\ running' = Len(turns) + 1 /\ running' \in Turns /\ Len(turns) < MaxTurns
  BY StartTurnFacts DEF UserTurn, StartTurn
<1>3. thread \in Nat /\ thread' = thread
  BY <1>1, Threads DEF CodexInv, TypeOK, driver
<1>4. \A f, n : \A b \in Bindings : Took(f, n, b) => Took(f, n, b)'
  BY <1>1, <1>2, <1>3, SMT DEF Took, Landed, NoTurn
<1>5. TypeOK'
  <2>1. Len(turns') <= MaxTurns
    BY <1>2, Threads, SMT
  <2> QED
    BY <1>1, <1>2, <2>1 DEF CodexInv, TypeOK, driver
<1>6. Grows
  BY <1>1, <1>3, <1>4, SMT DEF Grows, Landed, Seen
<1>7. ServerOK'
  <2>1. \A n \in completed : n \in Nat /\ n <= Len(turns)
    BY SMT DEF CodexInv, ServerOK, TypeOK, Turns
  <2> QED
    BY <1>1, <1>2, <2>1, SMT DEF CodexInv, ServerOK, Landed, Seen, NoTurn, driver
<1>8. WireOK'
  <2>1. thread \in Bindings
    BY DEF CodexInv, TypeOK
  <2> QED
    BY <1>1, <1>4, <2>1 DEF CodexInv, WireOK, Landed, Seen, driver
<1>9. DeliveryOK'
  BY <1>1, NothingNew, DeliveryParts DEF InTransit, Landed
<1> QED
  BY <1>1, <1>5, <1>6, <1>7, <1>8, <1>9, ServerStep DEF CodexInv, SessionOK

(* A request is accepted, into the turn in progress or a new one. *)
LEMMA AcceptKeeps == ASSUME CodexInv, Accept PROVE CodexInv'
<1> DEFINE answer == [kind |-> "accepted", file |-> request.file, turn |-> running']
<1>1. /\ request # None /\ request' = None /\ frames' = frames \cup {answer}
      /\ queue' = queue \cup {request.file}
      /\ UNCHANGED <<driver, disk, view, history, completed>>
  BY DEF Accept
<1>2. request.file \in Files /\ request.file = pending /\ pending' = pending
  BY <1>1 DEF CodexInv, WireOK, TypeOK, Request, driver
<1>3. /\ turns \in Seq(Bindings) /\ Len(turns) \in Nat /\ Len(turns) <= MaxTurns
      /\ MaxTurns \in Nat /\ running \in Nat /\ running <= Len(turns)
  BY Threads, SMT DEF CodexInv, TypeOK, ServerOK, Turns, NoTurn
<1>4. /\ turns' \in Seq(Bindings) /\ Len(turns') \in Nat /\ Len(turns') <= MaxTurns
      /\ running' \in 1 .. Len(turns') /\ Len(turns) <= Len(turns')
      /\ \/ running = NoTurn /\ running' = Len(turns) + 1
         \/ running' = running
  <2>1. CASE running = NoTurn /\ StartTurn
    BY <1>3, <2>1, StartTurnFacts, SMT DEF StartTurn
  <2>2. CASE running # NoTurn /\ UNCHANGED <<turns, running>>
    BY <1>3, <2>2, SMT DEF NoTurn
  <2> QED
    BY <2>1, <2>2 DEF Accept
<1>5. running' \in Turns
  BY <1>3, <1>4, SMT DEF Turns
<1>6. /\ answer.kind = "accepted" /\ answer.file = request.file /\ answer.turn = running'
      /\ answer \in Frame
  BY <1>2, <1>5 DEF Frame
<1> HIDE DEF answer
<1>7. thread \in Nat /\ thread \in Bindings /\ thread' = thread
  BY <1>1, Threads DEF CodexInv, TypeOK, driver
<1>8. TypeOK'
  BY <1>1, <1>2, <1>4, <1>5, <1>6 DEF CodexInv, TypeOK, driver
<1>9. \A f, n : \A b \in Bindings : Took(f, n, b) => Took(f, n, b)'
  BY <1>1, <1>3, <1>4, <1>7, SMT DEF Took, Landed, NoTurn
<1>10. Grows
  BY <1>1, <1>7, <1>9, SMT DEF Grows, Landed, Seen
<1>11. ServerOK'
  <2>1. \A n \in completed : n \in Nat /\ n <= Len(turns)
    BY SMT DEF CodexInv, ServerOK, TypeOK, Turns
  <2>2. Seen(request.file)
    BY <1>2, Threads DEF CodexInv, WireOK
  <2> QED
    BY <1>1, <1>3, <1>4, <2>1, <2>2, SMT DEF CodexInv, ServerOK, Landed, Seen, NoTurn, driver
<1>12. WireOK'
  <2>1. \A frame \in frames : ~ IsAnswer(frame)
    BY <1>1 DEF CodexInv, WireOK
  <2>2. \A f, n : f = request.file /\ n = running' => Took(f, n, thread)'
    BY <1>1, <1>4, <1>7 DEF Took
  <2>3. Landed(thread)' = Landed(thread) /\ head' = head
    BY <1>1 DEF Landed, driver
  <2> QED
    BY <1>1, <1>2, <1>6, <1>7, <1>9, <2>1, <2>2, <2>3 DEF CodexInv, WireOK, IsAnswer, Seen
<1>13. DeliveryOK'
  <2>1. \A f : InTransit(f)' => InTransit(f)
    BY <1>1 DEF InTransit
  <2>2. \A frame \in frames : ~ IsAnswer(frame)
    BY <1>1 DEF CodexInv, WireOK
  <2> QED
    BY <1>1, <1>6, <2>1, <2>2, NothingNew DEF IsAnswer
<1>14. session = "bound"
  BY <1>1 DEF CodexInv, SessionOK
<1> QED
  BY <1>1, <1>8, <1>10, <1>11, <1>12, <1>13, <1>14, ServerStep

(* A turn completes, having taken all its input. *)
LEMMA CompleteTurnKeeps == ASSUME CodexInv, CompleteTurn PROVE CodexInv'
<1> DEFINE end == [kind |-> "completed", turn |-> running]
<1>1. /\ running # NoTurn /\ queue = {} /\ running' = NoTurn
      /\ completed' = completed \cup {running}
      /\ frames' = (IF session = "bound" THEN frames \cup {end} ELSE frames)
      /\ UNCHANGED <<driver, disk, view, turns, queue, history, request>>
  BY DEF CompleteTurn
<1>2. running \in Turns
  BY <1>1 DEF CodexInv, TypeOK
<1>3. end.kind = "completed" /\ end.turn = running /\ end \in Frame
  BY <1>2 DEF Frame
<1> HIDE DEF end
<1>4. thread \in Nat /\ thread \in Bindings /\ thread' = thread
  BY <1>1, Threads DEF CodexInv, TypeOK, driver
<1>5. TypeOK'
  BY <1>1, <1>2, <1>3 DEF CodexInv, TypeOK, driver
<1>6. \A f, n : \A b \in Bindings : Took(f, n, b) => Took(f, n, b)'
  BY <1>1, SMT DEF Took, Landed, NoTurn
<1>7. Grows
  BY <1>1, <1>4, <1>6, SMT DEF Grows, Landed, Seen
<1>8. ServerOK'
  <2>1. NoTurn \notin completed' /\ NoTurn <= Len(turns)
    BY <1>1, <1>2, SMT DEF CodexInv, TypeOK, Turns, NoTurn
  <2> QED
    BY <1>1, <2>1 DEF CodexInv, ServerOK, Landed, Seen, driver
<1>9. WireOK'
  <2>1. Landed(thread)' = Landed(thread) /\ head' = head /\ pending' = pending
    BY <1>1 DEF Landed, driver
  <2> QED
    BY <1>1, <1>3, <1>4, <1>6, <2>1 DEF CodexInv, WireOK, IsAnswer, Seen
<1>10. DeliveryOK'
  <2>1. \A f : InTransit(f)' <=> InTransit(f)
    BY <1>1 DEF InTransit
  <2> QED
    BY <1>1, <1>3, <2>1, NothingNew, DeliveryParts
<1> QED
  BY <1>1, <1>5, <1>7, <1>8, <1>9, <1>10, ServerStep DEF CodexInv, SessionOK

(* A turn fails and drops the rest of its input. *)
LEMMA FailTurnKeeps == ASSUME CodexInv, FailTurn PROVE CodexInv'
<1>1. /\ running # NoTurn /\ running' = NoTurn /\ queue' = {}
      /\ UNCHANGED <<driver, disk, view, turns, history, completed, request, frames>>
  BY DEF FailTurn, wire
<1>2. thread \in Nat /\ thread \in Bindings /\ thread' = thread
  BY <1>1, Threads DEF CodexInv, TypeOK, driver
<1>3. TypeOK'
  BY <1>1 DEF CodexInv, TypeOK, driver
<1>4. \A f, n : \A b \in Bindings : Took(f, n, b) => Took(f, n, b)'
  BY <1>1, SMT DEF CodexInv, ServerOK, Took, Landed, NoTurn
<1>5. Grows
  BY <1>1, <1>2, <1>4, SMT DEF Grows, Landed, Seen
<1>6. ServerOK'
  <2>1. NoTurn \notin completed /\ NoTurn <= Len(turns)
    BY SMT DEF CodexInv, TypeOK, Turns, NoTurn
  <2> QED
    BY <1>1, <2>1 DEF CodexInv, ServerOK, Landed, Seen, driver
<1>7. WireOK'
  BY <1>1, <1>2, <1>4 DEF CodexInv, WireOK, Landed, Seen, driver
<1>8. DeliveryOK'
  <2>1. \A f : InTransit(f)' => InTransit(f)
    BY <1>1 DEF InTransit
  <2> QED
    BY <1>1, <2>1, NothingNew, DeliveryParts
<1> QED
  BY <1>1, <1>3, <1>5, <1>6, <1>7, <1>8, ServerStep DEF CodexInv, SessionOK

(* An accepted input enters the thread's history. *)
LEMMA TakeInputKeeps ==
  ASSUME CodexInv, NEW f \in Files, TakeInput(f)
  PROVE  CodexInv'
<1> DEFINE item == [kind |-> "item", file |-> f]
<1>1. /\ f \in queue /\ queue' = queue \ {f}
      /\ history' = [history EXCEPT ![thread] = Append(history[thread], <<f, running>>)]
      /\ \/ frames' = frames
         \/ session = "bound" /\ frames' = frames \cup {item}
      /\ UNCHANGED <<driver, disk, view, turns, running, completed, request>>
  BY DEF TakeInput
<1>2. item.kind = "item" /\ item.file = f /\ item \in Frame
  BY DEF Frame
<1> HIDE DEF item
<1>3. /\ thread \in Nat /\ thread \in Bindings /\ thread' = thread /\ running \in Turns
      /\ history \in [Bindings -> Seq(Files \X Turns)]
  BY <1>1, Threads DEF CodexInv, TypeOK, ServerOK, driver
<1>4. /\ <<f, running>> \in Files \X Turns /\ <<f, running>>[1] = f
      /\ history[thread] \in Seq(Files \X Turns)
      /\ history'[thread] = Append(history[thread], <<f, running>>)
      /\ history' \in [Bindings -> Seq(Files \X Turns)]
      /\ \A b \in Bindings \ {thread} : history'[b] = history[b]
  BY <1>1, <1>3, SMT
<1>5. \A n \in DOMAIN history'[thread] :
        /\ n \in Nat
        /\ \/ n \in DOMAIN history[thread] /\ history'[thread][n] = history[thread][n]
           \/ n = Len(history[thread]) + 1 /\ history'[thread][n][1] = f
  BY <1>4, SMT
<1>6. /\ \A n \in DOMAIN history[thread] :
           n \in DOMAIN history'[thread] /\ history'[thread][n] = history[thread][n]
      /\ Len(history[thread]) + 1 \in DOMAIN history'[thread]
      /\ history'[thread][Len(history[thread]) + 1][1] = f
  BY <1>4, SMT
<1>7. Landed(thread)' = Landed(thread) \cup {f}
  BY <1>3, <1>5, <1>6, SMT DEF Landed
<1>8. \A b \in Bindings \ {thread} : Landed(b)' = Landed(b)
  BY <1>4, SMT DEF Landed
<1>9. TypeOK'
  BY <1>1, <1>2, <1>4 DEF CodexInv, TypeOK, driver
<1>10. \A g, n : \A b \in Bindings : Took(g, n, b) => Took(g, n, b)'
  <2>1. \A b \in Bindings : \A g : g \in Landed(b) => g \in Landed(b)'
    BY <1>3, <1>7, <1>8
  <2>2. f \in Landed(thread)'
    BY <1>7
  <2> QED
    BY <1>1, <1>3, <2>1, <2>2 DEF Took
<1>11. Grows
  BY <1>1, <1>3, <1>7, <1>8, <1>10, SMT DEF Grows, Seen
<1>12. ServerOK'
  <2>1. Seen(f)
    BY <1>1 DEF CodexInv, ServerOK
  <2>2. \A g : Seen(g)' <=> Seen(g)
    BY <1>1 DEF Seen
  <2>3. \A b \in Bindings : \A g \in Landed(b)' : Seen(g)
    BY <1>3, <1>7, <1>8, <2>1 DEF CodexInv, ServerOK
  <2>4. \A b \in Bindings : b > thread => history'[b] = << >>
    BY <1>3, <1>4, SMT DEF CodexInv, ServerOK
  <2>5. /\ running' <= Len(turns') /\ running' \notin completed'
        /\ \A n \in completed' : n <= Len(turns')
        /\ queue' # {} => running' # NoTurn
        /\ \A g \in queue' : Seen(g)
    BY <1>1 DEF CodexInv, ServerOK
  <2> QED
    BY <1>3, <2>2, <2>3, <2>4, <2>5 DEF ServerOK
<1>13. WireOK'
  <2>1. head' = head /\ pending' = pending
    BY <1>1 DEF driver
  <2>2. frames' \subseteq frames \cup {item}
    BY <1>1
  <2>3. \A frame \in frames' : IsAnswer(frame) => frame \in frames
    BY <1>2, <2>2 DEF IsAnswer
  <2>4. \A frame \in frames' :
          /\ frame.kind = "accepted" => Took(frame.file, frame.turn, thread)'
          /\ frame.kind = "item" => frame.file \in Landed(thread)'
          /\ frame.kind = "completed" => frame.turn \in completed
    BY <1>2, <1>3, <1>7, <1>10, <2>2 DEF CodexInv, WireOK
  <2> QED
    BY <1>1, <1>3, <2>1, <2>3, <2>4 DEF CodexInv, WireOK, Seen
<1>14. DeliveryOK'
  <2>1. Unread' = Unread /\ pending' = pending /\ mem' = mem /\ session' = session
    BY <1>1 DEF Unread, driver
  <2>2. /\ InTransit(f)
        /\ \A g : InTransit(g)' => InTransit(g)
        /\ f \in Unread => ~ InTransit(f)'
    BY <1>1, DeliveryParts DEF InTransit
  <2>3. f \in Unread => f \notin Landed(thread)
    BY <2>2, DeliveryParts DEF AtMostOnce, Landed
  <2>4. \A n \in DOMAIN history[thread] : history[thread][n][1] \in Landed(thread)
    BY DEF Landed
  <2>5. AtMostOnce'
    BY <1>3, <1>5, <2>1, <2>2, <2>3, <2>4, DeliveryParts, SMT DEF AtMostOnce
  <2>6. OwnershipFirst' /\ RefusalTrue'
    BY <1>1, <1>3, <1>7, <2>1, <2>2, DeliveryParts DEF OwnershipFirst, RefusalTrue
  <2>7. OneOutstanding'
    BY <2>1, <2>2, DeliveryParts DEF OneOutstanding, Outstanding
  <2>8. \A frame \in frames' : frame.kind = "rejected" => frame \in frames
    BY <1>1, <1>2
  <2> QED
    BY <1>1, <1>3, <1>7, <2>1, <2>2, <2>5, <2>6, <2>7, <2>8, DeliveryParts DEF DeliveryOK
<1>15. session = "bound"
  BY <1>1 DEF CodexInv, SessionOK
<1> QED
  BY <1>1, <1>9, <1>11, <1>12, <1>13, <1>14, <1>15, ServerStep

-----------------------------------------------------------------------------
(* Launches and ends of sessions. *)

(* A launch opens what the last session left. *)
LEMMA AgedOK ==
  ASSUME NEW L, IsLedger(L), LedgerOK(L)
  PROVE  LedgerOK(Aged(L))
  BY AgedEntry, SMT DEF LedgerOK, EntryOK

(* With no process there is nothing under way. *)
LEMMA DownFacts ==
  ASSUME CodexInv, session = "down"
  PROVE  /\ request = None /\ pending = None /\ frames = {} /\ queue = {}
         /\ mem = Empty /\ running = NoTurn
  BY DEF CodexInv, SessionOK

LEMMA LaunchResumeKeeps == ASSUME CodexInv, LaunchResume PROVE CodexInv'
<1>1. /\ request = None /\ pending = None /\ frames = {} /\ queue = {}
      /\ session = "down" /\ session' = "resuming"
      /\ mem' = Aged(disk) /\ disk' = mem'
      /\ replayed' = FALSE /\ head' = None /\ snapshot' = "none" /\ pending' = None
      /\ UNCHANGED <<thread, view, turns, running, queue, history, completed, request, frames>>
  BY DownFacts DEF LaunchResume, Fresh, server, wire
<1>2. thread \in Nat /\ IsLedger(disk) /\ LedgerOK(disk)
  BY Threads DEF CodexInv, TypeOK
<1>3. IsLedger(mem') /\ LedgerOK(Aged(disk)) /\ DOMAIN disk' = DOMAIN disk
      /\ \A f \in DOMAIN disk : disk'[f].binding = disk[f].binding
  BY <1>1, <1>2, AgedEntry, AgedOK
<1>4. TypeOK'
  BY <1>1, <1>3 DEF CodexInv, TypeOK
<1>5. Grows
  BY <1>1, <1>2, SMT DEF Grows, Took, Landed, Seen
<1>6. LedgerOK(mem)' /\ LedgerOK(disk)'
  BY <1>1, <1>2, <1>3, <1>5, LedgerKept
<1>7. SessionOK' /\ WireOK' /\ PendingOK'
  BY <1>1 DEF SessionOK, WireOK, PendingOK
<1>8. ServerOK'
  BY <1>1 DEF CodexInv, ServerOK, Landed, Seen
<1>9. DeliveryOK'
  <2>1. Unread' = Unread /\ Landed(thread)' = Landed(thread) /\ \A f : ~ InTransit(f)'
    BY <1>1 DEF Unread, Landed, InTransit
  <2> USE DEF CodexInv, DeliveryOK
  <2>2. AtMostOnce' /\ OwnershipFirst'
    BY <1>1, <1>3, <2>1, SMT DEF AtMostOnce, OwnershipFirst
  <2>3. RefusalTrue' /\ OneOutstanding'
    BY <1>1, <2>1 DEF RefusalTrue, OneOutstanding, Outstanding, Unread
  <2> QED
    BY <1>1, <2>2, <2>3
<1> QED
  BY <1>4, <1>6, <1>7, <1>8, <1>9 DEF CodexInv

(* A new thread starts empty, and the entries are an older thread's. *)
LEMMA LaunchFreshKeeps == ASSUME CodexInv, LaunchFresh PROVE CodexInv'
<1>1. /\ request = None /\ pending = None /\ frames = {} /\ queue = {} /\ running = NoTurn
      /\ session' = "bound" /\ thread + 1 \in Bindings /\ thread' = thread + 1
      /\ mem' = Aged(disk) /\ disk' = mem'
      /\ replayed' = FALSE /\ head' = None /\ snapshot' = "none" /\ pending' = None
      /\ UNCHANGED <<view, turns, running, queue, history, completed, request, frames>>
  BY DownFacts DEF LaunchFresh, Fresh, server, wire
<1>2. thread \in Nat /\ IsLedger(disk) /\ LedgerOK(disk) /\ Bindings \subseteq Nat
  BY Threads DEF CodexInv, TypeOK
<1>3. /\ IsLedger(mem') /\ LedgerOK(Aged(disk)) /\ DOMAIN disk' = DOMAIN disk
      /\ \A f \in DOMAIN disk : disk'[f].binding = disk[f].binding
                                /\ disk[f].binding \in Bindings
  BY <1>1, <1>2, AgedEntry, AgedOK, EntryFields
<1>4. \A f \in DOMAIN mem' : mem'[f].binding # thread'
  BY <1>1, <1>2, <1>3, SMT DEF LedgerOK, EntryOK
<1>5. TypeOK'
  BY <1>1, <1>3 DEF CodexInv, TypeOK
<1>6. \A b \in Bindings : Landed(b)' = Landed(b)
  BY <1>1 DEF Landed
<1>7. Grows
  <2>1. \A f, n : \A b \in Bindings : Took(f, n, b) => Took(f, n, b)'
    BY <1>1, <1>6 DEF Took
  <2> QED
    BY <1>1, <1>2, <1>6, <2>1, SMT DEF Grows, Seen
<1>8. LedgerOK(mem)' /\ LedgerOK(disk)'
  BY <1>1, <1>2, <1>3, <1>7, LedgerKept
<1>9. SessionOK' /\ WireOK' /\ PendingOK'
  BY <1>1 DEF SessionOK, Ahead, WireOK, PendingOK
<1>10. ServerOK'
  <2>1. \A b \in Bindings : b > thread' => b > thread
    BY <1>1, <1>2, SMT
  <2> QED
    BY <1>1, <1>6, <2>1 DEF CodexInv, ServerOK, Seen
<1>11. DeliveryOK'
  <2>1. history'[thread'] = << >>
    BY <1>1, <1>2, SMT DEF CodexInv, ServerOK
  <2>2. Landed(thread)' = {} /\ \A f : ~ InTransit(f)'
    BY <1>1, <2>1, SMT DEF Landed, InTransit
  <2>3. AtMostOnce' /\ OwnershipFirst'
    BY <2>1, <2>2, SMT DEF AtMostOnce, OwnershipFirst
  <2>4. RefusalTrue' /\ OneOutstanding'
    BY <1>1, <1>4, <2>2, Threads DEF RefusalTrue, OneOutstanding, Outstanding, Unread
  <2> QED
    BY <1>1, <2>3, <2>4 DEF DeliveryOK
<1> QED
  BY <1>5, <1>8, <1>9, <1>10, <1>11 DEF CodexInv

(* The end of a session undoes nothing. *)
LEMMA EndGrows ==
  ASSUME CodexInv, SessionEnds
  PROVE  Grows
<1>1. thread \in Nat /\ NoTurn \notin completed
  BY Threads, SMT DEF CodexInv, TypeOK, Turns, NoTurn
<1>2. /\ running' = NoTurn /\ running \notin completed /\ running \in {NoTurn} \cup Turns
      /\ UNCHANGED <<turns, history, completed, thread, view>>
  BY DEF SessionEnds, ServerDies, CodexInv, ServerOK, TypeOK
<1>3. \A f, n : \A b \in Bindings : Took(f, n, b) => Took(f, n, b)'
  <2>1. \A n \in 1 .. Len(turns) : n # NoTurn
    BY SMT DEF NoTurn
  <2> QED
    BY <1>2, <2>1 DEF Took, Landed
<1> QED
  BY <1>1, <1>2, <1>3, SMT DEF Grows, Landed, Seen

(* What has to be shown of the ledger a session leaves. *)
LEMMA EndKeeps ==
  ASSUME CodexInv, SessionEnds, IsLedger(disk'), LedgerOK(disk)',
         \A f \in Unread \cap Landed(thread) :
           f \in DOMAIN disk' /\ disk'[f].binding = thread
  PROVE  CodexInv'
<1>1. /\ session' = "down" /\ mem' = Empty /\ request' = None /\ frames' = {}
      /\ replayed' = FALSE /\ head' = None /\ snapshot' = "none" /\ pending' = None
      /\ running' = NoTurn /\ queue' = {}
      /\ UNCHANGED <<turns, history, completed, thread, view>>
  BY DEF SessionEnds, Fresh, ServerDies
<1>2. IsLedger(mem') /\ DOMAIN mem' = {}
  BY <1>1 DEF Empty, IsLedger
<1>3. TypeOK'
  BY <1>1, <1>2 DEF CodexInv, TypeOK
<1>4. LedgerOK(mem)'
  BY <1>2 DEF LedgerOK
<1>5. SessionOK' /\ WireOK' /\ PendingOK'
  BY <1>1 DEF SessionOK, WireOK, PendingOK
<1>6. ServerOK'
  <2>1. NoTurn <= Len(turns) /\ NoTurn \notin completed
    BY SMT DEF CodexInv, TypeOK, Turns, NoTurn
  <2> QED
    BY <1>1, <2>1 DEF CodexInv, ServerOK, Landed, Seen
<1>7. DeliveryOK'
  <2>1. Unread' = Unread /\ Landed(thread)' = Landed(thread) /\ \A f : ~ InTransit(f)'
    BY <1>1 DEF Unread, Landed, InTransit
  <2> USE DEF CodexInv, DeliveryOK
  <2>2. AtMostOnce' /\ OwnershipFirst'
    BY <1>1, <2>1, SMT DEF AtMostOnce, OwnershipFirst
  <2>3. RefusalTrue' /\ OneOutstanding'
    BY <1>1, <2>1, Threads DEF RefusalTrue, OneOutstanding, Outstanding, Unread
  <2> QED
    BY <1>1, <2>2, <2>3
<1> QED
  BY <1>3, <1>4, <1>5, <1>6, <1>7 DEF CodexInv

LEMMA CrashKeeps == ASSUME CodexInv, Crash PROVE CodexInv'
<1>1. SessionEnds /\ disk' = disk
  BY DEF Crash
<1>2. thread \in Nat /\ IsLedger(disk) /\ LedgerOK(disk)
  BY Threads DEF CodexInv, TypeOK
<1>3. LedgerOK(disk)'
  BY <1>1, <1>2, EndGrows, LedgerKept
<1>4. \A f \in Unread \cap Landed(thread) : f \in DOMAIN disk /\ disk[f].binding = thread
  BY DeliveryParts DEF OwnershipFirst
<1> QED
  BY <1>1, <1>2, <1>3, <1>4, EndKeeps

(* M owns f for an attempt on the bound thread. *)
Owns(M, L, f) ==
  /\ Amends(M, L, f) /\ LedgerOK(M) /\ BoundTo(M, thread)
  /\ M[f].negative = "none" /\ M[f].accepted_turn = NoTurn

(* Ownership of a new attempt, or of a retry the ledger authorises. *)
LEMMA BeginOK ==
  ASSUME CodexInv, NEW L, IsLedger(L), LedgerOK(L), NEW f \in Files, Seen(f),
         BoundTo(L, thread), f \in DOMAIN L => L[f].negative # "none"
  PROVE  Owns(begin(L, f, thread, Current), L, f)
<1> DEFINE M == begin(L, f, thread, Current)
<1>1. thread \in Bindings /\ thread \in Nat /\ Current \in Nat
  BY Threads DEF CodexInv, TypeOK, Current
<1>2. /\ Amends(M, L, f)
      /\ M[f].binding = thread /\ M[f].negative = "none"
      /\ f \notin DOMAIN L => M[f].phase = Attempted /\ M[f].accepted_turn = NoTurn
      /\ f \in DOMAIN L => M[f].phase = L[f].phase /\ M[f].accepted_turn = NoTurn
  BY <1>1, BeginEntry, SMT
<1> HIDE DEF M
<1>3. M[f].accepted_turn = NoTurn
  BY <1>2
<1>4. M[f].phase \in Proves /\ M[f].phase # Consumed
  <2>1. Attempted \in Proves /\ Attempted # Consumed
    BY ProvesAssumption, SMT DEF Attempted, Consumed
  <2>2. f \in DOMAIN L => L[f].phase \in Proves /\ L[f].phase # Consumed
    BY DEF LedgerOK, EntryOK
  <2> QED
    BY <1>2, <2>1, <2>2
<1>5. EntryOK(f, M[f])
  BY <1>1, <1>2, <1>3, <1>4, SMT DEF EntryOK
<1>6. BoundTo(M, thread)
  BY <1>2 DEF BoundTo, Amends
<1>7. LedgerOK(M)
  BY <1>2, <1>5, <1>6 DEF LedgerOK, BoundTo, Amends
<1> QED
  BY <1>2, <1>3, <1>6, <1>7 DEF M, Owns

(* A retry needs a negative receipt. *)
LEMMA RetryNegative ==
  ASSUME NEW L, NEW f \in DOMAIN L, retry(L, f)
  PROVE  L[f].negative # "none"
  BY DEF retry, retention

(* The write of the entry or of the request fails. *)
LEMMA SendFailsKeeps == ASSUME CodexInv, SendFails PROVE CodexInv'
<1>1. SessionEnds /\ MayRequest /\ disk' \in {disk, begin(mem, head, thread, Current)}
  BY DEF SendFails
<1>2. /\ thread \in Nat /\ IsLedger(disk) /\ LedgerOK(disk) /\ IsLedger(mem) /\ LedgerOK(mem)
      /\ session = "bound" /\ head \in Files /\ Seen(head) /\ BoundTo(mem, thread)
      /\ DOMAIN mem = DOMAIN disk
      /\ head \in DOMAIN mem => mem[head].negative # "none"
  BY <1>1, Threads, RetryNegative
  DEF CodexInv, TypeOK, MayRequest, MayDeliver, WireOK, SessionOK, Ahead
<1>3. \A f \in Unread \cap Landed(thread) : f \in DOMAIN disk /\ disk[f].binding = thread
  BY DeliveryParts DEF OwnershipFirst
<1> DEFINE M == begin(mem, head, thread, Current)
<1>4. IsLedger(M) /\ LedgerOK(M) /\ BoundTo(M, thread) /\ DOMAIN mem \subseteq DOMAIN M
  <2>1. Owns(M, mem, head)
    BY <1>2, BeginOK
  <2> QED
    BY <2>1 DEF Owns, Amends
<1> HIDE DEF M
<1>5. Grows
  BY <1>1, EndGrows
<1>6. LedgerOK(disk)' /\ IsLedger(disk')
  <2>1. LedgerOK(disk)' \/ disk' # disk
    BY <1>2, <1>5, LedgerKept
  <2>2. \A ledger : ledger = M => LedgerOK(ledger)'
    BY <1>2, <1>4, <1>5, LedgerKept
  <2> QED
    BY <1>1, <1>2, <1>4, <2>1, <2>2 DEF M
<1>7. \A f \in Unread \cap Landed(thread) : f \in DOMAIN disk' /\ disk'[f].binding = thread
  BY <1>1, <1>2, <1>3, <1>4 DEF M, BoundTo
<1> QED
  BY <1>1, <1>6, <1>7, EndKeeps

-----------------------------------------------------------------------------
(* reconcile_resume. *)

(* M is the ledger with the entries of part settled or refused. *)
Sweeps(M, part) ==
  /\ IsLedger(M) /\ DOMAIN M = DOMAIN mem
  /\ \A f \in DOMAIN mem :
       /\ M[f].binding = mem[f].binding /\ M[f].accepted_turn = mem[f].accepted_turn
       /\ f \notin part => M[f] = mem[f]
       /\ f \in part /\ InHistory(f) => M[f].phase = Consumed /\ M[f].negative = "none"
       /\ f \in part /\ ~ InHistory(f) => M[f].phase = mem[f].phase

LEMMA ReconciledEntry ==
  ASSUME IsLedger(mem), NEW part, part \subseteq Unsettled
  PROVE  Sweeps(Reconciled(part), part)
<1> DEFINE M == Reconciled(part)
<1>1. \A f \in DOMAIN mem :
        LET e == record(mem, f, Consumed)[f] IN
        /\ e \in Entry /\ mem[f] \in Entry /\ f \in Files
        /\ e.binding = mem[f].binding /\ e.accepted_turn = mem[f].accepted_turn
        /\ mem[f].phase < Consumed => e.phase = Consumed /\ e.negative = "none"
  BY RecordEntry, EntryFields
<1>2. \A f \in DOMAIN mem :
        LET e == negative(mem, f, "absent")[f] IN
        /\ e \in Entry
        /\ e.binding = mem[f].binding /\ e.accepted_turn = mem[f].accepted_turn
        /\ e.phase = mem[f].phase
  BY NegativeEntry
<1>3. /\ DOMAIN M = DOMAIN mem
      /\ M = [f \in DOMAIN mem |-> M[f]]
      /\ \A f \in DOMAIN mem :
           /\ f \notin part => M[f] = mem[f]
           /\ f \in part /\ InHistory(f) => M[f] = record(mem, f, Consumed)[f]
           /\ f \in part /\ ~ InHistory(f) => M[f] = negative(mem, f, "absent")[f]
  BY DEF Reconciled
<1> HIDE DEF M
<1>4. \A f \in part : f \in DOMAIN mem /\ mem[f].phase < Consumed
  BY DEF Unsettled
<1>5. \A f \in DOMAIN mem :
        /\ M[f] \in Entry
        /\ M[f].binding = mem[f].binding /\ M[f].accepted_turn = mem[f].accepted_turn
  BY <1>1, <1>2, <1>3
<1>6. IsLedger(M)
  BY <1>3, <1>5 DEF IsLedger
<1>7. \A f \in DOMAIN mem :
        /\ f \in part /\ InHistory(f) => M[f].phase = Consumed /\ M[f].negative = "none"
        /\ f \in part /\ ~ InHistory(f) => M[f].phase = mem[f].phase
  BY <1>1, <1>2, <1>3, <1>4, SMT
<1> QED
  BY <1>3, <1>5, <1>6, <1>7 DEF Sweeps, M

(* A turn that completed has taken all that it accepted, so the history and *)
(* the completed turns tell the truth about an entry.                       *)
LEMMA ReconciledOK ==
  ASSUME CodexInv, NEW part, part \subseteq Unsettled, NEW M, Sweeps(M, part)
  PROVE  LedgerOK(M)
<1>1. IsLedger(mem) /\ LedgerOK(mem) /\ running \notin completed /\ NoTurn \notin completed
  BY SMT DEF CodexInv, TypeOK, ServerOK, Turns, NoTurn
<1>2. ASSUME NEW f \in DOMAIN M
      PROVE  EntryOK(f, M[f])
  <2>1. f \in DOMAIN mem /\ EntryOK(f, mem[f]) /\ mem[f].phase \in 1 .. 4
    BY <1>1, <1>2, EntryFields DEF Sweeps, LedgerOK
  <2>2. M[f].binding = mem[f].binding /\ M[f].accepted_turn = mem[f].accepted_turn
    BY <2>1 DEF Sweeps
  <2>3. CASE f \notin part
    BY <2>1, <2>3 DEF Sweeps
  <2>4. CASE f \in part /\ InHistory(f)
    <3>1. M[f].phase = Consumed /\ M[f].negative = "none" /\ mem[f].binding = thread
      BY <2>1, <2>4 DEF Sweeps, Unsettled
    <3>2. f \in Landed(thread)
      BY <1>1, <2>1, <2>4, <3>1 DEF InHistory, EntryOK, Took
    <3>3. Consumed \in Proves /\ Consumed >= TransportAccepted
      BY ProvesAssumption, SMT DEF Consumed, TransportAccepted
    <3> QED
      BY <2>1, <2>2, <3>1, <3>2, <3>3 DEF EntryOK
  <2>5. CASE f \in part /\ ~ InHistory(f)
    <3>1. M[f].phase = mem[f].phase /\ mem[f].phase # Consumed
      BY <2>1, <2>5, SMT DEF Sweeps, Unsettled, Consumed
    <3> QED
      BY <2>1, <2>2, <3>1 DEF EntryOK
  <2> QED
    BY <2>3, <2>4, <2>5
<1>3. \A f, g \in DOMAIN M : M[f].binding = M[g].binding
  BY <1>1, SMT DEF LedgerOK, Sweeps
<1> QED
  BY <1>2, <1>3 DEF LedgerOK

LEMMA ReconcileResumeKeeps == ASSUME CodexInv, ReconcileResume PROVE CodexInv'
<1>1. /\ session = "resuming" /\ session' = "bound"
      /\ mem' = Reconciled(Unsettled) /\ disk' = mem'
      /\ UNCHANGED <<thread, replayed, head, snapshot, pending, view>>
      /\ UNCHANGED <<turns, running, queue, history, completed, request, frames>>
  BY DEF ReconcileResume, server, wire
<1>2. /\ thread \in Nat /\ IsLedger(mem) /\ LedgerOK(mem) /\ mem = disk
      /\ request = None /\ pending = None /\ frames = {} /\ queue = {}
  BY <1>1, Threads DEF CodexInv, TypeOK, SessionOK
<1>3. Sweeps(mem', Unsettled)
  BY <1>1, <1>2, ReconciledEntry
<1>4. LedgerOK(mem') /\ IsLedger(mem')
  BY <1>3, ReconciledOK DEF Sweeps
<1>5. TypeOK'
  BY <1>1, <1>4 DEF CodexInv, TypeOK
<1>6. Grows
  BY <1>1, <1>2, SMT DEF Grows, Took, Landed, Seen
<1>7. LedgerOK(mem)' /\ LedgerOK(disk)'
  <2>1. \A ledger : ledger = mem' => LedgerOK(ledger)'
    BY <1>2, <1>4, <1>6, LedgerKept
  <2> QED
    BY <1>1, <2>1, SMT DEF LedgerOK
<1>8. SessionOK' /\ WireOK' /\ PendingOK'
  BY <1>1, <1>2 DEF CodexInv, SessionOK, Ahead, WireOK, PendingOK, Seen
<1>9. ServerOK'
  BY <1>1 DEF CodexInv, ServerOK, Landed, Seen
<1>10. DeliveryOK'
  <2>1. Unread' = Unread /\ Landed(thread)' = Landed(thread) /\ \A f : ~ InTransit(f)'
    BY <1>1, <1>2 DEF Unread, Landed, InTransit
  <2>2. AtMostOnce'
    BY <1>1, <2>1, DeliveryParts, SMT DEF AtMostOnce
  <2>3. OwnershipFirst'
    BY <1>1, <1>2, <1>3, <2>1, DeliveryParts, SMT DEF OwnershipFirst, Sweeps
  <2>4. ASSUME NEW f \in DOMAIN mem, mem'[f].binding = thread, mem'[f].negative # "none"
        PROVE  f \notin Landed(thread)
    <3>1. mem[f].phase \in 1 .. 4 /\ (mem[f].phase = Consumed => mem[f].negative = "none")
      BY <1>2, EntryFields DEF LedgerOK, EntryOK
    <3>2. f \in Unsettled
      BY <1>3, <2>4, <3>1, SMT DEF Sweeps, Unsettled, Consumed
    <3> QED
      BY <1>3, <2>4, <3>2 DEF Sweeps, InHistory
  <2>5. RefusalTrue'
    BY <1>1, <1>3, <2>1, <2>4 DEF RefusalTrue, Sweeps
  <2>6. OneOutstanding'
    BY <1>1, <1>2, <2>1, Threads DEF OneOutstanding, Outstanding, Unread
  <2> QED
    BY <1>1, <1>2, <2>2, <2>3, <2>5, <2>6 DEF DeliveryOK
<1> QED
  BY <1>5, <1>7, <1>8, <1>9, <1>10 DEF CodexInv

(* A failure leaves any part of the entries reconciled. *)
LEMMA ReconcileFailsKeeps == ASSUME CodexInv, ReconcileFails PROVE CodexInv'
<1>1. SessionEnds /\ session = "resuming"
  BY DEF ReconcileFails
<1>2. PICK part \in SUBSET Unsettled : disk' = Reconciled(part)
  BY DEF ReconcileFails
<1>3. thread \in Nat /\ IsLedger(mem) /\ mem = disk
  BY <1>1, Threads DEF CodexInv, TypeOK, SessionOK
<1>4. Sweeps(disk', part)
  BY <1>2, <1>3, ReconciledEntry
<1>5. LedgerOK(disk') /\ IsLedger(disk')
  BY <1>4, ReconciledOK DEF Sweeps
<1>6. LedgerOK(disk)'
  <2>1. Grows
    BY <1>1, EndGrows
  <2>2. \A ledger : ledger = disk' => LedgerOK(ledger)'
    BY <1>3, <1>5, <2>1, LedgerKept
  <2> QED
    BY <2>2 DEF LedgerOK
<1>7. \A f \in Unread \cap Landed(thread) : f \in DOMAIN disk' /\ disk'[f].binding = thread
  BY <1>3, <1>4, DeliveryParts DEF OwnershipFirst, Sweeps
<1> QED
  BY <1>1, <1>5, <1>6, <1>7, EndKeeps
=============================================================================
