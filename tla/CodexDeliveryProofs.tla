------------------------- MODULE CodexDeliveryProofs -------------------------
(* Theorems about CodexDelivery, for every set of messages and threads and   *)
(* any number of turns: the pump's own steps keep the invariant of           *)
(* CodexServerProofs, which implies what is promised.                        *)
EXTENDS CodexServerProofs

(* The leaves are first-order, for Zenon, but for those that cite SMT. *)
USE Zenon

-----------------------------------------------------------------------------
(* The pump's own steps. *)

(* What has to be shown of a step of the pump that sends nothing: it gives  *)
(* up no entry of an unread message of the thread, and refuses only what    *)
(* was refused or is neither taken nor under way.                           *)
LEMMA PumpStep ==
  ASSUME CodexInv, session = "bound",
         UNCHANGED <<session, thread, view, turns, running, queue, history, completed, request>>,
         replayed' \in BOOLEAN, snapshot' \in {"none", "asked", "verified"},
         IsLedger(mem'), IsLedger(disk'), LedgerOK(mem'), LedgerOK(disk'), Ahead', PendingOK',
         head' = head \/ head' = None \/ (head' \in Files /\ Seen(head')),
         frames' \subseteq frames,
         pending' = pending
           \/ (pending' = None /\ request = None /\ \A frame \in frames' : ~ IsAnswer(frame)),
         \A f \in Unread \cap DOMAIN disk :
           disk[f].binding = thread => f \in DOMAIN disk' /\ disk'[f].binding = thread,
         \A f \in Unread \cap DOMAIN mem' :
           mem'[f].binding = thread /\ mem'[f].negative # "none" =>
             \/ f \in DOMAIN mem /\ mem[f].binding = thread /\ mem[f].negative # "none"
             \/ f \notin Landed(thread) /\ ~ InTransit(f)
  PROVE  CodexInv'
<1>1. thread \in Nat /\ pending' \in Files \cup {None} /\ head' \in Files \cup {None}
  BY Threads DEF CodexInv, TypeOK
<1>2. TypeOK'
  BY <1>1 DEF CodexInv, TypeOK
<1>3. Grows
  BY <1>1, SMT DEF Grows, Took, Landed, Seen
<1>4. LedgerOK(mem)' /\ LedgerOK(disk)'
  <2>1. \A ledger : ledger \in {mem', disk'} => LedgerOK(ledger)'
    BY <1>1, <1>3, LedgerKept
  <2> QED
    BY <2>1 DEF LedgerOK
<1>5. SessionOK'
  BY DEF CodexInv, SessionOK
<1>6. ServerOK'
  BY SMT DEF CodexInv, ServerOK, Landed, Seen
<1>7. WireOK'
  <2>1. (head' # None => Seen(head')) /\ (pending' # None => Seen(pending'))
    BY DEF CodexInv, WireOK
  <2>2. /\ request' # None => request'.file = pending'
        /\ \A frame \in frames' : IsAnswer(frame) => frame.file = pending' /\ request' = None
        /\ \A f1, f2 \in frames' : IsAnswer(f1) /\ IsAnswer(f2) => f1 = f2
    BY DEF CodexInv, WireOK
  <2>3. \A frame \in frames' :
          /\ frame.kind = "accepted" => Took(frame.file, frame.turn, thread)
          /\ frame.kind = "item" => frame.file \in Landed(thread)
          /\ frame.kind = "completed" => frame.turn \in completed
    BY DEF CodexInv, WireOK
  <2>4. Landed(thread)' = Landed(thread) /\ \A f, n : Took(f, n, thread)' <=> Took(f, n, thread)
    BY DEF Landed, Took
  <2> QED
    BY <2>1, <2>2, <2>3, <2>4 DEF WireOK, Seen
<1>8. DeliveryOK'
  <2>1. /\ Unread' = Unread /\ Landed(thread)' = Landed(thread)
        /\ \A f : InTransit(f)' <=> InTransit(f)
    BY DEF Unread, Landed, InTransit
  <2>2. AtMostOnce'
    BY <2>1, DeliveryParts DEF AtMostOnce
  <2>3. OwnershipFirst'
    BY <2>1, DeliveryParts DEF OwnershipFirst
  <2>4. RefusalTrue'
    BY <2>1, DeliveryParts DEF RefusalTrue
  <2>5. OneOutstanding'
    <3>1. Outstanding' \subseteq Outstanding
      BY <1>1, <2>1, Threads DEF Outstanding, Unread
    <3> QED
      BY <3>1, DeliveryParts DEF OneOutstanding
  <2> QED
    BY <2>1, <2>2, <2>3, <2>4, <2>5, DeliveryParts DEF DeliveryOK
<1> QED
  BY <1>2, <1>4, <1>5, <1>6, <1>7, <1>8 DEF CodexInv

(* What is kept of a ledger. *)
LEMMA KeepOK ==
  ASSUME NEW L, IsLedger(L), LedgerOK(L), NEW K
  PROVE  LedgerOK(Keep(L, K))
  BY DEF LedgerOK, Keep

(* Entries of another thread go. *)
LEMMA RebindKeeps == ASSUME CodexInv, Rebind PROVE CodexInv'
<1> DEFINE kept == {f \in DOMAIN mem : mem[f].binding = thread}
<1>1. /\ session = "bound" /\ pending = None /\ mem' = Keep(mem, kept) /\ disk' = mem'
      /\ UNCHANGED <<session, thread, replayed, head, snapshot, pending, view>>
      /\ UNCHANGED <<turns, running, queue, history, completed, request, frames>>
  BY DEF Rebind, rebind, server, wire
<1>2. /\ IsLedger(mem) /\ LedgerOK(mem) /\ Ahead
      /\ replayed \in BOOLEAN /\ snapshot \in {"none", "asked", "verified"}
  BY <1>1, LedgerParts
<1> HIDE DEF kept
<1>3. /\ IsLedger(mem') /\ LedgerOK(mem') /\ DOMAIN mem' = DOMAIN mem \cap kept
      /\ \A f \in DOMAIN mem \cap kept : mem'[f] = mem[f]
  BY <1>1, <1>2, KeepEntry, KeepOK
<1>4. Ahead' /\ PendingOK'
  BY <1>1 DEF Ahead, PendingOK
<1>5. \A f \in Unread \cap DOMAIN disk :
        disk[f].binding = thread => f \in DOMAIN disk' /\ disk'[f].binding = thread
  BY <1>1, <1>2, <1>3 DEF Ahead, kept
<1>6. \A f \in DOMAIN mem' : f \in DOMAIN mem /\ mem'[f] = mem[f]
  BY <1>3
<1>7. IsLedger(disk') /\ LedgerOK(disk')
  BY <1>1, <1>3
<1> QED
  BY <1>1, <1>2, <1>3, <1>4, <1>5, <1>6, <1>7, PumpStep

-----------------------------------------------------------------------------
(* Answers and receipts. *)

(* The answer to the outstanding request is the only one. *)
LEMMA AnswerFacts ==
  ASSUME CodexInv, session = "bound", NEW frame \in frames, IsAnswer(frame)
  PROVE  /\ frame.file = pending /\ request = None /\ pending \in Files
         /\ \A other \in frames \ {frame} : ~ IsAnswer(other)
         /\ BoundTo(mem, thread) /\ Ahead /\ IsLedger(mem) /\ IsLedger(disk)
         /\ LedgerOK(mem) /\ LedgerOK(disk)
<1>1. /\ frame.file = pending /\ request = None
      /\ \A other \in frames \ {frame} : ~ IsAnswer(other)
  BY DEF CodexInv, WireOK
<1>2. frame.file \in Files
  BY DEF CodexInv, TypeOK, Frame, IsAnswer
<1> QED
  BY <1>1, <1>2, Threads DEF CodexInv, TypeOK, PendingOK, SessionOK

(* What has to be shown of the ledger that an answer leaves. *)
LEMMA AnswerKeeps ==
  ASSUME CodexInv, session = "bound", NEW frame \in frames, IsAnswer(frame),
         NEW M, Stores(M), pending' = None, frames' = frames \ {frame},
         M = mem \/ (/\ pending \in DOMAIN mem /\ Amends(M, mem, pending)
                    /\ EntryOK(pending, M[pending]) /\ M[pending].binding = thread),
         M # mem /\ pending \in Unread /\ M[pending].negative # "none" =>
           pending \notin Landed(thread) /\ ~ InTransit(pending)
  PROVE  CodexInv'
<1>1. /\ mem' = M
      /\ (mem' = mem /\ disk' = disk) \/ disk' = mem'
      /\ UNCHANGED <<session, thread, replayed, head, snapshot, view, request>>
      /\ UNCHANGED <<turns, running, queue, history, completed>>
  BY DEF Stores, server
<1>2. /\ request = None /\ \A other \in frames' : ~ IsAnswer(other)
      /\ BoundTo(mem, thread) /\ Ahead /\ IsLedger(mem) /\ IsLedger(disk)
      /\ LedgerOK(mem) /\ LedgerOK(disk)
      /\ replayed \in BOOLEAN /\ snapshot \in {"none", "asked", "verified"}
  BY AnswerFacts, LedgerParts
<1>3. /\ IsLedger(mem') /\ DOMAIN mem' = DOMAIN mem /\ BoundTo(mem', thread)
      /\ \A g \in DOMAIN mem : g # pending => mem'[g] = mem[g]
  <2>1. CASE M = mem
    BY <1>1, <1>2, <2>1
  <2>2. CASE pending \in DOMAIN mem /\ Amends(M, mem, pending) /\ M[pending].binding = thread
    <3>1. /\ IsLedger(M) /\ DOMAIN M = DOMAIN mem
          /\ \A g \in DOMAIN mem \ {pending} : M[g] = mem[g]
      BY <2>2 DEF Amends
    <3> QED
      BY <1>1, <1>2, <2>2, <3>1 DEF BoundTo
  <2> QED
    BY <2>1, <2>2
<1>4. LedgerOK(mem')
  BY <1>1, <1>2, <1>3 DEF LedgerOK, BoundTo
<1>5. Ahead' /\ PendingOK'
  BY <1>1, <1>2 DEF Ahead, PendingOK
<1>6. \A f \in Unread \cap DOMAIN disk :
        disk[f].binding = thread => f \in DOMAIN disk' /\ disk'[f].binding = thread
  BY <1>1, <1>2, <1>3 DEF Ahead, BoundTo
<1>7. \A f \in Unread \cap DOMAIN mem' :
        mem'[f].binding = thread /\ mem'[f].negative # "none" =>
          \/ f \in DOMAIN mem /\ mem[f].binding = thread /\ mem[f].negative # "none"
          \/ f \notin Landed(thread) /\ ~ InTransit(f)
  BY <1>1, <1>3
<1>8. IsLedger(disk') /\ LedgerOK(disk') /\ frames' \subseteq frames
  BY <1>1, <1>2, <1>3, <1>4
<1> QED
  BY <1>1, <1>2, <1>3, <1>4, <1>5, <1>6, <1>7, <1>8, PumpStep

(* accept_response, accepted. *)
LEMMA AcceptTurnKeeps ==
  ASSUME CodexInv, session = "bound", NEW frame \in frames, AcceptTurn(frame)
  PROVE  CodexInv'
<1> DEFINE M == accept_codex_turn(mem, frame.file, frame.turn)
<1>1. /\ frame.kind = "accepted" /\ IsAnswer(frame)
      /\ Stores(M) /\ pending' = None /\ frames' = frames \ {frame}
  BY DEF AcceptTurn, IsAnswer
<1>2. /\ frame.file = pending /\ BoundTo(mem, thread) /\ IsLedger(mem) /\ LedgerOK(mem)
  BY <1>1, AnswerFacts
<1>3. frame.turn \in Nat /\ Took(pending, frame.turn, thread)
  <2>1. frame.turn \in Turns
    <3>1. frame \in Frame
      BY DEF CodexInv, TypeOK
    <3> QED
      BY <1>1, <3>1 DEF Frame
  <2>2. Took(pending, frame.turn, thread)
    <3>1. WireOK
      BY DEF CodexInv
    <3> QED
      BY <1>1, <1>2, <3>1 DEF WireOK
  <2> QED
    BY <2>1, <2>2, SMT DEF Turns
<1>4. CASE pending \notin DOMAIN mem
  <2>1. M = mem
    BY <1>2, <1>4 DEF accept_codex_turn
  <2> HIDE DEF M
  <2> QED
    BY <1>1, <2>1, AnswerKeeps
<1>5. CASE pending \in DOMAIN mem
  <2>1. /\ Amends(M, mem, pending)
        /\ M[pending].binding = mem[pending].binding /\ M[pending].accepted_turn = frame.turn
        /\ M[pending].negative = "none"
        /\ M[pending].phase = Larger(mem[pending].phase, TransportAccepted)
    <3>1. /\ IsLedger(mem) /\ pending \in DOMAIN mem /\ frame.turn \in Nat
          /\ M = accept_codex_turn(mem, pending, frame.turn)
      BY <1>2, <1>3, <1>5
    <3> HIDE DEF M
    <3> QED
      BY <3>1, AcceptEntry, SMT
  <2> HIDE DEF M
  <2>2. EntryOK(pending, mem[pending]) /\ mem[pending].binding = thread
        /\ mem[pending].phase \in 1 .. 4
    BY <1>2, <1>5, EntryFields DEF LedgerOK, BoundTo
  <2>3. /\ M[pending].phase \in {mem[pending].phase, TransportAccepted}
        /\ M[pending].phase >= TransportAccepted /\ TransportAccepted # Consumed
    BY <2>1, <2>2, SMT DEF Larger, TransportAccepted, Consumed
  <2>4. EntryOK(pending, M[pending])
    BY <1>3, <2>1, <2>2, <2>3, CodexAssumption DEF EntryOK
  <2> QED
    BY <1>1, <1>5, <2>1, <2>2, <2>4, AnswerKeeps
<1> QED
  BY <1>4, <1>5

(* accept_response, refused. *)
LEMMA AcceptRefusalKeeps ==
  ASSUME CodexInv, session = "bound", NEW frame \in frames, AcceptRefusal(frame)
  PROVE  CodexInv'
<1> DEFINE M == negative(mem, frame.file, "rejected")
<1>1. /\ frame.kind = "rejected" /\ IsAnswer(frame)
      /\ Stores(M) /\ pending' = None /\ frames' = frames \ {frame}
  BY DEF AcceptRefusal, IsAnswer
<1>2. /\ frame.file = pending /\ BoundTo(mem, thread) /\ IsLedger(mem) /\ LedgerOK(mem)
  BY <1>1, AnswerFacts
<1>3. pending \in Unread => pending \notin Landed(thread) /\ ~ InTransit(pending)
  BY <1>1, <1>2, DeliveryParts
<1>4. CASE pending \notin DOMAIN mem
  <2>1. M = mem
    BY <1>2, <1>4 DEF negative
  <2> HIDE DEF M
  <2> QED
    BY <1>1, <2>1, AnswerKeeps
<1>5. CASE pending \in DOMAIN mem
  <2>1. /\ Amends(M, mem, pending)
        /\ M[pending].binding = mem[pending].binding
        /\ M[pending].accepted_turn = mem[pending].accepted_turn
        /\ M[pending].phase = mem[pending].phase
        /\ M[pending] = mem[pending]
             \/ (mem[pending].negative # "none" \/ mem[pending].phase < Consumed)
    <3>1. /\ IsLedger(mem) /\ pending \in DOMAIN mem
          /\ M = negative(mem, pending, "rejected")
      BY <1>2, <1>5
    <3> HIDE DEF M
    <3> QED
      BY <3>1, NegativeEntry
  <2> HIDE DEF M
  <2>2. EntryOK(pending, mem[pending]) /\ mem[pending].binding = thread
    BY <1>2, <1>5 DEF LedgerOK, BoundTo
  <2>3. M[pending].phase = Consumed => M[pending] = mem[pending]
    <3>1. mem[pending].phase = Consumed => mem[pending].negative = "none"
      BY <2>2 DEF EntryOK
    <3> QED
      BY <2>1, <3>1, SMT DEF Consumed
  <2>4. EntryOK(pending, M[pending])
    BY <2>1, <2>2, <2>3 DEF EntryOK
  <2> QED
    BY <1>1, <1>3, <1>5, <2>1, <2>2, <2>4, AnswerKeeps
<1> QED
  BY <1>4, <1>5

(* Receipts are recorded for what has landed in the thread; a failed write  *)
(* leaves the file behind.                                                  *)
LEMMA ReceiptsKeep ==
  ASSUME CodexInv, session = "bound", NEW S, NEW M, M = RecordAll(mem, S),
         \A f \in S \cap DOMAIN mem : mem[f].binding = thread /\ f \in Landed(thread),
         mem' = M, disk' = disk \/ disk' = M, frames' \subseteq frames,
         UNCHANGED <<session, thread, replayed, head, snapshot, pending, view, request>>,
         UNCHANGED <<turns, running, queue, history, completed>>
  PROVE  CodexInv'
<1>1. /\ IsLedger(mem) /\ IsLedger(disk) /\ LedgerOK(mem) /\ LedgerOK(disk) /\ Ahead
      /\ replayed \in BOOLEAN /\ snapshot \in {"none", "asked", "verified"}
  BY LedgerParts
<1>2. Settles(M, mem, S)
  BY <1>1, RecordAllEntry
<1>3. /\ IsLedger(M) /\ DOMAIN M = DOMAIN mem
      /\ \A g \in DOMAIN mem :
           /\ M[g].binding = mem[g].binding /\ M[g].accepted_turn = mem[g].accepted_turn
           /\ M[g] = mem[g] \/ (g \in S /\ M[g].phase = Consumed /\ M[g].negative = "none")
  BY <1>2 DEF Settles
<1>4. LedgerOK(M)
  <2>1. Consumed \in Proves /\ Consumed >= TransportAccepted
    BY ProvesAssumption, SMT DEF Consumed, TransportAccepted
  <2>2. ASSUME NEW f \in DOMAIN mem
        PROVE  EntryOK(f, M[f])
    <3>1. EntryOK(f, mem[f])
      BY <1>1 DEF LedgerOK
    <3>2. CASE f \in S /\ M[f].phase = Consumed /\ M[f].negative = "none"
      BY <1>3, <2>1, <3>1, <3>2 DEF EntryOK
    <3> QED
      BY <1>3, <3>1, <3>2
  <2> QED
    BY <1>1, <1>3, <2>2, SMT DEF LedgerOK
<1>5. Ahead'
  BY <1>1, <1>3, SMT DEF Ahead
<1>6. PendingOK'
  <2>1. PendingOK
    BY DEF CodexInv
  <2> QED
    BY <1>3, <2>1 DEF PendingOK, BoundTo
<1>7. \A f \in Unread \cap DOMAIN disk :
        disk[f].binding = thread => f \in DOMAIN disk' /\ disk'[f].binding = thread
  BY <1>1, <1>3 DEF Ahead
<1>8. \A f \in DOMAIN mem' : mem'[f].negative # "none" => mem'[f] = mem[f]
  BY <1>3
<1>9. IsLedger(mem') /\ IsLedger(disk') /\ LedgerOK(mem') /\ LedgerOK(disk')
  BY <1>1, <1>3, <1>4
<1> QED
  BY <1>1, <1>3, <1>5, <1>6, <1>7, <1>8, <1>9, PumpStep

(* accept_typed_receipt *)
LEMMA AcceptItemKeeps ==
  ASSUME CodexInv, session = "bound", NEW frame \in frames, AcceptItem(frame)
  PROVE  CodexInv'
<1> DEFINE S == {f \in DOMAIN mem : f = frame.file /\ Mine(f)}
           M == RecordAll(mem, S)
<1>1. /\ mem' = M /\ (disk' = disk \/ disk' = M) /\ frames' \subseteq frames
      /\ UNCHANGED <<session, thread, replayed, head, snapshot, pending, view, request>>
      /\ UNCHANGED <<turns, running, queue, history, completed>>
  BY DEF AcceptItem, Stores, server
<1>2. \A f \in S : mem[f].binding = thread /\ f \in Landed(thread)
  BY DEF AcceptItem, CodexInv, WireOK, Mine
<1> HIDE DEF S
<1> QED
  BY <1>1, <1>2, ReceiptsKeep

(* accept_turn_completion_receipt *)
LEMMA AcceptCompletionKeeps ==
  ASSUME CodexInv, session = "bound", NEW frame \in frames, AcceptCompletion(frame)
  PROVE  CodexInv'
<1> DEFINE S == {f \in DOMAIN mem : Mine(f) /\ mem[f].accepted_turn = frame.turn}
           M == RecordAll(mem, S)
<1>1. /\ mem' = M /\ (disk' = disk \/ disk' = M) /\ frames' \subseteq frames
      /\ UNCHANGED <<session, thread, replayed, head, snapshot, pending, view, request>>
      /\ UNCHANGED <<turns, running, queue, history, completed>>
  BY DEF AcceptCompletion, Stores, server
<1>2. frame.turn \in completed /\ NoTurn \notin completed /\ running \notin completed
  BY SMT DEF AcceptCompletion, CodexInv, WireOK, ServerOK, TypeOK, Turns, NoTurn
<1>3. \A f \in DOMAIN mem : EntryOK(f, mem[f])
  BY DEF CodexInv, LedgerOK
<1>4. \A f \in S : mem[f].binding = thread /\ f \in Landed(thread)
  BY <1>2, <1>3 DEF EntryOK, Took, Mine
<1> HIDE DEF S
<1> QED
  BY <1>1, <1>4, ReceiptsKeep

(* accept_transcript_receipts *)
LEMMA ReadTranscriptKeeps == ASSUME CodexInv, ReadTranscript PROVE CodexInv'
<1> DEFINE S == {f \in DOMAIN mem : f \in Landed(thread) /\ Mine(f)}
           M == RecordAll(mem, S)
<1>1. /\ mem' = M /\ (disk' = disk \/ disk' = M) /\ frames' \subseteq frames
      /\ session = "bound"
      /\ UNCHANGED <<session, thread, replayed, head, snapshot, pending, view, request>>
      /\ UNCHANGED <<turns, running, queue, history, completed>>
  BY DEF ReadTranscript, server, wire
<1>2. \A f \in S : mem[f].binding = thread /\ f \in Landed(thread)
  BY DEF Mine
<1> HIDE DEF S
<1> QED
  BY <1>1, <1>2, ReceiptsKeep

-----------------------------------------------------------------------------
(* Selecting a message. *)

INSTANCE WellFoundedInduction

(* A set of files has a first one. *)
LEMMA FirstFile ==
  ASSUME NEW S, S \subseteq Nat, S # {}
  PROVE  \E f \in S : \A g \in S : f <= g
<1>1. PICK f \in S : \A g \in S : ~ (<<g, f>> \in OpToRel(<, Nat))
  BY NatLessThanWellFounded, WFMin
<1>2. \A g \in S : g \in Nat /\ f \in Nat /\ ~ (g < f)
  BY <1>1 DEF OpToRel
<1> QED
  BY <1>2, SMT

(* The head is a message with its body there. *)
LEMMA SelectedFile ==
  ASSUME NEW L, Selected(L) # None
  PROVE  Selected(L) \in Files /\ view[Selected(L)] = "ready"
<1> DEFINE open == {f \in Files : view[f] = "ready" /\ ~ settled(L, f)}
<1>1. open # {} /\ Selected(L) = CHOOSE f \in open : \A g \in open : f <= g
  BY DEF Selected
<1>2. \E f \in open : \A g \in open : f <= g
  BY <1>1, FirstFile, FilesAssumption
<1>3. Selected(L) \in open
  BY <1>1, <1>2
<1> QED
  BY <1>3

(* refresh_if_due *)
LEMMA RefreshKeeps == ASSUME CodexInv, Refresh PROVE CodexInv'
<1>1. /\ session = "bound" /\ mem' = Keep(mem, Unread) /\ head' = Selected(mem')
      /\ (mem' = mem /\ disk' = disk) \/ disk' = mem'
      /\ snapshot' = snapshot \/ snapshot' = "none"
      /\ UNCHANGED <<session, thread, replayed, pending, view>>
      /\ UNCHANGED <<turns, running, queue, history, completed, request, frames>>
  BY DEF Refresh, prune, server, wire
<1>2. /\ IsLedger(mem) /\ LedgerOK(mem) /\ IsLedger(disk) /\ LedgerOK(disk) /\ Ahead
      /\ replayed \in BOOLEAN /\ snapshot \in {"none", "asked", "verified"}
  BY <1>1, LedgerParts
<1>3. /\ IsLedger(mem') /\ LedgerOK(mem') /\ DOMAIN mem' = DOMAIN mem \cap Unread
      /\ \A f \in DOMAIN mem \cap Unread : mem'[f] = mem[f]
  BY <1>1, <1>2, KeepEntry, KeepOK
<1>4. IsLedger(disk') /\ LedgerOK(disk')
  BY <1>1, <1>2, <1>3
<1>5. Ahead'
  BY <1>1, <1>2 DEF Ahead
<1>6. PendingOK'
  BY <1>1, <1>3 DEF CodexInv, PendingOK, BoundTo
<1>7. head' = None \/ (head' \in Files /\ Seen(head'))
  BY <1>1, SelectedFile DEF Seen
<1>8. \A f \in Unread \cap DOMAIN disk :
        disk[f].binding = thread => f \in DOMAIN disk' /\ disk'[f].binding = thread
  BY <1>1, <1>2, <1>3 DEF Ahead
<1> QED
  BY <1>1, <1>2, <1>3, <1>4, <1>5, <1>6, <1>7, <1>8, PumpStep

-----------------------------------------------------------------------------
(* Requests. *)

(* Without an outstanding request there is nothing to answer. *)
LEMMA IdleFacts ==
  ASSUME CodexInv, pending = None
  PROVE  request = None /\ \A frame \in frames : ~ IsAnswer(frame)
<1>1. \A frame \in frames : IsAnswer(frame) => frame.file \in Files
  BY DEF CodexInv, TypeOK, Frame, IsAnswer
<1>2. request # None => request.file \in Files
  BY DEF CodexInv, TypeOK, Request
<1> QED
  BY <1>1, <1>2, Threads DEF CodexInv, WireOK

(* The ledger L may own the head, and lists every unread message of mem. *)
MaySend(L) ==
  /\ IsLedger(L) /\ LedgerOK(L) /\ BoundTo(L, thread)
  /\ head \in DOMAIN L => L[head].negative # "none"
  /\ ~ holds_other_than(L, head)
  /\ \A f \in Unread' \cap DOMAIN mem : f \in DOMAIN L
  /\ \A f \in DOMAIN L : f \in DOMAIN mem /\ L[f] = mem[f]

(* Whatever does not hold is settled, so it is not under way; and the head  *)
(* is new or was refused.                                                   *)
LEMMA SendClears ==
  ASSUME CodexInv, session = "bound", Unread' \subseteq Unread, NEW L, MaySend(L)
  PROVE  /\ \A f \in Unread' : f \notin queue
         /\ head \in Unread' => head \notin Landed(thread)
         /\ \A f \in DOMAIN L \ {head} : L[f].negative = "none"
         /\ \A f \in Unread' \cap Landed(thread) : f \in DOMAIN L
<1>1. \A f \in DOMAIN L \ {head} :
        L[f].negative = "none" /\ f \in Landed(thread)
  <2> TAKE f \in DOMAIN L \ {head}
  <2>1. retention(L, f) = "release"
    BY DEF MaySend, holds_other_than
  <2>2. L[f].phase \in 1 .. 4 /\ L[f].binding = thread /\ EntryOK(f, L[f])
    BY EntryFields DEF MaySend, BoundTo, LedgerOK
  <2>3. L[f].negative = "none" /\ L[f].phase = Consumed
    BY <2>1, <2>2, SMT DEF retention, releases, Consumed
  <2> QED
    BY <2>2, <2>3 DEF EntryOK
<1>2. DOMAIN disk = DOMAIN mem
  BY DEF CodexInv, SessionOK, Ahead
<1>3. \A f \in Unread' : InTransit(f) \/ f \in Landed(thread) => f \in DOMAIN L
  BY <1>2, DeliveryParts DEF OwnershipFirst, MaySend
<1>4. head \in Unread' /\ head \in DOMAIN L => head \notin Landed(thread) /\ ~ InTransit(head)
  BY DeliveryParts DEF RefusalTrue, MaySend, BoundTo
<1>5. \A f \in Unread' : f \in Landed(thread) => ~ InTransit(f)
  BY DeliveryParts DEF AtMostOnce, Landed
<1>6. \A f \in Unread' : ~ InTransit(f)
  BY <1>1, <1>3, <1>4, <1>5
<1> QED
  BY <1>1, <1>3, <1>4, <1>6 DEF InTransit

(* Ownership lands and the request is written. *)
LEMMA SendKeeps ==
  ASSUME CodexInv, session = "bound", pending = None, head \in Files, Seen(head),
         NEW L, MaySend(L), Transport(L), Unread' \subseteq Unread,
         view' \in [Files -> {"absent", "active", "ready", "archived"}],
         \A f \in Files : Seen(f) => Seen(f)',
         UNCHANGED <<session, thread, replayed, head, frames>>,
         UNCHANGED <<turns, running, queue, history, completed>>
  PROVE  CodexInv'
<1>1. /\ mem' = begin(L, head, thread, Current) /\ disk' = mem'
      /\ pending' = head /\ snapshot' = "none"
      /\ \E turn \in {NoTurn} \cup DOMAIN turns : request' = [file |-> head, turn |-> turn]
  BY DEF Transport
<1>2. thread \in Nat /\ head # None
  BY Threads DEF CodexInv, TypeOK
<1>3. Owns(mem', L, head)
  BY <1>1, BeginOK DEF MaySend
<1>4. /\ IsLedger(mem') /\ LedgerOK(mem') /\ BoundTo(mem', thread)
      /\ DOMAIN mem' = DOMAIN L \cup {head}
      /\ \A g \in DOMAIN L \ {head} : mem'[g] = L[g]
      /\ mem'[head].negative = "none" /\ mem'[head].accepted_turn = NoTurn
  BY <1>3 DEF Owns, Amends
<1>5. request' \in Request /\ request'.file = head
  <2>1. DOMAIN turns \subseteq Turns
    BY Threads, SMT DEF CodexInv, TypeOK, Turns
  <2> QED
    BY <1>1, <2>1, SMT DEF Request
<1>6. TypeOK'
  BY <1>1, <1>4, <1>5 DEF CodexInv, TypeOK
<1>7. Grows
  BY <1>2, SMT DEF Grows, Took, Landed
<1>8. LedgerOK(mem)' /\ LedgerOK(disk)'
  <2>1. \A ledger : ledger = mem' => LedgerOK(ledger)'
    BY <1>2, <1>4, <1>7, LedgerKept
  <2> QED
    BY <1>1, <2>1, SMT DEF LedgerOK
<1>9. SessionOK' /\ PendingOK'
  BY <1>1, <1>4 DEF SessionOK, Ahead, PendingOK, BoundTo
<1>10. ServerOK'
  <2>1. \A b \in Bindings : Landed(b)' = Landed(b) /\ Landed(b) \subseteq Files
    BY SMT DEF CodexInv, TypeOK, Landed
  <2>2. queue \subseteq Files
    BY DEF CodexInv, TypeOK
  <2> QED
    BY <2>1, <2>2 DEF CodexInv, ServerOK
<1>11. request = None /\ \A frame \in frames : ~ IsAnswer(frame)
  BY IdleFacts
<1>12. WireOK'
  <2>1. Landed(thread)' = Landed(thread) /\ \A f, n : Took(f, n, thread)' <=> Took(f, n, thread)
    BY DEF Landed, Took
  <2>2. \A frame \in frames :
          /\ frame.kind = "accepted" => Took(frame.file, frame.turn, thread)
          /\ frame.kind = "item" => frame.file \in Landed(thread)
          /\ frame.kind = "completed" => frame.turn \in completed
    BY DEF CodexInv, WireOK
  <2>3. Seen(head)' /\ Seen(pending)'
    BY <1>1 DEF Seen
  <2> QED
    BY <1>1, <1>5, <1>11, <2>1, <2>2, <2>3 DEF WireOK
<1>13. DeliveryOK'
  <2>1. /\ \A f \in Unread' : f \notin queue
        /\ head \in Unread' => head \notin Landed(thread)
        /\ \A f \in DOMAIN L \ {head} : L[f].negative = "none"
        /\ \A f \in Unread' \cap Landed(thread) : f \in DOMAIN L
    BY SendClears
  <2>2. Landed(thread)' = Landed(thread) /\ \A f \in Unread' : InTransit(f)' => f = head
    BY <1>5, <2>1 DEF Landed, InTransit
  <2>3. AtMostOnce'
    <3>1. \A n \in DOMAIN history[thread] : history[thread][n][1] \in Landed(thread)
      BY DEF Landed
    <3> QED
      BY <2>1, <2>2, <3>1, DeliveryParts, SMT DEF AtMostOnce
  <2>4. OwnershipFirst'
    BY <1>1, <1>4, <2>1, <2>2 DEF OwnershipFirst, BoundTo
  <2>5. RefusalTrue'
    BY <1>4, <2>1 DEF RefusalTrue
  <2>6. OneOutstanding'
    BY <1>1, <2>2 DEF OneOutstanding, Outstanding
  <2>7. \A frame \in frames' : frame.kind # "rejected"
    BY <1>11 DEF IsAnswer
  <2> QED
    BY <2>1, <2>3, <2>4, <2>5, <2>6, <2>7 DEF DeliveryOK
<1> QED
  BY <1>6, <1>8, <1>9, <1>10, <1>12, <1>13 DEF CodexInv

(* maybe_request *)
LEMMA SendRequestKeeps == ASSUME CodexInv, SendRequest PROVE CodexInv'
<1>1. /\ session = "bound" /\ pending = None /\ head # None /\ BoundTo(mem, thread)
      /\ ~ holds_other_than(mem, head) /\ retry(mem, head) /\ Transport(mem)
      /\ UNCHANGED <<session, thread, replayed, head, frames, view>>
      /\ UNCHANGED <<turns, running, queue, history, completed>>
  BY DEF SendRequest, MayRequest, MayDeliver, server
<1>2. /\ IsLedger(mem) /\ LedgerOK(mem) /\ head \in Files /\ Seen(head)
      /\ view \in [Files -> {"absent", "active", "ready", "archived"}]
  BY <1>1 DEF CodexInv, TypeOK, WireOK
<1>3. Unread' = Unread /\ \A f : Seen(f)' <=> Seen(f)
  BY <1>1 DEF Unread, Seen
<1>4. MaySend(mem)
  BY <1>1, <1>2, RetryNegative DEF MaySend
<1> QED
  BY <1>1, <1>2, <1>3, <1>4, SendKeeps

(* The head is archived between the two reads of the mailbox. *)
LEMMA SendRacedKeeps == ASSUME CodexInv, SendRaced PROVE CodexInv'
<1> DEFINE left == Keep(mem, Unread \ {head})
<1>1. /\ session = "bound" /\ pending = None /\ head # None
      /\ view' = [view EXCEPT ![head] = "archived"]
      /\ BoundTo(left, thread) /\ ~ holds_other_than(left, head) /\ Transport(left)
      /\ UNCHANGED <<session, thread, replayed, head, frames>>
      /\ UNCHANGED <<turns, running, queue, history, completed>>
  BY DEF SendRaced, prune, server
<1>2. /\ IsLedger(mem) /\ LedgerOK(mem) /\ head \in Files /\ Seen(head)
      /\ view \in [Files -> {"absent", "active", "ready", "archived"}]
  BY <1>1 DEF CodexInv, TypeOK, WireOK
<1>3. /\ Unread' = Unread \ {head} /\ \A f \in Files : Seen(f) => Seen(f)'
      /\ view' \in [Files -> {"absent", "active", "ready", "archived"}]
  BY <1>1, <1>2 DEF Unread, Seen
<1>4. /\ IsLedger(left) /\ LedgerOK(left) /\ DOMAIN left = DOMAIN mem \cap (Unread \ {head})
      /\ \A f \in DOMAIN mem \cap (Unread \ {head}) : left[f] = mem[f]
  BY <1>2, KeepEntry, KeepOK
<1> HIDE DEF left
<1>5. MaySend(left)
  BY <1>1, <1>3, <1>4 DEF MaySend
<1> QED
  BY <1>1, <1>2, <1>3, <1>5, SendKeeps

-----------------------------------------------------------------------------
(* The theorems. *)

LEMMA CodexInit == Init => CodexInv
<1> SUFFICES ASSUME Init PROVE CodexInv
  OBVIOUS
<1>1. DOMAIN Empty = {} /\ IsLedger(Empty)
  BY DEF Empty, IsLedger
<1>2. TypeOK
  <2>1. << >> \in Seq(Bindings) /\ Len(<< >>) = 0
    BY SMT
  <2>2. [b \in Bindings |-> << >>] \in [Bindings -> Seq(Files \X Turns)]
    BY SMT
  <2>3. turns \in Seq(Bindings) /\ Len(turns) <= MaxTurns
    BY <2>1, BoundsAssumption, SMT DEF Init
  <2>4. history \in [Bindings -> Seq(Files \X Turns)]
    BY <2>2 DEF Init
  <2>5. view \in [Files -> {"absent", "active", "ready", "archived"}]
    BY DEF Init
  <2> QED
    BY <1>1, <2>3, <2>4, <2>5, BoundsAssumption DEF Init, TypeOK
<1>3. \A b \in Bindings : Landed(b) = {}
  BY SMT DEF Init, Landed
<1>4. Unread = {} /\ thread \in Bindings
  BY BoundsAssumption DEF Init, Unread
<1>5. LedgerOK(mem) /\ LedgerOK(disk)
  BY <1>1 DEF Init, LedgerOK
<1>6. SessionOK /\ WireOK /\ PendingOK
  BY DEF Init, SessionOK, Ahead, WireOK, PendingOK
<1>7. ServerOK
  BY <1>3, SMT DEF Init, ServerOK, NoTurn
<1>8. DeliveryOK
  BY <1>1, <1>4 DEF Init, DeliveryOK, AtMostOnce, OwnershipFirst, RefusalTrue, OneOutstanding,
                    Outstanding
<1> QED
  BY <1>2, <1>5, <1>6, <1>7, <1>8 DEF CodexInv

LEMMA CodexStep == CodexInv /\ [Next]_vars => CodexInv'
<1> SUFFICES ASSUME CodexInv, [Next]_vars PROVE CodexInv'
  OBVIOUS
<1>1. ASSUME NEW f \in Files, ReplaceActive(f) PROVE CodexInv'
  <2>1. PICK s \in {"active", "ready", "archived"} :
          <<view[f], s>> \in MailboxStep /\ view' = [view EXCEPT ![f] = s]
    BY <1>1 DEF ReplaceActive
  <2>2. /\ UNCHANGED <<mem, disk, session, thread, replayed, head, snapshot, pending, wire, server>>
        /\ view \in [Files -> {"absent", "active", "ready", "archived"}] /\ replayed \in BOOLEAN
    BY <1>1 DEF ReplaceActive, driver, CodexInv, TypeOK
  <2>3. s \in {"active", "ready"} => view[f] # "archived"
    BY <2>1 DEF MailboxStep
  <2>4. /\ view' \in [Files -> {"absent", "active", "ready", "archived"}]
        /\ \A g \in Files : Seen(g) => Seen(g)'
        /\ \A g \in Unread' : g \in Unread \/ ~ Seen(g)
    BY <2>1, <2>2, <2>3 DEF Seen, Unread
  <2> QED
    BY <2>2, <2>4, MailboxKeeps
<1>2. ASSUME Replay PROVE CodexInv'
  <2>1. PICK late \in SUBSET {f \in Files : view[f] = "ready"} :
          view' = [f \in Files |-> IF f \in late THEN "active" ELSE view[f]]
    BY <1>2 DEF Replay
  <2>2. /\ UNCHANGED <<mem, disk, session, thread, head, snapshot, pending, wire, server>>
        /\ view \in [Files -> {"absent", "active", "ready", "archived"}] /\ replayed' \in BOOLEAN
    BY <1>2 DEF Replay, CodexInv, TypeOK
  <2>3. /\ view' \in [Files -> {"absent", "active", "ready", "archived"}]
        /\ \A g \in Files : Seen(g) => Seen(g)'
        /\ \A g \in Unread' : g \in Unread
    BY <2>1, <2>2 DEF Seen, Unread
  <2> QED
    BY <2>2, <2>3, MailboxKeeps
<1>3. ASSUME AskSnapshot \/ FinishSnapshot \/ RecoverTranscript \/ UNCHANGED vars
      PROVE  CodexInv'
  <2>1. UNCHANGED <<mem, disk, session, thread, view, replayed, head, pending, wire, server>>
    BY <1>3 DEF AskSnapshot, FinishSnapshot, RecoverTranscript, vars, driver
  <2>2. snapshot' \in {"none", "asked", "verified"}
    BY <1>3 DEF AskSnapshot, FinishSnapshot, RecoverTranscript, vars, driver, CodexInv, TypeOK
  <2> QED
    BY <2>1, <2>2, SnapshotKeeps
<1>4. ASSUME LaunchFresh \/ LaunchResume \/ Crash \/ ReconcileResume \/ ReconcileFails
      PROVE  CodexInv'
  BY <1>4, LaunchFreshKeeps, LaunchResumeKeeps, CrashKeeps, ReconcileResumeKeeps,
     ReconcileFailsKeeps
<1>5. ASSUME Refresh \/ Rebind \/ SendRequest \/ SendRaced \/ SendFails PROVE CodexInv'
  BY <1>5, RefreshKeeps, RebindKeeps, SendRequestKeeps, SendRacedKeeps, SendFailsKeeps
<1>6. ASSUME ReadFrame \/ ReadTranscript PROVE CodexInv'
  BY <1>6, AcceptTurnKeeps, AcceptRefusalKeeps, AcceptItemKeeps, AcceptCompletionKeeps,
     ReadTranscriptKeeps DEF ReadFrame
<1>7. ASSUME Refuse \/ Accept \/ UserTurn \/ CompleteTurn \/ FailTurn PROVE CodexInv'
  BY <1>7, RefuseKeeps, AcceptKeeps, UserTurnKeeps, CompleteTurnKeeps, FailTurnKeeps
<1>8. ASSUME NEW f \in Files, TakeInput(f) PROVE CodexInv'
  BY <1>8, TakeInputKeeps
<1> QED
  BY <1>1, <1>2, <1>3, <1>4, <1>5, <1>6, <1>7, <1>8 DEF Next

LEMMA CodexInvariant == Spec => []CodexInv
<1> QED
  BY CodexInit, CodexStep, PTL DEF Spec

(* Whatever is refused, lost, reordered or restarted, an unread message     *)
(* enters the bound thread at most once, and is not sent again after it did *)
(* (maybe_request, reconcile_resume).                                       *)
THEOREM DeliveredAtMostOnce == Spec => []AtMostOnce
<1>1. CodexInv => AtMostOnce
  BY DEF CodexInv, DeliveryOK
<1> QED
  BY <1>1, CodexInvariant, PTL

(* What the server holds or has taken of the unread messages is owned by    *)
(* the ledger's file (maybe_request writes it before the request).          *)
THEOREM OwnershipLandsFirst == Spec => []OwnershipFirst
<1>1. CodexInv => OwnershipFirst
  BY DEF CodexInv, DeliveryOK
<1> QED
  BY <1>1, CodexInvariant, PTL

(* A consumption receipt is true, in memory and on disk, whether it came    *)
(* from an item, a completed turn, the transcript or the resumed history.   *)
THEOREM ReceiptsTrue == Spec => []ReceiptTrue
<1>1. CodexInv => ReceiptTrue
  BY DEF CodexInv, LedgerOK, EntryOK, ReceiptTrue
<1> QED
  BY <1>1, CodexInvariant, PTL

(* A negative receipt that authorises another attempt is true: the message  *)
(* has not entered the thread and is not on its way there.                  *)
THEOREM RefusalsTrue == Spec => []RefusalTrue
<1>1. CodexInv => RefusalTrue
  BY DEF CodexInv, DeliveryOK
<1> QED
  BY <1>1, CodexInvariant, PTL

(* At most one unread message is on its way to the server.                  *)
THEOREM OneDeliveryOutstanding == Spec => []OneOutstanding
<1>1. CodexInv => OneOutstanding
  BY DEF CodexInv, DeliveryOK
<1> QED
  BY <1>1, CodexInvariant, PTL

(* The ledger's file passes validate at any launch.                         *)
THEOREM LedgerLoadsClean == Spec => []LoadsClean
<1>1. CodexInv => LoadsClean
  BY DEF CodexInv, LedgerOK, EntryOK, LoadsClean, Opens
<1> QED
  BY <1>1, CodexInvariant, PTL

(* accept_codex_turn never meets another turn than the entry records.       *)
THEOREM AcceptedTurnsAgree == Spec => []TurnsAgree
<1>1. CodexInv => TurnsAgree
  <2> SUFFICES ASSUME CodexInv, NEW frame \in frames,
                      frame.kind = "accepted", frame.file = pending
               PROVE  ~ accept_turn_conflicts(mem, frame.file, frame.turn)
    BY DEF TurnsAgree
  <2>1. frame.file \in Files
    BY DEF CodexInv, TypeOK, Frame
  <2> QED
    BY <2>1, Threads DEF CodexInv, PendingOK, accept_turn_conflicts
<1> QED
  BY <1>1, CodexInvariant, PTL

-----------------------------------------------------------------------------
(* Settled entries stay settled. *)

IsSettled(ledger, f) == f \in DOMAIN ledger /\ ledger[f].phase = Consumed

(* What the memory of a bound session says of an entry settled on disk. *)
LEMMA SettledInMemory ==
  ASSUME CodexInv, session = "bound", NEW f \in DOMAIN disk, disk[f].phase = Consumed
  PROVE  /\ IsSettled(mem, f) /\ mem[f].negative = "none" /\ mem[f].binding = disk[f].binding
         /\ f \in Unread \/ view[f] = "archived"
<1>1. IsSettled(mem, f) /\ mem[f].binding = disk[f].binding
  BY DEF CodexInv, SessionOK, Ahead, IsSettled
<1>2. mem[f].negative = "none" /\ Seen(f)
  BY <1>1 DEF CodexInv, LedgerOK, EntryOK, IsSettled
<1>3. f \in Files /\ view[f] \in {"absent", "active", "ready", "archived"}
  BY DEF CodexInv, TypeOK, IsLedger
<1> QED
  BY <1>1, <1>2, <1>3 DEF Seen, Unread

(* Every step keeps the settled entries of the bound thread whose messages  *)
(* are not archived.                                                        *)
LEMMA SettledKept ==
  ASSUME CodexInv, Next, NEW f \in DOMAIN disk, disk[f].phase = Consumed, disk' # disk
  PROVE  IsSettled(disk', f) \/ view'[f] = "archived" \/ disk[f].binding # thread
<1> USE DEF IsSettled
<1>1. IsLedger(mem) /\ IsLedger(disk) /\ thread \in Bindings
  BY DEF CodexInv, TypeOK
<1>2. ASSUME LaunchFresh \/ LaunchResume PROVE IsSettled(disk', f)
  BY <1>1, <1>2, AgedEntry, SMT DEF LaunchFresh, LaunchResume
<1>3. ASSUME NEW part \in SUBSET Unsettled, session = "resuming", disk' = Reconciled(part)
      PROVE  IsSettled(disk', f)
  <2>1. mem = disk
    BY <1>3 DEF CodexInv, SessionOK
  <2>2. Sweeps(disk', part)
    BY <1>1, <1>3, ReconciledEntry
  <2>3. f \notin part
    BY <1>3, <2>1, SMT DEF Unsettled, Consumed
  <2> QED
    BY <2>1, <2>2, <2>3 DEF Sweeps
<1>4. ASSUME session = "bound", NEW K, disk' = Keep(mem, K), f \in K
      PROVE  IsSettled(disk', f)
  BY <1>4, SettledInMemory DEF Keep
<1>5. ASSUME session = "bound", NEW g \in Files, Amends(disk', mem, g),
             g = f => disk'[f].phase = Consumed
      PROVE  IsSettled(disk', f)
  BY <1>5, SettledInMemory DEF Amends
<1>6. ASSUME session = "bound", NEW S, disk' = RecordAll(mem, S)
      PROVE  IsSettled(disk', f)
  <2>1. Settles(disk', mem, S)
    BY <1>1, <1>6, RecordAllEntry
  <2> QED
    BY <1>6, <2>1, SettledInMemory DEF Settles
<1>7. ASSUME session = "bound", NEW L, IsLedger(L), NEW g \in Files, f # g, f \in DOMAIN L,
             L[f] = mem[f], disk' = begin(L, g, thread, Current)
      PROVE  IsSettled(disk', f)
  <2>1. Current \in Nat
    BY DEF Current
  <2>2. Amends(disk', L, g)
    BY <1>1, <1>7, <2>1, BeginEntry
  <2> QED
    BY <1>7, <2>2, SettledInMemory DEF Amends
<1>8. ASSUME Refresh \/ Rebind
      PROVE  IsSettled(disk', f) \/ view'[f] = "archived" \/ disk[f].binding # thread
  <2>1. session = "bound" /\ view' = view
    BY <1>8 DEF Refresh, Rebind
  <2>2. /\ IsSettled(mem, f) /\ mem[f].binding = disk[f].binding
        /\ f \in Unread \/ view[f] = "archived"
    BY <2>1, SettledInMemory
  <2>3. CASE Refresh
    BY <1>4, <2>1, <2>2, <2>3 DEF Refresh, prune
  <2>4. CASE Rebind
    BY <1>4, <2>1, <2>2, <2>4 DEF Rebind, rebind
  <2> QED
    BY <1>8, <2>3, <2>4
<1>9. ASSUME SendRequest \/ SendFails PROVE IsSettled(disk', f)
  <2>1. session = "bound" /\ head # None /\ retry(mem, head) /\ head \in Files
    BY <1>9 DEF SendRequest, SendFails, MayRequest, MayDeliver, CodexInv, TypeOK
  <2>2. disk' = begin(mem, head, thread, Current)
    BY <1>9 DEF SendRequest, SendFails, Transport
  <2>3. f # head
    BY <2>1, SettledInMemory, RetryNegative
  <2> QED
    BY <1>1, <1>7, <2>1, <2>2, <2>3, SettledInMemory
<1>10. ASSUME SendRaced PROVE IsSettled(disk', f) \/ view'[f] = "archived"
  <2>1. /\ session = "bound" /\ head \in Files /\ view' = [view EXCEPT ![head] = "archived"]
        /\ disk' = begin(Keep(mem, Unread \ {head}), head, thread, Current)
        /\ view \in [Files -> {"absent", "active", "ready", "archived"}]
    BY <1>10 DEF SendRaced, Transport, prune, CodexInv, TypeOK
  <2>2. CASE f = head \/ f \notin Unread
    BY <1>1, <2>1, <2>2, SettledInMemory DEF IsLedger
  <2>3. CASE f # head /\ f \in Unread
    <3>1. /\ IsLedger(Keep(mem, Unread \ {head})) /\ f \in DOMAIN Keep(mem, Unread \ {head})
          /\ Keep(mem, Unread \ {head})[f] = mem[f]
      <4>1. f \in DOMAIN mem
        BY <2>1, SettledInMemory
      <4> QED
        BY <1>1, <2>3, <4>1, KeepEntry
    <3> QED
      BY <1>7, <2>1, <2>3, <3>1
  <2> QED
    BY <2>2, <2>3
<1>11. ASSUME session = "bound", NEW frame \in frames,
              AcceptTurn(frame) \/ AcceptRefusal(frame) PROVE IsSettled(disk', f)
  <2>1. IsAnswer(frame) /\ frame.file = pending /\ pending \in Files
    BY <1>11, AnswerFacts DEF IsAnswer, AcceptTurn, AcceptRefusal
  <2>2. IsSettled(mem, f) /\ mem[f].negative = "none"
    BY <1>11, SettledInMemory
  <2>3. CASE AcceptTurn(frame)
    <3>1. disk' = accept_codex_turn(mem, pending, frame.turn) /\ pending \in DOMAIN mem
      BY <2>1, <2>3 DEF AcceptTurn, Stores, accept_codex_turn
    <3>2. frame.turn \in Nat
      <4>1. frame.turn \in Turns
        BY <2>3 DEF AcceptTurn, CodexInv, TypeOK, Frame
      <4> QED
        BY <4>1, SMT DEF Turns
    <3>3. /\ Amends(disk', mem, pending)
          /\ disk'[pending].phase = Larger(mem[pending].phase, TransportAccepted)
      BY <1>1, <3>1, <3>2, AcceptEntry
    <3>4. Larger(Consumed, TransportAccepted) = Consumed
      BY SMT DEF Larger, Consumed, TransportAccepted
    <3> QED
      BY <1>5, <1>11, <2>1, <2>2, <3>3, <3>4
  <2>4. CASE AcceptRefusal(frame)
    <3>1. disk' = negative(mem, pending, "rejected") /\ pending \in DOMAIN mem
      BY <2>1, <2>4 DEF AcceptRefusal, Stores, negative
    <3>2. Amends(disk', mem, pending) /\ disk'[pending].phase = mem[pending].phase
      BY <1>1, <3>1, NegativeEntry
    <3> QED
      BY <1>5, <1>11, <2>1, <2>2, <3>2
  <2> QED
    BY <1>11, <2>3, <2>4
<1>12. ASSUME ReadTranscript \/ ReadFrame PROVE IsSettled(disk', f)
  <2>1. session = "bound"
    BY <1>12 DEF ReadTranscript, ReadFrame
  <2>2. CASE ReadTranscript
    BY <1>6, <2>1, <2>2 DEF ReadTranscript
  <2>3. ASSUME NEW frame \in frames, AcceptItem(frame) PROVE IsSettled(disk', f)
    BY <1>6, <2>1, <2>3 DEF AcceptItem, Stores
  <2>4. ASSUME NEW frame \in frames, AcceptCompletion(frame) PROVE IsSettled(disk', f)
    BY <1>6, <2>1, <2>4 DEF AcceptCompletion, Stores
  <2> QED
    BY <1>11, <1>12, <2>1, <2>2, <2>3, <2>4 DEF ReadFrame
<1>13. ASSUME ReconcileResume \/ ReconcileFails PROVE IsSettled(disk', f)
  BY <1>3, <1>13 DEF ReconcileResume, ReconcileFails
<1> QED
  <2>1. disk' = disk \/ LaunchFresh \/ LaunchResume \/ ReconcileResume \/ ReconcileFails
        \/ Refresh \/ Rebind \/ SendRequest \/ SendFails \/ SendRaced
        \/ ReadFrame \/ ReadTranscript
    BY DEF Next, ReplaceActive, TakeInput, Replay, Crash, AskSnapshot, FinishSnapshot,
           RecoverTranscript, Refuse, Accept, UserTurn, CompleteTurn, FailTurn
  <2> QED
    BY <1>2, <1>8, <1>9, <1>10, <1>12, <1>13, <2>1

(* "A settled entry is never reopened" (negative): it stays consumed on     *)
(* disk until the message is archived or another thread is bound.           *)
THEOREM SettledEntriesStay == Spec => SettledStays
<1> DEFINE Stays ==
      \A f \in DOMAIN disk :
        disk[f].phase = Consumed =>
          \/ f \in DOMAIN disk' /\ disk'[f].phase = Consumed /\ disk'[f].negative = "none"
          \/ view'[f] = "archived"
          \/ disk[f].binding # thread
<1>1. CodexInv /\ CodexInv' /\ [Next]_vars => [Stays]_vars
  <2> SUFFICES ASSUME CodexInv, CodexInv', Next, NEW f \in DOMAIN disk, disk[f].phase = Consumed
               PROVE  \/ f \in DOMAIN disk' /\ disk'[f].phase = Consumed
                                            /\ disk'[f].negative = "none"
                      \/ view'[f] = "archived"
                      \/ disk[f].binding # thread
    OBVIOUS
  <2>1. IsSettled(disk', f) => disk'[f].negative = "none"
    BY DEF CodexInv, LedgerOK, EntryOK, IsSettled
  <2> QED
    BY <2>1, SettledKept DEF IsSettled
<1> QED
  BY <1>1, CodexInvariant, PTL DEF Spec, SettledStays
=============================================================================
