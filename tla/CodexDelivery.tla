---------------------------- MODULE CodexDelivery ----------------------------
(***************************************************************************)
(* The Codex delivery pump (crates/fractal-drivers/src/codex_app_server.rs,*)
(* CodexInboxDelivery and pump_control) over its DeliveryLedger, the       *)
(* mailbox it reads and the app-server it talks to.                        *)
(*                                                                         *)
(* The app-server is external.  From how the pump uses it: it answers a    *)
(* request by accepting the input into a turn or refusing it; an accepted  *)
(* input enters the thread's history later, and then the server may or may *)
(* not send the item's notification; a turn completes after it has taken   *)
(* all its input, or fails and drops the rest; frames may arrive in any    *)
(* order.                                                                  *)
(*                                                                         *)
(* Left out: delivery holds, the backoff after a refusal and the intervals *)
(* of the refreshes, which only delay steps; the observed turn, for which  *)
(* any turn may be tried; and everything that is published for observers.  *)
(***************************************************************************)
EXTENDS DeliveryLedger, Sequences

CONSTANTS
  MaxTurns,     \* turns of all threads
  None

ASSUME BoundsAssumption ==
  /\ MaxTurns \in Nat
  /\ Bindings \subseteq Nat \ {0} /\ 1 \in Bindings
  /\ None \notin Files

(* The Codex profile observes that transport accepted a message. *)
ASSUME CodexAssumption == TransportAccepted \in Proves

VARIABLES
  mem,          \* the ledger in memory
  disk,         \* the ledger's file
  session,      \* "down", "resuming" or "bound"
  thread,       \* the bound thread
  view,         \* the mailbox as last replaced: a file is "absent", "active"
                \* (unread without its body), "ready" or "archived"
  replayed,     \* has this process had its first mailbox replay?
  head,         \* the file selected by the last refresh
  snapshot,     \* thread/read for the head: "none", "asked" or "verified"
  pending,      \* the file of the outstanding turn/start or turn/steer
  request,      \* that request while the server has not read it
  frames,       \* frames of the server not yet read
  turns,        \* turns[n]: the thread of turn n
  running,      \* the turn in progress, or NoTurn
  queue,        \* inputs accepted into the turn and not yet in history
  history,      \* history[t]: the messages of thread t, <<file, turn>>
  completed     \* the turns that completed

driver == <<mem, session, thread, replayed, head, snapshot, pending>>
server == <<turns, running, queue, history, completed>>
wire == <<request, frames>>
vars == <<driver, disk, view, server, wire>>

Turns == 1 .. MaxTurns

Frame == [kind : {"accepted"}, file : Files, turn : Turns]
         \cup [kind : {"rejected", "item"}, file : Files]
         \cup [kind : {"completed"}, turn : Turns]

(* Turn NoTurn asks for turn/start, any other for turn/steer into it. *)
Request == [file : Files, turn : {NoTurn} \cup Turns]

TypeOK ==
  /\ IsLedger(mem) /\ IsLedger(disk)
  /\ session \in {"down", "resuming", "bound"}
  /\ thread \in Bindings
  /\ view \in [Files -> {"absent", "active", "ready", "archived"}]
  /\ replayed \in BOOLEAN
  /\ head \in Files \cup {None} /\ pending \in Files \cup {None}
  /\ snapshot \in {"none", "asked", "verified"}
  /\ request \in Request \cup {None} /\ frames \subseteq Frame
  /\ turns \in Seq(Bindings) /\ Len(turns) <= MaxTurns /\ running \in {NoTurn} \cup Turns
  /\ queue \subseteq Files
  /\ history \in [Bindings -> Seq(Files \X Turns)]
  /\ completed \subseteq Turns

Landed(t) == {history[t][n][1] : n \in DOMAIN history[t]}

Unread == {f \in Files : view[f] \in {"active", "ready"}}

(* The first session, on its first thread. *)
Init ==
  /\ mem = Empty /\ disk = Empty
  /\ session = "bound" /\ thread = 1
  /\ view = [f \in Files |-> "absent"] /\ replayed = FALSE
  /\ head = None /\ snapshot = "none" /\ pending = None
  /\ request = None /\ frames = {}
  /\ turns = << >> /\ running = NoTurn /\ queue = {}
  /\ history = [b \in Bindings |-> << >>] /\ completed = {}

(***************************************************************************)
(* Mailbox: the daemon replaces the in-process queue                       *)
(***************************************************************************)
(* A message arrives or is archived.  After the first replay a body may    *)
(* come, or go: it is dropped again when its receipt comes back as         *)
(* anything but message.staged.                                            *)
MailboxStep ==
  {<<"absent", "active">>, <<"active", "archived">>, <<"ready", "archived">>}
  \cup IF replayed THEN {<<"absent", "ready">>, <<"active", "ready">>, <<"ready", "active">>}
       ELSE {}

ReplaceActive(f) ==
  /\ \E s \in {"active", "ready", "archived"} :
       <<view[f], s>> \in MailboxStep /\ view' = [view EXCEPT ![f] = s]
  /\ UNCHANGED <<driver, disk, server, wire>>

(* A new process fetches every body again, and some may not be there yet.  *)
Replay ==
  /\ session # "down" /\ ~ replayed
  /\ replayed' = TRUE
  /\ \E late \in SUBSET {f \in Files : view[f] = "ready"} :
       view' = [f \in Files |-> IF f \in late THEN "active" ELSE view[f]]
  /\ UNCHANGED <<mem, session, thread, head, snapshot, pending,
                 disk, server, wire>>

(***************************************************************************)
(* Sessions.  A launch opens the ledger's file.  A new thread is bound     *)
(* from its thread/started; a saved one only by the answer to              *)
(* thread/resume.  Whatever fails in the pump ends the session, and the    *)
(* app-server with it.                                                     *)
(***************************************************************************)
(* Only equality with the running incarnation is ever tested, so entries of *)
(* all earlier ones are alike: a launch, which is a new incarnation, ages   *)
(* the entries it finds.                                                    *)
Earlier == 0
Current == 1
Aged(ledger) == [f \in DOMAIN ledger |-> [ledger[f] EXCEPT !.incarnation = Earlier]]

Fresh == /\ replayed' = FALSE /\ head' = None /\ snapshot' = "none" /\ pending' = None

LaunchFresh ==
  /\ session = "down" /\ thread + 1 \in Bindings
  /\ session' = "bound" /\ thread' = thread + 1
  /\ mem' = Aged(disk) /\ disk' = mem' /\ Fresh
  /\ UNCHANGED <<view, server, wire>>

LaunchResume ==
  /\ session = "down"
  /\ session' = "resuming"
  /\ mem' = Aged(disk) /\ disk' = mem' /\ Fresh
  /\ UNCHANGED <<thread, view, server, wire>>

ServerDies == /\ running' = NoTurn /\ queue' = {} /\ UNCHANGED <<turns, history, completed>>

SessionEnds ==
  /\ session' = "down" /\ mem' = Empty /\ Fresh
  /\ request' = None /\ frames' = {} /\ ServerDies
  /\ UNCHANGED <<thread, view>>

(* A stop, a crash, a failed write or a request without answer. *)
Crash ==
  /\ session # "down"
  /\ SessionEnds
  /\ UNCHANGED disk

(* DETACH: the next image of the driver opens the ledger and a new         *)
(* connection to the app-server that is still running.                     *)
Adopt ==
  /\ session = "bound"
  /\ session' = "resuming" /\ mem' = disk /\ Fresh
  /\ request' = None /\ frames' = {}
  /\ UNCHANGED <<thread, disk, view, server>>

(***************************************************************************)
(* reconcile_resume: every entry of the thread that is not consumed is     *)
(* settled by the history, or refused by its absence from it.  Each entry  *)
(* is persisted on its own, so a failure leaves any part of them done.     *)
(***************************************************************************)
(* Mutant: any turn that accepted the message counts, completed or not. *)
InHistoryAccepted(f) == f \in Landed(thread) \/ mem[f].accepted_turn # NoTurn

(* Mutant: only the completed turn counts, not the message itself. *)
InHistoryCompleted(f) == mem[f].accepted_turn \in completed

InHistory(f) == f \in Landed(thread) \/ mem[f].accepted_turn \in completed

(* Mutant: the sweep takes only entries that transport accepted. *)
UnsettledAccepted ==
  {f \in DOMAIN mem : mem[f].binding = thread /\ mem[f].phase = TransportAccepted}

Unsettled == {f \in DOMAIN mem : mem[f].binding = thread /\ mem[f].phase < Consumed}

Reconciled(part) ==
  [f \in DOMAIN mem |->
     IF f \notin part THEN mem[f]
     ELSE IF InHistory(f) THEN record(mem, f, Consumed)[f]
     ELSE negative(mem, f, "absent")[f]]

ReconcileResume ==
  /\ session = "resuming"
  /\ mem' = Reconciled(Unsettled) /\ disk' = mem'
  /\ session' = "bound"
  /\ UNCHANGED <<thread, replayed, head, snapshot, pending, view, server, wire>>

ReconcileFails ==
  /\ session = "resuming"
  /\ \E part \in SUBSET Unsettled : disk' = Reconciled(part)
  /\ SessionEnds

(***************************************************************************)
(* The pump's own steps                                                    *)
(***************************************************************************)
(* refresh_if_due: prune, then select the first unsettled readable file.   *)
Selected(ledger) ==
  LET open == {f \in Files : view[f] = "ready" /\ ~ settled(ledger, f)}
  IN  IF open = {} THEN None ELSE CHOOSE f \in open : \A g \in open : f <= g

(* Mutant: messages whose body is not there are pruned. *)
RefreshReadable ==
  /\ session = "bound" /\ replayed
  /\ mem' = prune(mem, {f \in Files : view[f] = "ready"})
  /\ disk' = IF mem' = mem THEN disk ELSE mem'
  /\ head' = Selected(mem')
  /\ snapshot' = IF head' = head THEN snapshot ELSE "none"
  /\ UNCHANGED <<session, thread, replayed, pending, view, server, wire>>

Refresh ==
  /\ session = "bound" /\ replayed
  /\ mem' = prune(mem, Unread)
  /\ disk' = IF mem' = mem THEN disk ELSE mem'
  /\ head' = Selected(mem')
  /\ snapshot' = IF head' = head THEN snapshot ELSE "none"
  /\ UNCHANGED <<session, thread, replayed, pending, view, server, wire>>

MayDeliver == head # None /\ ~ holds_other_than(mem, head) /\ retry(mem, head)

(* maybe_snapshot_request *)
AskSnapshot ==
  /\ session = "bound" /\ pending = None /\ snapshot = "none"
  /\ MayDeliver
  /\ head \in DOMAIN mem => mem[head].phase # TransportAccepted
  /\ snapshot' = "asked"
  /\ UNCHANGED <<mem, session, thread, replayed, head, pending,
                 disk, view, server, wire>>

(* The answer, or the last of the bounded attempts, verifies the head; an  *)
(* earlier failed attempt is asked again.                                  *)
FinishSnapshot ==
  /\ session = "bound" /\ snapshot = "asked"
  /\ snapshot' \in {"verified", "none"}
  /\ UNCHANGED <<mem, session, thread, replayed, head, pending,
                 disk, view, server, wire>>

(* maybe_request: entries of another thread go first.                      *)
Rebind ==
  /\ session = "bound" /\ pending = None /\ snapshot # "asked"
  /\ ~ BoundTo(mem, thread)
  /\ mem' = rebind(mem, thread) /\ disk' = mem'
  /\ UNCHANGED <<session, thread, replayed, head, snapshot, pending,
                 view, server, wire>>

(* Mutant: entries of another thread are left in place. *)
MayRequestAnywhere ==
  session = "bound" /\ pending = None /\ snapshot = "verified" /\ MayDeliver

MayRequest ==
  /\ session = "bound" /\ pending = None /\ snapshot = "verified"
  /\ BoundTo(mem, thread) /\ MayDeliver

(* Ownership is durable before the request is written.                     *)
Transport(ledger) ==
  /\ mem' = begin(ledger, head, thread, Current) /\ disk' = mem'
  /\ \E turn \in {NoTurn} \cup DOMAIN turns : request' = [file |-> head, turn |-> turn]
  /\ pending' = head /\ snapshot' = "none"

SendRequest ==
  /\ MayRequest
  /\ Transport(mem)
  /\ UNCHANGED <<session, thread, replayed, head, frames, view, server>>

(* The refresh of maybe_request reads the readable messages and then, under*)
(* another lock, which are active: the head may be archived in between.    *)
SendRaced ==
  LET left == prune(mem, Unread \ {head}) IN
  /\ session = "bound" /\ replayed /\ pending = None /\ snapshot = "verified"
  /\ head # None /\ view[head] = "ready" /\ Selected(left) = head
  /\ BoundTo(left, thread) /\ ~ holds_other_than(left, head)
  /\ view' = [view EXCEPT ![head] = "archived"]
  /\ Transport(left)
  /\ UNCHANGED <<session, thread, replayed, head, frames, server>>

(* The write of the entry or of the request fails, before or after the     *)
(* entry is on disk.                                                       *)
SendFails ==
  /\ MayRequest
  /\ disk' \in {disk, begin(mem, head, thread, Current)}
  /\ SessionEnds

(* accept_transcript_recovery after a turn the transcript shows to have    *)
(* failed.                                                                 *)
RecoverTranscript ==
  /\ session = "bound" /\ head # None /\ snapshot # "verified"
  /\ running = NoTurn /\ turns # << >>
  /\ turns[Len(turns)] = thread /\ Len(turns) \notin completed
  /\ snapshot' = "verified"
  /\ UNCHANGED <<mem, session, thread, replayed, head, pending,
                 disk, view, server, wire>>

(* What a frame handler writes, the other driver state being kept.         *)
Stores(ledger) ==
  /\ mem' = ledger /\ disk' = IF ledger = mem THEN disk ELSE ledger
  /\ UNCHANGED <<session, thread, replayed, head, snapshot, view, server, request>>

(* accept_response.  A turn that conflicts with the recorded one would end *)
(* the session; TurnsAgree says that none does.                            *)
AcceptTurn(frame) ==
  /\ frame.kind = "accepted" /\ pending = frame.file
  /\ Stores(accept_codex_turn(mem, frame.file, frame.turn))
  /\ pending' = None /\ frames' = frames \ {frame}

AcceptRefusal(frame) ==
  /\ frame.kind = "rejected" /\ pending = frame.file
  /\ Stores(negative(mem, frame.file, "rejected"))
  /\ pending' = None /\ frames' = frames \ {frame}

Mine(f) == mem[f].binding = thread /\ mem[f].incarnation = Current

(* accept_typed_receipt *)
AcceptItem(frame) ==
  /\ frame.kind = "item"
  /\ Stores(RecordAll(mem, {f \in DOMAIN mem : f = frame.file /\ Mine(f)}))
  /\ frames' = frames \ {frame} /\ UNCHANGED pending

(* accept_turn_completion_receipt *)
AcceptCompletion(frame) ==
  /\ frame.kind = "completed"
  /\ Stores(RecordAll(mem, {f \in DOMAIN mem : Mine(f) /\ mem[f].accepted_turn = frame.turn}))
  /\ frames' = frames \ {frame} /\ UNCHANGED pending

ReadFrame ==
  /\ session = "bound"
  /\ \E frame \in frames :
       AcceptTurn(frame) \/ AcceptRefusal(frame) \/ AcceptItem(frame) \/ AcceptCompletion(frame)

(* accept_transcript_receipts: a failed write is only logged, which leaves *)
(* the memory ahead of the file.                                           *)
ReadTranscript ==
  /\ session = "bound"
  /\ mem' = RecordAll(mem, {f \in DOMAIN mem : f \in Landed(thread) /\ Mine(f)})
  /\ mem' # mem
  /\ disk' \in {disk, mem'}
  /\ UNCHANGED <<session, thread, replayed, head, snapshot, pending,
                 view, server, wire>>

(***************************************************************************)
(* The app-server                                                          *)
(***************************************************************************)
StartTurn ==
  /\ Len(turns) < MaxTurns
  /\ turns' = Append(turns, thread) /\ running' = Len(turns')

Refuse ==
  /\ request # None
  /\ frames' = frames \cup {[kind |-> "rejected", file |-> request.file]}
  /\ request' = None
  /\ UNCHANGED <<driver, disk, view, server>>

Accept ==
  /\ request # None /\ request.turn = running
  /\ \/ running = NoTurn /\ StartTurn
     \/ running # NoTurn /\ UNCHANGED <<turns, running>>
  /\ queue' = queue \cup {request.file}
  /\ frames' = frames \cup {[kind |-> "accepted", file |-> request.file, turn |-> running']}
  /\ request' = None
  /\ UNCHANGED <<driver, disk, view, history, completed>>

(* The person at the TUI starts a turn. *)
UserTurn ==
  /\ session # "down" /\ running = NoTurn /\ StartTurn
  /\ UNCHANGED <<driver, disk, view, queue, history, completed, wire>>

TakeInput(f) ==
  /\ f \in queue
  /\ queue' = queue \ {f}
  /\ history' = [history EXCEPT ![thread] = Append(@, <<f, running>>)]
  /\ \/ UNCHANGED frames
     \/ session = "bound" /\ frames' = frames \cup {[kind |-> "item", file |-> f]}
  /\ UNCHANGED <<driver, disk, view, turns, running, completed, request>>

CompleteTurn ==
  /\ running # NoTurn /\ queue = {}
  /\ running' = NoTurn
  /\ completed' = completed \cup {running}
  /\ frames' = IF session = "bound" THEN frames \cup {[kind |-> "completed", turn |-> running]}
               ELSE frames
  /\ UNCHANGED <<driver, disk, view, turns, queue, history, request>>

FailTurn ==
  /\ running # NoTurn
  /\ running' = NoTurn /\ queue' = {}
  /\ UNCHANGED <<driver, disk, view, turns, history, completed, wire>>

Next ==
  \/ \E f \in Files : ReplaceActive(f) \/ TakeInput(f)
  \/ Replay \/ LaunchFresh \/ LaunchResume \/ Crash
  \/ ReconcileResume \/ ReconcileFails
  \/ Refresh \/ AskSnapshot \/ FinishSnapshot \/ Rebind
  \/ SendRequest \/ SendRaced \/ SendFails
  \/ RecoverTranscript \/ ReadFrame \/ ReadTranscript
  \/ Refuse \/ Accept \/ UserTurn \/ CompleteTurn \/ FailTurn

Spec == Init /\ [][Next]_vars

(* With replacement of the driver under a live app-server. *)
AdoptSpec == Init /\ [][Next \/ Adopt]_vars

(* The driver runs: a launch follows an end, the resumed thread answers,   *)
(* and the transcript is read every few seconds.                           *)
FairSpec == Spec /\ WF_vars(LaunchResume) /\ WF_vars(ReconcileResume) /\ WF_vars(ReadTranscript)

(* Besides, the mailbox is replayed, frames are read, and the pump passes  *)
(* over its own steps; thread/read is asked a bounded number of times.     *)
PumpSpec ==
  /\ FairSpec
  /\ WF_vars(Replay) /\ WF_vars(ReadFrame)
  /\ WF_vars(Refresh) /\ WF_vars(AskSnapshot) /\ WF_vars(SendRequest)
  /\ SF_vars(FinishSnapshot /\ snapshot' = "verified")

(***************************************************************************)
(* Properties                                                              *)
(***************************************************************************)
InTransit(f) == f \in queue \/ (request # None /\ request.file = f)

(* An unread message enters a thread at most once, and is not sent again   *)
(* after it did, whatever is refused, lost, reordered or restarted:        *)
(* "Ambiguous attempts hold rather than resend" (docs/st3/invariants.md).  *)
AtMostOnce ==
  \A f \in Unread : \A n \in DOMAIN history[thread] :
    history[thread][n][1] = f =>
      /\ \A m \in DOMAIN history[thread] : history[thread][m][1] = f => m = n
      /\ ~ InTransit(f)

(* Ownership lands before transport and stays while the message is unread: *)
(* what the server holds or has taken is owned by the file on disk, so a   *)
(* restart cannot take it for new.                                         *)
OwnershipFirst ==
  \A f \in Unread :
    InTransit(f) \/ f \in Landed(thread)
      => f \in DOMAIN disk /\ disk[f].binding = thread

(* A consumption receipt is true, in memory and on disk: the graph advances*)
(* a message on it (consumed_delivery_filenames).                          *)
ReceiptTrue ==
  \A ledger \in {mem, disk} : \A f \in DOMAIN ledger :
    ledger[f].phase = Consumed => f \in Landed(ledger[f].binding)

(* "An authoritative resumed history without the client ID proves the      *)
(* pre-crash attempt never landed" (reconcile_resume), and a refused       *)
(* request was not taken: what may be sent again has not entered the       *)
(* thread and cannot enter it, while the message is unread.                *)
RefusalTrue ==
  session = "bound" =>
    \A f \in DOMAIN mem \cap Unread :
      mem[f].binding = thread /\ mem[f].negative # "none" =>
        f \notin Landed(thread) /\ ~ InTransit(f)

Outstanding == {f \in Unread : InTransit(f) \/ f = pending}

(* "Exactly one delivery is outstanding at a time on this transport"       *)
(* (maybe_request), over every unread message.                             *)
OneOutstanding == \A f, g \in Outstanding : f = g

(* Whatever the pump leaves on disk can be opened again: no sequence of    *)
(* attempts, receipts, new threads and crashes quarantines the seat.       *)
LoadsClean == Opens(disk)

(* No answer is refused for naming another turn than the entry records,    *)
(* though the entry outlives the attempt that was refused or lost          *)
(* ("already bound to a different accepted turn", accept_codex_turn).      *)
TurnsAgree ==
  \A frame \in frames :
    frame.kind = "accepted" /\ frame.file = pending
      => ~ accept_turn_conflicts(mem, frame.file, frame.turn)

(* "A settled entry is never reopened" (negative): on disk it stays        *)
(* consumed until the recipient archives the message or another thread is  *)
(* bound.                                                                  *)
SettledStays ==
  [][\A f \in DOMAIN disk :
       disk[f].phase = Consumed =>
         \/ f \in DOMAIN disk' /\ disk'[f].phase = Consumed /\ disk'[f].negative = "none"
         \/ view'[f] = "archived"
         \/ disk[f].binding # thread]_vars

(* Messages that entered the bound thread are settled in the end, though   *)
(* their notification was omitted, came before the answer to the request,  *)
(* or was lost in a restart: again and again no entry of one is unsettled. *)
LandedIsSettled ==
  []<>(\A f \in DOMAIN mem :
         f \in Landed(thread) /\ mem[f].binding = thread => settled(mem, f))

(* "that absence ... may authorize sending the same stable ID again"       *)
(* (reconcile_resume): a refused message at the head is sent again.        *)
RefusedIsRetried ==
  \A f \in Files :
    (session = "bound" /\ head = f /\ f \in DOMAIN mem /\ mem[f].negative # "none")
      ~> (pending = f \/ head # f \/ session # "bound")
=============================================================================
