----------------------------- MODULE WriterQueue -----------------------------
(***************************************************************************)
(* The admission scheduler of smallclaims' single SQLite writer            *)
(* (crates/smallclaims/src/sqlite.rs and sqlite/writer_queue.rs).          *)
(*                                                                         *)
(* Callers reach the one writer thread through a FIFO channel (foreground  *)
(* loans, batched writes and configuration fences) or through a separate   *)
(* background queue announced by a Ready notification in that channel.     *)
(* The thread's Admission::next prefers foreground work, but serves one    *)
(* background loan after ForegroundTurns turns, and drains the background  *)
(* loans admitted before a fence when the fence reaches the head.          *)
(*                                                                         *)
(* A caller makes one call and blocks until it is answered.  The order of  *)
(* admission is kept in stamp: a ghost the code does not have.             *)
(***************************************************************************)
EXTENDS Naturals, Sequences, FiniteSets

CONSTANTS
  Lenders,         \* calls of WriterConnection::write
  Batchers,        \* calls of WriterConnection::batched
  Fencers,         \* calls of WriterConnection::write_fence
  Loans,           \* calls of WriterConnection::write_background
  ForegroundTurns, \* writer_queue::FOREGROUND_TURNS
  BatchLimit,      \* sqlite::WRITE_BATCH_LIMIT
  DelayedStores,   \* may the Release store to `closed` pass a later load?
  Ready,           \* WriterJob::BackgroundReady
  None             \* Option::None

Foreground == Lenders \cup Batchers \cup Fencers
Callers == Foreground \cup Loans

ASSUME CallersAssumption ==
  /\ Lenders \cap Batchers = {} /\ Lenders \cap Fencers = {}
  /\ Batchers \cap Fencers = {} /\ Foreground \cap Loans = {}
  /\ Ready \notin Callers /\ None \notin Callers /\ Ready # None

ASSUME BoundsAssumption ==
  /\ ForegroundTurns \in Nat \ {0}
  /\ BatchLimit \in Nat \ {0}
  /\ DelayedStores \in BOOLEAN

VARIABLES
  chan,       \* the mpsc channel behind WriterConnection.jobs
  bg,         \* BackgroundQueue.jobs, oldest first
  last,       \* BackgroundQueue.last, the admission watermark
  queue,      \* BackgroundAdmission.queue: unset, or its BackgroundQueue.closed
  closed,     \* BackgroundAdmission.closed, as other threads see it; "buffered"
              \* is a store the writer thread has not yet published
  jobs,       \* does WriterConnection.jobs still hold the sender?
  lock,       \* the caller holding the mutex around WriterConnection.jobs
  next,       \* Admission.next, the job put back
  background, \* Admission.background: has the thread met a notification?
  turns,      \* Admission.foreground_turns
  pc,         \* where the writer thread is
  cur,        \* the job Admission::next has in hand
  batch,      \* the batched writes of the open transaction
  holder,     \* the caller the connection is lent to
  status,     \* where each caller is
  sequence,   \* a background loan's sequence number
  through,    \* the watermark a fence recorded
  stamp,      \* ghost: the position in the order of admission
  clock,      \* ghost: the number of jobs admitted
  overtaken,  \* ghost: turns that passed the oldest loan, admitted after it
  waited      \* ghost: all turns dispatched while that loan was pending

orderVars == <<last, sequence, through, stamp, clock>>
callerVars == <<lock, jobs, orderVars>>
closeVars == <<queue, closed>>
threadVars == <<next, background, turns, pc, cur, batch, holder>>
turnVars == <<overtaken, waited>>
vars == <<chan, bg, callerVars, closeVars, threadVars, turnVars, status>>

Elements(s) == {s[i] : i \in DOMAIN s}

(* The callers whose job some queue or the thread still holds.  A caller    *)
(* whose job is nowhere has lost the other end of its channel.              *)
Pending == (Elements(chan) \cup Elements(bg) \cup {next, cur}) \ {Ready, None}
Held == Pending \cup Elements(batch) \cup ({holder} \ {None})

TypeOK ==
  /\ chan \in Seq(Foreground \cup {Ready})
  /\ bg \in Seq(Loans)
  /\ last \in Nat
  /\ queue \in {"unset", "open", "closed"}
  /\ closed \in {"no", "buffered", "yes"}
  /\ jobs \in {"open", "closed"}
  /\ lock \in Loans \cup {None}
  /\ next \in Foreground \cup {Ready, None}
  /\ background \in {"none", "some"}
  /\ turns \in Nat
  /\ pc \in {"take", "idle", "recv", "route", "count", "lent", "batch", "commit",
             "drop", "closing", "dropped", "stopped"}
  /\ cur \in Foreground \cup {Ready, None}
  /\ batch \in Seq(Batchers)
  /\ holder \in Callers \cup {None}
  /\ status \in [Callers -> {"idle", "check", "push", "notify", "waiting",
                             "done", "refused"}]
  /\ sequence \in [Loans -> Nat]
  /\ through \in [Fencers -> Nat]
  /\ stamp \in [Callers -> Nat]
  /\ clock \in Nat
  /\ overtaken \in Nat
  /\ waited \in Nat

Init ==
  /\ chan = <<>> /\ bg = <<>> /\ last = 0
  /\ queue = "unset" /\ closed = "no"
  /\ jobs = "open" /\ lock = None
  /\ next = None /\ background = "none" /\ turns = 0
  /\ pc = "take" /\ cur = None /\ batch = <<>> /\ holder = None
  /\ status = [c \in Callers |-> "idle"]
  /\ sequence = [g \in Loans |-> 0]
  /\ through = [f \in Fencers |-> 0]
  /\ stamp = [c \in Callers |-> 0] /\ clock = 0
  /\ overtaken = 0 /\ waited = 0

Move(c, to) == status' = [status EXCEPT ![c] = to]
Stamp(c) == /\ clock' = clock + 1
            /\ stamp' = [stamp EXCEPT ![c] = clock + 1]

-----------------------------------------------------------------------------
(* The callers.                                                            *)

(* send: append to the channel under the jobs lock.  Sending to a writer    *)
(* thread that has gone panics in the caller.                               *)
SendOpen(c) ==
  /\ jobs = "open" /\ status[c] = "idle" /\ lock = None /\ pc # "stopped"
  /\ chan' = Append(chan, c)
  /\ Stamp(c)
  /\ Move(c, "waiting")
  /\ UNCHANGED <<bg, lock, jobs, last, sequence, closeVars,
                 threadVars, turnVars>>

SendRefused(c) ==
  /\ jobs = "open" /\ status[c] = "idle" /\ lock = None /\ pc = "stopped"
  /\ Move(c, "refused")
  /\ UNCHANGED <<chan, bg, callerVars, closeVars, threadVars, turnVars>>

Send(c) == SendOpen(c) /\ UNCHANGED through

(* lend_writer(Fence): the watermark is read under the same lock as the     *)
(* send.  A watermark of zero sends an ordinary foreground loan.            *)
SendFence(f) ==
  /\ SendOpen(f)
  /\ through' = [through EXCEPT ![f] = last]

(* enqueue_background, in the steps other threads can interleave with.      *)
BackgroundLock(g) ==
  /\ jobs = "open" /\ status[g] = "idle" /\ lock = None
  /\ lock' = g
  /\ queue' = IF queue = "unset" THEN "open" ELSE queue
  /\ Move(g, "check")
  /\ UNCHANGED <<chan, bg, jobs, orderVars, closed, threadVars, turnVars>>

(* BackgroundQueue::close: the jobs are dropped.                            *)
CloseQueue == queue' = "closed" /\ bg' = <<>> /\ overtaken' = 0 /\ waited' = 0

(* A writer that has gone is noticed: close the queue, and the push's       *)
(* assertion panics.                                                        *)
BackgroundGone(g) ==
  /\ status[g] = "check" /\ closed = "yes"
  /\ CloseQueue
  /\ lock' = None
  /\ Move(g, "refused")
  /\ UNCHANGED <<chan, jobs, orderVars, closed, threadVars>>

BackgroundCheck(g) ==
  /\ status[g] = "check" /\ closed # "yes"
  /\ Move(g, "push")
  /\ UNCHANGED <<chan, bg, callerVars, closeVars, threadVars, turnVars>>

(* Mutant: only the first push ever asks for a wake.                        *)
BackgroundPushWakesOnce(g) ==
  /\ status[g] = "push" /\ queue # "closed"
  /\ last' = last + 1
  /\ sequence' = [sequence EXCEPT ![g] = last + 1]
  /\ bg' = Append(bg, g)
  /\ Stamp(g)
  /\ lock' = IF last = 0 THEN lock ELSE None
  /\ Move(g, IF last = 0 THEN "notify" ELSE "waiting")
  /\ UNCHANGED <<chan, jobs, through, closeVars, threadVars, turnVars>>

(* BackgroundQueue::push.  Only the transition from empty asks for a wake,  *)
(* and keeps the jobs lock for the notification.                            *)
BackgroundPush(g) ==
  /\ status[g] = "push" /\ queue # "closed"
  /\ last' = last + 1
  /\ sequence' = [sequence EXCEPT ![g] = last + 1]
  /\ bg' = Append(bg, g)
  /\ Stamp(g)
  /\ lock' = IF bg = <<>> THEN lock ELSE None
  /\ Move(g, IF bg = <<>> THEN "notify" ELSE "waiting")
  /\ UNCHANGED <<chan, jobs, through, closeVars, threadVars, turnVars>>

BackgroundPushClosed(g) ==
  /\ status[g] = "push" /\ queue = "closed"
  /\ lock' = None
  /\ Move(g, "refused")
  /\ UNCHANGED <<chan, bg, jobs, orderVars, closeVars, threadVars, turnVars>>

BackgroundNotify(g) ==
  /\ status[g] = "notify" /\ pc # "stopped"
  /\ chan' = Append(chan, Ready)
  /\ lock' = None
  /\ Move(g, "waiting")
  /\ UNCHANGED <<bg, jobs, orderVars, closeVars, threadVars, turnVars>>

BackgroundNotifyGone(g) ==
  /\ status[g] = "notify" /\ pc = "stopped"
  /\ lock' = None
  /\ Move(g, "refused")
  /\ UNCHANGED <<chan, bg, jobs, orderVars, closeVars, threadVars, turnVars>>

(* A caller's recv fails once its job has been dropped.                     *)
Disconnected(c) ==
  /\ status[c] = "waiting" /\ c \notin Held
  /\ Move(c, "refused")
  /\ UNCHANGED <<chan, bg, callerVars, closeVars, threadVars, turnVars>>

(* Drop for WriterConnection.  Every call borrows the connection, so none   *)
(* is in progress; a writer that still runs finds the channel closed.       *)
Close ==
  /\ jobs = "open" /\ \A c \in Callers : status[c] \in {"idle", "done", "refused"}
  /\ jobs' = "closed"
  /\ UNCHANGED <<chan, bg, lock, orderVars, closeVars, threadVars, turnVars,
                 status>>

-----------------------------------------------------------------------------
(* Admission::next on the writer thread.                                   *)

(* The top of the loop: the job put back, or the channel.                  *)
TakeNext ==
  /\ pc = "take" /\ next # None
  /\ cur' = next /\ next' = None /\ pc' = "route"
  /\ UNCHANGED <<chan, bg, callerVars, closeVars, background, turns, batch, holder,
                 turnVars, status>>

TakeChannel ==
  /\ pc \in {"take", "recv"} /\ next = None /\ chan # <<>>
  /\ cur' = Head(chan) /\ chan' = Tail(chan) /\ pc' = "route"
  /\ UNCHANGED <<bg, callerVars, closeVars, next, background, turns, batch, holder,
                 turnVars, status>>

TakeEmpty ==
  /\ pc = "take" /\ next = None /\ chan = <<>> /\ background = "some"
  /\ pc' = "idle"
  /\ UNCHANGED <<chan, bg, callerVars, closeVars, next, background, turns, cur,
                 batch, holder, turnVars, status>>

(* recv on the closed and empty channel ends write_queue.                  *)
TakeClosed ==
  /\ pc = "recv" \/ (pc = "take" /\ background = "none")
  /\ next = None /\ chan = <<>> /\ jobs = "closed"
  /\ pc' = "drop"
  /\ UNCHANGED <<chan, bg, callerVars, closeVars, next, background, turns, cur,
                 batch, holder, turnVars, status>>

(* What the dispatch of the oldest background loan does.                   *)
DispatchLoan ==
  /\ holder' = Head(bg) /\ bg' = Tail(bg)
  /\ turns' = 0 /\ overtaken' = 0 /\ waited' = 0
  /\ cur' = None /\ pc' = "lent"

IdlePop ==
  /\ pc = "idle" /\ bg # <<>>
  /\ DispatchLoan
  /\ UNCHANGED <<chan, callerVars, closeVars, next, background, batch, status>>

IdleWait ==
  /\ pc = "idle" /\ bg = <<>>
  /\ pc' = "recv"
  /\ UNCHANGED <<chan, bg, callerVars, closeVars, next, background, turns, cur,
                 batch, holder, turnVars, status>>

RouteReady ==
  /\ pc = "route" /\ cur = Ready
  /\ background' = "some" /\ cur' = None /\ pc' = "take"
  /\ UNCHANGED <<chan, bg, callerVars, closeVars, next, turns, batch, holder,
                 turnVars, status>>

(* Mutants: a fence does not drain its own watermark; a fence drains every *)
(* loan it finds; the turn count is off by one.                            *)
PoppableBelowWatermark ==
  /\ bg # <<>>
  /\ IF cur \in Fencers /\ through[cur] > 0
       THEN sequence[Head(bg)] < through[cur]
       ELSE turns >= ForegroundTurns
PoppableWhileAny ==
  /\ bg # <<>>
  /\ (cur \in Fencers /\ through[cur] > 0) \/ turns >= ForegroundTurns
PoppableLate ==
  /\ bg # <<>>
  /\ IF cur \in Fencers /\ through[cur] > 0
       THEN sequence[Head(bg)] <= through[cur]
       ELSE turns > ForegroundTurns

(* May the oldest background loan run before the job in hand?              *)
Poppable ==
  /\ bg # <<>>
  /\ IF cur \in Fencers /\ through[cur] > 0
       THEN sequence[Head(bg)] <= through[cur]
       ELSE turns >= ForegroundTurns

(* What the dispatch of the foreground job in hand does.                   *)
DispatchForeground ==
  /\ cur' = None
  /\ pc' = IF cur \in Batchers THEN "batch" ELSE "lent"
  /\ batch' = IF cur \in Batchers THEN <<cur>> ELSE batch
  /\ holder' = IF cur \in Batchers THEN holder ELSE cur
  /\ waited' = IF bg # <<>> THEN waited + 1 ELSE 0
  /\ overtaken' = IF bg # <<>> /\ stamp[cur] > stamp[Head(bg)] THEN overtaken + 1
                  ELSE overtaken

RouteUnknown ==
  /\ pc = "route" /\ cur # Ready /\ background = "none"
  /\ DispatchForeground
  /\ UNCHANGED <<chan, bg, callerVars, closeVars, next, background, turns, status>>

(* Mutant: the job in hand goes back to the end of the channel.            *)
RoutePopRequeues ==
  /\ pc = "route" /\ cur # Ready /\ background = "some" /\ Poppable
  /\ chan' = Append(chan, cur)
  /\ DispatchLoan
  /\ UNCHANGED <<callerVars, closeVars, next, background, batch, status>>

RoutePop ==
  /\ pc = "route" /\ cur # Ready /\ background = "some" /\ Poppable
  /\ next' = cur
  /\ DispatchLoan
  /\ UNCHANGED <<chan, callerVars, closeVars, background, batch, status>>

RouteKeep ==
  /\ pc = "route" /\ cur # Ready /\ background = "some" /\ ~Poppable
  /\ pc' = "count"
  /\ UNCHANGED <<chan, bg, callerVars, closeVars, next, background, turns, cur,
                 batch, holder, turnVars, status>>

(* has_pending takes the queue's lock again, after pop released it.        *)
Count ==
  /\ pc = "count"
  /\ turns' = IF bg # <<>> THEN turns + 1 ELSE 0
  /\ DispatchForeground
  /\ UNCHANGED <<chan, bg, callerVars, closeVars, next, background, status>>

-----------------------------------------------------------------------------
(* write_queue: loans and batches.                                         *)

(* WriterGuard::drop gives the connection back ...                         *)
Returned ==
  /\ pc = "lent" /\ status[holder] = "waiting"
  /\ Move(holder, "done")
  /\ holder' = None /\ pc' = "take"
  /\ UNCHANGED <<chan, bg, callerVars, closeVars, next, background, turns, cur,
                 batch, turnVars>>

(* ... or unwinds out of an observer without doing so, which stops the      *)
(* writer.                                                                  *)
GuardLost ==
  /\ pc = "lent" /\ status[holder] = "waiting"
  /\ Move(holder, "refused")
  /\ holder' = None /\ pc' = "drop"
  /\ UNCHANGED <<chan, bg, callerVars, closeVars, next, background, turns, cur,
                 batch, turnVars>>

(* lent.send fails: the borrower has gone, and the thread keeps the         *)
(* connection.                                                              *)
LendFailed ==
  /\ pc = "lent" /\ status[holder] = "waiting"
  /\ Move(holder, "refused")
  /\ holder' = None /\ pc' = "take"
  /\ UNCHANGED <<chan, bg, callerVars, closeVars, next, background, turns, cur,
                 batch, turnVars>>

(* Mutant: the batch swallows whatever job is next in the channel.         *)
BatchTakeAny ==
  /\ pc = "batch" /\ chan # <<>> /\ Len(batch) < BatchLimit
  /\ chan' = Tail(chan)
  /\ batch' = Append(batch, Head(chan))
  /\ UNCHANGED <<bg, callerVars, closeVars, next, background, turns, pc, cur,
                 holder, turnVars, status>>

(* run_write_batch takes more queued writes until it meets another job,    *)
(* which it keeps in its local `lend` (cur here).                          *)
BatchTake ==
  /\ pc = "batch" /\ chan # <<>> /\ Len(batch) < BatchLimit
  /\ Head(chan) \in Batchers
  /\ chan' = Tail(chan)
  /\ batch' = Append(batch, Head(chan))
  /\ UNCHANGED <<bg, callerVars, closeVars, next, background, turns, pc, cur,
                 holder, turnVars, status>>

(* Mutant: the job that ends the batch is put back before the commit.      *)
BatchMeetsPutsBack ==
  /\ pc = "batch" /\ chan # <<>> /\ Len(batch) < BatchLimit
  /\ Head(chan) \notin Batchers
  /\ chan' = Tail(chan)
  /\ next' = Head(chan) /\ pc' = "commit"
  /\ UNCHANGED <<bg, callerVars, closeVars, background, turns, cur, batch,
                 holder, turnVars, status>>

BatchMeets ==
  /\ pc = "batch" /\ chan # <<>> /\ Len(batch) < BatchLimit
  /\ Head(chan) \notin Batchers
  /\ chan' = Tail(chan)
  /\ cur' = Head(chan) /\ pc' = "commit"
  /\ UNCHANGED <<bg, callerVars, closeVars, next, background, turns, batch,
                 holder, turnVars, status>>

(* The batch is full, its window is over, a write failed, or the channel    *)
(* is empty.                                                                *)
BatchEnd ==
  /\ pc = "batch"
  /\ pc' = "commit"
  /\ UNCHANGED <<chan, bg, callerVars, closeVars, next, background, turns, cur,
                 batch, holder, turnVars, status>>

(* Every caller of the batch is answered, whether or not it committed, and  *)
(* the job that ended the batch is put back.                                *)
BatchCommit ==
  /\ pc = "commit"
  /\ status' = [c \in Callers |-> IF c \in Elements(batch) THEN "done" ELSE status[c]]
  /\ batch' = <<>> /\ next' = cur /\ cur' = None /\ pc' = "take"
  /\ UNCHANGED <<chan, bg, callerVars, closeVars, background, turns, holder,
                 turnVars>>

(* A commit observer panics: no answer is sent and the thread unwinds.      *)
BatchPanic ==
  /\ pc = "commit"
  /\ batch' = <<>> /\ cur' = None /\ pc' = "drop"
  /\ UNCHANGED <<chan, bg, callerVars, closeVars, next, background, turns, holder,
                 turnVars, status>>

-----------------------------------------------------------------------------
(* Drop for Admission, on the writer thread.                               *)

DropStore ==
  /\ pc = "drop"
  /\ pc' = "closing"
  /\ closed' = "buffered"
  /\ UNCHANGED <<chan, bg, callerVars, queue, next, background, turns, cur,
                 batch, holder, turnVars, status>>

(* The load of the queue slot waits for the store to be seen, unless stores *)
(* may be delayed past it.                                                  *)
MayLoad == pc = "closing" /\ (DelayedStores \/ closed = "yes")

(* Mutant: a failing thread disconnects the foreground channel only.        *)
DropBackgroundForgets ==
  /\ MayLoad /\ queue # "unset"
  /\ pc' = "dropped"
  /\ UNCHANGED <<chan, bg, callerVars, closeVars, next, background, turns, cur,
                 batch, holder, turnVars, status>>

(* BackgroundQueue::close takes a mutex, which publishes the store.         *)
DropBackground ==
  /\ MayLoad /\ queue # "unset"
  /\ CloseQueue /\ closed' = "yes"
  /\ pc' = "dropped"
  /\ UNCHANGED <<chan, callerVars, next, background, turns, cur, batch, holder,
                 status>>

DropNoBackground ==
  /\ MayLoad /\ queue = "unset"
  /\ pc' = "dropped"
  /\ UNCHANGED <<chan, bg, callerVars, closeVars, next, background, turns, cur,
                 batch, holder, turnVars, status>>

(* The fields drop: the channel disconnects and discards its jobs.          *)
DropChannel ==
  /\ pc = "dropped"
  /\ pc' = "stopped"
  /\ chan' = <<>> /\ next' = None
  /\ closed' = "yes"
  /\ UNCHANGED <<bg, callerVars, queue, background, turns, cur, batch, holder,
                 turnVars, status>>

(* The store buffer drains at any time.                                     *)
Publish ==
  /\ closed = "buffered"
  /\ closed' = "yes"
  /\ UNCHANGED <<chan, bg, callerVars, queue, threadVars, turnVars, status>>

-----------------------------------------------------------------------------
Calls(c) ==
  \/ c \in Lenders \cup Batchers /\ Send(c)
  \/ c \in Fencers /\ SendFence(c)
  \/ c \in Foreground /\ SendRefused(c)
  \/ c \in Loans /\ BackgroundLock(c)

(* What a caller does once it has made its call.                           *)
Proceeds(c) ==
  \/ /\ c \in Loans
     /\ \/ BackgroundGone(c) \/ BackgroundCheck(c)
        \/ BackgroundPush(c) \/ BackgroundPushClosed(c)
        \/ BackgroundNotify(c) \/ BackgroundNotifyGone(c)
  \/ Disconnected(c)

Scheduler ==
  \/ TakeNext \/ TakeChannel \/ TakeEmpty \/ TakeClosed
  \/ IdlePop \/ IdleWait
  \/ RouteReady \/ RouteUnknown \/ RoutePop \/ RouteKeep \/ Count

Serves == Returned \/ BatchTake \/ BatchMeets \/ BatchEnd \/ BatchCommit
Fails == GuardLost \/ LendFailed \/ BatchPanic
Drops == DropStore \/ DropBackground \/ DropNoBackground \/ DropChannel

Next ==
  \/ \E c \in Callers : Calls(c) \/ Proceeds(c)
  \/ Close \/ Scheduler \/ Serves \/ Fails \/ Drops \/ Publish

Spec == Init /\ [][Next]_vars

(* The threads keep running, a borrower gives the connection back, and a    *)
(* started call is not suspended forever.  Nothing makes a caller call,     *)
(* the owner close, or a step fail.                                         *)
FairSpec ==
  /\ Spec
  /\ WF_vars(Scheduler \/ Serves \/ Drops \/ Publish)
  /\ \A c \in Callers : WF_vars(Proceeds(c))

-----------------------------------------------------------------------------
(* Properties.                                                             *)

(* Foreground work is FIFO (writer_queue.rs:1), across the put-back slot     *)
(* and the batch's raw reads of the channel: whatever foreground job is       *)
(* being served was admitted before every foreground job still pending, and   *)
(* a batch runs its writes in order of admission.                             *)
ForegroundFifo ==
  /\ holder \in Foreground =>
       \A c \in Pending \cap Foreground : stamp[holder] < stamp[c]
  /\ \A i \in DOMAIN batch :
       /\ \A c \in Pending \cap Foreground : stamp[batch[i]] < stamp[c]
       /\ \A j \in DOMAIN batch : i < j => stamp[batch[i]] < stamp[batch[j]]

(* A configuration fence runs after every job admitted before it, background  *)
(* loans included, and a background loan after every older one: the install   *)
(* hooks rely on it to see no writer that predates them.                      *)
FenceOrder ==
  /\ holder \in Fencers => \A c \in Pending : stamp[holder] < stamp[c]
  /\ holder \in Loans =>
       \A c \in Pending \cap Loans : stamp[holder] < stamp[c]

(* A fence waits only for what came before it: while one is next to run, a    *)
(* background loan that overtakes it was admitted before it.                  *)
FenceNotProlonged ==
  holder \in Loans /\ next \in Fencers /\ through[next] > 0 =>
    stamp[holder] < stamp[next]

(* At most ForegroundTurns turns led by a job admitted after the oldest       *)
(* background loan are dispatched before that loan (FOREGROUND_TURNS bounds   *)
(* dispatch overtaking).                                                      *)
BoundedOvertaking == overtaken <= ForegroundTurns

(* put_back finds its slot empty: a job already put back would be lost.       *)
SlotFree == pc \in {"batch", "commit"} => next = None

(* No caller waits on a stopped writer with its job still in a queue: every   *)
(* receiver disconnects "rather than wait forever" (Drop for Admission).      *)
NoneStranded ==
  pc = "stopped" => \A c \in Held : status[c] # "waiting"

(* Every call is answered or refused: no wake is lost between the background  *)
(* push and its notification, and a stopped writer strands nobody.            *)
EveryCallEnds ==
  \A c \in Callers : status[c] # "idle" ~> status[c] \in {"done", "refused"}

(* What writer_queue.rs:6 and the doc of write_background say: a background   *)
(* loan runs after at most ForegroundTurns foreground dispatch turns.         *)
LoanRunsWithinTurns == waited <= ForegroundTurns
=============================================================================
