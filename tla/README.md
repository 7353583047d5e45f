# TLA+ models of the smallclaims store runtime and of native delivery

This directory holds TLA+ models of the concurrent core of the repository, the
TLC configurations that check them on small instances, and TLAPS proofs of
their main safety properties. `PROJECT.json` lists components, runs, the lines
each definition models, hazards and theorems.

## The system

The repository is the *st* / Fractal runtime: agents, missions, seats and
mailboxes described by *claims*, kept in a SQLite claim log on every node and
replicated between nodes. Its parts, bottom up:

| Part | Where | Modelled |
|---|---|---|
| Writer scheduler: one thread owns the write connection | `crates/smallclaims/src/sqlite.rs`, `sqlite/writer_queue.rs` | `WriterQueue` |
| Write batches, managed transactions, hooks | `sqlite.rs`, `sqlite/transaction_finalizer.rs` | `WriteBatch`, `AtomicWrites` |
| Commit observers | `sqlite.rs` | `CommitObservers` |
| Foreground write workers: permits and busy period | `sqlite/writer_admission.rs` | `WritePermits`, `WorkerQueue`, `WriteWorkers` |
| Read pool | `sqlite.rs` | `ReadPool` |
| Read budgets and cancellation | `read_budget.rs`, `sqlite.rs` | `ReadBudget` |
| Delivery ledger of native drivers | `crates/fractal-drivers/src/delivery_ledger.rs` | `DeliveryLedger` |
| Codex delivery pump | `codex_app_server.rs`, `push_mailbox.rs` in the same crate | `CodexDelivery` |
| Writer budgets, mutation observers | `sqlite/writer_budget.rs`, `sqlite/writer_observer.rs` | no |
| Claim store, canonical order, checkpoints | `store.rs`, `store/` | no |
| Replication and fleet membership | `sync/`, `replication.rs`, `fleet/` | no |
| Incremental views, rules, shards, diagnostics | `ivm/`, `rules.rs`, `shards.rs`, ... | no |
| Missions, seats, mailboxes, reconciler | `crates/fractal-{missions,seats,delivery,reconcile}` | no |
| API, clients, UIs, other drivers, secrets, resources, GitHub | the other crates and the apps | no |

How the modelled parts interact. A request handler is counted in the *busy
period* while it waits for a foreground *permit* (`WriteWorkers`, which
composes `WorkerQueue` and `WritePermits`). Its callback calls
`WriterConnection::write`, `batched`, `write_fence` or `write_background`, which
put a job into the writer's queues (`WriterQueue`). The writer thread lends its
connection or runs a batch of savepoints and commits once (`WriteBatch`), then
calls the commit observers (`CommitObservers`) and answers the callers. Reads
take no part in this: they borrow connections from a per-store pool with its
own permits (`ReadPool`), and a wait for such a permit ends with its budget
(`ReadBudget`). On the other side of the store, the daemon hands an agent's
unread messages to the driver of its harness; the driver sends them and keeps
what it knows of each in a ledger file (`DeliveryLedger`, `CodexDelivery`).

## Modules

Each module names its source in its header; `map` in `PROJECT.json` gives the
lines. `MC*` modules add only a symmetry set and constant functions.

**WriterQueue.** State: the mpsc channel `chan`, the background queue `bg` with
its `OnceLock` slot `queue`, the put-back slot `next`, `Admission.background`
and `foreground_turns`, the batch being run, the borrower holding the
connection, and the `closed` flag with a store buffer. Callers' steps are split
where the code releases a lock (`BackgroundLock`, `BackgroundCheck`,
`BackgroundPush`, `BackgroundNotify`); the thread's steps follow
`Admission::next` (take, idle, route, count), `write_queue` and the way
`run_write_batch` reads the channel, and then `Drop for Admission` field by
field. `stamp`, `overtaken` and `waited` are ghosts. With `DelayedStores` the
Release store to `closed` may become visible after the following load, as the
memory model permits.

**WriteBatch.** One writer thread with its open transaction, the rows it has
written, the batch's answers, `batched`'s outcome slots, the hook slots and
`committed_index`. Any savepoint, rollback, finalizer or COMMIT may fail, a job
may panic, and an observer may panic after COMMIT. **AtomicWrites** is what
callers are promised: "ok" only for a durable row, "undone" only for one that
never becomes durable, and ignorance only when the writer stopped. `AnswersTrue`
is the refinement `Atomic!Spec`.

**CommitObservers.** Registration, `notify` in its four parts (the unlocked
test of `active`, the snapshot, one claim per callback, the invocation) and the
drop of a handle, from another thread or from inside the callback.

**WorkerQueue.** `enqueue` and `Drop for QueuedWorker`, each atomic operation a
step. **WritePermits.** The admission of `spawn_blocking` over tokio's FIFO
semaphore, which is external and modelled by how it is used. **WriteWorkers.**
The two together: a callback counts itself, requests a permit, leaves the count
on the blocking thread and runs; a dropped future gives up its place at the
semaphore first and then leaves the count. `admit_write` differs only in that
its permit may be dropped unused after the count is left.

**ReadPool.** Requests (with a permit, or without one when nested), snapshots
and raw reads over several pools; the idle list and its condition variable;
opens that fail; budgets that expire before or after a connection is found. A
nested scope for a pool the thread already reads shares its connection and is
left out, as are loans that outlive their scope, raw guards dropped out of
order and the statistics. `outside`, the most reads a pool ever had at once
outside admission, is a ghost.

**ReadBudget.** A tree of budgets, each with its flag, its deadline and its
list of waiters. `cancel` sets the flag, takes the list and wakes one waiter
after the other; `expired` reads one ancestor after the other; a waiter
subscribes to each ancestor under that ancestor's lock, polls, installs its
waker, checks again, queues at the semaphore and parks. Waiters of `admit_read`
(tasks, whose future may also be dropped) and of `admit_read_sync` (threads
with a park token) run their own order of these steps. A task whose deadline
passes first has its futures dropped, leaving the lists and the semaphore's
queue, and only then cancels its budget (`Timer`, `Unsubscribe`, `Leave`,
`TimerCancels`). Left out: `child_work`, whose clock is another deadline; `lock`
and `lock_sync`.

**DeliveryLedger.** The methods of the ledger as operators on a function from
files to entries: `begin`, `record`, `accept_codex_turn`, `negative`,
`retention`, `retry`, `holds_other_than`, `rebind`, `prune` and the checks of
opening (`Opens`). Left out: correlations (an injective hash of binding and
file), attestations (no decision reads them), the one-time translation of older
records.

**CodexDelivery.** The pump over that ledger. State: the ledger in memory and
on disk, the session with its bound thread, the mailbox as last
replaced, the selected head with its snapshot, the outstanding request, the
wire in both directions, and the app-server's turns, queue and thread history.
Every action of the pump is one method of `CodexInboxDelivery` or one step of
`pump_control`; `Rebind`, the first half of `maybe_request`, persists on its
own and is an action of its own, so that a crash may follow it. A failed write
ends the session, except in `ReadTranscript`, where the code only logs it and
memory runs ahead of the file. `SendRaced` is the refresh that reads the
messages and the active set under two locks. The app-server is external: it
accepts a request into a turn or refuses it, takes accepted input into the
thread later, with or without a notification, and completes a turn or fails it
and drops the rest. It dies with the driver, except under `Adopt`. In the mailbox
a message arrives and is archived, and after the first replay its body comes
and goes, as its receipt does. Left out:
holds, the backoff after a refusal and refresh intervals, which only delay
steps; approvals; everything published for observers.

## Runs

| Run | Instance | Shows |
|---|---|---|
| `writer` | 2 batchers, 1 fence, 2 background loans, 1 turn, batch limit 2, stores in order, fair | `ForegroundFifo`, `FenceOrder`, `FenceNotProlonged`, `BoundedOvertaking`, `SlotFree`, `NoneStranded`, `EveryCallEnds` |
| `first_loan` | 2 lenders, 1 loan | *violated*: `LoanRunsWithinTurns` |
| `shutdown_race` | 1 lender, 1 loan, delayed stores | *violated*: `NoneStranded` |
| `answers` | 3 writes, 1 loan, batch limit 2 | `AnswersTrue`, `NeverUnrun`, `HooksStable`, `IndexCommitted` |
| `outer_err` | 1 write | *violated*: `OuterErrUndone` |
| `observers` | 3 observers, 2 threads, 2 commits, fair | `QuietAfterDrop`, `NoMissedCommit`, `NeverRestarted`, `EveryDropReturns` |
| `workers` | 3 callbacks (each may nest one), 1 permit, 2 clock values, fair | `Conservative`, `Published`, `CapacityKept`, `WaitingIsCounted`, `EveryCallbackRuns` |
| `reads` | 2 pools of 1 permit, 2 threads nesting 2 reads (one requests and snapshots, one requests and raw reads), fair | `PermitsConserved`, `OpenBound`, `ReturnWakes`, `EveryRequestAdmitted` |
| `cancel` | a request budget and a timed query below it, 1 task and 2 threads, 1 canceller, 1 permit, fair | `NoLostWake`, `PermitsConserved`, `NothingLeft`, `ExpiredWaitEnds` |
| `codex` | 2 messages, 2 threads, 2 turns, any number of crashes and launches, fair | `AtMostOnce`, `OwnershipFirst`, `ReceiptTrue`, `RefusalTrue`, `OneOutstanding`, `LoadsClean`, `TurnsAgree`, `SettledStays`, `LandedIsSettled` |
| `adoption` | 1 message, 1 thread, 2 turns, the driver replaced | *violated*: `RefusalTrue` |
| `refused_retry` | 1 message, 1 thread, 2 turns, a fair pump | *violated*: `RefusedIsRetried` |

`writer`, `workers` and `reads` also check the type invariants of their modules,
which the proofs start from. In the other modules `TypeOK` states the ranges of
the variables; no run is spent on it.

Bounds. One turn stands for `FOREGROUND_TURNS` = 8: the counter's comparison,
increment and resets all happen at one, and two foreground jobs after a loan
suffice to exceed it. A batch limit of two makes a batch fill, end early and
meet a job it must put back. Two loans are what a fence needs to have one on
each side of it; a fence is also a lender, so lent connections are returned,
lost and refused in `writer` as well. Three writes fill one batch and start
another. With one permit, a second callback waits, a third queues behind it,
and the clear of one overlaps the start of another. Two one-permit pools and
two threads are the smallest cycle of cross-pool waits. In `cancel` one waiter
holds the permit while a second is granted it and a third waits behind, with
the ancestor and the child each cancelled before, during and after the wait.
Two messages allow the second to overtake a held first, a new thread makes the
first's entry foreign, and two turns let a message be refused in one and sent
in the next. Crashes and launches are not bounded: the code only ever compares
an entry's incarnation with the running one, so `Aged` makes all earlier ones
alike, and a crash or a failed write may fall between any two steps, any number
of times.

Deadlock checking is off where the system may rest: all calls were made (every
caller calls once), the clock or the commits reached their bound, or every
reader sleeps after refused opens. The Codex runs keep it on.

### Fairness

`WriterQueue`: the writer thread runs, a borrower gives the connection back, a
call in progress goes on. Nothing forces a call, a close or a failure.
`CommitObservers`: threads run, and a callback that nothing blocks returns.
`WriteWorkers`: granted futures are polled, cancelled ones dropped, and
callbacks end. `ReadPool`: threads run (weak fairness of acquisition and
release) and a read ends however many others its thread nests in it (strong
fairness of `Return`, since nesting disables it again and again).
`ReadBudget`: threads and tasks run; nothing forces a cancel, a deadline or the
return of a permit, so `ExpiredWaitEnds` owes nothing to the pool.
`CodexDelivery`: a launch follows an end, the resumed thread answers, and the
transcript is read (it is read every few seconds; only its tail is, so this
assumes that the message is within it). `refused_retry` adds that the mailbox
is replayed, frames are read, the pump's loop passes over refresh, snapshot and
request, and the bounded attempts at `thread/read` end.

`EveryRequestAdmitted` excepts states in which a read sleeps on the condition
variable. `get` sleeps there when the operating system refuses a connection,
and `release` wakes nobody when it closes a connection instead of keeping it,
so such a read may sleep for ever with the permit of the request around it.
The code promises nothing in that case.

`AtMostOnce`, `OwnershipFirst` and `RefusalTrue` speak of unread messages: once
the recipient archives one, its entry is pruned, and `SendRaced` may still send
it.

### Disagreements with the documentation

- `first_loan`: `writer_queue.rs:6` bounds the turns "while a background loan
  remains pending", but turns dispatched before the thread meets the
  notification are not counted. `BoundedOvertaking` is the bound that holds: it
  counts turns led by jobs admitted after the loan.
- `shutdown_race`: `Drop for Admission` stores `closed` (Release) and then
  reads the queue slot; `enqueue_background` fills the slot and then reads
  `closed`. Without a sequentially consistent order both may miss the other,
  and the borrower waits for ever. `writer` shows that ordered
  stores are enough, and `StopStrandsNobody` that, however they are ordered,
  the race needs a queue created after the drop has read its slot.
- `outer_err`: the outer `Err` of `batched` is documented as a commit that
  undid every write. An observer that panics after COMMIT gives the same `Err`
  for durable writes.
- `adoption`: `reconcile_resume` takes absence from the resumed history as
  proof that the attempt never landed. That holds when the app-server died with
  the driver (`codex`). When a replaced driver adopts a live app-server, an
  accepted input may still be on its way into the thread; it is recorded as
  absent and may be sent twice. How long the app-server keeps an accepted input
  out of the history it returns is its own affair; the model lets it.
- `refused_retry`: `maybe_snapshot_request` skips every head whose phase is
  `TransportAccepted`, refused or not, and `maybe_request` sends nothing
  without a snapshot. A message accepted by transport and then proved absent on
  resume stays at the head for good, though its receipt authorises a retry;
  only a failed turn found in the transcript gets it out.

## Proofs

All for every value of the constants, under the named assumptions of the
modules.

| Theorem | Module | Argument |
|---|---|---|
| `TypeCorrect` | `WriterQueueProofs` | `TypeInv`: the types, and a job being counted is no notification |
| `ForegroundIsFifo`, `PutBackSlotFree` | `WriterQueueProofs` | `FifoInv`, below |
| `StopStrandsNobody`, `ForegroundNeverStranded` | `WriterQueueProofs` | `StopInv` and `StopKept`, below |
| `FencesRunInOrder`, `FencesAreNotProlonged`, `OvertakingIsBounded` | `WriterQueueProofs` | `OrderInv` and `ServeInv`, below |
| `NoWriteUnrun`, `HooksAreStable`, `IndexIsCommitted` | `WriteBatchProofs` | `BatchInv`, below |
| `WriterIsAtomic` | `WriteBatchProofs` | refinement of `AtomicWrites`, from `BatchInv` |
| `DropsAreQuiet`, `CommitsAreObserved`, `DroppedStayQuiet`, `NotifierNeverWaits` | `CommitObserversProofs` | `ObserversInv`, below |
| `BusyPeriodConservative`, `BusyPeriodPublished` | `WriteWorkersProofs` | `BusyInv`, and with it `Covered` |
| `CapacityAlwaysKept` | `WriteWorkersProofs` | `PermitInv` |
| `WorkersBusyPeriod`, `WorkersCapacity`, `WaitingAlwaysCounted`, `WorkersWellTyped` | `WriteWorkersProofs` | each step of the composition is a step of one part, and the two invariants |
| `PermitsAlwaysConserved`, `OpenAlwaysBounded`, `ReturnsAlwaysWake`, `TypeAlwaysOK` | `ReadPoolProofs` | `PoolInv`, below |
| `WakesAreNotLost`, `WaitsLeaveNothing`, `PermitsAreConserved` | `ReadBudgetProofs` | `WaitInv`, and `SemaphoreInv` with `Counted`, below |
| `DeliveredAtMostOnce`, `OwnershipLandsFirst`, `ReceiptsTrue`, `RefusalsTrue`, `OneDeliveryOutstanding`, `LedgerLoadsClean`, `AcceptedTurnsAgree`, `SettledEntriesStay` | `CodexDeliveryProofs` | `CodexInv`, below |

`ForegroundFifo` is not inductive: it speaks of the job being served, while
jobs move from the channel to the thread's hand, the put-back slot and a
batch. `FifoInv` says where the thread may hold a job at each point (`Shape`),
that every job in the pipeline was admitted (`AllAdmitted`), and that holder,
batch, hand, slot and channel, in this order, are sorted by admission
(`Sorted`).

`NoneStranded` itself fails under Release and Acquire (`shutdown_race`), so
`StopStrandsNobody` says when it holds, for either value of `DelayedStores`: if
the queue exists, or the store to `closed` is visible, at any moment before the
thread reads the queue slot (`StopSeen`), nobody is stranded from then on.
`StopInv` adds to `FifoInv` who may be inside `enqueue_background`: whoever is
there holds the jobs lock and has created the queue. `StopKept` is what
`StopSeen` leads to: past its test of the slot the thread has seen `closed`
stored and the queue emptied, and a queue that is still open belongs to a caller
that has yet to read `closed`. `ForegroundNeverStranded` needs no such
condition: all that a stopped writer can still hold is background loans.

The order of fences and loans needs the two queues related. `OrderInv` adds to
`FifoInv` who holds the jobs lock (`Locking`) and that a loan's sequence number
is at most a fence's watermark exactly if the loan was admitted first
(`Numbered`). `ServeInv` says that the background queue is sorted
(`LoansSorted`); that while the thread knows of no loan but one is queued, a
notification is in its path or about to be sent, and it meets no later
foreground job before it (`Announced`); that nothing older waits than the loan
or fence that is served (`LoanServed`); and that the turns counted are at least
those that overtook (`Overtaking`). `Announced` is the heart of it: without it
a fence could be routed while an older loan waits unannounced. These hold with
delayed stores as well.

`ObserversInv` says that a callback is there exactly while its handle is held
(`Registered`), that only the callback in hand runs, on the notifying thread,
and that no thread waiting in a drop is that thread (`Invoking`), that a held
observer is in the registry and the registry then active (`Listed`), and whom
the notification still owes a call, by how far it has come (`Owed`).
`NotifierNeverWaits` is the safety half of `EveryDropReturns`: a drop waits for
a thread that itself waits for no drop.

`BatchInv` says where the thread is and whom it serves (`PlaceOK`), that the
open transaction holds rows only of those it will answer (`TxOK`), that each
write in the batch is answered once and has an outcome unless the batch failed
(`AnswersOK`), and how outcome, transaction and database agree (`RowsOK`): until
its answer, a write outside the batch is neither durable nor decided; while the
transaction is open, it holds exactly the writes that ran well; once it is over,
exactly those are durable, if it did not fail. The last is what makes an answer
true, and none of the four properties is inductive without it.
`WriterIsAtomic` then maps each row to what its caller has been told (`Told`).
A call, a commit, a rollback and an answer are steps of `AtomicWrites`; a batch
that commits makes a group of rows durable at once, and every other step leaves
the mapped state alone (`AtomicNext`, with one lemma per kind of step).

`BusyInv` says that `depth` counts the queued workers and that whoever may
still publish a start was counted before everyone now queued; `Covered`, that
while somebody is counted a start is published or somebody is about to publish
or restore one. `PermitInv` says that the semaphore's queue lists waiting
callbacks, each once, and that a dependent callback runs only below a started
one; the capacity then follows from cardinalities.

`PoolInv` counts, per pool, the *places* of the threads' stacks (a thread and
an index, index 0 being the read in progress): permits and places with a token
make up the limit; open connections are the idle ones and the places that hold
one; and idle connections and places that use or are about to use one do not
exceed the limit and the recorded maximum of reads outside admission. The last
is the strengthening `OpenBound` needs: opening a connection requires an empty
idle list, and a permit is repaid only after the connection is idle again. Each
action moves one thread's places, so a step changes each of these sets by at
most one element, or moves one (`CountStep`).

`ReadBudget` is proved for any finite set of waiters and any function `Parent`;
`Ancestors`, the least set closed under it, takes the place of induction over
the tree: the proofs use only that a budget's ancestors are itself and its
parent's ancestors, and that they nest. `BudgetInv` has the types, that a waiter climbs
among its own ancestors, and that whoever is in `cancel` has stored the flag.
`SemaphoreInv` adds that a waiter is queued once, or has been given a permit, or
holds one, and is where it waits or holds, and that a waiter's own cancel is due
only once its wait is over without a permit (`OwnCalls`); `Counted` then adds up the permits.
`WaitInv` adds, of each waiter, that it is in no list but of ancestors it has
yet to leave (`ListsOK`), in the list of every ancestor not cancelled
(`ReachOK`), and what covers it between the installation of its waker and its
sleep (`ArmedOK`): a wake to find, a check about to fail, or its waker in place
and on the way to it whoever cancelled an ancestor after it was found live.
`NoLostWake` is `ArmedOK` at the moment of sleep; it is not inductive, because
the cancel may fall between any two of the checks that come before.

`CodexInv` relates ledger, wire and app-server. Every entry, in memory and on
disk, is of a message once seen, of a thread not later than the bound one; a
consumed one has landed there; one with an accepted turn was taken by that turn,
which still has it to deliver, has delivered it, or ended without completing
(`EntryOK`, `Took`). The entries of a ledger share one thread. Memory runs ahead
of the file by receipts only (`Ahead`), which is why a failed transcript write
loses nothing that matters. The outstanding request has at most one answer, and
every frame on the wire is true of the server (`WireOK`). The theorems' own
statements are conjuncts (`DeliveryOK`): that a message lands once needs that it
is owned first, that refusals are true and that nothing else is outstanding, and
each of these needs the others. `CodexServerProofs` has the invariant, what the
ledger's functions return, and the steps of mailbox and app-server, of launches
and of reconciliation on resume; `CodexDeliveryProofs` the pump's own steps
(most through one lemma on what such a step may change, `PumpStep`) and the
theorems.
`Selected` picks the message with the least name, and that there is one is the
only place where well-foundedness of the order on names is used. The theorems
assume of the constants that file names are naturals other than `None`, that
thread 1 exists and that the adapter proves acceptance by transport
(`FilesAssumption`, `ProvesAssumption`, `BoundsAssumption`,
`CodexAssumption`), and speak of `Spec`, in which the
app-server dies with its driver; `adoption` shows that `RefusalTrue` fails
without that.

The assumptions on the other constants (`CallersAssumption` and its like, one
named `ASSUME` per module) say that sets of callers are disjoint and do not
contain the markers `None` and `Ready`, that bounds are naturals, and that sets
that are counted are finite.

The proof modules start with `USE Zenon`: most leaves are first-order, and those
that need arithmetic or sequences cite `SMT`.

Only model-checked: liveness (`EveryCallEnds`, `EveryDropReturns`,
`EveryCallbackRuns`, `EveryRequestAdmitted`, `ExpiredWaitEnds`,
`LandedIsSettled`), which the prover does not reach. Every invariant and action
property of a passing run has a theorem, `NoneStranded` under the condition
that `StopSeen` was met. `AtomicWrites` has no fairness, so `WriterIsAtomic` is
the whole refinement.

## Not modelled

The repository is far larger than what is modelled here. The choice went to
code whose correctness depends on the order of concurrent steps or on a crash
between them, and whose state fits a small instance.

- Claim store, projections, views and rules: most of their logic is SQL text
  and data transformation inside one transaction; what the transaction promises
  is in `WriteBatch`.
- Checkpoint agreement, replication exchange and the membership fold are the
  next candidates, as functions of the claims a node holds, with lost, repeated
  and reordered exchanges; then catalog transactions with crashes, mailbox
  leases and the seat queue. Missions and the reconciler read all of these.
- Writer budgets and mutation observers install and restore SQLite handlers on
  one thread.
- The other native drivers (Claude, OpenCode, pi) use the same ledger with
  other evidence; their pumps are not modelled.
- Wire formats, user interfaces, drivers of external programs, cryptography,
  migrations and diagnostics.

Of the modelled parts: `WriterQueue` and `WriteBatch` are not composed, since
the scheduler does not depend on what a batch's jobs answer. A pump whose head
is refused and which then sees an earlier message become readable holds both
until one is archived, as its comment says; no property is stated about this.
