---------------------------- MODULE WriteWorkers ----------------------------
(***************************************************************************)
(* spawn_blocking and admit_write as they use the busy period and the      *)
(* permits together                                                        *)
(* (crates/smallclaims/src/sqlite/writer_admission.rs).  A top-level       *)
(* callback counts itself in the queue, waits for its permit, leaves the   *)
(* queue on the blocking thread, and then runs; a future dropped while it  *)
(* waits gives up its place at the semaphore first and then leaves the     *)
(* queue.  A dependent callback is neither counted nor admitted.           *)
(***************************************************************************)
EXTENDS WorkerQueue, WritePermits

ASSUME WriteWorkersAssumption == Workers = Callbacks

workerVars == <<queueVars, vars>>

WorkersInit == QueueInit /\ Init

(* enqueue, before the acquire *)
Enqueue(c) == (ReadClock(c) \/ Join(c) \/ Publish(c)) /\ UNCHANGED vars

(* Mutant: the permit is requested before the queue is entered. *)
AcquireFirst(c) == pc[c] \in {"idle", "queued"} /\ Request(c) /\ UNCHANGED queueVars

Acquire(c) == pc[c] = "queued" /\ Request(c) /\ UNCHANGED queueVars

(* The future is dropped before it is polled again, or the permit that       *)
(* admit_write returned before it is used.                                 *)
Cancel(c) ==
  /\ pc[c] \in {"queued", "gone"} /\ (CancelWaiting(c) \/ CancelGranted(c))
  /\ UNCHANGED queueVars

(* Drop for QueuedWorker, on the blocking thread or with the future *)
Dequeue(c) ==
  /\ top[c] \in {"granted", "cancelled"}
  /\ Leave(c) \/ Clear(c) \/ Recheck(c) \/ Restore(c)
  /\ UNCHANGED vars

Run(c) == pc[c] = "gone" /\ Start(c) /\ UNCHANGED queueVars

Works(c) ==
  /\ Nest(c) \/ Detach(c) \/ StartNested(c) \/ NestedEnds(c) \/ Ends(c)
  /\ UNCHANGED queueVars

WorkersNext ==
  \/ Tick /\ UNCHANGED vars
  \/ \E c \in Callbacks :
       Enqueue(c) \/ Acquire(c) \/ Cancel(c) \/ Dequeue(c) \/ Run(c) \/ Works(c)

WorkersSpec == WorkersInit /\ [][WorkersNext]_workerVars

(* A granted future is polled, a cancelled one is dropped, and callbacks end. *)
Moves(c) == Dequeue(c) \/ Run(c) \/ Works(c)

FairWorkersSpec == WorkersSpec /\ \A c \in Callbacks : WF_workerVars(Moves(c))

-----------------------------------------------------------------------------
(* Properties *)

WorkersTypeOK == QueueTypeOK /\ TypeOK

(* Whoever waits for capacity is in the count that busy_age reads, and stays  *)
(* in it until a permit is theirs or the future is gone: a writer without     *)
(* capacity never looks idle.                                                 *)
WaitingIsCounted ==
  /\ \A c \in Callbacks : top[c] = "waiting" => c \in Counted
  /\ depth = Cardinality(Counted)
=============================================================================
