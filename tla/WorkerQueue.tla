----------------------------- MODULE WorkerQueue -----------------------------
(***************************************************************************)
(* The busy period of the writer's worker queue                             *)
(* (crates/smallclaims/src/sqlite/writer_admission.rs: WorkerQueue,         *)
(* QueuedWorker).  A worker waiting for admission counts itself in `depth`  *)
(* and the first of a busy period publishes its start; the last one out     *)
(* clears it.  There is no lock: each atomic operation is one step.         *)
(***************************************************************************)
EXTENDS Naturals, FiniteSets

CONSTANTS
  Workers,   \* queued workers; each queues once
  MaxTime    \* bound on the clock; MaxTime + 1 stands for u64::MAX

ASSUME WorkerQueueAssumption == IsFiniteSet(Workers) /\ MaxTime \in Nat

VARIABLES
  now,        \* microseconds since the queue's epoch
  depth,      \* WorkerQueue.depth
  busySince,  \* WorkerQueue.busy_since_micros
  pc,         \* where each worker is
  micros,     \* QueuedWorker.micros
  joined,     \* ghost: when the worker counted itself in depth
  since       \* drop's local `since`

queueVars == <<now, depth, busySince, pc, micros, joined, since>>

Unset == MaxTime + 1

Smaller(a, b) == IF a < b THEN a ELSE b

QueueTypeOK ==
  /\ now \in 0..MaxTime
  /\ depth \in 0..Cardinality(Workers)
  /\ busySince \in 0..Unset
  /\ pc \in [Workers -> {"idle", "read", "publish", "queued", "clear", "recheck",
                         "restore", "gone"}]
  /\ micros \in [Workers -> 0..MaxTime]
  /\ joined \in [Workers -> 0..MaxTime]
  /\ since \in [Workers -> 0..Unset]

QueueInit ==
  /\ now = 0 /\ depth = 0 /\ busySince = Unset
  /\ pc = [w \in Workers |-> "idle"]
  /\ micros = [w \in Workers |-> 0]
  /\ joined = [w \in Workers |-> 0]
  /\ since = [w \in Workers |-> 0]

Go(w, to) == pc' = [pc EXCEPT ![w] = to]

Tick ==
  /\ now < MaxTime
  /\ now' = now + 1
  /\ UNCHANGED <<depth, busySince, pc, micros, joined, since>>

-----------------------------------------------------------------------------
(* enqueue: read the clock; fetch_add; the first publishes with fetch_min.  *)
ReadClock(w) ==
  /\ pc[w] = "idle"
  /\ micros' = [micros EXCEPT ![w] = now]
  /\ Go(w, "read")
  /\ UNCHANGED <<now, depth, busySince, joined, since>>

Join(w) ==
  /\ pc[w] = "read"
  /\ depth' = depth + 1
  /\ joined' = [joined EXCEPT ![w] = now]
  /\ Go(w, IF depth = 0 THEN "publish" ELSE "queued")
  /\ UNCHANGED <<now, busySince, micros, since>>

Publish(w) ==
  /\ pc[w] = "publish"
  /\ busySince' = Smaller(busySince, micros[w])
  /\ Go(w, "queued")
  /\ UNCHANGED <<now, depth, micros, joined, since>>

-----------------------------------------------------------------------------
(* Drop for QueuedWorker: fetch_sub; the last clears with swap, rechecks    *)
(* depth and restores the earlier start.                                    *)

(* The guard and drop's local are no more.                                  *)
Gone(w) ==
  /\ Go(w, "gone")
  /\ micros' = [micros EXCEPT ![w] = 0]
  /\ joined' = [joined EXCEPT ![w] = 0]
  /\ since' = [since EXCEPT ![w] = 0]

Leave(w) ==
  /\ pc[w] = "queued"
  /\ depth' = depth - 1
  /\ IF depth = 1 THEN Go(w, "clear") /\ UNCHANGED <<micros, joined, since>> ELSE Gone(w)
  /\ UNCHANGED <<now, busySince>>

Clear(w) ==
  /\ pc[w] = "clear"
  /\ since' = [since EXCEPT ![w] = busySince]
  /\ busySince' = Unset
  /\ Go(w, "recheck")
  /\ UNCHANGED <<now, depth, micros, joined>>

(* Mutant: the depth is not read again after the clear.                     *)
RecheckForgets(w) ==
  /\ pc[w] = "recheck"
  /\ Gone(w)
  /\ UNCHANGED <<now, depth, busySince>>

Recheck(w) ==
  /\ pc[w] = "recheck"
  /\ IF depth # 0 THEN Go(w, "restore") /\ UNCHANGED <<micros, joined, since>> ELSE Gone(w)
  /\ UNCHANGED <<now, depth, busySince>>

(* Mutant: a raced clear publishes the present instead of the old start.    *)
RestoreNow(w) ==
  /\ pc[w] = "restore"
  /\ busySince' = Smaller(busySince, now)
  /\ Gone(w)
  /\ UNCHANGED <<now, depth>>

Restore(w) ==
  /\ pc[w] = "restore"
  /\ busySince' = Smaller(busySince, Smaller(since[w], micros[w]))
  /\ Gone(w)
  /\ UNCHANGED <<now, depth>>

-----------------------------------------------------------------------------
QueueNext ==
  \/ Tick
  \/ \E w \in Workers :
       \/ ReadClock(w) \/ Join(w) \/ Publish(w)
       \/ Leave(w) \/ Clear(w) \/ Recheck(w) \/ Restore(w)

QueueSpec == QueueInit /\ [][QueueNext]_queueVars

-----------------------------------------------------------------------------
(* Properties.                                                             *)

Counted == {w \in Workers : pc[w] \in {"publish", "queued"}}

(* The age busy_age reports is a conservative bound: a published start is     *)
(* never later than the moment any worker still queued joined, however the    *)
(* clear of one busy period races the start of the next.  The start may be    *)
(* later than such a worker's clock reading: enqueue reads before it counts.  *)
Conservative ==
  busySince # Unset => \A w \in Counted : busySince <= joined[w]

(* While workers are queued and no step of another is in flight, the busy     *)
(* period is published: a raced clear is always undone.                       *)
Published ==
  (\E w \in Workers : pc[w] = "queued")
    /\ (\A w \in Workers : pc[w] \in {"idle", "read", "queued", "gone"})
      => busySince # Unset
=============================================================================
