---------------------------- MODULE WritePermits ----------------------------
(***************************************************************************)
(* Admission of writer-bound callbacks to the blocking pool                 *)
(* (crates/smallclaims/src/sqlite/writer_admission.rs: WriteWorkers,        *)
(* WritePermit).  A top-level callback waits for one of Limit permits in    *)
(* FIFO order; a callback it makes itself shares its permit, which returns  *)
(* when the last of them ends, even if nobody awaits it any more.           *)
(***************************************************************************)
EXTENDS Naturals, Sequences, FiniteSets

CONSTANTS
  Callbacks,  \* top-level callbacks; each may run one dependent callback
  Limit       \* max_write_workers()

ASSUME WritePermitsAssumption == IsFiniteSet(Callbacks) /\ Limit \in Nat \ {0}

VARIABLES
  available,  \* permits in the semaphore
  waiters,    \* the semaphore's queue
  top,        \* where each top-level callback is
  nested      \* where its dependent callback is

vars == <<available, waiters, top, nested>>

TypeOK ==
  /\ available \in 0..Limit
  /\ waiters \in Seq(Callbacks)
  /\ top \in [Callbacks -> {"idle", "waiting", "granted", "running", "nesting",
                            "awaiting", "ended", "cancelled"}]
  /\ nested \in [Callbacks -> {"none", "running", "ended"}]

Init ==
  /\ available = Limit
  /\ waiters = <<>>
  /\ top = [c \in Callbacks |-> "idle"]
  /\ nested = [c \in Callbacks |-> "none"]

WithoutAt(s, i) == [j \in 1..Len(s) - 1 |-> IF j < i THEN s[j] ELSE s[j + 1]]

(* tokio's Semaphore (external): a released permit goes to the oldest       *)
(* waiter, and to the pool only when there is none.                         *)
ReleasePermit(moved) ==
  IF waiters = <<>>
    THEN /\ available' = available + 1
         /\ top' = moved
         /\ UNCHANGED waiters
    ELSE /\ top' = [moved EXCEPT ![Head(waiters)] = "granted"]
         /\ waiters' = Tail(waiters)
         /\ UNCHANGED available

(* Mutant: a permit is taken whether there is one or not.                   *)
RequestUnchecked(c) ==
  /\ top[c] = "idle"
  /\ available' = available - 1
  /\ top' = [top EXCEPT ![c] = "granted"]
  /\ UNCHANGED <<waiters, nested>>

(* spawn_blocking or admit_write of a top-level callback: acquire_owned.    *)
Request(c) ==
  /\ top[c] = "idle"
  /\ IF available > 0
       THEN /\ available' = available - 1
            /\ top' = [top EXCEPT ![c] = "granted"]
            /\ UNCHANGED waiters
       ELSE /\ waiters' = Append(waiters, c)
            /\ top' = [top EXCEPT ![c] = "waiting"]
            /\ UNCHANGED available
  /\ UNCHANGED nested

(* Dropping the future while it waits leaves the queue ...                  *)
CancelWaiting(c) ==
  /\ top[c] = "waiting"
  /\ \E i \in DOMAIN waiters : waiters[i] = c /\ waiters' = WithoutAt(waiters, i)
  /\ top' = [top EXCEPT ![c] = "cancelled"]
  /\ UNCHANGED <<available, nested>>

(* ... and after the grant, before it was polled, returns the permit.       *)
CancelGranted(c) ==
  /\ top[c] = "granted"
  /\ ReleasePermit([top EXCEPT ![c] = "cancelled"])
  /\ UNCHANGED nested

(* The callback starts on a blocking thread with its permit installed.      *)
Start(c) ==
  /\ top[c] = "granted"
  /\ top' = [top EXCEPT ![c] = "running"]
  /\ UNCHANGED <<available, waiters, nested>>

(* The callback calls spawn_blocking itself and blocks on the result.       *)
Nest(c) ==
  /\ top[c] = "running" /\ nested[c] = "none"
  /\ top' = [top EXCEPT ![c] = "nesting"]
  /\ UNCHANGED <<available, waiters, nested>>

(* Mutant: the dependent callback needs a permit of its own.                *)
StartNestedAdmitted(c) ==
  /\ top[c] = "nesting" /\ available > 0
  /\ top' = [top EXCEPT ![c] = "awaiting"]
  /\ nested' = [nested EXCEPT ![c] = "running"]
  /\ UNCHANGED <<available, waiters>>

(* current_write_permit finds the permit on the thread: no waiting.         *)
StartNested(c) ==
  /\ top[c] = "nesting"
  /\ top' = [top EXCEPT ![c] = "awaiting"]
  /\ nested' = [nested EXCEPT ![c] = "running"]
  /\ UNCHANGED <<available, waiters>>

(* The callback stops waiting for its dependent, which goes on running.     *)
Detach(c) ==
  /\ top[c] = "awaiting"
  /\ top' = [top EXCEPT ![c] = "running"]
  /\ UNCHANGED <<available, waiters, nested>>

(* The dependent callback ends; its clone of the permit is the last one     *)
(* only if the callback above it has ended.                                 *)
NestedEnds(c) ==
  /\ nested[c] = "running"
  /\ nested' = [nested EXCEPT ![c] = "ended"]
  /\ \/ top[c] = "ended" /\ ReleasePermit(top)
     \/ /\ top[c] # "ended"
        /\ top' = [top EXCEPT ![c] = "running"]
        /\ UNCHANGED <<available, waiters>>

(* Mutant: the end of the callback returns the permit, whoever shares it.   *)
EndsReleases(c) ==
  /\ top[c] = "running"
  /\ ReleasePermit([top EXCEPT ![c] = "ended"])
  /\ UNCHANGED nested

(* The callback returns or panics.                                          *)
Ends(c) ==
  /\ top[c] = "running"
  /\ \/ nested[c] # "running" /\ ReleasePermit([top EXCEPT ![c] = "ended"])
     \/ /\ nested[c] = "running"
        /\ top' = [top EXCEPT ![c] = "ended"]
        /\ UNCHANGED <<available, waiters>>
  /\ UNCHANGED nested

Proceeds(c) == Start(c) \/ StartNested(c) \/ NestedEnds(c) \/ Ends(c)

Next ==
  \E c \in Callbacks :
    \/ Request(c) \/ CancelWaiting(c) \/ CancelGranted(c)
    \/ Nest(c) \/ Detach(c) \/ Proceeds(c)

Spec == Init /\ [][Next]_vars

-----------------------------------------------------------------------------
(* Properties.                                                             *)

Occupies(c) ==
  top[c] \in {"granted", "running", "nesting", "awaiting"} \/ nested[c] = "running"
Occupying == {c \in Callbacks : Occupies(c)}

(* No more than Limit top-level callbacks occupy capacity, counting those     *)
(* whose detached dependent still runs, and every other permit is available:  *)
(* none is lost or returned twice by cancellation, detaching or a panic.      *)
CapacityKept ==
  available + Cardinality(Occupying) = Limit

(* A queued callback that is not cancelled runs: a dependent callback never   *)
(* waits behind the capacity its own parent holds, and a cancelled waiter     *)
(* does not swallow a permit.                                                 *)
EveryCallbackRuns ==
  \A c \in Callbacks : top[c] = "waiting" ~> top[c] \in {"ended", "cancelled"}
=============================================================================
