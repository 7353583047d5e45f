------------------------- MODULE WriteWorkersProofs -------------------------
(* Theorems about WorkerQueue, WritePermits and WriteWorkers, for every set  *)
(* of callbacks, every limit and every clock: the busy period is            *)
(* conservative, the permits are kept, and the composition implements both   *)
(* of its parts, which agree on who waits.                                  *)
EXTENDS WriteWorkers, FiniteSetTheorems, TLAPS

(* The leaves are first-order, for Zenon, but for those that cite SMT. *)
USE Zenon

-----------------------------------------------------------------------------
(* The busy period. *)

(* Workers between the atomic operations of enqueue or of drop that may     *)
(* still publish a start.                                                   *)
Publishing == {"publish", "clear", "recheck", "restore"}

(* The inductive strengthening: depth counts the queued workers, a worker's *)
(* clock reading is not later than its count, and whoever may still publish *)
(* a start was counted before every worker now queued.                      *)
BusyInv ==
  /\ QueueTypeOK
  /\ depth = Cardinality(Counted)
  /\ busySince = Unset \/ busySince <= now
  /\ \A w \in Workers : micros[w] <= now /\ joined[w] <= now
  /\ \A w \in Workers : pc[w] \notin {"idle", "read"} => micros[w] <= joined[w]
  /\ \A w, v \in Workers :
       pc[w] \in Publishing /\ v \in Counted => joined[w] <= joined[v]
  /\ Conservative

(* What the count says about the set of queued workers. *)
LEMMA CountedFinite ==
  ASSUME NEW S \in SUBSET Workers
  PROVE  /\ IsFiniteSet(S)
         /\ Cardinality(S) \in 0..Cardinality(Workers)
         /\ Cardinality(S) = 0 <=> S = {}
         /\ \A w \in Workers \ S : Cardinality(S \cup {w}) = Cardinality(S) + 1
         /\ \A w \in S : Cardinality(S \ {w}) = Cardinality(S) - 1
<1>1. IsFiniteSet(Workers)
  BY WorkerQueueAssumption
<1>2. IsFiniteSet(S) /\ Cardinality(S) <= Cardinality(Workers)
  BY <1>1, FS_Subset
<1>3. Cardinality(S) \in Nat /\ Cardinality(Workers) \in Nat
  BY <1>1, <1>2, FS_CardinalityType
<1>4. Cardinality(S) = 0 <=> S = {}
  BY <1>2, FS_EmptySet
<1>5. \A w \in Workers \ S : Cardinality(S \cup {w}) = Cardinality(S) + 1
  BY <1>2, FS_AddElement
<1>6. \A w \in S : Cardinality(S \ {w}) = Cardinality(S) - 1
  BY <1>2, FS_RemoveElement
<1> QED
  BY <1>2, <1>3, <1>4, <1>5, <1>6, SMT

(* The queue is created empty, with no start published. *)
LEMMA BusyInit == QueueInit => BusyInv
<1> SUFFICES ASSUME QueueInit PROVE BusyInv
  OBVIOUS
<1>1. Counted = {}
  BY DEF QueueInit, Counted
<1>2. Cardinality(Counted) = 0 /\ Cardinality(Workers) \in Nat
  BY <1>1, CountedFinite, WorkerQueueAssumption, FS_CardinalityType
<1> QED
  BY <1>1, <1>2, WorkerQueueAssumption, SMT
     DEF QueueInit, BusyInv, QueueTypeOK, Unset, Conservative, Publishing

(* A worker that is gone leaves everyone else alone. *)
LEMMA GoneFacts ==
  ASSUME QueueTypeOK, NEW w \in Workers, Gone(w)
  PROVE  /\ pc' \in [Workers -> {"idle", "read", "publish", "queued", "clear",
                                 "recheck", "restore", "gone"}]
         /\ micros' \in [Workers -> 0..MaxTime] /\ joined' \in [Workers -> 0..MaxTime]
         /\ since' \in [Workers -> 0..Unset]
         /\ \A v \in Workers \ {w} :
              pc'[v] = pc[v] /\ micros'[v] = micros[v] /\ joined'[v] = joined[v]
         /\ pc'[w] = "gone" /\ micros'[w] = 0 /\ joined'[w] = 0
  BY WorkerQueueAssumption, SMT DEF Gone, Go, QueueTypeOK, Unset

(* Every atomic operation of enqueue and drop keeps it. *)
LEMMA BusyStep == BusyInv /\ [QueueNext]_queueVars => BusyInv'
<1> SUFFICES ASSUME BusyInv, [QueueNext]_queueVars PROVE BusyInv'
  OBVIOUS
<1> USE WorkerQueueAssumption
    DEF BusyInv, QueueTypeOK, Conservative, Publishing, Unset, Smaller, Go
<1>0. /\ Counted \in SUBSET Workers
      /\ Cardinality(Workers) \in Nat
  BY FS_CardinalityType DEF Counted
<1>1. CASE Tick
  <2>1. Counted' = Counted
    BY <1>1 DEF Tick, Counted
  <2> QED
    BY <1>0, <1>1, <2>1, SMT DEF Tick
<1>2. ASSUME NEW w \in Workers, ReadClock(w) PROVE BusyInv'
  <2>1. Counted' = Counted
    BY <1>2 DEF ReadClock, Counted
  <2> QED
    BY <1>0, <1>2, <2>1, SMT DEF ReadClock
<1>3. ASSUME NEW w \in Workers, Join(w) PROVE BusyInv'
  <2>1. Counted' = Counted \cup {w} /\ w \notin Counted
    BY <1>3 DEF Join, Counted
  <2>2. depth' = Cardinality(Counted') /\ depth' \in 0..Cardinality(Workers)
    <3>1. Cardinality(Counted \cup {w}) = Cardinality(Counted) + 1
      BY <1>0, <2>1, CountedFinite
    <3>2. Cardinality(Counted \cup {w}) \in 0..Cardinality(Workers)
      BY <1>0, CountedFinite, Counted \cup {w} \in SUBSET Workers
    <3> QED
      BY <1>3, <2>1, <3>1, <3>2 DEF Join
  <2>3. CASE depth = 0
    <3>1. Counted = {}
      BY <1>0, <2>3, CountedFinite
    <3> QED
      BY <1>0, <1>3, <2>1, <2>2, <2>3, <3>1, SMT DEF Join
  <2>4. CASE depth # 0
    BY <1>0, <1>3, <2>1, <2>2, <2>4, SMT DEF Join
  <2> QED
    BY <2>3, <2>4
<1>4. ASSUME NEW w \in Workers, Publish(w) PROVE BusyInv'
  <2>1. Counted' = Counted /\ w \in Counted
    BY <1>4 DEF Publish, Counted
  <2> QED
    BY <1>0, <1>4, <2>1, SMT DEF Publish
<1>5. ASSUME NEW w \in Workers, Leave(w) PROVE BusyInv'
  <2>1. Counted' = Counted \ {w} /\ w \in Counted
    BY <1>5, GoneFacts DEF Leave, Counted
  <2>2. depth' = Cardinality(Counted') /\ depth' \in 0..Cardinality(Workers)
    <3>1. Cardinality(Counted \ {w}) = Cardinality(Counted) - 1
      BY <1>0, <2>1, CountedFinite
    <3>2. Cardinality(Counted \ {w}) \in 0..Cardinality(Workers)
      BY <1>0, CountedFinite, Counted \ {w} \in SUBSET Workers
    <3> QED
      BY <1>5, <2>1, <3>1, <3>2 DEF Leave
  <2>3. CASE depth = 1
    <3>1. depth' = 0
      BY <1>5, <2>3, SMT DEF Leave
    <3>2. Counted \ {w} = {}
      BY <1>0, <2>1, <2>2, <3>1, CountedFinite, Counted \ {w} \in SUBSET Workers
    <3> QED
      BY <1>0, <1>5, <2>1, <2>2, <2>3, <3>2 DEF Leave
  <2>4. CASE depth # 1
    BY <1>0, <1>5, <2>1, <2>2, <2>4, GoneFacts, SMT DEF Leave
  <2> QED
    BY <2>3, <2>4
<1>6. ASSUME NEW w \in Workers, Clear(w) PROVE BusyInv'
  <2>1. Counted' = Counted
    BY <1>6 DEF Clear, Counted
  <2> QED
    BY <1>0, <1>6, <2>1, SMT DEF Clear
<1>7. ASSUME NEW w \in Workers, Recheck(w) PROVE BusyInv'
  <2>1. Counted' = Counted /\ w \notin Counted
    BY <1>7, GoneFacts DEF Recheck, Counted
  <2>2. CASE depth # 0
    BY <1>0, <1>7, <2>1, <2>2 DEF Recheck
  <2>3. CASE depth = 0
    BY <1>0, <1>7, <2>1, <2>3, GoneFacts, SMT DEF Recheck
  <2> QED
    BY <2>2, <2>3
<1>8. ASSUME NEW w \in Workers, Restore(w) PROVE BusyInv'
  <2>1. Counted' = Counted /\ w \notin Counted
    BY <1>8, GoneFacts DEF Restore, Counted
  <2> QED
    BY <1>0, <1>8, <2>1, GoneFacts, SMT DEF Restore
<1>9. CASE UNCHANGED queueVars
  <2>1. Counted' = Counted
    BY <1>9 DEF queueVars, Counted
  <2> QED
    BY <1>0, <1>9, <2>1 DEF queueVars
<1> QED
  BY <1>1, <1>2, <1>3, <1>4, <1>5, <1>6, <1>7, <1>8, <1>9 DEF QueueNext

(* The start busy_age reads is never later than the moment any queued       *)
(* worker was counted, for any number of workers: a clear that races the    *)
(* next busy period cannot hide waiting work.                               *)
THEOREM BusyPeriodConservative == QueueSpec => []Conservative
<1>1. BusyInv => Conservative
  BY DEF BusyInv
<1> QED
  BY <1>1, BusyInit, BusyStep, PTL DEF QueueSpec

(* The strengthening of Published: while workers are queued and no start is *)
(* published, someone who will publish one is on the way.                   *)
Covered ==
  (\E v \in Workers : pc[v] = "queued") /\ busySince = Unset
    => \E v \in Workers : pc[v] \in {"publish", "recheck", "restore"}

(* Every atomic operation keeps the busy period covered. *)
LEMMA CoveredStep == BusyInv /\ Covered /\ [QueueNext]_queueVars => Covered'
<1> SUFFICES ASSUME BusyInv, Covered, [QueueNext]_queueVars PROVE Covered'
  OBVIOUS
<1> USE WorkerQueueAssumption DEF QueueTypeOK, Unset, Go, Gone
<1>0. QueueTypeOK /\ (depth = 0 <=> Counted = {})
  BY CountedFinite, Counted \in SUBSET Workers DEF BusyInv, Counted
<1>1. CASE Tick
  BY <1>1 DEF Tick, Covered
<1>2. ASSUME NEW w \in Workers, ReadClock(w) PROVE Covered'
  BY <1>0, <1>2 DEF ReadClock, Covered
<1>3. ASSUME NEW w \in Workers, Join(w) PROVE Covered'
  <2>1. CASE depth = 0
    BY <1>0, <1>3, <2>1 DEF Join, Covered
  <2>2. CASE depth # 0
    <3>1. PICK v \in Workers : pc[v] \in {"publish", "queued"} /\ v # w
      BY <1>0, <1>3, <2>2 DEF Counted, Join
    <3> QED
      BY <1>0, <1>3, <2>2, <3>1 DEF Join, Covered
  <2> QED
    BY <2>1, <2>2
<1>4. ASSUME NEW w \in Workers, Publish(w) PROVE Covered'
  BY <1>0, <1>4, SMT DEF Publish, Covered, Smaller
<1>5. ASSUME NEW w \in Workers, Leave(w) PROVE Covered'
  BY <1>0, <1>5 DEF Leave, Covered
<1>6. ASSUME NEW w \in Workers, Clear(w) PROVE Covered'
  BY <1>0, <1>6 DEF Clear, Covered
<1>7. ASSUME NEW w \in Workers, Recheck(w) PROVE Covered'
  BY <1>0, <1>7, SMT DEF Recheck, Covered, Counted
<1>8. ASSUME NEW w \in Workers, Restore(w) PROVE Covered'
  BY <1>0, <1>8, SMT DEF Restore, Covered, Smaller
<1>9. CASE UNCHANGED queueVars
  BY <1>9 DEF queueVars, Covered
<1> QED
  BY <1>1, <1>2, <1>3, <1>4, <1>5, <1>6, <1>7, <1>8, <1>9 DEF QueueNext

(* A clear that races a new busy period is always undone: once no enqueue   *)
(* or drop is half done, queued workers have a published start.             *)
THEOREM BusyPeriodPublished == QueueSpec => []Published
<1>1. QueueInit => Covered
  BY DEF QueueInit, Covered
<1>2. Covered => Published
  BY DEF Covered, Published
<1> QED
  BY <1>1, <1>2, BusyInit, BusyStep, CoveredStep, PTL DEF QueueSpec

-----------------------------------------------------------------------------
(* The permits, and the composition. *)

(* The inductive strengthening: the semaphore's queue lists callbacks that  *)
(* wait, each once, and a dependent callback runs only below one that has   *)
(* started.                                                                 *)
PermitInv ==
  /\ TypeOK
  /\ CapacityKept
  /\ \A i \in DOMAIN waiters : top[waiters[i]] = "waiting"
  /\ \A i, j \in DOMAIN waiters : waiters[i] = waiters[j] => i = j
  /\ \A c \in Callbacks :
       top[c] \in {"idle", "waiting", "granted", "nesting", "cancelled"}
         => nested[c] = "none"
  /\ \A c \in Callbacks : top[c] = "awaiting" => nested[c] = "running"

(* The cardinality of a set of callbacks when one joins or leaves. *)
LEMMA CallbackSets ==
  ASSUME NEW S \in SUBSET Callbacks
  PROVE  /\ Cardinality(S) \in Nat
         /\ \A c \in Callbacks \ S : Cardinality(S \cup {c}) = Cardinality(S) + 1
         /\ \A c \in S : Cardinality(S \ {c}) = Cardinality(S) - 1
<1>1. IsFiniteSet(S)
  BY WritePermitsAssumption, FS_Subset
<1> QED
  BY <1>1, FS_CardinalityType, FS_AddElement, FS_RemoveElement

(* At the start every permit is available. *)
LEMMA PermitInit == Init => PermitInv
<1> SUFFICES ASSUME Init PROVE PermitInv
  OBVIOUS
<1>1. Occupying = {}
  BY DEF Init, Occupying, Occupies
<1>2. CapacityKept
  BY <1>1, FS_EmptySet, WritePermitsAssumption, SMT DEF Init, CapacityKept
<1> QED
  BY <1>2, WritePermitsAssumption, SMT DEF Init, PermitInv, TypeOK

(* A permit that is returned goes to the oldest waiter or to the pool: the  *)
(* callback that returned it leaves the capacity, the waiter enters it.     *)
LEMMA ReleaseKeeps ==
  ASSUME PermitInv, NEW c \in Callbacks, NEW to \in {"ended", "cancelled"},
         Occupies(c), top[c] \in {"granted", "running", "ended"},
         ReleasePermit([top EXCEPT ![c] = to]),
         \/ nested' = nested /\ nested[c] # "running"
         \/ nested' = [nested EXCEPT ![c] = "ended"] /\ nested[c] = "running" /\ to = "ended",
         to = "cancelled" => nested[c] = "none"
  PROVE  PermitInv'
<1> USE WritePermitsAssumption DEF PermitInv, TypeOK
<1>1. Occupying \in SUBSET Callbacks /\ c \in Occupying
  BY DEF Occupying
<1>2. Cardinality(Occupying) \in Nat /\ Cardinality(Occupying) >= 1
      /\ available + Cardinality(Occupying) = Limit
      /\ Cardinality(Occupying \ {c}) = Cardinality(Occupying) - 1
  <2>1. Cardinality(Occupying \ {c}) \in Nat
    BY <1>1, CallbackSets, Occupying \ {c} \in SUBSET Callbacks
  <2> QED
    BY <1>1, <2>1, CallbackSets, SMT DEF CapacityKept
<1>3. CASE waiters = <<>>
  <2>1. Occupying' = Occupying \ {c}
    BY <1>3, SMT DEF ReleasePermit, Occupying, Occupies
  <2>2. CapacityKept'
    BY <1>2, <1>3, <2>1, SMT DEF ReleasePermit, CapacityKept
  <2>3. TypeOK'
    BY <1>2, <1>3, SMT DEF ReleasePermit
  <2> QED
    BY <1>3, <2>2, <2>3, SMT DEF ReleasePermit
<1>4. CASE waiters # <<>>
  <2> DEFINE h == Head(waiters)
  <2>1. h \in Callbacks /\ h = waiters[1] /\ 1 \in DOMAIN waiters
    BY <1>4, SMT
  <2>2. top[h] = "waiting" /\ nested[h] = "none" /\ h # c
    BY <2>1
  <2>3. top' = [[top EXCEPT ![c] = to] EXCEPT ![h] = "granted"]
        /\ waiters' = Tail(waiters) /\ available' = available
    BY <1>4 DEF ReleasePermit
  <2>4. h \notin Occupying
    BY <2>2 DEF Occupying, Occupies
  <2>5. Occupying' = (Occupying \ {c}) \cup {h}
    BY <2>1, <2>2, <2>3, SMT DEF Occupying, Occupies
  <2>6. CapacityKept'
    <3> DEFINE rest == Occupying \ {c}
    <3>1. rest \in SUBSET Callbacks /\ h \in Callbacks \ rest
      BY <1>1, <2>1, <2>4
    <3>2. Cardinality(rest \cup {h}) = Cardinality(rest) + 1
      <4> HIDE DEF rest, h
      <4> QED
        BY <3>1, CallbackSets
    <3>3. Cardinality(Occupying') = Cardinality(Occupying)
      BY <1>2, <2>5, <3>2, SMT
    <3> QED
      BY <1>2, <2>3, <3>3 DEF CapacityKept
  <2>7. TypeOK'
    BY <1>4, <2>1, <2>3, SMT
  <2>8. Len(Tail(waiters)) = Len(waiters) - 1
        /\ \A i \in DOMAIN Tail(waiters) :
             Tail(waiters)[i] = waiters[i + 1] /\ i + 1 \in DOMAIN waiters
    BY <1>4, SMT
  <2>9. \A i \in DOMAIN waiters' : top'[waiters'[i]] = "waiting"
    <3> SUFFICES ASSUME NEW i \in DOMAIN Tail(waiters)
                 PROVE  top'[Tail(waiters)[i]] = "waiting"
      BY <2>3
    <3>1. i \in Nat /\ i >= 1 /\ i + 1 \in DOMAIN waiters
          /\ Tail(waiters)[i] = waiters[i + 1]
      BY <1>4, <2>8, SMT
    <3>2. waiters[i + 1] # h
      BY <2>1, <3>1, SMT
    <3>3. waiters[i + 1] # c /\ top[waiters[i + 1]] = "waiting"
          /\ waiters[i + 1] \in Callbacks
      BY <3>1, SMT
    <3> QED
      BY <2>3, <3>1, <3>2, <3>3
  <2>10. \A i, j \in DOMAIN waiters' : waiters'[i] = waiters'[j] => i = j
    BY <1>4, <2>3, <2>8, SMT
  <2>11. \A d \in Callbacks :
           /\ top'[d] \in {"idle", "waiting", "granted", "nesting", "cancelled"}
                => nested'[d] = "none"
           /\ top'[d] = "awaiting" => nested'[d] = "running"
    BY <2>1, <2>2, <2>3, SMT
  <2> QED
    BY <2>6, <2>7, <2>9, <2>10, <2>11
<1> QED
  BY <1>3, <1>4

(* A step that neither takes nor returns a permit keeps the capacity. *)
LEMMA SameCapacity ==
  ASSUME CapacityKept, UNCHANGED available, Occupying' = Occupying
  PROVE  CapacityKept'
  BY DEF CapacityKept

(* Every step of every callback keeps it. *)
LEMMA PermitStep == PermitInv /\ [Next]_vars => PermitInv'
<1> SUFFICES ASSUME PermitInv, [Next]_vars PROVE PermitInv'
  OBVIOUS
<1> USE WritePermitsAssumption DEF PermitInv, TypeOK
<1>1. ASSUME NEW c \in Callbacks, Request(c) PROVE PermitInv'
  <2>1. CASE available > 0
    <3>1. Occupying' = Occupying \cup {c} /\ c \notin Occupying
          /\ Occupying \in SUBSET Callbacks
      BY <1>1, <2>1, SMT DEF Request, Occupying, Occupies
    <3>2. Cardinality(Occupying') = Cardinality(Occupying) + 1
          /\ Cardinality(Occupying) \in Nat
      BY <3>1, CallbackSets
    <3>3. CapacityKept'
      BY <1>1, <2>1, <3>2, SMT DEF Request, CapacityKept
    <3> QED
      BY <1>1, <2>1, <3>3, SMT DEF Request
  <2>2. CASE ~(available > 0)
    <3>1. Occupying' = Occupying
      BY <1>1, <2>2 DEF Request, Occupying, Occupies
    <3>2. CapacityKept'
      BY <1>1, <2>2, <3>1, SameCapacity DEF Request
    <3> QED
      BY <1>1, <2>2, <3>2, SMTT(30) DEF Request
  <2> QED
    BY <2>1, <2>2
<1>2. ASSUME NEW c \in Callbacks, CancelWaiting(c) PROVE PermitInv'
  <2>1. PICK i \in DOMAIN waiters :
          waiters[i] = c /\ waiters' = WithoutAt(waiters, i)
    BY <1>2 DEF CancelWaiting
  <2>2. Occupying' = Occupying
    BY <1>2 DEF CancelWaiting, Occupying, Occupies
  <2>3. CapacityKept'
    BY <1>2, <2>2, SameCapacity DEF CancelWaiting
  <2>4. /\ waiters' \in Seq(Callbacks)
        /\ DOMAIN waiters' = 1..Len(waiters) - 1
        /\ \A j \in DOMAIN waiters' :
             waiters'[j] = IF j < i THEN waiters[j] ELSE waiters[j + 1]
    BY <2>1, SMT DEF WithoutAt
  <2> DEFINE from(j) == IF j < i THEN j ELSE j + 1
  <2>5. i \in 1..Len(waiters) /\ DOMAIN waiters = 1..Len(waiters) /\ Len(waiters) \in Nat
    BY SMT
  <2>6. \A j \in DOMAIN waiters' :
          /\ from(j) \in DOMAIN waiters /\ from(j) # i
          /\ waiters'[j] = waiters[from(j)]
    BY <2>4, <2>5, SMT
  <2>7. \A j, k \in DOMAIN waiters' : from(j) = from(k) => j = k
    BY <2>4, <2>5, SMT
  <2> HIDE DEF from
  <2>8. \A j \in DOMAIN waiters' : top'[waiters'[j]] = "waiting"
    <3> SUFFICES ASSUME NEW j \in DOMAIN waiters' PROVE top'[waiters'[j]] = "waiting"
      OBVIOUS
    <3>1. waiters[from(j)] # c /\ top[waiters[from(j)]] = "waiting"
          /\ waiters[from(j)] \in Callbacks
      BY <2>1, <2>5, <2>6, SMT
    <3> QED
      BY <1>2, <2>6, <3>1 DEF CancelWaiting
  <2>9. \A j, k \in DOMAIN waiters' : waiters'[j] = waiters'[k] => j = k
    BY <2>6, <2>7, SMT
  <2>10. \A d \in Callbacks :
           /\ top'[d] \in {"idle", "waiting", "granted", "nesting", "cancelled"}
                => nested'[d] = "none"
           /\ top'[d] = "awaiting" => nested'[d] = "running"
    BY <1>2 DEF CancelWaiting
  <2> QED
    BY <1>2, <2>3, <2>4, <2>8, <2>9, <2>10 DEF CancelWaiting
<1>3. ASSUME NEW c \in Callbacks, CancelGranted(c) PROVE PermitInv'
  BY <1>3, ReleaseKeeps DEF CancelGranted, Occupies
<1>4. ASSUME NEW c \in Callbacks, Nest(c) PROVE PermitInv'
  <2>1. Occupying' = Occupying
    BY <1>4 DEF Nest, Occupying, Occupies
  <2> QED
    BY <1>4, <2>1, SameCapacity, SMT DEF Nest
<1>5. ASSUME NEW c \in Callbacks, Detach(c) PROVE PermitInv'
  <2>1. Occupying' = Occupying
    BY <1>5 DEF Detach, Occupying, Occupies
  <2> QED
    BY <1>5, <2>1, SameCapacity, SMT DEF Detach
<1>6. ASSUME NEW c \in Callbacks, Start(c) PROVE PermitInv'
  <2>1. Occupying' = Occupying
    BY <1>6 DEF Start, Occupying, Occupies
  <2> QED
    BY <1>6, <2>1, SameCapacity, SMT DEF Start
<1>7. ASSUME NEW c \in Callbacks, StartNested(c) PROVE PermitInv'
  <2>1. Occupying' = Occupying
    BY <1>7 DEF StartNested, Occupying, Occupies
  <2> QED
    BY <1>7, <2>1, SameCapacity, SMT DEF StartNested
<1>8. ASSUME NEW c \in Callbacks, NestedEnds(c) PROVE PermitInv'
  <2>1. CASE top[c] = "ended"
    <3>1. [top EXCEPT ![c] = "ended"] = top
      BY <2>1
    <3> QED
      BY <1>8, <2>1, <3>1, ReleaseKeeps, ZenonT(60) DEF NestedEnds, Occupies
  <2>2. CASE top[c] # "ended"
    <3>1. Occupying' = Occupying
      BY <1>8, <2>2 DEF NestedEnds, Occupying, Occupies
    <3> QED
      BY <1>8, <2>2, <3>1, SameCapacity, SMT DEF NestedEnds
  <2> QED
    BY <2>1, <2>2
<1>9. ASSUME NEW c \in Callbacks, Ends(c) PROVE PermitInv'
  <2>1. CASE nested[c] # "running"
    BY <1>9, <2>1, ReleaseKeeps DEF Ends, Occupies
  <2>2. CASE nested[c] = "running"
    <3>1. Occupying' = Occupying
      BY <1>9, <2>2 DEF Ends, Occupying, Occupies
    <3> QED
      BY <1>9, <2>2, <3>1, SameCapacity, SMT DEF Ends
  <2> QED
    BY <2>1, <2>2
<1>10. CASE UNCHANGED vars
  <2>1. Occupying' = Occupying
    BY <1>10 DEF vars, Occupying, Occupies
  <2> QED
    BY <1>10, <2>1, SameCapacity DEF vars
<1> QED
  BY <1>1, <1>2, <1>3, <1>4, <1>5, <1>6, <1>7, <1>8, <1>9, <1>10 DEF Next, Proceeds

(* Permits are neither lost nor returned twice, for any limit and any       *)
(* number of callbacks, whoever is cancelled, detached or panics.           *)
THEOREM CapacityAlwaysKept == Spec => []CapacityKept
<1>1. PermitInv => CapacityKept
  BY DEF PermitInv
<1> QED
  BY <1>1, PermitInit, PermitStep, PTL DEF Spec

-----------------------------------------------------------------------------
(* What the queue sees of a step. *)
LEMMA StepOfQueue == [WorkersNext]_workerVars => [QueueNext]_queueVars
<1> SUFFICES ASSUME [WorkersNext]_workerVars PROVE [QueueNext]_queueVars
  OBVIOUS
<1>1. CASE Tick
  BY <1>1 DEF QueueNext
<1>2. ASSUME NEW c \in Callbacks, Enqueue(c) \/ Dequeue(c) PROVE QueueNext
  BY <1>2, WriteWorkersAssumption DEF Enqueue, Dequeue, QueueNext
<1>3. ASSUME NEW c \in Callbacks, Acquire(c) \/ Cancel(c) \/ Run(c) \/ Works(c)
      PROVE  UNCHANGED queueVars
  BY <1>3 DEF Acquire, Cancel, Run, Works
<1>4. CASE UNCHANGED workerVars
  BY <1>4 DEF workerVars
<1> QED
  BY <1>1, <1>2, <1>3, <1>4 DEF WorkersNext

(* What the permits see of a step. *)
LEMMA StepOfPermits == [WorkersNext]_workerVars => [Next]_vars
<1> SUFFICES ASSUME [WorkersNext]_workerVars PROVE [Next]_vars
  OBVIOUS
<1>1. ASSUME NEW c \in Callbacks, Acquire(c) \/ Cancel(c) \/ Run(c) \/ Works(c)
      PROVE  Next
  BY <1>1 DEF Acquire, Cancel, Run, Works, Next, Proceeds
<1>2. ASSUME NEW c \in Callbacks, Enqueue(c) \/ Dequeue(c) PROVE UNCHANGED vars
  BY <1>2 DEF Enqueue, Dequeue
<1>3. CASE Tick /\ UNCHANGED vars
  BY <1>3
<1>4. CASE UNCHANGED workerVars
  BY <1>4 DEF workerVars
<1> QED
  BY <1>1, <1>2, <1>3, <1>4 DEF WorkersNext

(* spawn_blocking and admit_write use the queue as it expects to be used, so *)
(* the busy period is conservative and published there too.                  *)
THEOREM WorkersBusyPeriod == WorkersSpec => [](Conservative /\ Published)
<1>1. WorkersInit => QueueInit
  BY DEF WorkersInit
<1> QED
  BY <1>1, StepOfQueue, BusyPeriodConservative, BusyPeriodPublished, PTL
     DEF WorkersSpec, QueueSpec

(* ... and the permits too: capacity is neither lost nor exceeded.           *)
THEOREM WorkersCapacity == WorkersSpec => []CapacityKept
<1>1. WorkersInit => Init
  BY DEF WorkersInit
<1> QED
  BY <1>1, StepOfPermits, CapacityAlwaysKept, PTL DEF WorkersSpec, Spec

(* Who waits at the semaphore has entered the queue and not begun to leave. *)
WaitersQueued == \A c \in Callbacks : top[c] = "waiting" => pc[c] = "queued"

(* Only a request makes a callback wait. *)
LEMMA OnlyRequestWaits ==
  ASSUME TypeOK, NEW c \in Callbacks,
         \/ CancelWaiting(c) \/ CancelGranted(c) \/ Start(c)
         \/ Nest(c) \/ Detach(c) \/ StartNested(c) \/ NestedEnds(c) \/ Ends(c)
  PROVE  \A d \in Callbacks : top'[d] = "waiting" => top[d] = "waiting"
<1> USE DEF TypeOK
<1>1. CASE CancelWaiting(c) \/ Start(c) \/ Nest(c) \/ Detach(c) \/ StartNested(c)
  BY <1>1 DEF CancelWaiting, Start, Nest, Detach, StartNested
<1>2. CASE CancelGranted(c)
  BY <1>2 DEF CancelGranted, ReleasePermit
<1>3. CASE NestedEnds(c)
  BY <1>3 DEF NestedEnds, ReleasePermit
<1>4. CASE Ends(c)
  BY <1>4 DEF Ends, ReleasePermit
<1> QED
  BY <1>1, <1>2, <1>3, <1>4

(* No step lets a waiting callback out of the queue. *)
LEMMA WaitersStep ==
  TypeOK /\ QueueTypeOK /\ WaitersQueued /\ [WorkersNext]_workerVars => WaitersQueued'
<1> SUFFICES ASSUME TypeOK, QueueTypeOK, WaitersQueued, [WorkersNext]_workerVars
             PROVE  WaitersQueued'
  OBVIOUS
<1> USE WriteWorkersAssumption
<1>1. CASE Tick /\ UNCHANGED vars
  BY <1>1 DEF Tick, vars, WaitersQueued
<1>2. ASSUME NEW c \in Callbacks, Enqueue(c) PROVE WaitersQueued'
  <2>1. pc' = [pc EXCEPT ![c] = pc'[c]] /\ pc[c] # "queued" /\ top' = top
    BY <1>2 DEF Enqueue, ReadClock, Join, Publish, Go, vars, QueueTypeOK
  <2> QED
    BY <2>1 DEF WaitersQueued, QueueTypeOK
<1>3. ASSUME NEW c \in Callbacks, Acquire(c) PROVE WaitersQueued'
  BY <1>3 DEF Acquire, Request, TypeOK, queueVars, WaitersQueued
<1>4. ASSUME NEW c \in Callbacks, Cancel(c) \/ Run(c) \/ Works(c) PROVE WaitersQueued'
  <2>1. \A d \in Callbacks : top'[d] = "waiting" => top[d] = "waiting"
    BY <1>4, OnlyRequestWaits DEF Cancel, Run, Works
  <2>2. pc' = pc
    BY <1>4 DEF Cancel, Run, Works, queueVars
  <2> QED
    BY <2>1, <2>2 DEF WaitersQueued
<1>5. ASSUME NEW c \in Callbacks, Dequeue(c) PROVE WaitersQueued'
  <2>1. pc' = [pc EXCEPT ![c] = pc'[c]] /\ top[c] # "waiting" /\ top' = top
    BY <1>5 DEF Dequeue, Leave, Clear, Recheck, Restore, Gone, Go, vars, QueueTypeOK
  <2> QED
    BY <2>1 DEF WaitersQueued, QueueTypeOK
<1>6. CASE UNCHANGED workerVars
  BY <1>6 DEF workerVars, queueVars, vars, WaitersQueued
<1> QED
  BY <1>1, <1>2, <1>3, <1>4, <1>5, <1>6 DEF WorkersNext

(* A callback without capacity never looks idle to busy_age: it is counted   *)
(* from before it asks for a permit until it has one or is gone.             *)
THEOREM WaitingAlwaysCounted == WorkersSpec => []WaitingIsCounted
<1>1. WorkersInit => QueueInit /\ Init /\ WaitersQueued
  BY DEF WorkersInit, Init, WaitersQueued
<1>2. BusyInv => QueueTypeOK
  BY DEF BusyInv
<1>3. PermitInv => TypeOK
  BY DEF PermitInv
<1>4. BusyInv /\ WaitersQueued => WaitingIsCounted
  BY WriteWorkersAssumption DEF BusyInv, WaitersQueued, WaitingIsCounted, Counted
<1> QED
  BY <1>1, <1>2, <1>3, <1>4, StepOfQueue, StepOfPermits, BusyInit, BusyStep,
     PermitInit, PermitStep, WaitersStep, PTL DEF WorkersSpec

(* The counter never passes the number of callbacks, nor the permits the    *)
(* limit, while the busy period and the semaphore are used together.        *)
THEOREM WorkersWellTyped == WorkersSpec => []WorkersTypeOK
<1>1. WorkersInit => QueueInit /\ Init
  BY DEF WorkersInit
<1>2. BusyInv /\ PermitInv => WorkersTypeOK
  BY DEF BusyInv, PermitInv, WorkersTypeOK
<1> QED
  BY <1>1, <1>2, StepOfQueue, StepOfPermits, BusyInit, BusyStep,
     PermitInit, PermitStep, PTL DEF WorkersSpec
=============================================================================
