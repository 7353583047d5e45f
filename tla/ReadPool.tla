------------------------------ MODULE ReadPool ------------------------------
(***************************************************************************)
(* smallclaims' read connections (crates/smallclaims/src/sqlite.rs:         *)
(* ReadPool, and Store::read_snapshot in store.rs).  A thread's outermost   *)
(* request waits in FIFO order for one of a pool's permits; a request       *)
(* nested in another pool's loan or snapshot never waits.  Raw reads and    *)
(* snapshots take no permit: they take an idle connection, open one, or, if *)
(* that fails, sleep until one is returned.                                 *)
(*                                                                          *)
(* A nested scope for a pool the thread already reads shares its connection *)
(* and changes nothing here, so it is left out.                             *)
(***************************************************************************)
EXTENDS Naturals, Sequences, FiniteSets

CONSTANTS
  Pools,
  Threads,
  Limit,     \* max_read_workers(), for every pool
  MaxIdle,   \* max_idle_read_connections()
  Kinds,     \* the kinds of read each thread makes
  MaxDepth,  \* bound on the reads a thread nests
  None

ASSUME ReadPoolAssumption ==
  /\ IsFiniteSet(Threads)
  /\ Limit \in Nat \ {0} /\ MaxIdle \in Nat /\ MaxDepth \in Nat
  /\ Kinds \in [Threads -> SUBSET {"request", "snapshot", "raw"}]
  /\ None \notin Pools

VARIABLES
  idle,     \* ReadPool.idle: how many connections it keeps
  open,     \* ReaderCounts.open: how many connections exist
  permits,  \* permits left in ReadPool.admission
  waiters,  \* that semaphore's queue
  loans,    \* the reads each thread has open, innermost last
  pc,       \* where each thread is
  pool,     \* the pool it is acquiring from or returning to
  kind,     \* the read it is opening or closing
  permit,   \* does that read carry a permit?
  outside   \* ghost: the most reads a pool has had at once without a permit

poolVars == <<idle, open, permits, waiters>>
opVars == <<pool, kind, permit>>
vars == <<poolVars, loans, pc, opVars, outside>>

Kind == {"request", "snapshot", "raw"}
Loan == [pool : Pools, kind : Kind, permit : {"none", "held"}]

TypeOK ==
  /\ idle \in [Pools -> 0..MaxIdle]
  /\ open \in [Pools -> Nat]
  /\ permits \in [Pools -> 0..Limit]
  /\ waiters \in [Pools -> Seq(Threads)]
  /\ loans \in [Threads -> Seq(Loan)]
  /\ pc \in [Threads -> {"run", "queued", "get", "open", "lock", "asleep",
                         "woken", "insert", "repay"}]
  /\ pool \in [Threads -> Pools \cup {None}]
  /\ kind \in [Threads -> Kind \cup {None}]
  /\ permit \in [Threads -> {"none", "held"}]
  /\ outside \in [Pools -> Nat]

(* ReadPool::new opens one connection and releases it.                      *)
Init ==
  /\ idle = [p \in Pools |-> IF MaxIdle > 0 THEN 1 ELSE 0]
  /\ open = idle
  /\ permits = [p \in Pools |-> Limit]
  /\ waiters = [p \in Pools |-> <<>>]
  /\ loans = [t \in Threads |-> <<>>]
  /\ pc = [t \in Threads |-> "run"]
  /\ pool = [t \in Threads |-> None]
  /\ kind = [t \in Threads |-> None]
  /\ permit = [t \in Threads |-> "none"]
  /\ outside = [p \in Pools |-> 0]

Go(t, to) == pc' = [pc EXCEPT ![t] = to]
WithoutAt(s, i) == [j \in 1..Len(s) - 1 |-> IF j < i THEN s[j] ELSE s[j + 1]]
Elements(s) == {s[i] : i \in DOMAIN s}

(* request_reader_for and pinned_reader_for; thread_holds_reader.           *)
Shared(t, p) == \E l \in Elements(loans[t]) : l.pool = p /\ l.kind # "raw"
HoldsReader(t) == \E l \in Elements(loans[t]) : l.kind # "raw"

Begin(t, p, k) ==
  /\ pc[t] = "run" /\ Len(loans[t]) < MaxDepth /\ ~Shared(t, p) /\ k \in Kinds[t]
  /\ pool' = [pool EXCEPT ![t] = p]
  /\ kind' = [kind EXCEPT ![t] = k]

(* The thread neither acquires nor returns a connection.                    *)
AtRest(t) == pool' = [pool EXCEPT ![t] = None] /\ kind' = [kind EXCEPT ![t] = None]

(* Where a thread's connections and permits are: place 0 is the read it     *)
(* opens or closes, place i its i-th open read.                             *)
Places == Threads \X (0..MaxDepth)

(* The reads of p that hold or acquire a connection without a permit.       *)
OutsideAt(t, i, p) ==
  \/ /\ i = 0 /\ pool[t] = p /\ permit[t] = "none"
     /\ pc[t] \in {"get", "open", "lock", "asleep", "woken", "insert"}
  \/ i \in DOMAIN loans[t] /\ loans[t][i].pool = p /\ loans[t][i].permit = "none"
Unadmitted(p) == {x \in Places : OutsideAt(x[1], x[2], p)}

OneMoreOutside(p) ==
  outside' = [outside EXCEPT ![p] =
    IF Cardinality(Unadmitted(p)) < @ THEN @ ELSE Cardinality(Unadmitted(p)) + 1]

-----------------------------------------------------------------------------
(* Admission.                                                              *)

(* tokio's Semaphore (external): a permit goes to the oldest waiter, whose  *)
(* thread moves on, or back to the pool.                         *)
Repaid(p, moved, held) ==
  IF waiters[p] = <<>>
    THEN /\ permits' = [permits EXCEPT ![p] = @ + 1]
         /\ pc' = moved /\ permit' = held
         /\ UNCHANGED waiters
    ELSE /\ waiters' = [waiters EXCEPT ![p] = Tail(@)]
         /\ pc' = [moved EXCEPT ![Head(waiters[p])] = "get"]
         /\ permit' = [held EXCEPT ![Head(waiters[p])] = "held"]
         /\ UNCHANGED permits

(* request_read, or admit_read before request_read_with_permit.             *)
Admit(t, p) ==
  /\ Begin(t, p, "request") /\ permits[p] > 0
  /\ permits' = [permits EXCEPT ![p] = @ - 1]
  /\ permit' = [permit EXCEPT ![t] = "held"]
  /\ Go(t, "get")
  /\ UNCHANGED <<idle, open, waiters, loans>>

Queue(t, p) ==
  /\ Begin(t, p, "request") /\ permits[p] = 0 /\ ~HoldsReader(t)
  /\ waiters' = [waiters EXCEPT ![p] = Append(@, t)]
  /\ Go(t, "queued")
  /\ UNCHANGED <<idle, open, permits, loans, permit>>

(* Mutant: a nested request waits for admission like an outermost one.      *)
AdmitNestedWaits(t, p) ==
  /\ Begin(t, p, "request") /\ permits[p] = 0 /\ HoldsReader(t)
  /\ waiters' = [waiters EXCEPT ![p] = Append(@, t)]
  /\ Go(t, "queued")
  /\ UNCHANGED <<idle, open, permits, loans, permit, outside>>

(* A nested request that finds no permit borrows outside the bound.         *)
AdmitNested(t, p) ==
  /\ Begin(t, p, "request") /\ permits[p] = 0 /\ HoldsReader(t)
  /\ OneMoreOutside(p)
  /\ Go(t, "get")
  /\ UNCHANGED <<poolVars, loans, permit>>

(* The budget is cancelled or its deadline passes while the request waits.  *)
CancelQueued(t) ==
  /\ pc[t] = "queued"
  /\ \E i \in DOMAIN waiters[pool[t]] :
       /\ waiters[pool[t]][i] = t
       /\ waiters' = [waiters EXCEPT ![pool[t]] = WithoutAt(@, i)]
  /\ Go(t, "run") /\ AtRest(t)
  /\ UNCHANGED <<idle, open, permits, loans, permit, outside>>

-----------------------------------------------------------------------------
(* try_get, for a request, and get, for a raw read or read_snapshot.       *)

Get(t, p, k) ==
  /\ k # "request" /\ Begin(t, p, k)
  /\ OneMoreOutside(p)
  /\ Go(t, "get")
  /\ UNCHANGED <<poolVars, loans, permit>>

(* The read holds its connection, and with it the permit.                   *)
Lent(t) ==
  /\ loans' = [loans EXCEPT ![t] = Append(@,
       [pool |-> pool[t], kind |-> kind[t], permit |-> permit[t]])]
  /\ permit' = [permit EXCEPT ![t] = "none"]
  /\ Go(t, "run") /\ AtRest(t)
  /\ UNCHANGED <<permits, waiters>>

(* The budget expires once the connection is there: the guard of try_get    *)
(* returns it, and then the error returns the permit.                       *)
Expired(t) ==
  /\ kind[t] = "request"
  /\ Go(t, "insert")
  /\ UNCHANGED <<permits, waiters, loans, opVars>>

(* Under the idle lock: at first, and in get's loop around the condvar.     *)
GetIdle(t) ==
  /\ pc[t] \in {"get", "lock", "woken"} /\ idle[pool[t]] > 0
  /\ idle' = [idle EXCEPT ![pool[t]] = @ - 1]
  /\ UNCHANGED open
  /\ Lent(t) \/ Expired(t)

GetNone(t) ==
  /\ pc[t] = "get" /\ idle[pool[t]] = 0
  /\ Go(t, "open")
  /\ UNCHANGED <<poolVars, loans, opVars>>

GetOpens(t) ==
  /\ pc[t] = "open"
  /\ open' = [open EXCEPT ![pool[t]] = @ + 1]
  /\ UNCHANGED idle
  /\ Lent(t) \/ Expired(t)

(* Mutant: a request that fails forgets its permit.                         *)
RequestFailsForgets(t) ==
  /\ pc[t] \in {"get", "open"} /\ kind[t] = "request"
  /\ Go(t, "run") /\ AtRest(t)
  /\ permit' = [permit EXCEPT ![t] = "none"]
  /\ UNCHANGED <<poolVars, loans>>

(* A request whose budget has expired, or that cannot open a connection,    *)
(* ends with an error, which returns the permit.                            *)
RequestFails(t) ==
  /\ pc[t] \in {"get", "open"} /\ kind[t] = "request"
  /\ Go(t, "repay")
  /\ UNCHANGED <<poolVars, loans, opVars>>

(* Mutant: after a failed open it sleeps without looking again.             *)
OpenFailsSleeps(t) ==
  /\ pc[t] = "open" /\ kind[t] # "request"
  /\ Go(t, "asleep")
  /\ UNCHANGED <<poolVars, loans, opVars>>

(* The operating system refuses get another connection ...                  *)
OpenFails(t) ==
  /\ pc[t] = "open" /\ kind[t] # "request"
  /\ Go(t, "lock")
  /\ UNCHANGED <<poolVars, loans, opVars>>

(* ... and it sleeps on the condvar while none is idle.                     *)
Sleep(t) ==
  /\ pc[t] \in {"lock", "woken"} /\ idle[pool[t]] = 0
  /\ Go(t, "asleep")
  /\ UNCHANGED <<poolVars, loans, opVars>>

-----------------------------------------------------------------------------
(* The end of a read: Drop for Loan, PinnedRead and ReadGuard, and release.*)

(* Mutant: the permit is returned before the connection.                    *)
ReturnRepaysFirst(t) ==
  LET l == loans[t][Len(loans[t])] IN
  /\ pc[t] = "run" /\ loans[t] # <<>>
  /\ pool' = [pool EXCEPT ![t] = l.pool]
  /\ kind' = [kind EXCEPT ![t] = l.kind]
  /\ loans' = [loans EXCEPT ![t] = SubSeq(@, 1, Len(@) - 1)]
  /\ IF l.permit = "held"
       THEN Repaid(l.pool, [pc EXCEPT ![t] = "insert"], permit)
       ELSE Go(t, "insert") /\ UNCHANGED <<permits, waiters, permit>>
  /\ UNCHANGED <<idle, open, outside>>

Return(t) ==
  LET l == loans[t][Len(loans[t])] IN
  /\ pc[t] = "run" /\ loans[t] # <<>>
  /\ pool' = [pool EXCEPT ![t] = l.pool]
  /\ kind' = [kind EXCEPT ![t] = l.kind]
  /\ permit' = [permit EXCEPT ![t] = l.permit]
  /\ loans' = [loans EXCEPT ![t] = SubSeq(@, 1, Len(@) - 1)]
  /\ Go(t, "insert")
  /\ UNCHANGED <<poolVars, outside>>

Asleep(p) == {t \in Threads : pc[t] = "asleep" /\ pool[t] = p}

(* Mutant: every connection is kept.                                        *)
InsertAlways(t) ==
  /\ pc[t] = "insert"
  /\ idle' = [idle EXCEPT ![pool[t]] = @ + 1]
  /\ \/ Asleep(pool[t]) = {} /\ Go(t, "repay")
     \/ \E u \in Asleep(pool[t]) : pc' = [pc EXCEPT ![t] = "repay", ![u] = "woken"]
  /\ UNCHANGED <<open, permits, waiters, loans, opVars>>

(* release: keep the connection and wake one sleeper, holding the permit    *)
(* until that is done ...                                                   *)
Insert(t) ==
  /\ pc[t] = "insert" /\ idle[pool[t]] < MaxIdle
  /\ idle' = [idle EXCEPT ![pool[t]] = @ + 1]
  /\ \/ Asleep(pool[t]) = {} /\ Go(t, "repay")
     \/ \E u \in Asleep(pool[t]) : pc' = [pc EXCEPT ![t] = "repay", ![u] = "woken"]
  /\ UNCHANGED <<open, permits, waiters, loans, opVars>>

(* ... or close it: there are enough, or its clean-up failed.  Nobody is    *)
(* woken.                                                                   *)
CloseConnection(t) ==
  /\ pc[t] = "insert"
  /\ open' = [open EXCEPT ![pool[t]] = @ - 1]
  /\ Go(t, "repay")
  /\ UNCHANGED <<idle, permits, waiters, loans, opVars>>

Repay(t) ==
  /\ pc[t] = "repay"
  /\ IF permit[t] = "held"
       THEN Repaid(pool[t], [pc EXCEPT ![t] = "run"], [permit EXCEPT ![t] = "none"])
       ELSE Go(t, "run") /\ UNCHANGED <<permits, waiters, permit>>
  /\ AtRest(t)
  /\ UNCHANGED <<idle, open, loans>>

-----------------------------------------------------------------------------
Admits(t) == (\E p \in Pools : Admit(t, p) \/ Queue(t, p)) /\ UNCHANGED outside

Borrows(t) == \E p \in Pools : AdmitNested(t, p) \/ \E k \in Kinds[t] : Get(t, p, k)

Gets(t) ==
  /\ \/ GetIdle(t) \/ GetNone(t) \/ GetOpens(t)
     \/ RequestFails(t) \/ OpenFails(t) \/ Sleep(t)
  /\ UNCHANGED outside

Releases(t) == (Insert(t) \/ CloseConnection(t) \/ Repay(t)) /\ UNCHANGED outside

Next ==
  \E t \in Threads :
    Admits(t) \/ Borrows(t) \/ CancelQueued(t) \/ Gets(t) \/ Return(t) \/ Releases(t)

Spec == Init /\ [][Next]_vars

(* Threads run, and a read ends, however many others its thread nests in it *)
(* first.                                                                   *)
FairSpec ==
  /\ Spec
  /\ \A t \in Threads :
       /\ WF_vars(Gets(t)) /\ WF_vars(Releases(t))
       /\ SF_vars(Return(t))
       /\ SF_vars(Return(t) /\ Len(loans[t]) = 1)

-----------------------------------------------------------------------------
(* Properties.                                                             *)

(* A pool never holds more connections than it has permits, beyond the most   *)
(* reads it ever had at once outside admission: release returns the           *)
(* connection before the permit, so whoever is admitted next finds it idle    *)
(* instead of opening another.                                                *)
OpenBound == \A p \in Pools : open[p] <= Limit + outside[p]

TokenAt(t, i, p) ==
  \/ i = 0 /\ pool[t] = p /\ permit[t] = "held"
  \/ i \in DOMAIN loans[t] /\ loans[t][i].pool = p /\ loans[t][i].permit = "held"
Tokens(p) == {x \in Places : TokenAt(x[1], x[2], p)}

(* No permit is lost or returned twice when a request is cancelled while it   *)
(* waits, expires after admission, or ends with its connection closed.        *)
PermitsConserved ==
  \A p \in Pools : permits[p] + Cardinality(Tokens(p)) = Limit

Woken(p) == {t \in Threads : pc[t] = "woken" /\ pool[t] = p}

(* No return is missed by a read that sleeps for one: if connections are idle *)
(* while it sleeps, as many others have been woken to take them.              *)
ReturnWakes ==
  \A p \in Pools : Asleep(p) # {} => idle[p] <= Cardinality(Woken(p))

(* A queued request is admitted (or cancelled), unless a read that was        *)
(* refused a connection sleeps: requests nested across pools form no cycle of *)
(* threads that wait for each other's permits.                                *)
EveryRequestAdmitted ==
  \A t \in Threads :
    pc[t] = "queued" ~> pc[t] # "queued" \/ \E u \in Threads : pc[u] = "asleep"
=============================================================================
