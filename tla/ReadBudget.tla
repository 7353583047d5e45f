----------------------------- MODULE ReadBudget -----------------------------
(***************************************************************************)
(* Cancellation of waits for a read permit                                 *)
(* (crates/smallclaims/src/read_budget.rs, and admit_read and              *)
(* admit_read_sync of sqlite.rs).  Budgets form a tree; a waiter           *)
(* subscribes to its budget and to every ancestor, one lock at a time, and *)
(* whoever cancels takes the list and wakes each waiter in it.             *)
(*                                                                         *)
(* `expired` reads one budget after the other, and a waiter polls, parks   *)
(* and is woken in steps of its own.  Sequential consistency is enough: the*)
(* flag is stored before, and read after, the locks of list and waker.     *)
(* tokio's fair semaphore is external.  Left out: child_work, whose clock  *)
(* is another deadline, and the report of the first failed check.          *)
(***************************************************************************)
EXTENDS Naturals, FiniteSets, Sequences

CONSTANTS
  Waiters,      \* threads or tasks that want a permit
  Async,        \* the waiters that run admit_read; the others admit_read_sync
  Cancellers,   \* whoever may cancel a budget, once each
  Budgets,
  Parent,       \* Parent[b]: the budget b is a child of, or None
  Timed,        \* budgets with a deadline
  Of,           \* Of[w]: the budget of waiter w
  Capacity,     \* permits of the pool
  None

ASSUME ReadBudgetAssumption ==
  /\ IsFiniteSet(Waiters) /\ Async \subseteq Waiters
  /\ Cancellers \cap Waiters = {}
  /\ Parent \in [Budgets -> Budgets \cup {None}] /\ None \notin Budgets
  /\ Timed \subseteq Budgets
  /\ Of \in [Waiters -> Budgets]
  /\ Capacity \in Nat

(* A set of budgets with the parents of its members.                        *)
Upward(S) == \A b \in S : Parent[b] \in S \cup {None}

(* The budgets whose cancellation reaches b: the least such set b is in.    *)
Ancestors ==
  [b \in Budgets |-> {c \in Budgets : \A S \in SUBSET Budgets : b \in S /\ Upward(S) => c \in S}]

VARIABLES
  cancelled,    \* budgets whose flag is set
  late,         \* budgets whose deadline has passed
  list,         \* cancellation_waiters of each budget
  pc, at,       \* where a waiter is, and the ancestor it visits there
  waker,        \* is the waiter's waker in its slot?
  token,        \* its park token, or the wake of its task
  permits, queue, granted,  \* the semaphore: free, waiting, assigned and not yet polled
  holds,        \* waiters with a permit
  call          \* of each actor: the cancel it is in, or that is due

semaphore == <<permits, queue, granted>>
vars == <<cancelled, late, list, pc, at, waker, token, semaphore, holds, call>>

Actors == Cancellers \cup Async

(* The checks of the budget, by the place they are made at. *)
Walks == {"check", "tried", "top", "poll", "recheck", "last", "confirm"}

Places == Walks \cup {"idle", "try", "subscribe", "install", "timer", "cancel", "acquire",
                      "parked", "unsubscribe", "leave", "held", "done"}

TypeOK ==
  /\ cancelled \subseteq Budgets /\ late \subseteq Timed
  /\ list \in [Budgets -> SUBSET Waiters]
  /\ pc \in [Waiters -> Places] /\ at \in [Waiters -> Budgets]
  /\ waker \in [Waiters -> BOOLEAN] /\ token \in [Waiters -> BOOLEAN]
  /\ permits \in 0 .. Capacity /\ queue \in Seq(Waiters) /\ granted \subseteq Waiters
  /\ holds \subseteq Waiters
  /\ call \in [Actors -> [budget : Budgets \cup {None}, taken : SUBSET Waiters,
                          stage : {"none", "due", "take", "wake", "end"}]]

Init ==
  /\ cancelled = {} /\ late = {} /\ list = [b \in Budgets |-> {}]
  /\ pc = [w \in Waiters |-> "idle"] /\ at = Of
  /\ waker = [w \in Waiters |-> FALSE] /\ token = [w \in Waiters |-> FALSE]
  /\ permits = Capacity /\ queue = << >> /\ granted = {} /\ holds = {}
  /\ call = [a \in Actors |-> [budget |-> None, taken |-> {}, stage |-> "none"]]

(* Wherever a waiter goes, it starts with its own budget again. *)
Go(w, place) == pc' = [pc EXCEPT ![w] = place] /\ at' = [at EXCEPT ![w] = Of[w]]

Climb(w) == at' = [at EXCEPT ![w] = Parent[@]] /\ UNCHANGED pc

-----------------------------------------------------------------------------
(* The semaphore *)

(* A permit returns, with those left assigned that are not given it.        *)
Release(assigned) ==
  IF queue = << >>
  THEN permits' = permits + 1 /\ granted' = assigned /\ UNCHANGED <<queue, token>>
  ELSE /\ granted' = assigned \cup {Head(queue)} /\ queue' = Tail(queue)
       /\ token' = [token EXCEPT ![Head(queue)] = TRUE]
       /\ UNCHANGED permits

Take(w) == permits > 0 /\ permits' = permits - 1 /\ holds' = holds \cup {w}

-----------------------------------------------------------------------------
(* cancel: the flag, the list, then one waiter after the other *)

Store(a, b) ==
  /\ cancelled' = cancelled \cup {b}
  /\ call' = [call EXCEPT ![a] = [budget |-> b, taken |-> {}, stage |-> "take"]]

Cancel(a, b) ==
  /\ a \in Cancellers /\ call[a].stage = "none" /\ Store(a, b)
  /\ UNCHANGED <<late, list, pc, at, waker, token, semaphore, holds>>

Left(waiters) == IF waiters = {} THEN "end" ELSE "wake"

TakeList(a) ==
  LET b == call[a].budget IN
  /\ call[a].stage = "take"
  /\ call' = [call EXCEPT ![a].taken = list[b], ![a].stage = Left(list[b])]
  /\ list' = [list EXCEPT ![b] = {}]
  /\ UNCHANGED <<cancelled, late, pc, at, waker, token, semaphore, holds>>

WakeOne(a) ==
  /\ call[a].stage = "wake"
  /\ \E w \in call[a].taken :
       /\ call' = [call EXCEPT ![a].taken = @ \ {w}, ![a].stage = Left(call[a].taken \ {w})]
       /\ token' = [token EXCEPT ![w] = @ \/ waker[w]]
       /\ waker' = [waker EXCEPT ![w] = FALSE]
  /\ UNCHANGED <<cancelled, late, list, pc, at, semaphore, holds>>

(* A child's deadline is never after its parent's. *)
Expire(b) ==
  /\ b \in Timed \ late /\ \A c \in Timed : Parent[c] = b => c \in late
  /\ late' = late \cup {b}
  /\ UNCHANGED <<cancelled, list, pc, at, waker, token, semaphore, holds, call>>

-----------------------------------------------------------------------------
(* Waiters *)

Start(w) ==
  /\ pc[w] = "idle" /\ Go(w, "check")
  /\ UNCHANGED <<cancelled, late, list, waker, token, semaphore, holds, call>>

(* expired: the flag and the deadline of one budget, then its parent.       *)
Live(w, place) ==
  [check |-> "try", tried |-> "held", top |-> "poll", poll |-> "install",
   recheck |-> IF w \in Async THEN "timer" ELSE "acquire",
   last |-> "parked", confirm |-> "unsubscribe"][place]

(* admit_read_sync ignores what poll returns and checks again.              *)
Dead(w, place) ==
  [check |-> "done", tried |-> "done", top |-> "unsubscribe",
   poll |-> IF w \in Async THEN "unsubscribe" ELSE "acquire",
   recheck |-> IF w \in Async THEN "unsubscribe" ELSE "acquire",
   last |-> "unsubscribe", confirm |-> "unsubscribe"][place]

Expired(b) == b \in cancelled \cup late

Check(w) ==
  /\ pc[w] \in Walks
  /\ \/ /\ Expired(at[w])
        /\ Go(w, Dead(w, pc[w]))
        /\ IF w \in holds THEN holds' = holds \ {w} /\ Release(granted)
                          ELSE UNCHANGED <<holds, semaphore, token>>
     \/ /\ ~ Expired(at[w])
        /\ IF Parent[at[w]] = None THEN Go(w, Live(w, pc[w])) ELSE Climb(w)
        /\ UNCHANGED <<holds, semaphore, token>>
  /\ UNCHANGED <<cancelled, late, list, waker, call>>

TryAdmit(w) ==
  /\ pc[w] = "try"
  /\ \/ Take(w) /\ Go(w, "tried")
     \/ permits = 0 /\ Go(w, "subscribe") /\ UNCHANGED <<permits, holds>>
  /\ UNCHANGED <<cancelled, late, list, waker, token, queue, granted, call>>

Subscribe(w) ==
  /\ pc[w] = "subscribe"
  /\ list' = [list EXCEPT ![at[w]] = @ \cup {w}]
  /\ IF Parent[at[w]] = None THEN Go(w, IF w \in Async THEN "poll" ELSE "top") ELSE Climb(w)
  /\ UNCHANGED <<cancelled, late, waker, token, semaphore, holds, call>>

(* Mutant: the budget is not read again once the waker is installed.        *)
InstallOnly(w) ==
  /\ pc[w] = "install"
  /\ waker' = [waker EXCEPT ![w] = TRUE] /\ Go(w, "acquire")
  /\ UNCHANGED <<cancelled, late, list, token, semaphore, holds, call>>

Install(w) ==
  /\ pc[w] = "install"
  /\ waker' = [waker EXCEPT ![w] = TRUE] /\ Go(w, "recheck")
  /\ UNCHANGED <<cancelled, late, list, token, semaphore, holds, call>>

(* deadline_elapsed: select drops its futures, and the waiter is then to    *)
(* cancel its budget itself.                                                *)
Timer(w) ==
  /\ pc[w] = "timer"
  /\ \/ Of[w] \in late /\ Go(w, "unsubscribe") /\ call' = [call EXCEPT ![w].stage = "due"]
     \/ Of[w] \notin late /\ Go(w, "acquire") /\ UNCHANGED call
  /\ UNCHANGED <<cancelled, late, list, waker, token, semaphore, holds>>

TimerCancels(w) ==
  /\ pc[w] = "cancel" /\ call[w].stage = "due"
  /\ Store(w, Of[w])
  /\ UNCHANGED <<late, list, pc, at, waker, token, semaphore, holds>>

TimerCancelled(w) ==
  /\ pc[w] = "cancel" /\ call[w].stage = "end"
  /\ Go(w, "done")
  /\ UNCHANGED <<cancelled, late, list, waker, token, semaphore, holds, call>>

Queued(w) == \E n \in DOMAIN queue : queue[n] = w

(* A waiter that gives up leaves the semaphore's queue, if it is still there. *)
WithoutAt(s, i) == [j \in 1..Len(s) - 1 |-> IF j < i THEN s[j] ELSE s[j + 1]]

Dequeue(w) ==
  \/ \E n \in DOMAIN queue : queue[n] = w /\ queue' = WithoutAt(queue, n)
  \/ ~ Queued(w) /\ UNCHANGED queue

Acquire(w) ==
  /\ pc[w] = "acquire"
  /\ \/ /\ w \in granted /\ granted' = granted \ {w} /\ holds' = holds \cup {w}
        /\ Go(w, IF w \in Async THEN "unsubscribe" ELSE "confirm")
        /\ UNCHANGED <<permits, queue>>
     \/ /\ w \notin granted /\ Take(w)
        /\ Go(w, IF w \in Async THEN "unsubscribe" ELSE "confirm")
        /\ UNCHANGED <<queue, granted>>
     \/ /\ w \notin granted /\ permits = 0
        /\ queue' = IF Queued(w) THEN queue ELSE Append(queue, w)
        /\ Go(w, IF w \in Async THEN "parked" ELSE "last")
        /\ UNCHANGED <<permits, granted, holds>>
  /\ UNCHANGED <<cancelled, late, list, waker, token, call>>

(* Mutant: the thread parks without a timeout.                              *)
ResumeWoken(w) ==
  /\ pc[w] = "parked" /\ token[w]
  /\ token' = [token EXCEPT ![w] = FALSE]
  /\ Go(w, IF w \in Async THEN "poll" ELSE "top")
  /\ UNCHANGED <<cancelled, late, list, waker, semaphore, holds, call>>

(* Woken, or past the deadline.                                             *)
Resume(w) ==
  /\ pc[w] = "parked" /\ (token[w] \/ Of[w] \in late)
  /\ token' = [token EXCEPT ![w] = FALSE]
  /\ Go(w, IF w \in Async THEN "poll" ELSE "top")
  /\ UNCHANGED <<cancelled, late, list, waker, semaphore, holds, call>>

(* The future of admit_read is dropped by its owner.                        *)
Abandon(w) ==
  /\ w \in Async /\ pc[w] = "parked" /\ Go(w, "unsubscribe")
  /\ UNCHANGED <<cancelled, late, list, waker, token, semaphore, holds, call>>

(* Mutant: the waiter leaves its own budget's list only.                    *)
UnsubscribeOwn(w) ==
  /\ pc[w] = "unsubscribe"
  /\ list' = [list EXCEPT ![at[w]] = @ \ {w}]
  /\ waker' = [waker EXCEPT ![w] = FALSE]
  /\ Go(w, IF w \notin holds THEN "leave" ELSE IF w \in Async THEN "tried" ELSE "held")
  /\ UNCHANGED <<cancelled, late, token, semaphore, holds, call>>

(* Drop for Cancellation.                                                   *)
Unsubscribe(w) ==
  /\ pc[w] = "unsubscribe"
  /\ list' = [list EXCEPT ![at[w]] = @ \ {w}]
  /\ IF Parent[at[w]] # None THEN Climb(w) /\ UNCHANGED waker
     ELSE /\ waker' = [waker EXCEPT ![w] = FALSE]
          /\ Go(w, IF w \notin holds THEN "leave" ELSE IF w \in Async THEN "tried" ELSE "held")
  /\ UNCHANGED <<cancelled, late, token, semaphore, holds, call>>

(* Once all its futures are dropped.                                        *)
Gone(w) == IF w \in Async /\ call[w].stage = "due" THEN "cancel" ELSE "done"

(* Mutant: a permit given meanwhile is forgotten.                           *)
LeaveQueue(w) ==
  /\ pc[w] = "leave" /\ Go(w, Gone(w))
  /\ Dequeue(w) /\ granted' = granted \ {w}
  /\ UNCHANGED <<cancelled, late, list, waker, token, permits, holds, call>>

(* The acquire future is dropped: it leaves the queue, or passes on the     *)
(* permit it was given meanwhile.                                           *)
Leave(w) ==
  /\ pc[w] = "leave" /\ Go(w, Gone(w))
  /\ IF w \in granted
     THEN Release(granted \ {w})
     ELSE Dequeue(w) /\ UNCHANGED <<permits, granted, token>>
  /\ UNCHANGED <<cancelled, late, list, waker, holds, call>>

DropPermit(w) ==
  /\ pc[w] = "held" /\ Go(w, "done")
  /\ holds' = holds \ {w} /\ Release(granted)
  /\ UNCHANGED <<cancelled, late, list, waker, call>>

WaiterStep(w) ==
  \/ Check(w) \/ TryAdmit(w) \/ Subscribe(w) \/ Install(w) \/ Timer(w)
  \/ TimerCancels(w) \/ TimerCancelled(w) \/ Acquire(w) \/ Resume(w) \/ Unsubscribe(w) \/ Leave(w)

CancelStep(a) == TakeList(a) \/ WakeOne(a)

Next ==
  \/ \E w \in Waiters : Start(w) \/ WaiterStep(w) \/ Abandon(w) \/ DropPermit(w)
  \/ \E a \in Actors : CancelStep(a) \/ \E b \in Budgets : Cancel(a, b)
  \/ \E b \in Budgets : Expire(b)

Spec == Init /\ [][Next]_vars

(* Threads and tasks run.  Nothing forces a cancel, a deadline or the       *)
(* return of a permit.                                                      *)
FairSpec ==
  Spec /\ (\A w \in Waiters : WF_vars(WaiterStep(w))) /\ (\A a \in Actors : WF_vars(CancelStep(a)))

-----------------------------------------------------------------------------
(* Properties *)

(* No wake is lost: a waiter that sleeps without a token has been given no  *)
(* permit, and whoever cancelled one of its ancestors is still on the way   *)
(* to it ("Cover cancellation between checking the budget and installing    *)
(* the waker", Cancellation::poll).                                         *)
NoLostWake ==
  \A w \in Waiters : pc[w] = "parked" /\ ~ token[w] =>
    /\ w \notin granted
    /\ \A b \in Ancestors[Of[w]] \cap cancelled :
         waker[w] /\ \E a \in Actors :
           /\ call[a].budget = b
           /\ w \in IF call[a].stage = "take" THEN list[b] ELSE call[a].taken

(* Permits survive every race of a grant with a cancel, a deadline or a     *)
(* dropped future, and none is free while somebody is queued (ReadPermit).  *)
PermitsConserved ==
  /\ permits + Cardinality(granted) + Cardinality(holds) = Capacity
  /\ queue # << >> => permits = 0

(* A finished wait leaves nothing behind: no subscription at any ancestor   *)
(* (Drop for Cancellation), no place in the semaphore's queue, already when *)
(* a waiter past its deadline cancels its budget.                           *)
NothingLeft ==
  \A w \in Waiters : pc[w] \in {"idle", "cancel", "held", "done"} =>
    /\ \A b \in Budgets : w \notin list[b]
    /\ ~ Queued(w) /\ w \notin granted /\ (pc[w] = "held" <=> w \in holds)

(* Cancellation of any ancestor, or its own deadline, ends a wait though no *)
(* permit ever returns ("parent cancellation wakes both async tasks and     *)
(* synchronous workers", cancellation).                                     *)
ExpiredWaitEnds ==
  \A w \in Waiters :
    (pc[w] # "idle" /\ \E b \in Ancestors[Of[w]] : b \in cancelled \/ (b = Of[w] /\ b \in late))
      ~> pc[w] \in {"held", "done"}
=============================================================================
