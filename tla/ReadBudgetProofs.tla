-------------------------- MODULE ReadBudgetProofs ---------------------------
(* Theorems about ReadBudget, for every tree of budgets, every set of        *)
(* waiters and cancellers and every number of permits: no permit is lost, a  *)
(* finished wait leaves nothing behind, and no wake is lost.                 *)
EXTENDS ReadBudget, TLAPS

(* The leaves are first-order, for Zenon, but for those that cite SMT. *)
USE Zenon

-----------------------------------------------------------------------------
(* Ancestors. *)

(* A budget's ancestors are itself and its parent's. *)
LEMMA AncestorSets ==
  ASSUME NEW b \in Budgets
  PROVE  /\ b \in Ancestors[b] /\ Ancestors[b] \subseteq Budgets
         /\ Parent[b] = None => Ancestors[b] = {b}
         /\ Parent[b] # None => Parent[b] \in Budgets /\ Ancestors[b] = {b} \cup Ancestors[Parent[b]]
<1>1. Ancestors[b] = {c \in Budgets : \A S \in SUBSET Budgets : b \in S /\ Upward(S) => c \in S}
  BY DEF Ancestors
<1>2. b \in Ancestors[b] /\ Ancestors[b] \subseteq Budgets
  BY <1>1
<1>3. ASSUME Parent[b] = None PROVE Ancestors[b] = {b}
  <2>1. Upward({b}) /\ {b} \in SUBSET Budgets
    BY <1>3 DEF Upward
  <2> QED
    BY <1>1, <1>2, <2>1
<1>4. ASSUME Parent[b] # None
      PROVE  Parent[b] \in Budgets /\ Ancestors[b] = {b} \cup Ancestors[Parent[b]]
  <2>1. Parent[b] \in Budgets
    BY <1>4, ReadBudgetAssumption
  <2>2. Ancestors[Parent[b]] =
          {c \in Budgets : \A S \in SUBSET Budgets : Parent[b] \in S /\ Upward(S) => c \in S}
    BY <2>1 DEF Ancestors
  <2>3. Ancestors[Parent[b]] \subseteq Ancestors[b]
    <3>1. \A S \in SUBSET Budgets : b \in S /\ Upward(S) => Parent[b] \in S
      BY <1>4 DEF Upward
    <3> QED
      BY <1>1, <2>2, <3>1
  <2>4. Ancestors[b] \subseteq {b} \cup Ancestors[Parent[b]]
    <3> SUFFICES ASSUME NEW c \in Ancestors[b], c # b, NEW S \in SUBSET Budgets,
                        Parent[b] \in S, Upward(S)
                 PROVE  c \in S
      BY <1>1, <2>2
    <3>1. Upward(S \cup {b}) /\ S \cup {b} \in SUBSET Budgets
      BY DEF Upward
    <3> QED
      BY <1>1, <3>1
  <2> QED
    BY <1>2, <2>1, <2>3, <2>4
<1> QED
  BY <1>2, <1>3, <1>4

(* An ancestor's ancestors are ancestors. *)
LEMMA AncestorsNest ==
  ASSUME NEW b \in Budgets, NEW c \in Ancestors[b]
  PROVE  Ancestors[c] \subseteq Ancestors[b]
<1>1. c \in Budgets
  BY AncestorSets
<1>2. /\ Ancestors[b] = {d \in Budgets : \A S \in SUBSET Budgets : b \in S /\ Upward(S) => d \in S}
      /\ Ancestors[c] = {d \in Budgets : \A S \in SUBSET Budgets : c \in S /\ Upward(S) => d \in S}
  BY <1>1 DEF Ancestors
<1> QED
  BY <1>2

-----------------------------------------------------------------------------
(* Types, but for the bound on permits, and where a waiter climbs. *)

Call == [budget : Budgets \cup {None}, taken : SUBSET Waiters,
         stage : {"none", "due", "take", "wake", "end"}]

Typed ==
  /\ cancelled \subseteq Budgets /\ late \subseteq Timed
  /\ list \in [Budgets -> SUBSET Waiters]
  /\ pc \in [Waiters -> Places] /\ at \in [Waiters -> Budgets]
  /\ waker \in [Waiters -> BOOLEAN] /\ token \in [Waiters -> BOOLEAN]
  /\ permits \in Nat /\ queue \in Seq(Waiters) /\ granted \subseteq Waiters
  /\ holds \subseteq Waiters
  /\ call \in [Actors -> Call]

Climbing == \A w \in Waiters : at[w] \in Ancestors[Of[w]]

(* The places of a waiter, in classes.  Where it is subscribed to every     *)
(* ancestor, and where the semaphore may know it.                           *)
Subscribed == {"top", "poll", "install", "recheck", "timer", "acquire", "last",
               "parked", "confirm"}
Waiting == (Subscribed \ {"confirm"}) \cup {"unsubscribe", "leave"}

(* Where a check goes on. *)
LEMMA LivePlace ==
  ASSUME NEW w
  PROVE  /\ Live(w, "check") = "try" /\ Live(w, "tried") = "held" /\ Live(w, "top") = "poll"
         /\ Live(w, "poll") = "install" /\ Live(w, "last") = "parked"
         /\ Live(w, "recheck") = IF w \in Async THEN "timer" ELSE "acquire"
         /\ Live(w, "confirm") = "unsubscribe"
  BY DEF Live

LEMMA DeadPlace ==
  ASSUME NEW w
  PROVE  /\ Dead(w, "check") = "done" /\ Dead(w, "tried") = "done" /\ Dead(w, "top") = "unsubscribe"
         /\ Dead(w, "poll") = IF w \in Async THEN "unsubscribe" ELSE "acquire"
         /\ Dead(w, "recheck") = IF w \in Async THEN "unsubscribe" ELSE "acquire"
         /\ Dead(w, "last") = "unsubscribe" /\ Dead(w, "confirm") = "unsubscribe"
  BY DEF Dead

(* The waiter moves to place q, to visit x next. *)
Moves(w, q, x) == pc' = [pc EXCEPT ![w] = q] /\ at' = [at EXCEPT ![w] = x]

(* The cancel an actor is in has stored its flag. *)
Callers ==
  \A a \in Actors : IF call[a].stage \in {"none", "due"} THEN call[a].budget = None
                    ELSE call[a].budget \in cancelled

BudgetInv == Typed /\ Climbing /\ Callers

(* A waiter's own cancel is due once its wait is over, without a permit. *)
OwnCalls ==
  \A w \in Async : call[w].stage # "none" =>
    pc[w] \in {"unsubscribe", "leave", "cancel", "done"} /\ w \notin holds

(* What moves is one waiter. *)
LEMMA MovesOne ==
  ASSUME BudgetInv, NEW w \in Waiters, NEW q \in Places, NEW x \in Ancestors[Of[w]], Moves(w, q, x)
  PROVE  /\ pc' \in [Waiters -> Places] /\ at' \in [Waiters -> Budgets] /\ Climbing'
         /\ pc'[w] = q /\ at'[w] = x
         /\ \A v \in Waiters : v # w => pc'[v] = pc[v] /\ at'[v] = at[v]
<1>1. Of[w] \in Budgets
  BY ReadBudgetAssumption
<1>2. x \in Budgets
  BY <1>1, AncestorSets
<1> QED
  BY <1>2 DEF BudgetInv, Typed, Climbing, Moves

(* A check finds the budget expired, climbs, or is through. *)
LEMMA CheckCases ==
  ASSUME BudgetInv, NEW w \in Waiters, Check(w)
  PROVE  /\ pc[w] \in Walks /\ at[w] \in Budgets /\ at[w] \in Ancestors[Of[w]]
         /\ UNCHANGED <<cancelled, late, list, waker, call>>
         /\ \/ /\ Expired(at[w]) /\ Moves(w, Dead(w, pc[w]), Of[w])
               /\ IF w \in holds THEN holds' = holds \ {w} /\ Release(granted)
                                 ELSE UNCHANGED <<holds, semaphore, token>>
            \/ /\ ~ Expired(at[w]) /\ Parent[at[w]] # None /\ Moves(w, pc[w], Parent[at[w]])
               /\ Parent[at[w]] \in Ancestors[Of[w]]
               /\ UNCHANGED <<holds, semaphore, token>>
            \/ /\ ~ Expired(at[w]) /\ Parent[at[w]] = None /\ Moves(w, Live(w, pc[w]), Of[w])
               /\ UNCHANGED <<holds, semaphore, token>>
<1>1. /\ pc[w] \in Walks /\ at[w] \in Budgets /\ at[w] \in Ancestors[Of[w]] /\ Of[w] \in Budgets
      /\ UNCHANGED <<cancelled, late, list, waker, call>>
  BY ReadBudgetAssumption DEF BudgetInv, Typed, Climbing, Check
<1>2. Parent[at[w]] # None => Parent[at[w]] \in Ancestors[Of[w]]
  BY <1>1, AncestorSets, AncestorsNest, SMT
<1>3. Climb(w) => Moves(w, pc[w], Parent[at[w]])
  BY DEF BudgetInv, Typed, Climb, Moves
<1> QED
  BY <1>1, <1>2, <1>3 DEF Check, Go, Moves

(* Where the other steps of a waiter lead. *)
LEMMA StepCases ==
  ASSUME BudgetInv, NEW w \in Waiters
  PROVE  /\ Start(w) => Moves(w, "check", Of[w])
         /\ TryAdmit(w) => Moves(w, "tried", Of[w]) \/ Moves(w, "subscribe", Of[w])
         /\ Subscribe(w) =>
              \/ Parent[at[w]] = None /\ Moves(w, IF w \in Async THEN "poll" ELSE "top", Of[w])
              \/ /\ Parent[at[w]] # None /\ Parent[at[w]] \in Ancestors[Of[w]]
                 /\ Moves(w, "subscribe", Parent[at[w]])
         /\ Install(w) => Moves(w, "recheck", Of[w])
         /\ Timer(w) => Moves(w, "unsubscribe", Of[w]) \/ Moves(w, "acquire", Of[w])
         /\ TimerCancels(w) => Moves(w, "cancel", at[w]) /\ at[w] \in Ancestors[Of[w]]
         /\ TimerCancelled(w) => Moves(w, "done", Of[w])
         /\ Acquire(w) => \E q \in {"unsubscribe", "confirm", "parked", "last"} : Moves(w, q, Of[w])
         /\ Resume(w) => \E q \in {"poll", "top"} : Moves(w, q, Of[w])
         /\ Unsubscribe(w) =>
              \/ /\ Parent[at[w]] # None /\ Parent[at[w]] \in Ancestors[Of[w]]
                 /\ Moves(w, "unsubscribe", Parent[at[w]]) /\ UNCHANGED waker
              \/ /\ Parent[at[w]] = None
                 /\ Moves(w, IF w \notin holds THEN "leave" ELSE IF w \in Async THEN "tried" ELSE "held", Of[w])
                 /\ waker' = [waker EXCEPT ![w] = FALSE]
         /\ Leave(w) => Moves(w, "done", Of[w]) \/ (w \in Async /\ Moves(w, "cancel", Of[w]))
         /\ DropPermit(w) => Moves(w, "done", Of[w])
         /\ Abandon(w) => Moves(w, "unsubscribe", Of[w])
<1>1. at[w] \in Budgets /\ at[w] \in Ancestors[Of[w]] /\ Of[w] \in Budgets
  BY ReadBudgetAssumption DEF BudgetInv, Typed, Climbing
<1>2. Parent[at[w]] # None => Parent[at[w]] \in Ancestors[Of[w]]
  BY <1>1, AncestorSets, AncestorsNest, SMT
<1>3. Climb(w) => Moves(w, pc[w], Parent[at[w]])
  BY DEF BudgetInv, Typed, Climb, Moves
<1>4. \A q : Go(w, q) => Moves(w, q, Of[w])
  BY DEF Go, Moves
<1> HIDE DEF Moves
<1>5. Start(w) => Moves(w, "check", Of[w])
  BY <1>4 DEF Start
<1>6. TryAdmit(w) => Moves(w, "tried", Of[w]) \/ Moves(w, "subscribe", Of[w])
  BY <1>4 DEF TryAdmit
<1>7. Subscribe(w) =>
        \/ Parent[at[w]] = None /\ Moves(w, IF w \in Async THEN "poll" ELSE "top", Of[w])
        \/ /\ Parent[at[w]] # None /\ Parent[at[w]] \in Ancestors[Of[w]]
           /\ Moves(w, "subscribe", Parent[at[w]])
  BY <1>2, <1>3, <1>4 DEF Subscribe
<1>8. Timer(w) => Moves(w, "unsubscribe", Of[w]) \/ Moves(w, "acquire", Of[w])
  BY <1>4 DEF Timer
<1>9. Acquire(w) => \E q \in {"unsubscribe", "confirm", "parked", "last"} : Moves(w, q, Of[w])
  BY <1>4 DEF Acquire
<1>10. Resume(w) => \E q \in {"poll", "top"} : Moves(w, q, Of[w])
  BY <1>4 DEF Resume
<1>11. Unsubscribe(w) =>
        \/ /\ Parent[at[w]] # None /\ Parent[at[w]] \in Ancestors[Of[w]]
           /\ Moves(w, "unsubscribe", Parent[at[w]]) /\ UNCHANGED waker
        \/ /\ Parent[at[w]] = None
           /\ Moves(w, IF w \notin holds THEN "leave" ELSE IF w \in Async THEN "tried" ELSE "held", Of[w])
           /\ waker' = [waker EXCEPT ![w] = FALSE]
  BY <1>2, <1>3, <1>4 DEF Unsubscribe
<1>12. /\ Install(w) => Moves(w, "recheck", Of[w])
       /\ TimerCancelled(w) => Moves(w, "done", Of[w])
       /\ Leave(w) => Moves(w, "done", Of[w]) \/ (w \in Async /\ Moves(w, "cancel", Of[w]))
       /\ DropPermit(w) => Moves(w, "done", Of[w])
       /\ Abandon(w) => Moves(w, "unsubscribe", Of[w])
  BY <1>4 DEF Install, TimerCancelled, Leave, Gone, DropPermit, Abandon
<1>13. TimerCancels(w) => Moves(w, "cancel", at[w]) /\ at[w] \in Ancestors[Of[w]]
  BY <1>1 DEF TimerCancels, BudgetInv, Typed, Moves
<1> QED
  BY <1>5, <1>6, <1>7, <1>8, <1>9, <1>10, <1>11, <1>12, <1>13

WaiterActs(w) == Start(w) \/ WaiterStep(w) \/ Abandon(w) \/ DropPermit(w)

(* Every step of a waiter moves it, within the chain of its ancestors. *)
LEMMA StepMoves ==
  ASSUME BudgetInv, NEW w \in Waiters, WaiterActs(w)
  PROVE  \E q \in Places, x \in Ancestors[Of[w]] : Moves(w, q, x)
<1>1. Of[w] \in Ancestors[Of[w]]
  BY AncestorSets, ReadBudgetAssumption
<1>2. CASE Check(w)
  <2>1. pc[w] \in Walks => Dead(w, pc[w]) \in Places /\ Live(w, pc[w]) \in Places
    BY DeadPlace, LivePlace, SMT DEF Walks, Places
  <2>2. pc[w] \in Places
    BY DEF BudgetInv, Typed
  <2> QED
    BY <1>1, <1>2, <2>1, <2>2, CheckCases
<1>3. CASE ~ Check(w)
  <2>1. {"check", "tried", "subscribe", "poll", "top", "recheck", "cancel", "acquire", "unsubscribe",
         "confirm", "parked", "last", "leave", "held", "done"} \subseteq Places
    BY DEF Places, Walks
  <2>2. CASE Start(w) \/ TryAdmit(w) \/ Subscribe(w) \/ Install(w)
    BY <1>1, <2>1, <2>2, StepCases
  <2>3. CASE Timer(w) \/ TimerCancels(w) \/ TimerCancelled(w) \/ Acquire(w) \/ Resume(w)
    BY <1>1, <2>1, <2>3, StepCases
  <2>4. CASE Unsubscribe(w) \/ Leave(w) \/ DropPermit(w) \/ Abandon(w)
    BY <1>1, <2>1, <2>4, StepCases
  <2> QED
    BY <1>3, <2>2, <2>3, <2>4 DEF WaiterActs, WaiterStep
<1> QED
  BY <1>2, <1>3

(* A permit that returns is free or goes to the first in the queue. *)
LEMMA ReleaseTyped ==
  ASSUME BudgetInv, NEW S \in SUBSET Waiters, Release(S)
  PROVE  /\ permits' \in Nat /\ queue' \in Seq(Waiters) /\ granted' \subseteq Waiters
         /\ token' \in [Waiters -> BOOLEAN]
<1>1. CASE queue = << >>
  BY <1>1, SMT DEF BudgetInv, Typed, Release
<1>2. CASE queue # << >>
  <2>1. Head(queue) \in Waiters /\ Tail(queue) \in Seq(Waiters)
    BY <1>2, SMT DEF BudgetInv, Typed
  <2> QED
    BY <1>2, <2>1 DEF BudgetInv, Typed, Release
<1> QED
  BY <1>1, <1>2

(* Leaving the queue. *)
LEMMA WithoutTyped ==
  ASSUME NEW S, NEW s \in Seq(S), NEW n \in DOMAIN s
  PROVE  /\ WithoutAt(s, n) \in Seq(S)
         /\ \A i \in DOMAIN WithoutAt(s, n) : \E j \in DOMAIN s :
              /\ j # n /\ WithoutAt(s, n)[i] = s[j]
              /\ j = IF i < n THEN i ELSE i + 1
<1>1. Len(s) - 1 \in Nat /\ n \in 1 .. Len(s) /\ Len(s) \in Nat /\ DOMAIN s = 1 .. Len(s)
  BY SMT
<1>2. \A i \in 1 .. Len(s) - 1 : i \in 1 .. Len(s) /\ i + 1 \in 1 .. Len(s)
  BY <1>1, SMT
<1>3. WithoutAt(s, n) \in [1 .. Len(s) - 1 -> S]
  BY <1>1, <1>2, SMT DEF WithoutAt
<1>4. WithoutAt(s, n) \in Seq(S) /\ DOMAIN WithoutAt(s, n) = 1 .. Len(s) - 1
  BY <1>1, <1>3, SMT
<1>5. \A i \in 1 .. Len(s) - 1 : WithoutAt(s, n)[i] = IF i < n THEN s[i] ELSE s[i + 1]
  BY DEF WithoutAt
<1> QED
  BY <1>1, <1>2, <1>4, <1>5, SMT

LEMMA DequeueTyped ==
  ASSUME BudgetInv, NEW w \in Waiters, Dequeue(w)
  PROVE  queue' \in Seq(Waiters)
  BY WithoutTyped, SMT DEF BudgetInv, Typed, Dequeue

(* The flags, lists and calls keep their types. *)
FlagsTyped ==
  /\ cancelled \subseteq Budgets /\ late \subseteq Timed
  /\ list \in [Budgets -> SUBSET Waiters] /\ call \in [Actors -> Call] /\ Callers

PermitsTyped ==
  /\ permits \in Nat /\ queue \in Seq(Waiters) /\ granted \subseteq Waiters /\ holds \subseteq Waiters

LEMMA StoreTyped ==
  ASSUME BudgetInv, NEW a \in Actors, NEW b \in Budgets, Store(a, b), call[a].stage \in {"none", "due"}
  PROVE  /\ cancelled' \subseteq Budgets /\ call' \in [Actors -> Call] /\ Callers'
         /\ call'[a].budget = b /\ call'[a].stage = "take" /\ call[a].budget = None
         /\ \A c \in Actors : c # a => call'[c] = call[c]
<1>1. [budget |-> b, taken |-> {}, stage |-> "take"] \in Call
  BY DEF Call
<1>2. /\ cancelled' = cancelled \cup {b} /\ cancelled' \subseteq Budgets
      /\ call' \in [Actors -> Call] /\ call'[a] = [budget |-> b, taken |-> {}, stage |-> "take"]
      /\ \A c \in Actors : c # a => call'[c] = call[c]
  BY <1>1 DEF BudgetInv, Typed, Store
<1>3. call'[a].budget = b /\ call'[a].stage = "take" /\ call[a].budget = None
  BY <1>2 DEF BudgetInv, Callers, Store
<1>4. Callers'
  BY <1>2, <1>3 DEF BudgetInv, Callers
<1> QED
  BY <1>2, <1>3, <1>4

(* The deadline of a waiter passes. *)
LEMMA TimerTyped ==
  ASSUME BudgetInv, OwnCalls, NEW w \in Waiters, Timer(w)
  PROVE  /\ call' \in [Actors -> Call] /\ Callers'
         /\ \A a \in Actors : call[a].budget # None => call'[a] = call[a]
         /\ call' # call => pc'[w] = "unsubscribe"
         /\ \A a \in Actors : a # w => call'[a] = call[a]
<1>1. CASE UNCHANGED call
  BY <1>1 DEF Timer, BudgetInv, Typed, Callers
<1>2. CASE call' = [call EXCEPT ![w].stage = "due"] /\ Go(w, "unsubscribe")
  <2>1. call \in [Actors -> Call] /\ pc'[w] = "unsubscribe" /\ UNCHANGED cancelled
    BY <1>2 DEF BudgetInv, Typed, Go, Timer
  <2>2. CASE w \notin Actors
    <3>1. call' = call
      BY <1>2, <2>1, <2>2
    <3> QED
      BY <2>1, <3>1 DEF BudgetInv, Callers
  <2>3. CASE w \in Actors
    <3>1. call[w].stage = "none" /\ pc[w] = "timer"
      BY <2>3, ReadBudgetAssumption DEF Actors, OwnCalls, Timer
    <3>2. call[w].budget = None /\ call[w] \in Call
      BY <2>1, <2>3, <3>1 DEF BudgetInv, Callers
    <3>3. LET e == [call[w] EXCEPT !.stage = "due"] IN e \in Call /\ e.budget = None /\ e.stage = "due"
      BY <3>2 DEF Call
    <3>4. /\ call' \in [Actors -> Call] /\ call'[w].budget = None /\ call'[w].stage = "due"
          /\ \A a \in Actors : a # w => call'[a] = call[a]
      BY <1>2, <2>1, <2>3, <3>3
    <3> QED
      BY <2>1, <3>2, <3>4 DEF BudgetInv, Callers
  <2> QED
    BY <2>2, <2>3
<1> QED
  BY <1>1, <1>2 DEF Timer

(* The steps of a waiter keep the types. *)
LEMMA WaiterTyped ==
  ASSUME BudgetInv, OwnCalls, NEW w \in Waiters, WaiterActs(w)
  PROVE  BudgetInv'
<1>1. /\ pc' \in [Waiters -> Places] /\ at' \in [Waiters -> Budgets] /\ Climbing'
  BY StepMoves, MovesOne
<1>2. FlagsTyped'
  <2>1. CASE Timer(w)
    BY <2>1, TimerTyped DEF Timer, FlagsTyped, BudgetInv, Typed
  <2>5. CASE TimerCancels(w)
    <3>1. /\ Of[w] \in Budgets /\ Store(w, Of[w]) /\ call[w].stage = "due" /\ UNCHANGED <<late, list>>
          /\ cancelled' = cancelled \cup {Of[w]} /\ (w \notin Actors => call' = call)
      BY <2>5, ReadBudgetAssumption, SMT DEF TimerCancels, Store, BudgetInv, Typed
    <3>2. CASE w \in Actors
      BY <3>1, <3>2, StoreTyped DEF FlagsTyped, BudgetInv, Typed
    <3>3. CASE w \notin Actors
      BY <3>1, <3>3 DEF FlagsTyped, BudgetInv, Typed, Callers
    <3> QED
      BY <3>2, <3>3
  <2>2. CASE Subscribe(w) \/ Unsubscribe(w)
    BY <2>2, SMT DEF Subscribe, Unsubscribe, FlagsTyped, BudgetInv, Typed, Callers
  <2>3. CASE Start(w) \/ Check(w) \/ TryAdmit(w) \/ Install(w) \/ TimerCancelled(w) \/ Acquire(w)
    BY <2>3 DEF Start, Check, TryAdmit, Install, TimerCancelled, Acquire, FlagsTyped, BudgetInv, Typed, Callers
  <2>4. CASE Resume(w) \/ Leave(w) \/ Abandon(w) \/ DropPermit(w)
    BY <2>4 DEF Resume, Leave, Abandon, DropPermit, FlagsTyped, BudgetInv, Typed, Callers
  <2> QED
    BY <2>1, <2>2, <2>3, <2>4, <2>5 DEF WaiterActs, WaiterStep
<1>3. PermitsTyped' /\ waker' \in [Waiters -> BOOLEAN] /\ token' \in [Waiters -> BOOLEAN]
  <2> USE DEF PermitsTyped, BudgetInv, Typed, semaphore
  <2>1. CASE Start(w) \/ Subscribe(w) \/ Timer(w) \/ TimerCancels(w) \/ TimerCancelled(w) \/ Abandon(w)
    BY <2>1 DEF Start, Subscribe, Timer, TimerCancels, TimerCancelled, Abandon
  <2>2. CASE Install(w) \/ Resume(w)
    BY <2>2 DEF Install, Resume
  <2>3. CASE Unsubscribe(w)
    BY <2>3 DEF Unsubscribe
  <2>4. CASE TryAdmit(w)
    BY <2>4, SMT DEF TryAdmit, Take
  <2>5. CASE Check(w)
    <3>1. CASE w \in holds /\ Release(granted) /\ holds' = holds \ {w}
      BY <2>5, <3>1, ReleaseTyped DEF Check
    <3>2. CASE UNCHANGED <<holds, semaphore, token>>
      BY <2>5, <3>2 DEF Check
    <3> QED
      BY <2>5, <3>1, <3>2 DEF Check
  <2>6. CASE Acquire(w)
    <3>1. UNCHANGED <<waker, token>>
      BY <2>6 DEF Acquire
    <3>2. CASE holds' = holds \cup {w} /\ queue' = queue /\ granted' \subseteq granted
      BY <2>6, <3>1, <3>2, SMT DEF Acquire, Take
    <3>3. CASE queue' \in {queue, Append(queue, w)} /\ UNCHANGED <<permits, granted, holds>>
      BY <3>1, <3>3, SMT
    <3> QED
      BY <2>6, <3>2, <3>3 DEF Acquire, Take
  <2>7. CASE Leave(w)
    <3>1. CASE w \in granted
      BY <2>7, <3>1, ReleaseTyped DEF Leave
    <3>2. CASE w \notin granted
      BY <2>7, <3>2, DequeueTyped DEF Leave
    <3> QED
      BY <3>1, <3>2
  <2>8. CASE DropPermit(w)
    BY <2>8, ReleaseTyped DEF DropPermit
  <2> QED
    BY <2>1, <2>2, <2>3, <2>4, <2>5, <2>6, <2>7, <2>8 DEF WaiterActs, WaiterStep
<1> QED
  BY <1>1, <1>2, <1>3 DEF BudgetInv, Typed, FlagsTyped, PermitsTyped

(* Whoever cancels takes the list ... *)
LEMMA TakeListEffect ==
  ASSUME BudgetInv, NEW a \in Actors, TakeList(a), NEW b, b = call[a].budget
  PROVE  /\ b \in cancelled /\ b \in Budgets /\ call' \in [Actors -> Call]
         /\ call'[a].budget = b /\ call'[a].taken = list[b] /\ call'[a].stage \in {"wake", "end"}
         /\ \A c \in Actors : c # a => call'[c] = call[c]
         /\ list' \in [Budgets -> SUBSET Waiters] /\ list'[b] = {}
         /\ \A d \in Budgets : d # b => list'[d] = list[d]
<1>1. b \in cancelled /\ b \in Budgets
  BY DEF TakeList, BudgetInv, Typed, Callers
<1>2. list \in [Budgets -> SUBSET Waiters] /\ call \in [Actors -> Call] /\ call[a] \in Call
  BY DEF BudgetInv, Typed
<1>3. PICK s \in {"wake", "end"} : s = Left(list[b])
  BY DEF Left
<1>4. call' = [call EXCEPT ![a] = [call[a] EXCEPT !.taken = list[b], !.stage = s]]
  BY <1>2, <1>3 DEF TakeList, Call
<1>5. /\ [call[a] EXCEPT !.taken = list[b], !.stage = s] \in Call
      /\ [call[a] EXCEPT !.taken = list[b], !.stage = s].budget = b
      /\ [call[a] EXCEPT !.taken = list[b], !.stage = s].taken = list[b]
      /\ [call[a] EXCEPT !.taken = list[b], !.stage = s].stage = s
  BY <1>1, <1>2, <1>3 DEF Call
<1>6. /\ call' \in [Actors -> Call] /\ call'[a].budget = b /\ call'[a].taken = list[b] /\ call'[a].stage = s
      /\ \A c \in Actors : c # a => call'[c] = call[c]
  BY <1>2, <1>4, <1>5
<1>7. list' = [list EXCEPT ![b] = {}]
  BY DEF TakeList
<1> QED
  BY <1>1, <1>2, <1>3, <1>6, <1>7

(* ... and wakes the waiters in it one by one. *)
LEMMA WakeOneEffect ==
  ASSUME BudgetInv, NEW a \in Actors, WakeOne(a)
  PROVE  /\ call' \in [Actors -> Call] /\ call[a].budget \in cancelled
         /\ \E w \in Waiters :
              /\ call'[a].budget = call[a].budget /\ call'[a].taken = call[a].taken \ {w}
              /\ call'[a].stage \in {"wake", "end"} /\ call[a].stage = "wake"
              /\ token' = [token EXCEPT ![w] = token[w] \/ waker[w]]
              /\ waker' = [waker EXCEPT ![w] = FALSE]
         /\ \A c \in Actors : c # a => call'[c] = call[c]
<1>1. call[a].budget \in cancelled /\ call[a].stage = "wake"
  BY DEF WakeOne, BudgetInv, Callers
<1>2. call \in [Actors -> Call] /\ call[a] \in Call /\ token \in [Waiters -> BOOLEAN]
  BY DEF BudgetInv, Typed
<1>3. PICK w \in call[a].taken :
        /\ call' = [call EXCEPT ![a].taken = @ \ {w}, ![a].stage = Left(call[a].taken \ {w})]
        /\ token' = [token EXCEPT ![w] = @ \/ waker[w]]
        /\ waker' = [waker EXCEPT ![w] = FALSE]
  BY DEF WakeOne
<1>4. w \in Waiters
  BY <1>2 DEF Call
<1>5. PICK s \in {"wake", "end"} : s = Left(call[a].taken \ {w})
  BY DEF Left
<1>6. call' = [call EXCEPT ![a] = [call[a] EXCEPT !.taken = call[a].taken \ {w}, !.stage = s]]
  BY <1>2, <1>3, <1>5 DEF Call
<1>7. LET e == [call[a] EXCEPT !.taken = call[a].taken \ {w}, !.stage = s] IN
      e \in Call /\ e.budget = call[a].budget /\ e.taken = call[a].taken \ {w} /\ e.stage = s
  BY <1>2, <1>5 DEF Call
<1>8. /\ call' \in [Actors -> Call] /\ call'[a].budget = call[a].budget
      /\ call'[a].taken = call[a].taken \ {w} /\ call'[a].stage = s
      /\ \A c \in Actors : c # a => call'[c] = call[c]
  BY <1>2, <1>6, <1>7
<1>9. token' = [token EXCEPT ![w] = token[w] \/ waker[w]]
  BY <1>2, <1>3, <1>4
<1> QED
  BY <1>1, <1>3, <1>4, <1>5, <1>8, <1>9

(* A cancel and a deadline keep the types. *)
LEMMA CancelTyped ==
  ASSUME BudgetInv, (\E a \in Actors : CancelStep(a) \/ \E b \in Budgets : Cancel(a, b))
                    \/ \E b \in Budgets : Expire(b)
  PROVE  BudgetInv'
<1>1. ASSUME NEW a \in Actors, TakeList(a) PROVE BudgetInv'
  <2>1. UNCHANGED <<cancelled, late, pc, at, waker, token, permits, queue, granted, holds>>
    BY <1>1 DEF TakeList, semaphore
  <2>2. list' \in [Budgets -> SUBSET Waiters] /\ call' \in [Actors -> Call] /\ Callers'
    BY <1>1, <2>1, TakeListEffect DEF BudgetInv, Callers
  <2> QED
    BY <2>1, <2>2 DEF BudgetInv, Typed, Climbing
<1>2. ASSUME NEW a \in Actors, WakeOne(a) PROVE BudgetInv'
  <2>1. UNCHANGED <<cancelled, late, list, pc, at, permits, queue, granted, holds>>
    BY <1>2 DEF WakeOne, semaphore
  <2>2. call' \in [Actors -> Call] /\ Callers'
    BY <1>2, <2>1, WakeOneEffect, SMT DEF BudgetInv, Callers
  <2>3. token' \in [Waiters -> BOOLEAN] /\ waker' \in [Waiters -> BOOLEAN]
    <3>1. PICK w \in Waiters : /\ token' = [token EXCEPT ![w] = token[w] \/ waker[w]]
                               /\ waker' = [waker EXCEPT ![w] = FALSE]
      BY <1>2, WakeOneEffect
    <3> QED
      BY <3>1 DEF BudgetInv, Typed
  <2> QED
    BY <2>1, <2>2, <2>3 DEF BudgetInv, Typed, Climbing
<1>3. ASSUME NEW a \in Actors, NEW b \in Budgets, Cancel(a, b) PROVE BudgetInv'
  <2>1. /\ UNCHANGED <<late, list, pc, at, waker, token, permits, queue, granted, holds>>
        /\ cancelled' = cancelled \cup {b} /\ Store(a, b) /\ call[a].stage = "none"
    BY <1>3 DEF Cancel, Store, semaphore
  <2>2. call' \in [Actors -> Call] /\ cancelled' \subseteq Budgets /\ Callers'
    BY <2>1, StoreTyped
  <2> QED
    BY <2>1, <2>2 DEF BudgetInv, Typed, Climbing
<1>4. ASSUME NEW b \in Budgets, Expire(b) PROVE BudgetInv'
  BY <1>4 DEF Expire, BudgetInv, Typed, Climbing, Callers, semaphore
<1> QED
  BY <1>1, <1>2, <1>3, <1>4 DEF CancelStep

-----------------------------------------------------------------------------
(* The semaphore and its waiters. *)

Holding == {"tried", "confirm", "held"}

(* A waiter is queued once, or has been given a permit, or holds one; it is *)
(* where it waits or holds; and a grant to one that sleeps woke it.         *)
SemaphoreOK ==
  /\ queue # << >> => permits = 0
  /\ \A i, j \in DOMAIN queue : queue[i] = queue[j] => i = j
  /\ \A i \in DOMAIN queue : queue[i] \notin granted \cup holds /\ pc[queue[i]] \in Waiting
  /\ \A w \in granted : w \notin holds /\ pc[w] \in Waiting
  /\ \A w \in holds : pc[w] \in Holding \cup {"unsubscribe"}
  /\ \A w \in Waiters : pc[w] \in Holding => w \in holds
  /\ \A w \in granted : pc[w] \in {"last", "parked"} => token[w]

SemaphoreInv == BudgetInv /\ SemaphoreOK /\ OwnCalls

(* Who waits where no waiter does, or holds, is not known to the semaphore. *)
LEMMA Unknown ==
  ASSUME SemaphoreInv, NEW w \in Waiters
  PROVE  /\ pc[w] \notin Waiting => ~ Queued(w) /\ w \notin granted
         /\ w \in holds => ~ Queued(w) /\ w \notin granted
  BY DEF SemaphoreInv, SemaphoreOK, Queued

(* Steps of a waiter that neither take, return nor wait for a permit. *)
LEMMA SemaphoreMoves ==
  ASSUME SemaphoreInv, NEW w \in Waiters, NEW q \in Places, NEW x \in Ancestors[Of[w]],
         Moves(w, q, x), UNCHANGED <<permits, queue, granted, holds>>,
         w \in holds => q \in Holding \cup {"unsubscribe"}, q \in Holding => w \in holds,
         pc[w] \in Waiting /\ w \notin holds => q \in Waiting,
         q \in {"last", "parked"} => pc[w] = "last",
         \A v \in Waiters : token[v] => token'[v] \/ (v = w /\ q \notin {"last", "parked"})
  PROVE  SemaphoreOK'
<1>1. pc'[w] = q /\ \A v \in Waiters : v # w => pc'[v] = pc[v]
  BY MovesOne DEF SemaphoreInv
<1>2. /\ queue \in Seq(Waiters) /\ granted \subseteq Waiters /\ holds \subseteq Waiters
      /\ \A i \in DOMAIN queue : queue[i] \in Waiters
  BY SMT DEF SemaphoreInv, BudgetInv, Typed
<1>3. \A i \in DOMAIN queue : pc'[queue[i]] \in Waiting
  BY <1>1, <1>2 DEF SemaphoreInv, SemaphoreOK
<1>4. \A v \in granted : v \notin holds /\ pc'[v] \in Waiting
  BY <1>1, <1>2, SMT DEF SemaphoreInv, SemaphoreOK
<1>5. \A v \in granted : pc'[v] \in {"last", "parked"} => token'[v]
  BY <1>1, <1>2 DEF SemaphoreInv, SemaphoreOK
<1>6. /\ \A v \in holds : pc'[v] \in Holding \cup {"unsubscribe"}
      /\ \A v \in Waiters : pc'[v] \in Holding => v \in holds
  BY <1>1, <1>2 DEF SemaphoreInv, SemaphoreOK
<1> QED
  BY <1>3, <1>4, <1>5, <1>6 DEF SemaphoreInv, SemaphoreOK

(* A waiter gives a permit back: the one it holds, or the one it was given. *)
LEMMA SemaphoreReleases ==
  ASSUME SemaphoreInv, NEW w \in Waiters, NEW q \in {"done", "cancel", "unsubscribe"}, NEW x \in Ancestors[Of[w]],
         Moves(w, q, x), NEW S \in SUBSET granted, Release(S), w \notin S,
         \/ w \in holds /\ holds' = holds \ {w}
         \/ w \in granted /\ holds' = holds
  PROVE  SemaphoreOK'
<1>1. pc'[w] = q /\ \A v \in Waiters : v # w => pc'[v] = pc[v]
  BY MovesOne DEF SemaphoreInv, Places
<1>2. /\ queue \in Seq(Waiters) /\ granted \subseteq Waiters /\ holds \subseteq Waiters
      /\ token \in [Waiters -> BOOLEAN]
      /\ \A i \in DOMAIN queue : queue[i] \in Waiters
  BY SMT DEF SemaphoreInv, BudgetInv, Typed
<1>3. w \notin holds' /\ ~ Queued(w) /\ holds' \subseteq holds /\ (w \in holds \/ w \in granted)
      /\ \A v \in holds : v \in holds' \/ v = w
  BY DEF SemaphoreInv, SemaphoreOK, Queued
<1>4. \A i \in DOMAIN queue : queue[i] # w /\ pc'[queue[i]] \in Waiting
  BY <1>1, <1>2, <1>3 DEF SemaphoreInv, SemaphoreOK, Queued
<1>5. /\ \A v \in holds' : pc'[v] \in Holding \cup {"unsubscribe"}
      /\ \A v \in Waiters : pc'[v] \in Holding => v \in holds'
  BY <1>1, <1>2, <1>3 DEF SemaphoreInv, SemaphoreOK, Holding
<1>6. \A v \in S : v # w /\ v \in Waiters /\ v \notin holds' /\ pc'[v] \in Waiting
  BY <1>1, <1>2, <1>3 DEF SemaphoreInv, SemaphoreOK
<1>7. CASE queue = << >>
  <2>1. granted' = S /\ UNCHANGED <<queue, token>>
    BY <1>7 DEF Release
  <2> QED
    BY <1>1, <1>4, <1>5, <1>6, <1>7, <2>1 DEF SemaphoreInv, SemaphoreOK
<1>8. CASE queue # << >>
  <2>1. /\ granted' = S \cup {Head(queue)} /\ queue' = Tail(queue)
        /\ token' = [token EXCEPT ![Head(queue)] = TRUE]
    BY <1>8 DEF Release
  <2>2. /\ 1 \in DOMAIN queue /\ Head(queue) = queue[1]
        /\ \A i \in DOMAIN queue' : i + 1 \in DOMAIN queue /\ i + 1 # 1 /\ i \in Nat /\ queue'[i] = queue[i + 1]
    BY <1>2, <1>8, <2>1, SMT
  <2>3. \A i, j \in DOMAIN queue' : queue'[i] = queue'[j] => i = j
    BY <2>2, SMT DEF SemaphoreInv, SemaphoreOK
  <2>4. \A i \in DOMAIN queue' : queue'[i] \notin granted' \cup holds' /\ pc'[queue'[i]] \in Waiting
    BY <1>3, <1>4, <2>1, <2>2, SMT DEF SemaphoreInv, SemaphoreOK
  <2>5. \A v \in granted' : v \notin holds' /\ pc'[v] \in Waiting
    BY <1>3, <1>4, <1>6, <2>1, <2>2, SMT DEF SemaphoreInv, SemaphoreOK
  <2>6. \A v \in granted' : pc'[v] \in {"last", "parked"} => token'[v]
    BY <1>1, <1>2, <1>6, <2>1, <2>2, SMT DEF SemaphoreInv, SemaphoreOK
  <2> QED
    BY <1>5, <1>8, <2>3, <2>4, <2>5, <2>6 DEF SemaphoreInv, SemaphoreOK, Release
<1> QED
  BY <1>7, <1>8

(* A waiter gets a permit: a free one, or the one it was given. *)
LEMMA SemaphoreTakes ==
  ASSUME SemaphoreInv, NEW w \in Waiters, NEW q \in Holding \cup {"unsubscribe"}, NEW x \in Ancestors[Of[w]],
         Moves(w, q, x), UNCHANGED <<queue, token>>, ~ Queued(w), queue # << >> => permits' = 0,
         granted' = granted \ {w}, holds' = holds \cup {w}
  PROVE  SemaphoreOK'
<1>1. pc'[w] = q /\ \A v \in Waiters : v # w => pc'[v] = pc[v]
  BY MovesOne DEF SemaphoreInv, Places, Holding, Walks
<1>2. /\ granted \subseteq Waiters /\ holds \subseteq Waiters
      /\ \A i \in DOMAIN queue : queue[i] \in Waiters
  BY SMT DEF SemaphoreInv, BudgetInv, Typed
<1>3. \A i \in DOMAIN queue : queue[i] # w /\ queue[i] \notin granted' \cup holds' /\ pc'[queue[i]] \in Waiting
  BY <1>1, <1>2 DEF SemaphoreInv, SemaphoreOK, Queued
<1>4. \A v \in granted' : v # w /\ v \notin holds' /\ pc'[v] \in Waiting
  BY <1>1, <1>2 DEF SemaphoreInv, SemaphoreOK
<1>5. /\ \A v \in holds' : pc'[v] \in Holding \cup {"unsubscribe"}
      /\ \A v \in Waiters : pc'[v] \in Holding => v \in holds'
  BY <1>1, <1>2 DEF SemaphoreInv, SemaphoreOK
<1>6. \A v \in granted' : pc'[v] \in {"last", "parked"} => token'[v]
  BY <1>1, <1>2 DEF SemaphoreInv, SemaphoreOK
<1> QED
  BY <1>3, <1>4, <1>5, <1>6 DEF SemaphoreInv, SemaphoreOK

(* A waiter joins the queue, if it is not in it already. *)
LEMMA SemaphoreQueues ==
  ASSUME SemaphoreInv, NEW w \in Waiters, NEW q \in {"parked", "last"}, NEW x \in Ancestors[Of[w]],
         Moves(w, q, x), UNCHANGED <<granted, holds, token>>, w \notin granted, w \notin holds, permits' = 0,
         queue' = IF Queued(w) THEN queue ELSE Append(queue, w)
  PROVE  SemaphoreOK'
<1>1. pc'[w] = q /\ \A v \in Waiters : v # w => pc'[v] = pc[v]
  BY MovesOne DEF SemaphoreInv, Places, Walks
<1>2. /\ granted \subseteq Waiters /\ holds \subseteq Waiters /\ queue \in Seq(Waiters)
      /\ \A i \in DOMAIN queue : queue[i] \in Waiters
  BY SMT DEF SemaphoreInv, BudgetInv, Typed
<1>3. q \in Waiting /\ q \notin Holding
  BY DEF Waiting, Subscribed, Holding
<1>4. /\ \A v \in granted : v \notin holds /\ pc'[v] \in Waiting
      /\ \A v \in holds : pc'[v] \in Holding \cup {"unsubscribe"}
      /\ \A v \in Waiters : pc'[v] \in Holding => v \in holds
      /\ \A v \in granted : pc'[v] \in {"last", "parked"} => token'[v]
  BY <1>1, <1>2, <1>3 DEF SemaphoreInv, SemaphoreOK
<1>5. \A i \in DOMAIN queue : queue[i] \notin granted \cup holds /\ pc'[queue[i]] \in Waiting
  BY <1>1, <1>2, <1>3 DEF SemaphoreInv, SemaphoreOK
<1>6. \A i \in DOMAIN queue' :
        \/ i \in DOMAIN queue /\ queue'[i] = queue[i]
        \/ ~ Queued(w) /\ i = Len(queue) + 1 /\ queue'[i] = w
  BY <1>2, SMT
<1>7. \A i \in DOMAIN queue' : queue'[i] \notin granted \cup holds /\ pc'[queue'[i]] \in Waiting
  BY <1>1, <1>3, <1>5, <1>6
<1>8. \A i, j \in DOMAIN queue' : queue'[i] = queue'[j] => i = j
  BY <1>6, SMT DEF SemaphoreInv, SemaphoreOK, Queued
<1> QED
  BY <1>4, <1>7, <1>8 DEF SemaphoreOK

(* A waiter that was given no permit leaves the queue. *)
LEMMA SemaphoreLeaves ==
  ASSUME SemaphoreInv, NEW w \in Waiters, pc[w] = "leave", NEW x \in Ancestors[Of[w]],
         NEW q \in {"done", "cancel"}, Moves(w, q, x), UNCHANGED <<permits, granted, holds, token>>, w \notin granted, Dequeue(w)
  PROVE  SemaphoreOK'
<1>1. pc'[w] = q /\ \A v \in Waiters : v # w => pc'[v] = pc[v]
  BY MovesOne DEF SemaphoreInv, Places
<1>2. /\ granted \subseteq Waiters /\ holds \subseteq Waiters /\ queue \in Seq(Waiters)
      /\ \A i \in DOMAIN queue : queue[i] \in Waiters
  BY SMT DEF SemaphoreInv, BudgetInv, Typed
<1>3. w \notin holds
  BY DEF SemaphoreInv, SemaphoreOK, Holding
<1>4. /\ \A v \in granted : v \notin holds /\ pc'[v] \in Waiting
      /\ \A v \in holds : pc'[v] \in Holding \cup {"unsubscribe"}
      /\ \A v \in Waiters : pc'[v] \in Holding => v \in holds
      /\ \A v \in granted : pc'[v] \in {"last", "parked"} => token'[v]
  BY <1>1, <1>2, <1>3 DEF SemaphoreInv, SemaphoreOK, Holding
<1>5. CASE ~ Queued(w) /\ UNCHANGED queue
  BY <1>1, <1>2, <1>4, <1>5 DEF SemaphoreInv, SemaphoreOK, Queued
<1>6. ASSUME NEW n \in DOMAIN queue, queue[n] = w, queue' = WithoutAt(queue, n)
      PROVE  SemaphoreOK'
  <2>1. \A i \in DOMAIN queue' : \E j \in DOMAIN queue :
          /\ j # n /\ queue'[i] = queue[j] /\ j = IF i < n THEN i ELSE i + 1
    BY <1>2, <1>6, WithoutTyped, SMT
  <2>2. \A i \in DOMAIN queue' : queue'[i] \notin granted \cup holds /\ pc'[queue'[i]] \in Waiting
    BY <1>1, <1>2, <1>6, <2>1, SMT DEF SemaphoreInv, SemaphoreOK
  <2>3. \A i \in DOMAIN queue' : i \in Nat
    BY <1>2, <1>6, WithoutTyped, SMT
  <2>4. \A i, j \in DOMAIN queue' : queue'[i] = queue'[j] => i = j
    <3> SUFFICES ASSUME NEW i \in DOMAIN queue', NEW j \in DOMAIN queue', queue'[i] = queue'[j]
                 PROVE  i = j
      OBVIOUS
    <3>1. PICK k \in DOMAIN queue : queue'[i] = queue[k] /\ k = IF i < n THEN i ELSE i + 1
      BY <2>1
    <3>2. PICK l \in DOMAIN queue : queue'[j] = queue[l] /\ l = IF j < n THEN j ELSE j + 1
      BY <2>1
    <3>3. k = l
      BY <3>1, <3>2 DEF SemaphoreInv, SemaphoreOK
    <3>4. n \in Nat
      BY <1>2, <1>6, SMT
    <3> QED
      BY <2>3, <3>1, <3>2, <3>3, <3>4, SMT
  <2>5. permits' = 0
    BY <1>2, <1>6, SMT DEF SemaphoreInv, SemaphoreOK
  <2> QED
    BY <1>4, <2>2, <2>4, <2>5 DEF SemaphoreOK
<1> QED
  BY <1>5, <1>6 DEF Dequeue

(* What a check may turn into, for one who holds a permit and one who does  *)
(* not.                                                                     *)
LEMMA CheckPlaces ==
  ASSUME SemaphoreInv, NEW w \in Waiters, pc[w] \in Walks, NEW q, q \in {Dead(w, pc[w]), Live(w, pc[w]), pc[w]}
  PROVE  /\ q \in Places
         /\ w \in holds => {Live(w, pc[w]), pc[w]} \subseteq Holding \cup {"unsubscribe"}
         /\ w \in holds => Dead(w, pc[w]) \in {"done", "unsubscribe"}
         /\ q \in Holding => w \in holds
         /\ pc[w] \in Waiting /\ w \notin holds => q \in Waiting
         /\ q \in {"last", "parked"} => pc[w] = "last"
<1>1. /\ w \in holds => pc[w] \in {"tried", "confirm"}
      /\ pc[w] \in {"tried", "confirm"} => w \in holds
  BY DEF SemaphoreInv, SemaphoreOK, Holding, Walks
<1> USE <1>1, DeadPlace, LivePlace DEF Places, Walks, Holding, Waiting, Subscribed
<1>2. CASE pc[w] \in {"check", "tried"}
  BY <1>2, SMT
<1>3. CASE pc[w] \in {"top", "poll"}
  BY <1>3, SMT
<1>4. CASE pc[w] \in {"recheck", "last"}
  BY <1>4, SMT
<1>5. CASE pc[w] = "confirm"
  BY <1>5
<1> QED
  BY <1>2, <1>3, <1>4, <1>5

LEMMA CheckSemaphore ==
  ASSUME SemaphoreInv, NEW w \in Waiters, Check(w)
  PROVE  SemaphoreOK'
<1>1. BudgetInv /\ pc[w] \in Walks /\ Of[w] \in Ancestors[Of[w]] /\ granted \in SUBSET granted
  BY CheckCases, AncestorSets, ReadBudgetAssumption DEF SemaphoreInv
<1>2. CASE w \in holds /\ Moves(w, Dead(w, pc[w]), Of[w]) /\ holds' = holds \ {w} /\ Release(granted)
  <2>1. Dead(w, pc[w]) \in {"done", "unsubscribe"}
    BY <1>1, <1>2, CheckPlaces
  <2>2. w \notin granted
    BY <1>2, Unknown
  <2> QED
    BY <1>1, <1>2, <2>1, <2>2, SemaphoreReleases
<1>3. ASSUME UNCHANGED <<holds, semaphore, token>>, NEW x \in Ancestors[Of[w]],
             NEW q \in {Dead(w, pc[w]), Live(w, pc[w]), pc[w]}, Moves(w, q, x),
             w \in holds => q \in Holding \cup {"unsubscribe"}
      PROVE  SemaphoreOK'
  <2>1. UNCHANGED <<permits, queue, granted, holds, token>>
    BY <1>3 DEF semaphore
  <2>2. /\ q \in Places /\ (q \in Holding => w \in holds)
        /\ (pc[w] \in Waiting /\ w \notin holds => q \in Waiting)
        /\ (q \in {"last", "parked"} => pc[w] = "last")
    BY <1>1, <1>3, CheckPlaces
  <2> QED
    BY <1>3, <2>1, <2>2, SemaphoreMoves
<1>4. w \in holds => {Live(w, pc[w]), pc[w]} \subseteq Holding \cup {"unsubscribe"}
  BY <1>1, CheckPlaces
<1>5. CASE Expired(at[w])
  BY <1>1, <1>2, <1>3, <1>5, CheckCases
<1>6. CASE ~ Expired(at[w])
  BY <1>1, <1>3, <1>4, <1>6, CheckCases
<1> QED
  BY <1>5, <1>6

LEMMA WaiterSemaphore ==
  ASSUME SemaphoreInv, NEW w \in Waiters, WaiterActs(w)
  PROVE  SemaphoreOK'
<1>1. BudgetInv /\ Of[w] \in Ancestors[Of[w]] /\ SemaphoreOK
  BY AncestorSets, ReadBudgetAssumption DEF SemaphoreInv
<1>2. /\ pc[w] \notin Holding \cup {"unsubscribe"} => w \notin holds
      /\ pc[w] \in Holding => w \in holds
  BY <1>1 DEF SemaphoreOK
<1> USE DEF Holding, Waiting, Subscribed
<1>3. CASE Install(w) \/ Timer(w) \/ Resume(w) \/ Abandon(w)
  <2>1. PICK q \in {"recheck", "acquire", "unsubscribe", "poll", "top"} : Moves(w, q, Of[w])
    BY <1>1, <1>3, StepCases
  <2>2. q \in Places
    BY DEF Places, Walks
  <2>3. UNCHANGED <<permits, queue, granted, holds>>
    BY <1>3 DEF Install, Timer, Resume, Abandon, semaphore
  <2>4. w \notin holds
    BY <1>2, <1>3 DEF Install, Timer, Resume, Abandon
  <2>5. \A v \in Waiters : token[v] => token'[v] \/ v = w
    BY <1>1, <1>3 DEF Install, Timer, Resume, Abandon, BudgetInv, Typed
  <2> QED
    BY <1>1, <2>1, <2>2, <2>3, <2>4, <2>5, SemaphoreMoves
<1>4. CASE TryAdmit(w)
  <2>1. pc[w] = "try" /\ ~ Queued(w) /\ w \notin granted /\ w \notin holds
    BY <1>2, <1>4, Unknown DEF TryAdmit
  <2>2. CASE Take(w) /\ Go(w, "tried")
    <3>1. /\ UNCHANGED <<queue, token>> /\ granted' = granted \ {w} /\ holds' = holds \cup {w}
          /\ queue = << >>
      BY <1>1, <1>4, <2>1, <2>2, SMT DEF TryAdmit, Take, SemaphoreOK, BudgetInv, Typed
    <3>2. Moves(w, "tried", Of[w])
      BY <2>2 DEF Go, Moves
    <3> QED
      BY <1>1, <2>1, <3>1, <3>2, SemaphoreTakes
  <2>3. CASE permits = 0 /\ Go(w, "subscribe") /\ UNCHANGED <<permits, holds>>
    <3>1. UNCHANGED <<permits, queue, granted, holds, token>> /\ Moves(w, "subscribe", Of[w])
      BY <1>4, <2>3 DEF TryAdmit, Go, Moves
    <3>2. "subscribe" \in Places
      BY DEF Places
    <3> QED
      BY <1>1, <2>1, <3>1, <3>2, SemaphoreMoves
  <2> QED
    BY <1>4, <2>2, <2>3 DEF TryAdmit
<1>5. CASE Subscribe(w)
  <2>1. /\ pc[w] = "subscribe" /\ w \notin holds
        /\ UNCHANGED <<permits, queue, granted, holds, token>>
    BY <1>2, <1>5 DEF Subscribe, semaphore
  <2>2. PICK q \in {"poll", "top", "subscribe"}, x \in Ancestors[Of[w]] : Moves(w, q, x)
    BY <1>1, <1>5, StepCases
  <2>3. q \in Places
    BY DEF Places, Walks
  <2> QED
    BY <2>1, <2>2, <2>3, SemaphoreMoves
<1>6. CASE Acquire(w)
  <2>1. pc[w] = "acquire" /\ w \notin holds /\ UNCHANGED token
    BY <1>2, <1>6 DEF Acquire
  <2>2. CASE w \in granted
    <3>1. ~ Queued(w)
      BY <1>1, <2>2, SMT DEF SemaphoreOK, Queued
    <3>2. /\ granted' = granted \ {w} /\ holds' = holds \cup {w} /\ UNCHANGED <<permits, queue>>
          /\ \E q \in {"unsubscribe", "confirm"} : Moves(w, q, Of[w])
      BY <1>6, <2>2 DEF Acquire, Go, Moves
    <3> QED
      BY <1>1, <2>1, <3>1, <3>2, SemaphoreTakes DEF SemaphoreOK
  <2>3. CASE w \notin granted /\ Take(w)
    <3>1. queue = << >>
      BY <1>1, <2>3, SMT DEF SemaphoreOK, Take
    <3>2. ~ Queued(w) /\ granted' = granted \ {w} /\ holds' = holds \cup {w} /\ UNCHANGED queue
      BY <1>6, <2>3, <3>1, SMT DEF Acquire, Take, Queued
    <3>3. \E q \in {"unsubscribe", "confirm"} : Moves(w, q, Of[w])
      BY <1>6, <2>3, SMT DEF Acquire, Take, Go, Moves
    <3> QED
      BY <1>1, <2>1, <3>1, <3>2, <3>3, SemaphoreTakes
  <2>4. CASE w \notin granted /\ permits = 0
    <3>1. /\ permits' = 0 /\ UNCHANGED <<granted, holds>>
          /\ queue' = IF Queued(w) THEN queue ELSE Append(queue, w)
          /\ \E q \in {"parked", "last"} : Moves(w, q, Of[w])
      BY <1>6, <2>4, SMT DEF Acquire, Take, Go, Moves
    <3> QED
      BY <1>1, <2>1, <2>4, <3>1, SemaphoreQueues
  <2> QED
    BY <1>6, <2>2, <2>3, <2>4 DEF Acquire
<1>7. CASE Unsubscribe(w)
  <2>1. /\ pc[w] = "unsubscribe" /\ UNCHANGED <<permits, queue, granted, holds, token>>
    BY <1>7 DEF Unsubscribe, semaphore
  <2>2. PICK q \in Places, x \in Ancestors[Of[w]] :
          /\ Moves(w, q, x)
          /\ q = "unsubscribe" \/ (w \notin holds /\ q = "leave") \/ (w \in holds /\ q \in {"tried", "held"})
    <3>1. {"unsubscribe", "leave", "tried", "held"} \subseteq Places
      BY DEF Places, Walks
    <3> QED
      BY <1>1, <1>7, <3>1, StepCases
  <2> QED
    BY <2>1, <2>2, SemaphoreMoves
<1>8. CASE Leave(w)
  <2>1. pc[w] = "leave" /\ holds' = holds /\ \E q \in {"done", "cancel"} : Moves(w, q, Of[w])
    BY <1>1, <1>8, StepCases DEF Leave
  <2>2. CASE w \in granted
    <3>1. Release(granted \ {w}) /\ granted \ {w} \in SUBSET granted
      BY <1>8, <2>2 DEF Leave
    <3> QED
      BY <1>1, <2>1, <2>2, <3>1, SemaphoreReleases
  <2>3. CASE w \notin granted
    <3>1. Dequeue(w) /\ UNCHANGED <<permits, granted, token>>
      BY <1>8, <2>3 DEF Leave
    <3> QED
      BY <1>1, <2>1, <2>3, <3>1, SemaphoreLeaves
  <2> QED
    BY <2>2, <2>3
<1>9. CASE DropPermit(w)
  <2>1. /\ w \in holds /\ holds' = holds \ {w} /\ Release(granted) /\ Moves(w, "done", Of[w])
    BY <1>1, <1>2, <1>9, StepCases DEF DropPermit
  <2>2. w \notin granted /\ granted \in SUBSET granted
    BY <2>1, Unknown
  <2> QED
    BY <1>1, <2>1, <2>2, SemaphoreReleases
<1>10. CASE Start(w)
  <2>1. /\ pc[w] = "idle" /\ w \notin holds /\ Moves(w, "check", Of[w])
        /\ UNCHANGED <<permits, queue, granted, holds, token>>
    BY <1>1, <1>2, <1>10, StepCases DEF Start, semaphore
  <2>2. "check" \in Places
    BY DEF Places, Walks
  <2> QED
    BY <1>1, <2>1, <2>2, SemaphoreMoves
<1>11. CASE TimerCancels(w) \/ TimerCancelled(w)
  <2>1. pc[w] = "cancel" /\ w \notin holds /\ UNCHANGED <<permits, queue, granted, holds, token>>
    BY <1>2, <1>11 DEF TimerCancels, TimerCancelled, semaphore
  <2>2. PICK q \in {"cancel", "done"}, x \in Ancestors[Of[w]] : Moves(w, q, x)
    BY <1>1, <1>11, StepCases
  <2>3. q \in Places
    BY DEF Places
  <2> QED
    BY <2>1, <2>2, <2>3, SemaphoreMoves
<1> QED
  BY <1>3, <1>4, <1>5, <1>6, <1>7, <1>8, <1>9, <1>10, <1>11, CheckSemaphore DEF WaiterActs, WaiterStep

(* Cancels and deadlines only wake. *)
LEMMA CancelSemaphore ==
  ASSUME SemaphoreInv, (\E a \in Actors : CancelStep(a) \/ \E b \in Budgets : Cancel(a, b))
                       \/ \E b \in Budgets : Expire(b)
  PROVE  SemaphoreOK'
<1>1. UNCHANGED <<pc, permits, queue, granted, holds>>
  BY DEF CancelStep, TakeList, WakeOne, Cancel, Expire, semaphore
<1>2. \A v \in Waiters : token[v] => token'[v]
  <2>1. token \in [Waiters -> BOOLEAN] /\ BudgetInv
    BY DEF SemaphoreInv, BudgetInv, Typed
  <2>2. ASSUME NEW a \in Actors, WakeOne(a) PROVE \A v \in Waiters : token[v] => token'[v]
    <3>1. PICK w \in Waiters : token' = [token EXCEPT ![w] = token[w] \/ waker[w]]
      BY <2>1, <2>2, WakeOneEffect
    <3> QED
      BY <2>1, <3>1
  <2>3. UNCHANGED token \/ \E a \in Actors : WakeOne(a)
    BY DEF CancelStep, TakeList, Cancel, Expire
  <2> QED
    BY <2>2, <2>3
<1>3. granted \subseteq Waiters
  BY DEF SemaphoreInv, BudgetInv, Typed
<1> QED
  BY <1>1, <1>2, <1>3 DEF SemaphoreInv, SemaphoreOK

(* Nobody else touches the call of a waiter, and it is made once. *)
LEMMA WaiterCalls ==
  ASSUME SemaphoreInv, NEW w \in Waiters, WaiterActs(w)
  PROVE  OwnCalls'
<1>1. BudgetInv /\ OwnCalls /\ Async \subseteq Waiters /\ Async \subseteq Actors /\ SemaphoreOK
  BY ReadBudgetAssumption DEF SemaphoreInv, Actors
<1>2. PICK q \in Places, x \in Ancestors[Of[w]] : Moves(w, q, x)
  BY <1>1, StepMoves
<1>3. pc'[w] = q /\ \A v \in Waiters : v # w => pc'[v] = pc[v]
  BY <1>1, <1>2, MovesOne
<1>4. \A v \in holds' : v # w => v \in holds
  BY DEF WaiterActs, WaiterStep, Start, Check, TryAdmit, Take, Subscribe, Install, Timer, TimerCancels,
         TimerCancelled, Acquire, Resume, Unsubscribe, Leave, Abandon, DropPermit
<1>5. \A v \in Async : v # w => call'[v] = call[v]
  <2>1. CASE Timer(w)
    BY <1>1, <2>1, TimerTyped
  <2>2. CASE TimerCancels(w)
    BY <1>1, <2>2 DEF TimerCancels, Store, BudgetInv, Typed
  <2>3. CASE ~ Timer(w) /\ ~ TimerCancels(w)
    BY <2>3 DEF WaiterActs, WaiterStep, Start, Check, TryAdmit, Subscribe, Install,
                TimerCancelled, Acquire, Resume, Unsubscribe, Leave, Abandon, DropPermit
  <2> QED
    BY <2>1, <2>2, <2>3
<1>6. ASSUME w \in Async, call'[w].stage # "none"
      PROVE  pc'[w] \in {"unsubscribe", "leave", "cancel", "done"} /\ w \notin holds'
  <2>1. CASE Timer(w) /\ call' # call
    <3>1. pc'[w] = "unsubscribe"
      BY <1>1, <2>1, TimerTyped
    <3> QED
      BY <1>1, <2>1, <3>1 DEF Timer, SemaphoreOK, Holding
  <2>2. CASE TimerCancels(w)
    BY <1>1, <2>2 DEF TimerCancels, SemaphoreOK, Holding
  <2>3. CASE ~ TimerCancels(w) /\ call' = call
    <3>1. pc[w] \in {"unsubscribe", "leave", "cancel", "done"} /\ w \notin holds
      BY <1>1, <1>6, <2>3 DEF OwnCalls
    <3>2. Unsubscribe(w) \/ Leave(w) \/ TimerCancelled(w)
      BY <2>3, <3>1 DEF WaiterActs, WaiterStep, Start, Check, Walks, TryAdmit, Subscribe, Install, Timer,
                        Acquire, Resume, Abandon, DropPermit
    <3>3. \E p \in {"unsubscribe", "leave", "cancel", "done"}, y \in Ancestors[Of[w]] : Moves(w, p, y)
      BY <1>1, <3>1, <3>2, StepCases, AncestorSets, ReadBudgetAssumption
    <3>4. {"unsubscribe", "leave", "cancel", "done"} \subseteq Places
      BY DEF Places
    <3>5. pc'[w] \in {"unsubscribe", "leave", "cancel", "done"}
      BY <1>1, <3>3, <3>4, MovesOne
    <3> QED
      BY <3>1, <3>2, <3>5 DEF Unsubscribe, Leave, TimerCancelled
  <2>4. Timer(w) \/ TimerCancels(w) \/ call' = call
    BY DEF WaiterActs, WaiterStep, Start, Check, TryAdmit, Subscribe, Install,
           TimerCancelled, Acquire, Resume, Unsubscribe, Leave, Abandon, DropPermit
  <2> QED
    BY <2>1, <2>2, <2>3, <2>4
<1> QED
  BY <1>1, <1>3, <1>4, <1>5, <1>6 DEF OwnCalls

LEMMA CancelCalls ==
  ASSUME SemaphoreInv, (\E a \in Actors : CancelStep(a) \/ \E b \in Budgets : Cancel(a, b))
                       \/ \E b \in Budgets : Expire(b)
  PROVE  OwnCalls'
<1>1. BudgetInv /\ OwnCalls /\ Async \subseteq Actors /\ UNCHANGED <<pc, holds>>
  BY DEF SemaphoreInv, Actors, CancelStep, TakeList, WakeOne, Cancel, Expire
<1>2. ASSUME NEW a \in Actors, TakeList(a) \/ WakeOne(a)
      PROVE  call[a].stage # "none" /\ \A c \in Actors : c # a => call'[c] = call[c]
  BY <1>1, <1>2, TakeListEffect, WakeOneEffect DEF TakeList, WakeOne
<1>3. ASSUME NEW a \in Actors, NEW b \in Budgets, Cancel(a, b)
      PROVE  \A c \in Async : call'[c] = call[c]
  <2>1. a \notin Async
    BY <1>3, ReadBudgetAssumption DEF Cancel
  <2>2. \A c \in Actors : c # a => call'[c] = call[c]
    BY <1>1, <1>3, StoreTyped DEF Cancel
  <2> QED
    BY <1>1, <2>1, <2>2
<1>4. ASSUME NEW b \in Budgets, Expire(b) PROVE UNCHANGED call
  BY <1>4 DEF Expire
<1> QED
  BY <1>1, <1>2, <1>3, <1>4 DEF OwnCalls, CancelStep

LEMMA SemaphoreStep == SemaphoreInv /\ [Next]_vars => SemaphoreInv'
<1> SUFFICES ASSUME SemaphoreInv, [Next]_vars PROVE SemaphoreInv'
  OBVIOUS
<1>1. CASE UNCHANGED vars
  BY <1>1 DEF vars, semaphore, SemaphoreInv, SemaphoreOK, OwnCalls, BudgetInv, Typed, Climbing, Callers
<1>2. ASSUME NEW w \in Waiters, WaiterActs(w) PROVE SemaphoreInv'
  BY <1>2, WaiterTyped, WaiterSemaphore, WaiterCalls DEF SemaphoreInv
<1>3. CASE (\E a \in Actors : CancelStep(a) \/ \E b \in Budgets : Cancel(a, b))
           \/ \E b \in Budgets : Expire(b)
  BY <1>3, CancelTyped, CancelSemaphore, CancelCalls DEF SemaphoreInv
<1> QED
  BY <1>1, <1>2, <1>3 DEF Next, WaiterActs

LEMMA SemaphoreInit == Init => SemaphoreInv
<1> SUFFICES ASSUME Init PROVE SemaphoreInv
  OBVIOUS
<1>1. Climbing
  BY AncestorSets, ReadBudgetAssumption DEF Init, Climbing
<1>2. \A a \in Actors : call[a] = [budget |-> None, taken |-> {}, stage |-> "none"]
  BY DEF Init
<1>3. Callers
  BY <1>2, SMT DEF Callers
<1>4. call \in [Actors -> Call]
  <2>1. [budget |-> None, taken |-> {}, stage |-> "none"] \in Call
    BY DEF Call
  <2> QED
    BY <2>1 DEF Init
<1>5. waker \in [Waiters -> BOOLEAN] /\ token \in [Waiters -> BOOLEAN]
  BY DEF Init
<1>6. /\ cancelled \subseteq Budgets /\ late \subseteq Timed /\ list \in [Budgets -> SUBSET Waiters]
      /\ at \in [Waiters -> Budgets] /\ permits \in Nat /\ queue \in Seq(Waiters)
      /\ granted \subseteq Waiters /\ holds \subseteq Waiters
  BY ReadBudgetAssumption, SMT DEF Init
<1>7. pc \in [Waiters -> Places] /\ \A w \in Waiters : pc[w] = "idle"
  BY DEF Init, Places
<1>8. SemaphoreOK
  BY <1>7, SMT DEF Init, SemaphoreOK, Holding
<1>9. OwnCalls
  BY <1>2, SMT DEF OwnCalls, Actors
<1> QED
  BY <1>1, <1>3, <1>4, <1>5, <1>6, <1>7, <1>8, <1>9 DEF SemaphoreInv, BudgetInv, Typed

-----------------------------------------------------------------------------
(* Subscriptions, and the way a cancel reaches a waiter. *)

Listed == Subscribed \cup {"subscribe", "unsubscribe"}

(* A waiter is in lists of its ancestors only while it waits, and leaving,  *)
(* only in those it has yet to visit.                                       *)
ListsOK(w) ==
  \A b \in Budgets : w \in list[b] =>
    b \in Ancestors[Of[w]] /\ pc[w] \in Listed /\ (pc[w] = "unsubscribe" => b \in Ancestors[at[w]])

(* It is in the list of every ancestor not cancelled; subscribing, of those *)
(* it has visited.                                                          *)
ReachOK(w) ==
  /\ pc[w] \in Subscribed => \A b \in Ancestors[Of[w]] \ cancelled : w \in list[b]
  /\ pc[w] = "subscribe" =>
       \A b \in Ancestors[Of[w]] \ cancelled : b \notin Ancestors[at[w]] => w \in list[b]

(* Somebody who cancelled b has the waiter still to wake. *)
OnTheWay(w, b) ==
  \E a \in Actors :
    /\ call[a].budget = b
    /\ w \in IF call[a].stage = "take" THEN list[b] ELSE call[a].taken

(* A thread whose next check fails. *)
Doomed(w) ==
  pc[w] \in {"acquire", "last"} /\ w \notin Async /\ \E b \in Ancestors[at[w]] : Expired(b)

(* Has the waiter found b live since it installed its waker? *)
Seen(w, b) ==
  \/ pc[w] \in {"recheck", "last"} /\ b \notin Ancestors[at[w]]
  \/ pc[w] = "parked" \/ (w \in Async /\ pc[w] \in {"timer", "acquire"})

Arming == {"recheck", "timer", "acquire", "last", "parked"}

(* Between the installation of its waker and its sleep a waiter has a wake  *)
(* to find, or a check that fails, or its waker is in place and whoever     *)
(* cancelled an ancestor after it was found live is on the way.             *)
ArmedOK(w) ==
  /\ pc[w] \in {"timer", "cancel"} => w \in Async
  /\ pc[w] \in Arming =>
       \/ token[w] \/ Doomed(w)
       \/ waker[w] /\ \A b \in Ancestors[Of[w]] \cap cancelled : Seen(w, b) => OnTheWay(w, b)

WaitOK(w) == ListsOK(w) /\ ReachOK(w) /\ ArmedOK(w)
WaitInv == SemaphoreInv /\ \A w \in Waiters : WaitOK(w)

(* Steps of others. *)
LEMMA OthersKept ==
  ASSUME WaitInv, NEW v \in Waiters, UNCHANGED cancelled, late \subseteq late',
         \A a \in Actors : call[a].budget # None => call'[a] = call[a],
         pc'[v] = pc[v], at'[v] = at[v], waker'[v] = waker[v], token[v] => token'[v],
         \A b \in Budgets : v \in list'[b] <=> v \in list[b]
  PROVE  WaitOK(v)'
<1>1. Of[v] \in Budgets /\ Ancestors[Of[v]] \subseteq Budgets
  BY AncestorSets, ReadBudgetAssumption
<1>2. ListsOK(v) /\ ReachOK(v) /\ ArmedOK(v)
  BY DEF WaitInv, WaitOK
<1>3. ListsOK(v)'
  BY <1>2 DEF ListsOK
<1>4. ReachOK(v)'
  BY <1>1, <1>2 DEF ReachOK
<1>5. Doomed(v) => Doomed(v)'
  BY DEF Doomed, Expired
<1>6. \A b \in Budgets : OnTheWay(v, b) => OnTheWay(v, b)'
  BY ReadBudgetAssumption DEF OnTheWay
<1>7. \A b : Seen(v, b)' <=> Seen(v, b)
  BY DEF Seen
<1>8. ArmedOK(v)'
  BY <1>1, <1>2, <1>5, <1>6, <1>7 DEF ArmedOK
<1> QED
  BY <1>3, <1>4, <1>8 DEF WaitOK

(* The flag of b is stored: whoever has seen b live is in its list, which   *)
(* is about to be taken.                                                    *)
LEMMA StoreWaits ==
  ASSUME WaitInv, NEW a \in Actors, NEW b \in Budgets, Store(a, b), call[a].stage \in {"none", "due"},
         NEW v \in Waiters,
         UNCHANGED <<list, late>>,
         pc'[v] = pc[v], at'[v] = at[v], waker'[v] = waker[v], token'[v] = token[v]
  PROVE  WaitOK(v)'
<1>1. Of[v] \in Budgets /\ Ancestors[Of[v]] \subseteq Budgets
  BY AncestorSets, ReadBudgetAssumption
<1>2. ListsOK(v) /\ ReachOK(v) /\ ArmedOK(v) /\ BudgetInv
  BY DEF WaitInv, WaitOK, SemaphoreInv
<1>3. /\ cancelled' = cancelled \cup {b} /\ call'[a].budget = b /\ call'[a].stage = "take"
      /\ call[a].budget = None /\ \A c \in Actors : c # a => call'[c] = call[c]
  BY <1>2, StoreTyped DEF Store
<1>4. ListsOK(v)' /\ ReachOK(v)'
  BY <1>2, <1>3 DEF ListsOK, ReachOK
<1>5. Doomed(v) => Doomed(v)'
  BY <1>3 DEF Doomed, Expired
<1>6. \A d \in Budgets : OnTheWay(v, d) => OnTheWay(v, d)'
  BY <1>3, ReadBudgetAssumption DEF OnTheWay
<1>7. b \in Ancestors[Of[v]] \ cancelled /\ pc[v] \in Arming => OnTheWay(v, b)'
  <2>1. Arming \subseteq Subscribed
    BY DEF Arming, Subscribed
  <2>2. b \in Ancestors[Of[v]] \ cancelled /\ pc[v] \in Arming => v \in list[b]
    BY <1>2, <2>1 DEF ReachOK
  <2> QED
    BY <1>3, <2>2 DEF OnTheWay
<1>8. \A d : Seen(v, d)' <=> Seen(v, d)
  BY DEF Seen
<1>9. ArmedOK(v)'
  BY <1>1, <1>2, <1>3, <1>5, <1>6, <1>7, <1>8 DEF ArmedOK
<1> QED
  BY <1>4, <1>9 DEF WaitOK

(* The list is taken: whoever is in it is woken by the one who took it. *)
LEMMA TakeListWaits ==
  ASSUME WaitInv, NEW a \in Actors, TakeList(a), NEW v \in Waiters
  PROVE  WaitOK(v)'
<1>1. Of[v] \in Budgets /\ Ancestors[Of[v]] \subseteq Budgets
  BY AncestorSets, ReadBudgetAssumption
<1>2. ListsOK(v) /\ ReachOK(v) /\ ArmedOK(v) /\ BudgetInv
  BY DEF WaitInv, WaitOK, SemaphoreInv
<1>3. UNCHANGED <<cancelled, late, pc, at, waker, token>>
  BY DEF TakeList
<1>4. PICK b : b = call[a].budget
  OBVIOUS
<1>5. /\ b \in cancelled /\ b \in Budgets
      /\ call'[a].budget = b /\ call'[a].taken = list[b] /\ call'[a].stage \in {"wake", "end"}
      /\ \A c \in Actors : c # a => call'[c] = call[c]
      /\ list'[b] = {} /\ \A d \in Budgets : d # b => list'[d] = list[d]
  BY <1>2, <1>4, TakeListEffect, SMT
<1>6. ListsOK(v)'
  BY <1>2, <1>3, <1>5 DEF ListsOK
<1>7. ReachOK(v)'
  BY <1>1, <1>2, <1>3, <1>5 DEF ReachOK
<1>8. (Doomed(v)' <=> Doomed(v)) /\ \A d : Seen(v, d)' <=> Seen(v, d)
  BY <1>3 DEF Doomed, Expired, Seen
<1>9. ASSUME NEW d \in Budgets, OnTheWay(v, d) PROVE OnTheWay(v, d)'
  <2>1. PICK c \in Actors : /\ call[c].budget = d
                            /\ v \in IF call[c].stage = "take" THEN list[d] ELSE call[c].taken
    BY <1>9 DEF OnTheWay
  <2>2. CASE d = b /\ v \in list[d]
    BY <1>5, <2>2 DEF OnTheWay
  <2>3. CASE ~ (d = b /\ v \in list[d])
    <3>1. call[a].stage = "take"
      BY DEF TakeList
    <3>2. c # a
      BY <1>4, <2>1, <2>3, <3>1
    <3>3. d = b => call[c].stage # "take"
      BY <2>1, <2>3
    <3>4. v \in IF call'[c].stage = "take" THEN list'[d] ELSE call'[c].taken
      BY <1>5, <2>1, <3>2, <3>3
    <3> QED
      BY <1>5, <2>1, <3>2, <3>4 DEF OnTheWay
  <2> QED
    BY <2>2, <2>3
<1>10. ArmedOK(v)'
  BY <1>1, <1>2, <1>3, <1>8, <1>9 DEF ArmedOK
<1> QED
  BY <1>6, <1>7, <1>10 DEF WaitOK

(* A waker is taken from its slot and woken. *)
LEMMA WakeOneWaits ==
  ASSUME WaitInv, NEW a \in Actors, WakeOne(a), NEW v \in Waiters
  PROVE  WaitOK(v)'
<1>1. Of[v] \in Budgets /\ Ancestors[Of[v]] \subseteq Budgets
  BY AncestorSets, ReadBudgetAssumption
<1>2. /\ ListsOK(v) /\ ReachOK(v) /\ ArmedOK(v) /\ BudgetInv
      /\ token \in [Waiters -> BOOLEAN] /\ waker \in [Waiters -> BOOLEAN]
  BY DEF WaitInv, WaitOK, SemaphoreInv, BudgetInv, Typed
<1>3. UNCHANGED <<cancelled, late, list, pc, at>>
  BY DEF WakeOne
<1>4. PICK w \in Waiters :
        /\ call'[a].budget = call[a].budget /\ call'[a].taken = call[a].taken \ {w}
        /\ call'[a].stage \in {"wake", "end"} /\ call[a].stage = "wake"
        /\ token' = [token EXCEPT ![w] = token[w] \/ waker[w]]
        /\ waker' = [waker EXCEPT ![w] = FALSE]
  BY <1>2, WakeOneEffect
<1>5. \A c \in Actors : c # a => call'[c] = call[c]
  BY <1>2, WakeOneEffect
<1>6. ListsOK(v)' /\ ReachOK(v)'
  BY <1>2, <1>3 DEF ListsOK, ReachOK
<1>7. (Doomed(v)' <=> Doomed(v)) /\ \A d : Seen(v, d)' <=> Seen(v, d)
  BY <1>3 DEF Doomed, Expired, Seen
<1>8. CASE v = w
  <2>1. token[v] \/ waker[v] => token'[v]
    BY <1>2, <1>4, <1>8
  <2> QED
    BY <1>2, <1>3, <1>6, <1>7, <2>1 DEF ArmedOK, WaitOK
<1>9. CASE v # w
  <2>1. token'[v] = token[v] /\ waker'[v] = waker[v]
    BY <1>2, <1>4, <1>9
  <2>2. \A d : OnTheWay(v, d) => OnTheWay(v, d)'
    BY <1>3, <1>4, <1>5, <1>9 DEF OnTheWay
  <2>3. ArmedOK(v)'
    BY <1>2, <1>3, <1>7, <2>1, <2>2 DEF ArmedOK
  <2> QED
    BY <1>6, <2>3 DEF WaitOK
<1> QED
  BY <1>8, <1>9

(* A cancel and a deadline keep the waits. *)
LEMMA CancelWaits ==
  ASSUME WaitInv, (\E a \in Actors : CancelStep(a) \/ \E b \in Budgets : Cancel(a, b))
                  \/ \E b \in Budgets : Expire(b)
  PROVE  \A v \in Waiters : WaitOK(v)'
<1> SUFFICES ASSUME NEW v \in Waiters PROVE WaitOK(v)'
  OBVIOUS
<1>1. ASSUME NEW a \in Actors, CancelStep(a) PROVE WaitOK(v)'
  BY <1>1, TakeListWaits, WakeOneWaits DEF CancelStep
<1>2. ASSUME NEW a \in Actors, NEW b \in Budgets, Cancel(a, b) PROVE WaitOK(v)'
  <2>1. Store(a, b) /\ call[a].stage = "none" /\ UNCHANGED <<list, late, pc, at, waker, token>>
    BY <1>2 DEF Cancel
  <2> QED
    BY <2>1, StoreWaits
<1>3. ASSUME NEW b \in Budgets, Expire(b) PROVE WaitOK(v)'
  <2>1. UNCHANGED <<cancelled, list, pc, at, waker, token, call>> /\ late \subseteq late'
    BY <1>3 DEF Expire
  <2> QED
    BY <2>1, OthersKept
<1> QED
  BY <1>1, <1>2, <1>3

(* Steps of a waiter that touch no list. *)
LEMMA MoveWaits ==
  ASSUME WaitInv, NEW w \in Waiters, NEW q \in Places, NEW x \in Ancestors[Of[w]], Moves(w, q, x),
         UNCHANGED <<cancelled, late, list, waker>>,
         \A a \in Actors : call[a].budget # None => call'[a] = call[a],
         \A v \in Waiters : v # w /\ token[v] => token'[v],
         pc[w] \in Listed => pc[w] # "unsubscribe" /\ q \in Listed,
         q \in Subscribed => pc[w] \in Subscribed,
         q \in {"subscribe", "unsubscribe"} => x = Of[w], ArmedOK(w)'
  PROVE  \A v \in Waiters : WaitOK(v)'
<1>1. BudgetInv /\ ListsOK(w) /\ ReachOK(w)
  BY DEF WaitInv, WaitOK, SemaphoreInv
<1>2. pc'[w] = q /\ at'[w] = x /\ \A v \in Waiters : v # w => pc'[v] = pc[v] /\ at'[v] = at[v]
  BY <1>1, MovesOne
<1>3. ListsOK(w)'
  BY <1>1, <1>2 DEF ListsOK
<1>4. "subscribe" \notin Subscribed /\ \A b \in Ancestors[Of[w]] : q = "subscribe" => b \in Ancestors[x]
  BY DEF Subscribed
<1>5. ReachOK(w)'
  BY <1>1, <1>2, <1>4 DEF ReachOK
<1>6. ASSUME NEW v \in Waiters, v # w PROVE WaitOK(v)'
  BY <1>2, <1>6, OthersKept
<1> QED
  BY <1>3, <1>5, <1>6 DEF WaitOK

(* What a check shows. *)
LEMMA CheckArmed ==
  ASSUME WaitInv, NEW w \in Waiters, Check(w)
  PROVE  ArmedOK(w)'
<1>1. SemaphoreInv /\ BudgetInv /\ ArmedOK(w) /\ Of[w] \in Budgets /\ Of[w] \in Ancestors[Of[w]]
  BY AncestorSets, ReadBudgetAssumption DEF WaitInv, WaitOK, SemaphoreInv
<1>2. /\ pc[w] \in Walks /\ at[w] \in Budgets /\ at[w] \in Ancestors[Of[w]]
      /\ UNCHANGED <<cancelled, late, list, waker, call>>
  BY <1>1, CheckCases
<1>3. pc[w] \in {"poll", "recheck", "last"} => w \notin holds
  BY <1>1 DEF SemaphoreInv, SemaphoreOK, Holding
<1>4. \A b : OnTheWay(w, b)' <=> OnTheWay(w, b)
  BY <1>2 DEF OnTheWay
<1>5. CASE Expired(at[w])
  <2>1. Moves(w, Dead(w, pc[w]), Of[w])
    BY <1>1, <1>5, CheckCases
  <2>2. Dead(w, pc[w]) \in Places
    BY <1>1, <1>2, CheckPlaces
  <2>3. pc'[w] = Dead(w, pc[w]) /\ at'[w] = Of[w]
    BY <1>1, <2>1, <2>2, MovesOne
  <2>4. pc'[w] \in {"done", "unsubscribe"} \/ (pc'[w] = "acquire" /\ w \notin Async)
    BY <1>2, <2>3, DeadPlace DEF Walks
  <2>5. pc'[w] = "acquire" => Doomed(w)'
    BY <1>2, <1>5, <2>3, <2>4 DEF Doomed, Expired
  <2> QED
    BY <2>4, <2>5 DEF ArmedOK, Arming
<1>6. ASSUME ~ Expired(at[w]), Parent[at[w]] # None PROVE ArmedOK(w)'
  <2>1. Moves(w, pc[w], Parent[at[w]]) /\ Parent[at[w]] \in Ancestors[Of[w]] /\ UNCHANGED token
    BY <1>1, <1>6, CheckCases
  <2>2. pc[w] \in Places
    BY <1>1 DEF BudgetInv, Typed
  <2>3. pc'[w] = pc[w] /\ at'[w] = Parent[at[w]]
    BY <1>1, <2>1, <2>2, MovesOne, SMT
  <2>4. Ancestors[at[w]] = {at[w]} \cup Ancestors[at'[w]]
    BY <1>2, <1>6, <2>3, AncestorSets
  <2>5. Doomed(w) => Doomed(w)'
    BY <1>2, <1>6, <2>3, <2>4 DEF Doomed, Expired
  <2>6. \A b \in cancelled : Seen(w, b)' => Seen(w, b)
    BY <1>6, <2>3, <2>4 DEF Seen, Expired
  <2> QED
    BY <1>1, <1>2, <1>4, <2>1, <2>3, <2>5, <2>6 DEF ArmedOK
<1>7. ASSUME ~ Expired(at[w]), Parent[at[w]] = None PROVE ArmedOK(w)'
  <2>1. Moves(w, Live(w, pc[w]), Of[w]) /\ UNCHANGED token
    BY <1>1, <1>7, CheckCases
  <2>2. Live(w, pc[w]) \in Places
    BY <1>1, <1>2, CheckPlaces
  <2>3. pc'[w] = Live(w, pc[w]) /\ at'[w] = Of[w]
    BY <1>1, <2>1, <2>2, MovesOne
  <2>4. Ancestors[at[w]] = {at[w]}
    BY <1>2, <1>7, AncestorSets
  <2>5. ~ Doomed(w)
    BY <1>7, <2>4 DEF Doomed
  <2>6. /\ pc'[w] \in Arming \cup {"cancel"} => pc[w] \in {"recheck", "last"}
        /\ pc'[w] = "timer" => w \in Async
        /\ pc'[w] # "cancel"
    BY <1>2, <2>3, LivePlace DEF Walks, Arming
  <2>7. pc[w] \in {"recheck", "last"} => \A b \in cancelled : Seen(w, b)
    BY <1>7, <2>4 DEF Seen, Expired
  <2>8. {"recheck", "last"} \subseteq Arming
    BY DEF Arming
  <2> QED
    BY <1>1, <1>2, <1>4, <2>1, <2>5, <2>6, <2>7, <2>8 DEF ArmedOK
<1> QED
  BY <1>5, <1>6, <1>7

(* A thread or task that finds no permit sleeps next, armed. *)
LEMMA AcquireArmed ==
  ASSUME WaitInv, NEW w \in Waiters, pc[w] \in {"acquire", "timer"}, NEW q, at'[w] = Of[w], pc'[w] = q,
         \/ q = "acquire" /\ pc[w] = "timer"
         \/ q = "parked" /\ w \in Async
         \/ q = "last" /\ w \notin Async,
         UNCHANGED <<cancelled, late, list, waker, token, call>>
  PROVE  ArmedOK(w)'
<1>1. BudgetInv /\ ArmedOK(w) /\ Of[w] \in Budgets /\ at[w] \in Ancestors[Of[w]]
  BY ReadBudgetAssumption DEF WaitInv, WaitOK, SemaphoreInv, BudgetInv, Climbing
<1>2. Ancestors[at[w]] \subseteq Ancestors[Of[w]]
  BY <1>1, AncestorsNest
<1>3. \A b : OnTheWay(w, b)' <=> OnTheWay(w, b)
  BY DEF OnTheWay
<1>4. Doomed(w) => Doomed(w)'
  BY <1>1, <1>2 DEF Doomed, Expired, ArmedOK
<1>5. \A b \in Ancestors[Of[w]] : Seen(w, b)' => Seen(w, b)
  BY <1>1 DEF Seen, ArmedOK
<1>6. pc[w] \in Arming
  BY DEF Arming
<1> QED
  BY <1>1, <1>3, <1>4, <1>5, <1>6 DEF ArmedOK

(* A returned permit wakes, and puts nobody to sleep. *)
LEMMA ReleaseWakes ==
  ASSUME BudgetInv, NEW S, Release(S), NEW v \in Waiters, token[v]
  PROVE  token'[v]
  BY DEF BudgetInv, Typed, Release

LEMMA CheckWaits ==
  ASSUME WaitInv, NEW w \in Waiters, Check(w)
  PROVE  \A v \in Waiters : WaitOK(v)'
<1>1. SemaphoreInv /\ BudgetInv /\ Of[w] \in Ancestors[Of[w]] /\ ArmedOK(w)'
  BY CheckArmed, AncestorSets, ReadBudgetAssumption DEF WaitInv, SemaphoreInv
<1>2. pc[w] \in Walks /\ UNCHANGED <<cancelled, late, list, waker, call>>
  BY <1>1, CheckCases
<1>3. \A v \in Waiters : v # w /\ token[v] => token'[v]
  BY <1>1, CheckCases, ReleaseWakes
<1>4. ASSUME NEW q \in {Dead(w, pc[w]), Live(w, pc[w]), pc[w]}
      PROVE  /\ q \in Places
             /\ pc[w] \in Listed => pc[w] # "unsubscribe" /\ q \in Listed
             /\ q \in Subscribed => pc[w] \in Subscribed
  <2>1. q \in Places
    BY <1>1, <1>2, CheckPlaces
  <2> USE DeadPlace, LivePlace DEF Listed, Subscribed
  <2>2. CASE pc[w] \in {"check", "tried"}
    BY <2>1, <2>2, SMT
  <2>3. CASE pc[w] \in {"top", "poll", "recheck"}
    BY <2>1, <2>3, SMT
  <2>4. CASE pc[w] \in {"last", "confirm"}
    BY <2>1, <2>4, SMT
  <2> QED
    BY <1>2, <2>2, <2>3, <2>4 DEF Walks
<1>5. PICK q \in {Dead(w, pc[w]), Live(w, pc[w]), pc[w]}, x \in Ancestors[Of[w]] :
        Moves(w, q, x) /\ (q = pc[w] \/ x = Of[w])
  BY <1>1, CheckCases
<1>6. pc[w] \notin {"subscribe", "unsubscribe"}
  BY <1>2 DEF Walks
<1> QED
  BY <1>1, <1>2, <1>3, <1>4, <1>5, <1>6, MoveWaits

(* The other steps that touch no list. *)
LEMMA QuietWaits ==
  ASSUME WaitInv, NEW w \in Waiters,
         \/ Start(w) \/ TryAdmit(w) \/ TimerCancelled(w) \/ Resume(w) \/ Abandon(w)
         \/ Leave(w) \/ DropPermit(w)
  PROVE  \A v \in Waiters : WaitOK(v)'
<1>1. BudgetInv /\ Of[w] \in Ancestors[Of[w]]
  BY AncestorSets, ReadBudgetAssumption DEF WaitInv, SemaphoreInv
<1>2. UNCHANGED <<cancelled, late, list, waker, call>>
  BY DEF Start, TryAdmit, TimerCancelled, Resume, Abandon, Leave, DropPermit
<1>3. PICK q \in {"check", "tried", "subscribe", "unsubscribe", "poll", "top", "cancel", "done"} :
        /\ Moves(w, q, Of[w]) /\ (q = "cancel" => w \in Async)
        /\ pc[w] \in Listed => pc[w] # "unsubscribe" /\ q \in Listed
        /\ q \in Subscribed => pc[w] \in Subscribed
  <2> USE DEF Listed, Subscribed
  <2>1. CASE Start(w) \/ TryAdmit(w) \/ TimerCancelled(w) \/ Leave(w) \/ DropPermit(w)
    <3>1. pc[w] \notin Listed
      BY <2>1 DEF Start, TryAdmit, TimerCancelled, Leave, DropPermit
    <3>2. \E q \in {"check", "tried", "subscribe", "cancel", "done"} :
            Moves(w, q, Of[w]) /\ (q = "cancel" => w \in Async)
      BY <1>1, <2>1, StepCases
    <3> QED
      BY <3>1, <3>2
  <2>2. CASE Resume(w) \/ Abandon(w)
    <3>1. pc[w] = "parked"
      BY <2>2 DEF Resume, Abandon
    <3>2. \E q \in {"unsubscribe", "poll", "top"} : Moves(w, q, Of[w])
      BY <1>1, <2>2, StepCases
    <3> QED
      BY <3>1, <3>2
  <2> QED
    BY <2>1, <2>2
<1>4. q \in Places
  BY DEF Places, Walks
<1>5. ArmedOK(w)'
  <2>1. pc'[w] = q
    BY <1>1, <1>3, <1>4, MovesOne
  <2> QED
    BY <1>3, <2>1 DEF ArmedOK, Arming
<1>6. \A v \in Waiters : v # w /\ token[v] => token'[v]
  <2>1. CASE Leave(w) \/ DropPermit(w)
    <3>1. UNCHANGED token \/ \E S : Release(S)
      BY <2>1 DEF Leave, DropPermit
    <3> QED
      BY <1>1, <3>1, ReleaseWakes
  <2>2. CASE Start(w) \/ TryAdmit(w) \/ TimerCancelled(w) \/ Resume(w) \/ Abandon(w)
    BY <1>1, <2>2 DEF Start, TryAdmit, TimerCancelled, Resume, Abandon, BudgetInv, Typed
  <2> QED
    BY <2>1, <2>2
<1> QED
  BY <1>1, <1>2, <1>3, <1>4, <1>5, <1>6, MoveWaits

LEMMA AcquireWaits ==
  ASSUME WaitInv, NEW w \in Waiters, Acquire(w)
  PROVE  \A v \in Waiters : WaitOK(v)'
<1>1. BudgetInv /\ Of[w] \in Ancestors[Of[w]]
  BY AncestorSets, ReadBudgetAssumption DEF WaitInv, SemaphoreInv
<1>2. pc[w] = "acquire" /\ UNCHANGED <<cancelled, late, list, waker, token, call>>
  BY DEF Acquire
<1>3. PICK q \in {"unsubscribe", "confirm", "parked", "last"} :
        /\ Moves(w, q, Of[w]) /\ (q = "parked" => w \in Async) /\ (q = "last" => w \notin Async)
  BY DEF Acquire, Go, Moves
<1>4. q \in Places /\ q \in Listed /\ "acquire" \in Subscribed /\ "unsubscribe" \notin Subscribed
  BY DEF Places, Walks, Listed, Subscribed
<1>5. pc'[w] = q /\ at'[w] = Of[w]
  BY <1>1, <1>3, <1>4, MovesOne
<1>6. ArmedOK(w)'
  <2>1. CASE q \in {"unsubscribe", "confirm"}
    BY <1>5, <2>1 DEF ArmedOK, Arming
  <2>2. CASE q \in {"parked", "last"}
    BY <1>2, <1>3, <1>5, <2>2, AcquireArmed
  <2> QED
    BY <2>1, <2>2
<1> QED
  BY <1>1, <1>2, <1>3, <1>4, <1>6, MoveWaits

(* A passed deadline ends the wait ... *)
LEMMA TimerWaits ==
  ASSUME WaitInv, NEW w \in Waiters, Timer(w)
  PROVE  \A v \in Waiters : WaitOK(v)'
<1>1. BudgetInv /\ OwnCalls /\ Of[w] \in Ancestors[Of[w]] /\ WaitOK(w)
  BY AncestorSets, ReadBudgetAssumption DEF WaitInv, SemaphoreInv
<1>2. pc[w] = "timer" /\ UNCHANGED <<cancelled, late, list, waker, token>> /\ w \in Async
  BY <1>1 DEF Timer, WaitOK, ArmedOK
<1>3. \A a \in Actors : call[a].budget # None => call'[a] = call[a]
  BY <1>1, TimerTyped
<1>4. /\ {"unsubscribe", "acquire"} \subseteq Places /\ {"timer", "acquire"} \subseteq Subscribed
      /\ {"unsubscribe", "acquire"} \subseteq Listed /\ "unsubscribe" \notin Subscribed
  BY DEF Places, Subscribed, Listed
<1>5. CASE Go(w, "acquire") /\ UNCHANGED call
  <2>1. Moves(w, "acquire", Of[w])
    BY <1>5 DEF Go, Moves
  <2>2. pc'[w] = "acquire" /\ at'[w] = Of[w]
    BY <1>1, <1>4, <2>1, MovesOne
  <2>3. ArmedOK(w)'
    BY <1>2, <1>5, <2>2, AcquireArmed
  <2> QED
    BY <1>1, <1>2, <1>3, <1>4, <2>1, <2>3, MoveWaits
<1>6. CASE Go(w, "unsubscribe")
  <2>1. Moves(w, "unsubscribe", Of[w])
    BY <1>6 DEF Go, Moves
  <2>2. pc'[w] = "unsubscribe"
    BY <1>1, <1>4, <2>1, MovesOne
  <2>3. ArmedOK(w)'
    BY <2>2 DEF ArmedOK, Arming
  <2> QED
    BY <1>1, <1>2, <1>3, <1>4, <2>1, <2>3, MoveWaits
<1> QED
  BY <1>5, <1>6 DEF Timer

(* ... and makes the waiter cancel its own budget. *)
LEMMA TimerCancelWaits ==
  ASSUME WaitInv, NEW w \in Waiters, TimerCancels(w)
  PROVE  \A v \in Waiters : WaitOK(v)'
<1>1. w \in Actors /\ Of[w] \in Budgets
  BY ReadBudgetAssumption DEF WaitInv, WaitOK, ArmedOK, TimerCancels, Actors
<1>2. Store(w, Of[w]) /\ call[w].stage = "due" /\ UNCHANGED <<list, late, pc, at, waker, token>>
  BY DEF TimerCancels
<1> QED
  BY <1>1, <1>2, StoreWaits

(* Subscribing adds the waiter to one list after the other. *)
LEMMA SubscribeWaits ==
  ASSUME WaitInv, NEW w \in Waiters, Subscribe(w)
  PROVE  \A v \in Waiters : WaitOK(v)'
<1>1. BudgetInv /\ ListsOK(w) /\ ReachOK(w) /\ Of[w] \in Budgets
  BY ReadBudgetAssumption DEF WaitInv, WaitOK, SemaphoreInv
<1>2. /\ at[w] \in Budgets /\ at[w] \in Ancestors[Of[w]] /\ list \in [Budgets -> SUBSET Waiters]
      /\ Of[w] \in Ancestors[Of[w]] /\ Ancestors[Of[w]] \subseteq Budgets
  BY <1>1, AncestorSets DEF BudgetInv, Typed, Climbing
<1>3. /\ pc[w] = "subscribe" /\ UNCHANGED <<cancelled, late, waker, token, call>>
      /\ list' = [list EXCEPT ![at[w]] = @ \cup {w}]
  BY DEF Subscribe
<1>4. /\ w \in list'[at[w]] /\ \A b \in Budgets : b # at[w] => list'[b] = list[b]
      /\ \A b \in Budgets : \A v \in Waiters : v # w => (v \in list'[b] <=> v \in list[b])
  BY <1>2, <1>3
<1>5. PICK q \in {"poll", "top", "subscribe"}, x \in Ancestors[Of[w]] :
        /\ Moves(w, q, x)
        /\ \/ q # "subscribe" /\ Parent[at[w]] = None
           \/ q = "subscribe" /\ Parent[at[w]] # None /\ x = Parent[at[w]]
  BY <1>1, <1>2, StepCases
<1>6. q \in Places /\ q \in Listed /\ q # "unsubscribe" /\ "subscribe" \notin Subscribed
  BY DEF Places, Walks, Listed, Subscribed
<1>7. pc'[w] = q /\ at'[w] = x /\ \A v \in Waiters : v # w => pc'[v] = pc[v] /\ at'[v] = at[v]
  BY <1>1, <1>5, <1>6, MovesOne, SMT
<1>8. ListsOK(w)'
  BY <1>1, <1>2, <1>4, <1>6, <1>7 DEF ListsOK
<1>9. ReachOK(w)'
  <2>1. CASE q # "subscribe" /\ Parent[at[w]] = None
    <3>1. Ancestors[at[w]] = {at[w]}
      BY <1>2, <2>1, AncestorSets
    <3>2. \A b \in Ancestors[Of[w]] \ cancelled : w \in list'[b]
      BY <1>1, <1>2, <1>3, <1>4, <3>1 DEF ReachOK
    <3> QED
      BY <1>3, <1>7, <2>1, <3>2 DEF ReachOK
  <2>2. CASE q = "subscribe" /\ Parent[at[w]] # None /\ x = Parent[at[w]]
    <3>1. Ancestors[at[w]] = {at[w]} \cup Ancestors[x]
      BY <1>2, <2>2, AncestorSets
    <3>2. \A b \in Ancestors[Of[w]] \ cancelled : b \notin Ancestors[x] => w \in list'[b]
      BY <1>1, <1>2, <1>3, <1>4, <3>1 DEF ReachOK
    <3> QED
      BY <1>3, <1>6, <1>7, <2>2, <3>2 DEF ReachOK
  <2> QED
    BY <1>5, <2>1, <2>2
<1>10. ArmedOK(w)'
  BY <1>7 DEF ArmedOK, Arming
<1>11. ASSUME NEW v \in Waiters, v # w PROVE WaitOK(v)'
  BY <1>3, <1>4, <1>7, <1>11, OthersKept
<1> QED
  BY <1>8, <1>9, <1>10, <1>11 DEF WaitOK

(* The waker is installed before the ancestors are read once more. *)
LEMMA InstallWaits ==
  ASSUME WaitInv, NEW w \in Waiters, Install(w)
  PROVE  \A v \in Waiters : WaitOK(v)'
<1>1. BudgetInv /\ ListsOK(w) /\ ReachOK(w) /\ Of[w] \in Ancestors[Of[w]]
  BY AncestorSets, ReadBudgetAssumption DEF WaitInv, WaitOK, SemaphoreInv
<1>2. /\ pc[w] = "install" /\ UNCHANGED <<cancelled, late, list, token, call>>
      /\ waker' = [waker EXCEPT ![w] = TRUE] /\ waker \in [Waiters -> BOOLEAN]
  BY <1>1 DEF Install, BudgetInv, Typed
<1>3. waker'[w] /\ \A v \in Waiters : v # w => waker'[v] = waker[v]
  BY <1>2
<1>4. Moves(w, "recheck", Of[w]) /\ "recheck" \in Places
  BY <1>1, StepCases DEF Places, Walks
<1>5. /\ pc'[w] = "recheck" /\ at'[w] = Of[w]
      /\ \A v \in Waiters : v # w => pc'[v] = pc[v] /\ at'[v] = at[v]
  BY <1>1, <1>4, MovesOne
<1>6. ListsOK(w)' /\ ReachOK(w)'
  BY <1>1, <1>2, <1>5 DEF ListsOK, ReachOK, Listed, Subscribed
<1>7. \A b \in Ancestors[Of[w]] : ~ Seen(w, b)'
  BY <1>5 DEF Seen
<1>8. ArmedOK(w)'
  BY <1>3, <1>5, <1>7 DEF ArmedOK
<1>9. ASSUME NEW v \in Waiters, v # w PROVE WaitOK(v)'
  BY <1>2, <1>3, <1>5, <1>9, OthersKept
<1> QED
  BY <1>6, <1>8, <1>9 DEF WaitOK

(* Unsubscribing leaves one list after the other. *)
LEMMA UnsubscribeWaits ==
  ASSUME WaitInv, NEW w \in Waiters, Unsubscribe(w)
  PROVE  \A v \in Waiters : WaitOK(v)'
<1>1. BudgetInv /\ ListsOK(w) /\ Of[w] \in Budgets
  BY ReadBudgetAssumption DEF WaitInv, WaitOK, SemaphoreInv
<1>2. /\ at[w] \in Budgets /\ list \in [Budgets -> SUBSET Waiters] /\ waker \in [Waiters -> BOOLEAN]
      /\ Of[w] \in Ancestors[Of[w]]
  BY <1>1, AncestorSets DEF BudgetInv, Typed
<1>3. /\ pc[w] = "unsubscribe" /\ UNCHANGED <<cancelled, late, token, call>>
      /\ list' = [list EXCEPT ![at[w]] = @ \ {w}]
      /\ UNCHANGED waker \/ waker' = [waker EXCEPT ![w] = FALSE]
  BY DEF Unsubscribe
<1>4. /\ w \notin list'[at[w]] /\ \A b \in Budgets : b # at[w] => list'[b] = list[b]
      /\ \A b \in Budgets : \A v \in Waiters : v # w => (v \in list'[b] <=> v \in list[b])
  BY <1>2, <1>3
<1>5. \A v \in Waiters : v # w => waker'[v] = waker[v]
  BY <1>2, <1>3
<1>6. PICK q \in {"unsubscribe", "leave", "tried", "held"}, x \in Ancestors[Of[w]] :
        /\ Moves(w, q, x)
        /\ \/ q # "unsubscribe" /\ Parent[at[w]] = None
           \/ q = "unsubscribe" /\ Parent[at[w]] # None /\ x = Parent[at[w]]
  BY <1>1, <1>2, StepCases
<1>7. q \in Places /\ q \notin Subscribed /\ q # "subscribe" /\ "unsubscribe" \in Listed
  BY DEF Places, Walks, Listed, Subscribed
<1>8. pc'[w] = q /\ at'[w] = x /\ \A v \in Waiters : v # w => pc'[v] = pc[v] /\ at'[v] = at[v]
  BY <1>1, <1>6, <1>7, MovesOne, SMT
<1>9. ListsOK(w)'
  <2>1. \A b \in Budgets : w \in list'[b] =>
          b \in Ancestors[Of[w]] /\ b \in Ancestors[at[w]] /\ b # at[w]
    BY <1>1, <1>3, <1>4 DEF ListsOK
  <2>2. CASE q # "unsubscribe" /\ Parent[at[w]] = None
    <3>1. Ancestors[at[w]] = {at[w]}
      BY <1>2, <2>2, AncestorSets
    <3> QED
      BY <2>1, <3>1 DEF ListsOK
  <2>3. CASE q = "unsubscribe" /\ Parent[at[w]] # None /\ x = Parent[at[w]]
    <3>1. Ancestors[at[w]] = {at[w]} \cup Ancestors[x]
      BY <1>2, <2>3, AncestorSets
    <3> QED
      BY <1>7, <1>8, <2>1, <2>3, <3>1 DEF ListsOK
  <2> QED
    BY <1>6, <2>2, <2>3
<1>10. ReachOK(w)' /\ ArmedOK(w)'
  BY <1>6, <1>7, <1>8 DEF ReachOK, ArmedOK, Arming
<1>11. ASSUME NEW v \in Waiters, v # w PROVE WaitOK(v)'
  BY <1>3, <1>4, <1>5, <1>8, <1>11, OthersKept
<1> QED
  BY <1>9, <1>10, <1>11 DEF WaitOK

LEMMA WaitStep == WaitInv /\ [Next]_vars => WaitInv'
<1> SUFFICES ASSUME WaitInv, [Next]_vars PROVE WaitInv'
  OBVIOUS
<1>1. SemaphoreInv'
  BY SemaphoreStep DEF WaitInv
<1>2. CASE UNCHANGED vars
  <2>1. UNCHANGED <<cancelled, late, list, pc, at, waker, token, call>>
    BY <1>2 DEF vars
  <2>2. \A v \in Waiters : WaitOK(v)'
    BY <2>1, OthersKept
  <2> QED
    BY <1>1, <2>2 DEF WaitInv
<1>3. ASSUME NEW w \in Waiters, WaiterActs(w) PROVE \A v \in Waiters : WaitOK(v)'
  BY <1>3, CheckWaits, QuietWaits, AcquireWaits, TimerWaits, TimerCancelWaits, SubscribeWaits,
     InstallWaits, UnsubscribeWaits DEF WaiterActs, WaiterStep
<1>4. ASSUME (\E a \in Actors : CancelStep(a) \/ \E b \in Budgets : Cancel(a, b))
             \/ \E b \in Budgets : Expire(b)
      PROVE  \A v \in Waiters : WaitOK(v)'
  BY <1>4, CancelWaits
<1>5. Next => \A v \in Waiters : WaitOK(v)'
  BY <1>3, <1>4 DEF Next, WaiterActs
<1> QED
  BY <1>1, <1>2, <1>5 DEF WaitInv

LEMMA WaitInit == Init => WaitInv
<1> SUFFICES ASSUME Init PROVE WaitInv
  OBVIOUS
<1>1. \A w \in Waiters : pc[w] = "idle"
  BY DEF Init
<1>2. \A b \in Budgets : list[b] = {}
  BY DEF Init
<1>3. \A w \in Waiters : WaitOK(w)
  BY <1>1, <1>2 DEF WaitOK, ListsOK, ReachOK, ArmedOK, Arming, Subscribed
<1> QED
  BY <1>3, SemaphoreInit DEF WaitInv

-----------------------------------------------------------------------------
(* What follows. *)

(* No wake is lost: whoever sleeps without a wake to find has been given no *)
(* permit, and has its waker installed and the caller of cancel on the way  *)
(* to it for every ancestor that was cancelled (Cancellation::poll reads    *)
(* the budgets again once the waker is installed).                          *)
THEOREM WakesAreNotLost == Spec => []NoLostWake
<1>1. WaitInv => NoLostWake
  <2> SUFFICES ASSUME WaitInv, NEW w \in Waiters, pc[w] = "parked", ~ token[w]
               PROVE  /\ w \notin granted
                      /\ \A b \in Ancestors[Of[w]] \cap cancelled : waker[w] /\ OnTheWay(w, b)
    BY DEF NoLostWake, OnTheWay
  <2>1. w \notin granted
    BY DEF WaitInv, SemaphoreInv, SemaphoreOK
  <2>2. \A b : Seen(w, b)
    BY DEF Seen
  <2>3. pc[w] \in Arming /\ ~ Doomed(w) /\ ArmedOK(w)
    BY DEF Arming, Doomed, WaitInv, WaitOK
  <2> QED
    BY <2>1, <2>2, <2>3 DEF ArmedOK
<1> QED
  BY <1>1, WaitInit, WaitStep, PTL DEF Spec

(* A finished wait leaves nothing behind: no subscription at any ancestor,  *)
(* no place in the semaphore's queue and no permit but the one it returned  *)
(* (Drop for Cancellation, dropping the acquire future).                    *)
THEOREM WaitsLeaveNothing == Spec => []NothingLeft
<1>1. WaitInv => NothingLeft
  <2> SUFFICES ASSUME WaitInv, NEW w \in Waiters, pc[w] \in {"idle", "cancel", "held", "done"}
               PROVE  /\ \A b \in Budgets : w \notin list[b]
                      /\ ~ Queued(w) /\ w \notin granted /\ (pc[w] = "held" <=> w \in holds)
    BY DEF NothingLeft
  <2>1. SemaphoreInv /\ ListsOK(w)
    BY DEF WaitInv, WaitOK
  <2>2. \A b \in Budgets : w \notin list[b]
    BY <2>1 DEF ListsOK, Listed, Subscribed
  <2>3. ~ Queued(w) /\ w \notin granted
    BY <2>1, Unknown DEF Waiting, Subscribed
  <2>4. pc[w] = "held" <=> w \in holds
    BY <2>1 DEF SemaphoreInv, SemaphoreOK, Holding
  <2> QED
    BY <2>2, <2>3, <2>4
<1> QED
  BY <1>1, WaitInit, WaitStep, PTL DEF Spec

-----------------------------------------------------------------------------
(* Permits. *)

INSTANCE FiniteSetTheorems

(* What a step does to the permits: nothing; one that is held or given is   *)
(* returned; one is taken; or one that was given is taken up.               *)
Returned(w) ==
  \/ w \in holds /\ holds' = holds \ {w} /\ Release(granted)
  \/ w \in granted /\ UNCHANGED holds /\ Release(granted \ {w})
Taken(w) ==
  w \notin holds /\ UNCHANGED granted /\ Take(w)
TakenUp(w) ==
  /\ w \in granted /\ w \notin holds /\ granted' = granted \ {w}
  /\ holds' = holds \cup {w} /\ UNCHANGED permits

LEMMA PermitSteps ==
  ASSUME SemaphoreInv, [Next]_vars
  PROVE  \/ UNCHANGED <<permits, granted, holds>>
         \/ \E w \in Waiters : Returned(w) \/ Taken(w) \/ TakenUp(w)
<1>1. CASE UNCHANGED vars
  BY <1>1 DEF vars, semaphore
<1>2. CASE (\E a \in Actors : CancelStep(a) \/ \E b \in Budgets : Cancel(a, b))
           \/ \E b \in Budgets : Expire(b)
  BY <1>2 DEF CancelStep, TakeList, WakeOne, Cancel, Expire, semaphore
<1>3. ASSUME NEW w \in Waiters, WaiterActs(w)
      PROVE  UNCHANGED <<permits, granted, holds>> \/ Returned(w) \/ Taken(w) \/ TakenUp(w)
  <2>1. /\ pc[w] \in {"try", "acquire"} => w \notin holds
        /\ pc[w] = "held" => w \in holds
        /\ w \in granted => w \notin holds
    BY DEF SemaphoreInv, SemaphoreOK, Holding
  <2>2. CASE Check(w)
    BY <2>2 DEF Check, Returned, semaphore
  <2>3. CASE TryAdmit(w)
    BY <2>1, <2>3 DEF TryAdmit, Taken
  <2>4. CASE Acquire(w)
    BY <2>1, <2>4 DEF Acquire, Taken, TakenUp
  <2>5. CASE Leave(w)
    BY <2>5 DEF Leave, Returned
  <2>6. CASE DropPermit(w)
    BY <2>1, <2>6 DEF DropPermit, Returned
  <2>7. CASE Start(w) \/ Subscribe(w) \/ Install(w) \/ Timer(w) \/ TimerCancels(w) \/ TimerCancelled(w)
             \/ Resume(w) \/ Unsubscribe(w) \/ Abandon(w)
    BY <2>7 DEF Start, Subscribe, Install, Timer, TimerCancels, TimerCancelled, Resume, Unsubscribe,
                Abandon, semaphore
  <2> QED
    BY <1>3, <2>2, <2>3, <2>4, <2>5, <2>6, <2>7 DEF WaiterActs, WaiterStep
<1> QED
  BY <1>1, <1>2, <1>3 DEF Next, WaiterActs

(* A permit that returns is free or given, and counted once. *)
LEMMA ReleaseCounts ==
  ASSUME SemaphoreInv, NEW S \in SUBSET granted, Release(S)
  PROVE  permits' + Cardinality(granted') = permits + Cardinality(S) + 1
<1>1. /\ permits \in Nat /\ queue \in Seq(Waiters) /\ S \subseteq Waiters
      /\ \A i \in DOMAIN queue : queue[i] \notin granted
  BY DEF SemaphoreInv, SemaphoreOK, BudgetInv, Typed
<1>2. IsFiniteSet(S) /\ Cardinality(S) \in Nat
  BY <1>1, FS_Subset, FS_CardinalityType, ReadBudgetAssumption
<1>3. CASE queue = << >>
  BY <1>1, <1>2, <1>3, SMT DEF Release
<1>4. CASE queue # << >>
  <2>1. PICK h : h = Head(queue)
    OBVIOUS
  <2>2. h \notin S
    BY <1>1, <1>4, <2>1, SMT
  <2>3. granted' = S \cup {h} /\ permits' = permits
    BY <1>4, <2>1 DEF Release
  <2>4. Cardinality(S \cup {h}) = Cardinality(S) + 1
    BY <1>2, <2>2, FS_AddElement
  <2> QED
    BY <1>1, <1>2, <2>3, <2>4, SMT
<1> QED
  BY <1>3, <1>4

Counted == permits + Cardinality(granted) + Cardinality(holds) = Capacity

LEMMA CountStep == SemaphoreInv /\ Counted /\ [Next]_vars => Counted'
<1> SUFFICES ASSUME SemaphoreInv, Counted, [Next]_vars PROVE Counted'
  OBVIOUS
<1>1. permits \in Nat /\ granted \subseteq Waiters /\ holds \subseteq Waiters
  BY DEF SemaphoreInv, BudgetInv, Typed
<1>2. /\ IsFiniteSet(granted) /\ Cardinality(granted) \in Nat
      /\ IsFiniteSet(holds) /\ Cardinality(holds) \in Nat
  BY <1>1, FS_Subset, FS_CardinalityType, ReadBudgetAssumption
<1>3. CASE UNCHANGED <<permits, granted, holds>>
  BY <1>3 DEF Counted
<1>4. ASSUME NEW w \in Waiters, Returned(w) PROVE Counted'
  <2>1. CASE w \in holds /\ holds' = holds \ {w} /\ Release(granted)
    <3>1. Cardinality(holds') = Cardinality(holds) - 1
      BY <1>2, <2>1, FS_RemoveElement
    <3>2. permits' + Cardinality(granted') = permits + Cardinality(granted) + 1
      BY <2>1, ReleaseCounts
    <3>3. SemaphoreInv'
      BY SemaphoreStep
    <3>4. permits' \in Nat /\ granted' \subseteq Waiters
      BY <3>3 DEF SemaphoreInv, BudgetInv, Typed
    <3>5. Cardinality(granted') \in Nat
      BY <3>4, FS_Subset, FS_CardinalityType, ReadBudgetAssumption
    <3> QED
      BY <1>1, <1>2, <3>1, <3>2, <3>4, <3>5, SMT DEF Counted
  <2>2. CASE w \in granted /\ UNCHANGED holds /\ Release(granted \ {w})
    <3>1. Cardinality(granted \ {w}) = Cardinality(granted) - 1
      BY <1>2, <2>2, FS_RemoveElement
    <3>2. permits' + Cardinality(granted') = permits + Cardinality(granted \ {w}) + 1
      BY <2>2, ReleaseCounts, SMT
    <3>3. SemaphoreInv'
      BY SemaphoreStep
    <3>4. permits' \in Nat /\ granted' \subseteq Waiters
      BY <3>3 DEF SemaphoreInv, BudgetInv, Typed
    <3>5. Cardinality(granted') \in Nat
      BY <3>4, FS_Subset, FS_CardinalityType, ReadBudgetAssumption
    <3> QED
      BY <1>1, <1>2, <2>2, <3>1, <3>2, <3>4, <3>5, SMT DEF Counted
  <2> QED
    BY <1>4, <2>1, <2>2 DEF Returned
<1>5. ASSUME NEW w \in Waiters, Taken(w) PROVE Counted'
  <2>1. Cardinality(holds \cup {w}) = Cardinality(holds) + 1
    BY <1>2, <1>5, FS_AddElement DEF Taken
  <2> QED
    BY <1>1, <1>2, <1>5, <2>1, SMT DEF Taken, Take, Counted
<1>6. ASSUME NEW w \in Waiters, TakenUp(w) PROVE Counted'
  <2>1. Cardinality(holds \cup {w}) = Cardinality(holds) + 1
    BY <1>2, <1>6, FS_AddElement DEF TakenUp
  <2>2. Cardinality(granted \ {w}) = Cardinality(granted) - 1
    BY <1>2, <1>6, FS_RemoveElement DEF TakenUp
  <2> QED
    BY <1>1, <1>2, <1>6, <2>1, <2>2, SMT DEF TakenUp, Counted
<1> QED
  BY <1>3, <1>4, <1>5, <1>6, PermitSteps

(* No permit is lost or made, whatever a grant meets: a cancel, a deadline, *)
(* a dropped future; and none is free while somebody is queued (ReadPermit, *)
(* the semaphore's assignment of returned permits).                         *)
THEOREM PermitsAreConserved == Spec => []PermitsConserved
<1>1. Init => Counted
  BY FS_EmptySet, ReadBudgetAssumption, SMT DEF Init, Counted
<1>2. SemaphoreInv /\ Counted => PermitsConserved
  BY DEF SemaphoreInv, SemaphoreOK, Counted, PermitsConserved
<1> QED
  BY <1>1, <1>2, SemaphoreInit, SemaphoreStep, CountStep, PTL DEF Spec
=============================================================================
