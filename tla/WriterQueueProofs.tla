-------------------------- MODULE WriterQueueProofs --------------------------
(* Theorems about WriterQueue, for every set of callers and every bound:    *)
(* types are kept, foreground work is FIFO, nothing put back is lost, a     *)
(* writer that stops leaves nobody waiting, a fence runs between what was   *)
(* admitted before it and what was admitted after, and the overtaking of a  *)
(* background loan is bounded.                                              *)
EXTENDS WriterQueue, TLAPS

(* The leaves are first-order, for Zenon, but for those that cite SMT. *)
USE Zenon

(* What the type invariant needs to be inductive: the job being counted is  *)
(* not a notification.                                                      *)
TypeInv == TypeOK /\ (pc = "count" => cur # Ready)

(* The sets of callers, without their definitions. *)
LEMMA CallerSets ==
  /\ Lenders \subseteq Foreground /\ Batchers \subseteq Foreground
  /\ Fencers \subseteq Foreground
  /\ Foreground \subseteq Callers /\ Loans \subseteq Callers
  /\ Callers = Foreground \cup Loans
  /\ Ready \notin Callers /\ None \notin Callers /\ Ready # None
  BY CallersAssumption DEF Foreground, Callers

(* The head and the tail of a sequence keep its type. *)
LEMMA HeadTail ==
  ASSUME NEW S, NEW s \in Seq(S), s # <<>>
  PROVE  Head(s) \in S /\ Tail(s) \in Seq(S)
  BY SMT

(* Admission::new creates a well-typed scheduler. *)
LEMMA TypeInit == Init => TypeInv
  BY SMT DEF Init, TypeInv, TypeOK

(* A caller's status is one of its type. *)
LEMMA StatusTyped ==
  ASSUME TypeInv, NEW c, Move(c, "done") \/ Move(c, "refused")
  PROVE  status' \in [Callers -> {"idle", "check", "push", "notify", "waiting", "done", "refused"}]
  BY DEF TypeInv, TypeOK, Move

(* Every step of a caller, of Admission::next, of a loan or batch and of    *)
(* the thread's end keeps the types.                                        *)
LEMMA TypeStep == TypeInv /\ [Next]_vars => TypeInv'
<1> SUFFICES ASSUME TypeInv, [Next]_vars PROVE TypeInv'
  OBVIOUS
<1> USE CallerSets DEF TypeInv, TypeOK
<1> USE DEF orderVars, callerVars, closeVars, threadVars, turnVars, Stamp, CloseQueue
<1>0. CASE Returned \/ GuardLost \/ LendFailed
  <2>1. status' \in [Callers -> {"idle", "check", "push", "notify", "waiting", "done", "refused"}]
    BY <1>0, StatusTyped DEF Returned, GuardLost, LendFailed
  <2>2. /\ holder' = None /\ pc' \in {"take", "drop"}
        /\ UNCHANGED <<chan, bg, callerVars, closeVars, next, background, turns, cur, batch, turnVars>>
    BY <1>0 DEF Returned, GuardLost, LendFailed
  <2> QED
    BY <2>1, <2>2, SMT
<1> USE DEF Move
<1>1. ASSUME NEW c \in Callers, Calls(c) PROVE TypeInv'
  <2>1. CASE c \in Lenders \cup Batchers /\ Send(c)
    BY <2>1, SMT DEF Send, SendOpen
  <2>2. CASE c \in Fencers /\ SendFence(c)
    BY <2>2, SMT DEF SendFence, SendOpen
  <2>3. CASE c \in Foreground /\ SendRefused(c)
    BY <2>3, SMT DEF SendRefused
  <2>4. CASE c \in Loans /\ BackgroundLock(c)
    BY <2>4, SMT DEF BackgroundLock
  <2> QED
    BY <1>1, <2>1, <2>2, <2>3, <2>4 DEF Calls
<1>2. ASSUME NEW c \in Callers, Proceeds(c) PROVE TypeInv'
  <2>1. CASE c \in Loans /\ BackgroundGone(c)
    BY <2>1, SMT DEF BackgroundGone
  <2>2. CASE c \in Loans /\ BackgroundCheck(c)
    BY <2>2, SMT DEF BackgroundCheck
  <2>3. CASE c \in Loans /\ BackgroundPush(c)
    BY <2>3, SMT DEF BackgroundPush
  <2>4. CASE c \in Loans /\ BackgroundPushClosed(c)
    BY <2>4, SMT DEF BackgroundPushClosed
  <2>5. CASE c \in Loans /\ BackgroundNotify(c)
    BY <2>5, SMT DEF BackgroundNotify
  <2>6. CASE c \in Loans /\ BackgroundNotifyGone(c)
    BY <2>6, SMT DEF BackgroundNotifyGone
  <2>7. CASE Disconnected(c)
    BY <2>7, SMT DEF Disconnected
  <2> QED
    BY <1>2, <2>1, <2>2, <2>3, <2>4, <2>5, <2>6, <2>7 DEF Proceeds
<1>3. CASE Close
  BY <1>3, SMT DEF Close
<1>4. CASE Scheduler
  <2>1. CASE TakeNext
    BY <2>1 DEF TakeNext
  <2>2. CASE TakeChannel
    BY <2>2, HeadTail, SMT DEF TakeChannel
  <2>3. CASE TakeEmpty
    BY <2>3 DEF TakeEmpty
  <2>4. CASE TakeClosed
    BY <2>4 DEF TakeClosed
  <2>5. CASE IdlePop
    BY <2>5, HeadTail DEF IdlePop, DispatchLoan
  <2>6. CASE IdleWait
    BY <2>6, SMT DEF IdleWait
  <2>7. CASE RouteReady
    BY <2>7 DEF RouteReady
  <2>8. CASE RouteUnknown
    <3>1. CASE cur \in Batchers
      BY <2>8, <3>1, SMT DEF RouteUnknown, DispatchForeground
    <3>2. CASE cur \notin Batchers
      BY <2>8, <3>2, SMTT(30) DEF RouteUnknown, DispatchForeground
    <3> QED
      BY <3>1, <3>2
  <2>9. CASE RoutePop
    <3>1. bg # <<>>
      BY <2>9 DEF RoutePop, Poppable
    <3> QED
      BY <2>9, <3>1, HeadTail DEF RoutePop, DispatchLoan
  <2>10. CASE RouteKeep
    BY <2>10, SMT DEF RouteKeep
  <2>11. CASE Count
    BY <2>11, SMTT(30) DEF Count, DispatchForeground
  <2> QED
    BY <1>4, <2>1, <2>2, <2>3, <2>4, <2>5, <2>6, <2>7, <2>8, <2>9, <2>10, <2>11 DEF Scheduler
<1>5. CASE Serves
  <2>1. CASE BatchTake
    BY <2>1, HeadTail, SMT DEF BatchTake
  <2>2. CASE BatchMeets
    BY <2>2, HeadTail, SMT DEF BatchMeets
  <2>3. CASE BatchEnd
    BY <2>3, SMTT(30) DEF BatchEnd
  <2>4. CASE BatchCommit
    BY <2>4, SMT DEF BatchCommit
  <2> QED
    BY <1>0, <1>5, <2>1, <2>2, <2>3, <2>4 DEF Serves
<1>6. CASE Fails
  <2>1. CASE BatchPanic
    BY <2>1, SMT DEF BatchPanic
  <2> QED
    BY <1>0, <1>6, <2>1 DEF Fails
<1>7. CASE Drops
  <2>1. CASE DropStore
    BY <2>1, SMT DEF DropStore
  <2>2. CASE DropBackground
    BY <2>2, SMT DEF DropBackground
  <2>3. CASE DropNoBackground
    BY <2>3, SMT DEF DropNoBackground
  <2>4. CASE DropChannel
    BY <2>4, SMT DEF DropChannel
  <2> QED
    BY <1>7, <2>1, <2>2, <2>3, <2>4 DEF Drops
<1>8. CASE Publish
  BY <1>8, SMT DEF Publish
<1>9. CASE UNCHANGED vars
  BY <1>9, SMT DEF vars
<1> QED
  BY <1>1, <1>2, <1>3, <1>4, <1>5, <1>6, <1>7, <1>8, <1>9 DEF Next

(* Every reachable state of the scheduler is well typed: in particular the  *)
(* job Admission::next hands out is never a notification.                   *)
THEOREM TypeCorrect == Spec => []TypeOK
<1>1. TypeInv => TypeOK
  BY DEF TypeInv
<1> QED
  BY <1>1, TypeInit, TypeStep, PTL DEF Spec

-----------------------------------------------------------------------------
(* The order of the pipeline. *)

Before(a, b) == a \in Foreground /\ b \in Foreground => stamp[a] < stamp[b]
Admitted(c) == c \in Foreground => status[c] # "idle" /\ stamp[c] <= clock

(* Where the writer thread may hold a job, at each point of its loop. *)
Shape ==
  /\ cur # None => pc \in {"route", "count", "commit"} /\ next = None
  /\ pc \in {"route", "count"} => cur # None
  /\ pc \in {"idle", "recv", "batch", "commit"} => next = None
  /\ batch # <<>> => pc \in {"batch", "commit"}
  /\ holder # None => pc = "lent"

(* Every foreground job somewhere in the pipeline has been admitted. *)
AllAdmitted ==
  /\ \A i \in DOMAIN chan : Admitted(chan[i])
  /\ \A i \in DOMAIN batch : Admitted(batch[i])
  /\ Admitted(next) /\ Admitted(cur) /\ Admitted(holder)

(* The pipeline, from the job being served through the job in hand or put   *)
(* back to the channel, is in order of admission.                           *)
Sorted ==
  /\ \A i, j \in DOMAIN chan : i < j => Before(chan[i], chan[j])
  /\ \A i, j \in DOMAIN batch : i < j => Before(batch[i], batch[j])
  /\ \A i \in DOMAIN chan :
       /\ Before(next, chan[i]) /\ Before(cur, chan[i]) /\ Before(holder, chan[i])
       /\ \A j \in DOMAIN batch : Before(batch[j], chan[i])
  /\ \A j \in DOMAIN batch : Before(batch[j], cur)
  /\ Before(holder, next)

FifoInv == TypeInv /\ Shape /\ AllAdmitted /\ Sorted

(* The elements of a sequence with one more at its end. *)
LEMMA AppendIndex ==
  ASSUME NEW S, NEW s \in Seq(S), NEW e \in S
  PROVE  \A i \in DOMAIN Append(s, e) :
           /\ i \in Nat
           /\ \/ i \in DOMAIN s /\ i < Len(s) + 1 /\ Append(s, e)[i] = s[i]
              \/ i = Len(s) + 1 /\ Append(s, e)[i] = e
  BY SMT

(* The elements of a sequence without its first. *)
LEMMA TailIndex ==
  ASSUME NEW S, NEW s \in Seq(S), s # <<>>
  PROVE  /\ 1 \in DOMAIN s /\ Head(s) = s[1]
         /\ \A i \in DOMAIN Tail(s) :
              i \in Nat /\ 1 < i + 1 /\ i + 1 \in DOMAIN s /\ Tail(s)[i] = s[i + 1]
  BY SMT

(* Steps that move no job and forget no call keep the pipeline in order. *)
LEMMA PipelineKept ==
  ASSUME FifoInv,
         UNCHANGED <<chan, next, cur, batch, holder, pc, stamp, clock>>,
         \A c \in Callers : status[c] # "idle" => status'[c] # "idle"
  PROVE  (Shape /\ AllAdmitted /\ Sorted)'
  BY CallerSets DEF FifoInv, Shape, AllAdmitted, Sorted, Before, Admitted

(* A foreground job is appended to the channel with a new stamp. *)
LEMMA SendKeeps ==
  ASSUME FifoInv, NEW c \in Foreground, SendOpen(c)
  PROVE  (Shape /\ AllAdmitted /\ Sorted)'
<1> USE CallerSets DEF FifoInv, TypeInv, TypeOK, Admitted, Before
<1>1. /\ chan' = Append(chan, c) /\ clock' = clock + 1
      /\ stamp' = [stamp EXCEPT ![c] = clock + 1]
      /\ status' = [status EXCEPT ![c] = "waiting"] /\ status[c] = "idle"
      /\ UNCHANGED <<next, cur, batch, holder, pc>>
  BY DEF SendOpen, Stamp, Move, threadVars
<1>2. \A i \in DOMAIN chan' :
        /\ i \in Nat
        /\ \/ i \in DOMAIN chan /\ i < Len(chan) + 1 /\ chan'[i] = chan[i]
           \/ i = Len(chan) + 1 /\ chan'[i] = c
  BY <1>1, AppendIndex, SMT
<1>3. \A d \in Foreground :
        status[d] # "idle" => d # c /\ stamp'[d] = stamp[d] /\ status'[d] # "idle"
  BY <1>1
<1>4. stamp'[c] = clock + 1 /\ status'[c] # "idle"
  BY <1>1
<1>5. Shape'
  BY <1>1 DEF Shape
<1>6. AllAdmitted'
  <2>1. \A d : Admitted(d) => Admitted(d)'
    BY <1>1, <1>3, SMT
  <2>2. Admitted(c)'
    BY <1>1, <1>4, SMT
  <2>3. AllAdmitted
    OBVIOUS
  <2> HIDE DEF Admitted, FifoInv, TypeInv, TypeOK
  <2> QED
    BY <1>1, <1>2, <2>1, <2>2, <2>3 DEF AllAdmitted
<1>7. Sorted'
  <2>1. \A a, b : Admitted(a) /\ Admitted(b) /\ Before(a, b) => Before(a, b)'
    BY <1>3
  <2>2. \A a : Admitted(a) => Before(a, c)'
    BY <1>3, <1>4, SMT
  <2>3. AllAdmitted /\ Sorted
    OBVIOUS
  <2>4. \A i \in DOMAIN chan : i \in Nat
    BY SMT
  <2> HIDE DEF Admitted, Before, FifoInv, TypeInv, TypeOK
  <2> QED
    BY <1>1, <1>2, <2>1, <2>2, <2>3, <2>4, SMT DEF Sorted, AllAdmitted
<1> QED
  BY <1>5, <1>6, <1>7

(* What the first job of the channel is ordered before. *)
LEMMA TakeFirst ==
  ASSUME FifoInv, chan # <<>>, chan' = Tail(chan)
  PROVE  /\ Head(chan) \in Foreground \cup {Ready} /\ Head(chan) # None
         /\ Admitted(Head(chan))
         /\ \A i \in DOMAIN chan' : \E j \in DOMAIN chan :
              chan'[i] = chan[j] /\ Before(Head(chan), chan[j])
         /\ \A i, j \in DOMAIN chan' : i < j => Before(chan'[i], chan'[j])
         /\ \A j \in DOMAIN batch : Before(batch[j], Head(chan))
<1> USE DEF FifoInv, TypeInv, TypeOK
<1>1. /\ 1 \in DOMAIN chan /\ Head(chan) = chan[1]
      /\ \A i \in DOMAIN chan' :
           i \in Nat /\ 1 < i + 1 /\ i + 1 \in DOMAIN chan /\ chan'[i] = chan[i + 1]
  BY TailIndex
<1>2. \A i, j \in DOMAIN chan' : i < j => i + 1 < j + 1
  BY <1>1, SMT
<1>3. Head(chan) \in Foreground \cup {Ready} /\ Head(chan) # None
  BY CallerSets, HeadTail, SMT
<1> QED
  BY <1>1, <1>2, <1>3, SMT DEF Sorted, AllAdmitted

(* Steps of the writer thread stamp nothing. *)
LEMMA SameOrder ==
  ASSUME UNCHANGED <<stamp, clock>>,
         \A c \in Callers : status[c] # "idle" => status'[c] # "idle"
  PROVE  /\ \A a, b : Before(a, b) => Before(a, b)'
         /\ \A a : Admitted(a) => Admitted(a)'
  BY CallerSets DEF Before, Admitted

(* None, and what no caller sent, is in no order. *)
LEMMA NoneFree ==
  /\ Admitted(None) /\ \A a : Before(None, a) /\ Before(a, None)
  /\ Admitted(None)' /\ \A a : Before(None, a)' /\ Before(a, None)'
  BY CallerSets DEF Admitted, Before

(* A background loan is no foreground job. *)
LEMMA LoanFree ==
  ASSUME NEW g \in Loans
  PROVE  /\ Admitted(g)' /\ \A a : Before(g, a)' /\ Before(a, g)'
  BY CallersAssumption DEF Admitted, Before

(* Admission::next and write_queue keep the pipeline in order. *)
LEMMA SchedulerKeeps ==
  ASSUME FifoInv, Scheduler
  PROVE  (Shape /\ AllAdmitted /\ Sorted)'
<1> USE DEF FifoInv, orderVars, callerVars
<1>1. CASE TakeNext
  <2>1. /\ \A a, b : Before(a, b) => Before(a, b)'
        /\ \A a : Admitted(a) => Admitted(a)'
    BY <1>1, SameOrder DEF TakeNext
  <2> QED
    BY <1>1, <2>1, NoneFree, SMT DEF TakeNext, Shape, AllAdmitted, Sorted
<1>2. CASE TakeChannel
  <2>1. /\ \A a, b : Before(a, b) => Before(a, b)'
        /\ \A a : Admitted(a) => Admitted(a)'
    BY <1>2, SameOrder DEF TakeChannel
  <2>2. cur = None /\ holder = None /\ batch = <<>>
    BY <1>2 DEF TakeChannel, Shape
  <2> QED
    BY <1>2, <2>1, <2>2, NoneFree, TakeFirst, SMT DEF TakeChannel, Shape, AllAdmitted, Sorted
<1>3. CASE TakeEmpty
  <2>1. UNCHANGED <<chan, next, cur, batch, holder, stamp, clock, status>>
    BY <1>3 DEF TakeEmpty
  <2>2. AllAdmitted' /\ Sorted'
    BY <2>1 DEF AllAdmitted, Sorted, Admitted, Before
  <2> QED
    BY <1>3, <2>2 DEF TakeEmpty, Shape
<1>4. CASE TakeClosed
  <2>1. UNCHANGED <<chan, next, cur, batch, holder, stamp, clock, status>>
    BY <1>4 DEF TakeClosed
  <2>2. AllAdmitted' /\ Sorted'
    BY <2>1 DEF AllAdmitted, Sorted, Admitted, Before
  <2> QED
    BY <1>4, <2>2 DEF TakeClosed, Shape
<1>5. CASE IdlePop
  <2>1. /\ \A a, b : Before(a, b) => Before(a, b)'
        /\ \A a : Admitted(a) => Admitted(a)'
    BY <1>5, SameOrder DEF IdlePop
  <2>2. Head(bg) \in Loans
    BY <1>5, HeadTail DEF IdlePop, TypeInv, TypeOK
  <2> QED
    BY <1>5, <2>1, <2>2, NoneFree, LoanFree
       DEF IdlePop, DispatchLoan, Shape, AllAdmitted, Sorted
<1>6. CASE IdleWait
  <2>1. UNCHANGED <<chan, next, cur, batch, holder, stamp, clock, status>>
    BY <1>6 DEF IdleWait
  <2>2. AllAdmitted' /\ Sorted'
    BY <2>1 DEF AllAdmitted, Sorted, Admitted, Before
  <2> QED
    BY <1>6, <2>2 DEF IdleWait, Shape
<1>7. CASE RouteReady
  <2>1. /\ \A a, b : Before(a, b) => Before(a, b)'
        /\ \A a : Admitted(a) => Admitted(a)'
    BY <1>7, SameOrder DEF RouteReady
  <2> QED
    BY <1>7, <2>1, NoneFree DEF RouteReady, Shape, AllAdmitted, Sorted
<1>8. ASSUME pc \in {"route", "count"}, DispatchForeground, cur # Ready,
             UNCHANGED <<chan, next, stamp, clock, status>>
      PROVE  (Shape /\ AllAdmitted /\ Sorted)'
  <2>1. /\ \A a, b : Before(a, b) => Before(a, b)'
        /\ \A a : Admitted(a) => Admitted(a)'
    BY <1>8, SameOrder
  <2>2. next = None /\ holder = None /\ batch = <<>> /\ cur # None
    BY <1>8 DEF Shape
  <2>3. CASE cur \in Batchers
    <3>1. /\ cur' = None /\ pc' = "batch" /\ batch' = <<cur>> /\ holder' = None
          /\ chan' = chan /\ next' = None
      BY <1>8, <2>2, <2>3 DEF DispatchForeground
    <3>2. \A i \in DOMAIN <<cur>> : i = 1 /\ <<cur>>[i] = cur
      BY SMT
    <3>3. \A i, j \in DOMAIN <<cur>> : ~(i < j)
      BY <3>2, SMT
    <3> QED
      BY <2>1, <3>1, <3>2, <3>3, NoneFree, SMT DEF Shape, AllAdmitted, Sorted
  <2>4. CASE cur \notin Batchers
    <3>1. /\ cur' = None /\ pc' = "lent" /\ batch' = <<>> /\ holder' = cur
          /\ chan' = chan /\ next' = None
      BY <1>8, <2>2, <2>4 DEF DispatchForeground
    <3> QED
      BY <2>1, <2>2, <3>1, NoneFree DEF Shape, AllAdmitted, Sorted
  <2> QED
    BY <2>3, <2>4
<1>9. CASE RouteUnknown
  BY <1>8, <1>9 DEF RouteUnknown
<1>10. CASE RoutePop
  <2>1. /\ \A a, b : Before(a, b) => Before(a, b)'
        /\ \A a : Admitted(a) => Admitted(a)'
    BY <1>10, SameOrder DEF RoutePop
  <2>2. bg # <<>>
    BY <1>10 DEF RoutePop, Poppable
  <2>3. Head(bg) \in Loans
    BY <2>2, HeadTail DEF TypeInv, TypeOK
  <2>4. batch = <<>>
    BY <1>10 DEF RoutePop, Shape
  <2> QED
    BY <1>10, <2>1, <2>3, <2>4, NoneFree, LoanFree, SMT
       DEF RoutePop, DispatchLoan, Shape, AllAdmitted, Sorted
<1>11. CASE RouteKeep
  <2>1. UNCHANGED <<chan, next, cur, batch, holder, stamp, clock, status>>
    BY <1>11 DEF RouteKeep
  <2>2. AllAdmitted' /\ Sorted'
    BY <2>1 DEF AllAdmitted, Sorted, Admitted, Before
  <2> QED
    BY <1>11, <2>2 DEF RouteKeep, Shape
<1>12. CASE Count
  BY <1>8, <1>12 DEF Count, TypeInv
<1> QED
  BY <1>1, <1>2, <1>3, <1>4, <1>5, <1>6, <1>7, <1>9, <1>10, <1>11, <1>12 DEF Scheduler

(* A loan's end and the steps of a batch keep it, failing or not. *)
LEMMA ServesKeeps ==
  ASSUME FifoInv, Serves \/ Fails
  PROVE  (Shape /\ AllAdmitted /\ Sorted)'
<1> USE DEF FifoInv, orderVars, callerVars
<1>1. ASSUME pc = "lent", holder' = None, pc' \in {"take", "drop"},
             UNCHANGED <<chan, next, cur, batch, stamp, clock>>,
             \A c \in Callers : status[c] # "idle" => status'[c] # "idle"
      PROVE  (Shape /\ AllAdmitted /\ Sorted)'
  <2>1. /\ \A a, b : Before(a, b) => Before(a, b)'
        /\ \A a : Admitted(a) => Admitted(a)'
    BY <1>1, SameOrder
  <2> QED
    BY <1>1, <2>1, NoneFree DEF Shape, AllAdmitted, Sorted
<1>2. CASE Returned
  <2>1. \A c \in Callers : status[c] # "idle" => status'[c] # "idle"
    BY <1>2 DEF Returned, Move, TypeInv, TypeOK
  <2> QED
    BY <1>1, <1>2, <2>1 DEF Returned
<1>3. CASE GuardLost
  <2>1. \A c \in Callers : status[c] # "idle" => status'[c] # "idle"
    BY <1>3 DEF GuardLost, Move, TypeInv, TypeOK
  <2> QED
    BY <1>1, <1>3, <2>1 DEF GuardLost
<1>4. CASE LendFailed
  <2>1. \A c \in Callers : status[c] # "idle" => status'[c] # "idle"
    BY <1>4 DEF LendFailed, Move, TypeInv, TypeOK
  <2> QED
    BY <1>1, <1>4, <2>1 DEF LendFailed
<1>5. CASE BatchTake
  <2>1. /\ \A a, b : Before(a, b) => Before(a, b)'
        /\ \A a : Admitted(a) => Admitted(a)'
    BY <1>5, SameOrder DEF BatchTake
  <2>2. cur = None /\ holder = None /\ next = None
    BY <1>5 DEF BatchTake, Shape
  <2>3. Head(chan) \in Batchers /\ batch \in Seq(Batchers)
    BY <1>5 DEF BatchTake, TypeInv, TypeOK
  <2>4. \A i \in DOMAIN batch' :
          /\ i \in Nat
          /\ \/ i \in DOMAIN batch /\ i < Len(batch) + 1 /\ batch'[i] = batch[i]
             \/ i = Len(batch) + 1 /\ batch'[i] = Head(chan)
    BY <1>5, <2>3, AppendIndex, SMT DEF BatchTake
  <2>5. Len(batch) \in Nat
    BY <2>3, SMT
  <2>6. /\ cur' = None /\ holder' = None /\ next' = None /\ pc' = "batch"
        /\ chan # <<>> /\ chan' = Tail(chan)
    BY <1>5, <2>2 DEF BatchTake
  <2>7. /\ Admitted(Head(chan))
        /\ \A i \in DOMAIN chan' : \E j \in DOMAIN chan :
             chan'[i] = chan[j] /\ Before(Head(chan), chan[j])
        /\ \A i, j \in DOMAIN chan' : i < j => Before(chan'[i], chan'[j])
        /\ \A j \in DOMAIN batch : Before(batch[j], Head(chan))
    BY <2>6, TakeFirst
  <2>8. (\A i, j \in DOMAIN batch : i < j => Before(batch[i], batch[j]))'
    BY <2>1, <2>4, <2>5, <2>7, SMT DEF Sorted
  <2>9. (\A i \in DOMAIN chan : \A j \in DOMAIN batch : Before(batch[j], chan[i]))'
    BY <2>1, <2>4, <2>7 DEF Sorted
  <2>10. Sorted'
    BY <2>1, <2>6, <2>7, <2>8, <2>9, NoneFree DEF Sorted
  <2>11. AllAdmitted'
    BY <2>1, <2>4, <2>6, <2>7, NoneFree DEF AllAdmitted
  <2> QED
    BY <2>6, <2>10, <2>11 DEF Shape
<1>6. CASE BatchMeets
  <2>1. /\ \A a, b : Before(a, b) => Before(a, b)'
        /\ \A a : Admitted(a) => Admitted(a)'
    BY <1>6, SameOrder DEF BatchMeets
  <2>2. cur = None /\ holder = None /\ next = None
    BY <1>6 DEF BatchMeets, Shape
  <2> QED
    BY <1>6, <2>1, <2>2, NoneFree, TakeFirst, SMT DEF BatchMeets, Shape, AllAdmitted, Sorted
<1>7. CASE BatchEnd
  <2>1. UNCHANGED <<chan, next, cur, batch, holder, stamp, clock, status>>
    BY <1>7 DEF BatchEnd
  <2>2. AllAdmitted' /\ Sorted'
    BY <2>1 DEF AllAdmitted, Sorted, Admitted, Before
  <2> QED
    BY <1>7, <2>2 DEF BatchEnd, Shape
<1>8. CASE BatchCommit
  <2>0. \A c \in Callers : status[c] # "idle" => status'[c] # "idle"
    BY <1>8 DEF BatchCommit
  <2>1. /\ \A a, b : Before(a, b) => Before(a, b)'
        /\ \A a : Admitted(a) => Admitted(a)'
    BY <1>8, <2>0, SameOrder DEF BatchCommit
  <2>2. holder = None
    BY <1>8 DEF BatchCommit, Shape
  <2>3. \A i \in DOMAIN batch' : FALSE
    BY <1>8, SMT DEF BatchCommit
  <2> QED
    BY <1>8, <2>1, <2>2, <2>3, NoneFree DEF BatchCommit, Shape, AllAdmitted, Sorted
<1>9. CASE BatchPanic
  <2>1. /\ \A a, b : Before(a, b) => Before(a, b)'
        /\ \A a : Admitted(a) => Admitted(a)'
    BY <1>9, SameOrder DEF BatchPanic
  <2>2. holder = None
    BY <1>9 DEF BatchPanic, Shape
  <2>3. \A i \in DOMAIN batch' : FALSE
    BY <1>9, SMT DEF BatchPanic
  <2> QED
    BY <1>9, <2>1, <2>2, <2>3, NoneFree DEF BatchPanic, Shape, AllAdmitted, Sorted
<1> QED
  BY <1>2, <1>3, <1>4, <1>5, <1>6, <1>7, <1>8, <1>9 DEF Serves, Fails

(* So does the thread's end, which only forgets jobs. *)
LEMMA DropsKeeps ==
  ASSUME FifoInv, Drops
  PROVE  (Shape /\ AllAdmitted /\ Sorted)'
<1> USE DEF FifoInv, orderVars, callerVars
<1>1. UNCHANGED <<stamp, clock, status, cur, batch, holder>>
  BY DEF Drops, DropStore, DropBackground, DropNoBackground, DropChannel
<1>2. /\ \A a, b : Before(a, b) => Before(a, b)'
      /\ \A a : Admitted(a) => Admitted(a)'
  BY <1>1, SameOrder
<1>3. /\ pc \in {"drop", "closing", "dropped"} /\ pc' \in {"closing", "dropped", "stopped"}
      /\ \/ UNCHANGED <<chan, next>>
         \/ chan' = <<>> /\ next' = None
  BY DEF Drops, DropStore, DropBackground, DropNoBackground, DropChannel, MayLoad
<1>4. Shape'
  BY <1>1, <1>3 DEF Shape
<1>5. CASE UNCHANGED <<chan, next>>
  BY <1>1, <1>2, <1>4, <1>5 DEF AllAdmitted, Sorted
<1>6. CASE chan' = <<>> /\ next' = None
  <2>1. \A i \in DOMAIN chan' : FALSE
    BY <1>6, SMT
  <2> QED
    BY <1>1, <1>2, <1>4, <1>6, <2>1, NoneFree DEF AllAdmitted, Sorted
<1> QED
  BY <1>3, <1>5, <1>6

(* The order of the pipeline is inductive. *)
LEMMA FifoStep == FifoInv /\ [Next]_vars => FifoInv'
<1> SUFFICES ASSUME FifoInv, [Next]_vars PROVE (Shape /\ AllAdmitted /\ Sorted)'
  BY TypeStep DEF FifoInv
<1> USE DEF orderVars, callerVars, threadVars
<1>0. TypeOK
  BY DEF FifoInv, TypeInv
<1>1. ASSUME NEW c \in Callers, Calls(c) PROVE (Shape /\ AllAdmitted /\ Sorted)'
  <2>1. CASE c \in Foreground /\ SendOpen(c)
    BY <2>1, SendKeeps
  <2>2. CASE SendRefused(c)
    <3>1. \A d \in Callers : status[d] # "idle" => status'[d] # "idle"
      BY <1>0, <2>2 DEF SendRefused, Move, TypeOK
    <3> QED
      BY <2>2, <3>1, PipelineKept DEF SendRefused
  <2>3. CASE BackgroundLock(c)
    <3>1. \A d \in Callers : status[d] # "idle" => status'[d] # "idle"
      BY <1>0, <2>3 DEF BackgroundLock, Move, TypeOK
    <3> QED
      BY <2>3, <3>1, PipelineKept DEF BackgroundLock
  <2> QED
    BY <1>1, <2>1, <2>2, <2>3, CallerSets DEF Calls, Send, SendFence, Foreground
<1>2. ASSUME NEW c \in Callers, Proceeds(c) PROVE (Shape /\ AllAdmitted /\ Sorted)'
  <2>1. CASE c \in Loans /\ BackgroundPush(c)
    <3>1. /\ clock' = clock + 1 /\ stamp' = [stamp EXCEPT ![c] = clock + 1]
          /\ UNCHANGED <<chan, next, cur, batch, holder, pc>>
      BY <2>1 DEF BackgroundPush, Stamp
    <3>2. \A d \in Callers : status[d] # "idle" => status'[d] # "idle"
      BY <1>0, <2>1 DEF BackgroundPush, Move, TypeOK
    <3>3. \A d \in Foreground : stamp'[d] = stamp[d]
      BY <1>0, <2>1, <3>1, CallersAssumption, CallerSets DEF TypeOK
    <3>4. /\ \A a, b : Before(a, b) => Before(a, b)'
          /\ \A a : Admitted(a) => Admitted(a)'
      BY <1>0, <3>1, <3>2, <3>3, CallerSets, SMTT(30) DEF Before, Admitted, TypeOK
    <3> QED
      BY <3>1, <3>4 DEF FifoInv, Shape, AllAdmitted, Sorted
  <2>2. CASE c \in Loans /\ BackgroundNotify(c)
    <3>1. /\ chan' = Append(chan, Ready)
          /\ UNCHANGED <<next, cur, batch, holder, pc, stamp, clock>>
      BY <2>2 DEF BackgroundNotify
    <3>2. \A d \in Callers : status[d] # "idle" => status'[d] # "idle"
      BY <1>0, <2>2 DEF BackgroundNotify, Move, TypeOK
    <3>3. /\ \A a, b : Before(a, b) => Before(a, b)'
          /\ \A a : Admitted(a) => Admitted(a)'
      BY <3>1, <3>2, SameOrder
    <3>4. \A i \in DOMAIN chan' :
            /\ i \in Nat
            /\ \/ i \in DOMAIN chan /\ i < Len(chan) + 1 /\ chan'[i] = chan[i]
               \/ i = Len(chan) + 1 /\ chan'[i] = Ready
      BY <1>0, <3>1, AppendIndex, SMT DEF TypeOK
    <3>5. Admitted(Ready)' /\ \A a : Before(Ready, a)' /\ Before(a, Ready)'
      BY CallerSets DEF Admitted, Before
    <3> QED
      BY <1>0, <3>1, <3>3, <3>4, <3>5, SMT DEF FifoInv, Shape, AllAdmitted, Sorted
  <2>3. CASE \/ BackgroundGone(c) \/ BackgroundCheck(c) \/ BackgroundPushClosed(c)
             \/ BackgroundNotifyGone(c) \/ Disconnected(c)
    <3>1. \A d \in Callers : status[d] # "idle" => status'[d] # "idle"
      BY <1>0, <2>3 DEF BackgroundGone, BackgroundCheck, BackgroundPushClosed,
         BackgroundNotifyGone, Disconnected, Move, TypeOK
    <3>2. UNCHANGED <<chan, next, cur, batch, holder, pc, stamp, clock>>
      BY <2>3 DEF BackgroundGone, BackgroundCheck, BackgroundPushClosed,
         BackgroundNotifyGone, Disconnected
    <3> QED
      BY <3>1, <3>2, PipelineKept
  <2> QED
    BY <1>2, <2>1, <2>2, <2>3 DEF Proceeds
<1>3. CASE Close
  BY <1>3, PipelineKept DEF Close
<1>4. CASE Scheduler
  BY <1>4, SchedulerKeeps
<1>5. CASE Serves \/ Fails
  BY <1>5, ServesKeeps
<1>6. CASE Drops
  BY <1>6, DropsKeeps
<1>7. CASE Publish
  BY <1>7, PipelineKept DEF Publish
<1>8. CASE UNCHANGED vars
  BY <1>8, PipelineKept DEF vars
<1> QED
  BY <1>1, <1>2, <1>3, <1>4, <1>5, <1>6, <1>7, <1>8 DEF Next

(* The empty pipeline is in order. *)
LEMMA FifoInit == Init => FifoInv
<1> SUFFICES ASSUME Init PROVE Shape /\ AllAdmitted /\ Sorted
  BY TypeInit DEF FifoInv
<1>1. \A i \in DOMAIN chan : FALSE
  BY SMT DEF Init
<1>2. \A i \in DOMAIN batch : FALSE
  BY SMT DEF Init
<1> QED
  BY <1>1, <1>2, NoneFree DEF Init, Shape, AllAdmitted, Sorted

(* An ordered pipeline serves foreground jobs in order of admission. *)
LEMMA FifoImplies == FifoInv => ForegroundFifo /\ SlotFree
<1> SUFFICES ASSUME FifoInv PROVE ForegroundFifo /\ SlotFree
  OBVIOUS
<1>1. SlotFree
  BY DEF FifoInv, Shape, SlotFree
<1>2. bg \in Seq(Loans) /\ batch \in Seq(Batchers)
  BY DEF FifoInv, TypeInv, TypeOK
<1>3. ASSUME NEW c \in Pending \cap Foreground
      PROVE  c \in {next, cur} \/ \E i \in DOMAIN chan : c = chan[i]
  <2>1. \A i \in DOMAIN bg : bg[i] \notin Foreground
    BY <1>2, CallersAssumption, SMT
  <2> QED
    BY <1>3, <2>1 DEF Pending, Elements
<1>4. ASSUME holder \in Foreground, NEW c \in Pending \cap Foreground
      PROVE  stamp[holder] < stamp[c]
  <2>1. cur = None
    BY <1>4, CallerSets DEF FifoInv, Shape
  <2> QED
    BY <1>3, <1>4, <2>1, CallerSets DEF FifoInv, Sorted, Before
<1>5. ASSUME NEW i \in DOMAIN batch
      PROVE  /\ \A c \in Pending \cap Foreground : stamp[batch[i]] < stamp[c]
             /\ \A j \in DOMAIN batch : i < j => stamp[batch[i]] < stamp[batch[j]]
  <2>1. \A j \in DOMAIN batch : batch[j] \in Foreground
    BY <1>2, CallerSets, SMT
  <2>2. next = None
    BY <1>2, <1>5, SMT DEF FifoInv, Shape
  <2> QED
    BY <1>3, <1>5, <2>1, <2>2, CallerSets DEF FifoInv, Sorted, Before
<1> QED
  BY <1>1, <1>4, <1>5 DEF ForegroundFifo

(* Foreground loans, batched writes and fences are served in order of       *)
(* admission, across the put-back slot and a batch's own reads of the       *)
(* channel.                                                                 *)
THEOREM ForegroundIsFifo == Spec => []ForegroundFifo
  BY FifoInit, FifoStep, FifoImplies, PTL DEF Spec

(* Admission::put_back never overwrites a job: its debug_assert holds.      *)
THEOREM PutBackSlotFree == Spec => []SlotFree
  BY FifoInit, FifoStep, FifoImplies, PTL DEF Spec

-----------------------------------------------------------------------------
(* Whom a writer that stops leaves waiting, for every set of callers, every *)
(* bound and either order of its store to `closed` and its load of the      *)
(* queue slot.                                                              *)

(* The thread has yet to load the queue slot, and the slot is set or the    *)
(* store to `closed` is visible.                                            *)
StopSeen == pc \notin {"dropped", "stopped"} /\ (queue # "unset" \/ closed = "yes")

(* A caller inside enqueue_background holds the jobs lock and has created   *)
(* the queue, and a stopped thread has dropped its channel.                 *)
StopInv ==
  /\ FifoInv
  /\ closed # "no" => pc \in {"closing", "dropped", "stopped"}
  /\ \A g \in Loans : status[g] \in {"check", "push", "notify"} => lock = g
  /\ lock # None => status[lock] \in {"check", "push", "notify"}
  /\ queue = "unset" => lock = None /\ bg = <<>>
  /\ pc = "stopped" => chan = <<>> /\ next = None

(* What the load of the slot then leads to: nothing is queued, and a queue  *)
(* that is still open belongs to a caller that has yet to read `closed`.    *)
StopKept ==
  \/ StopSeen
  \/ /\ pc \in {"dropped", "stopped"}
     /\ closed = "yes" /\ bg = <<>>
     /\ queue = "open" => lock # None /\ status[lock] = "check"

(* A new writer has no queue. *)
LEMMA StopInit == Init => StopInv
  BY FifoInit, CallerSets DEF Init, StopInv

(* Every step keeps it. *)
LEMMA StopStep == StopInv /\ [Next]_vars => StopInv'
<1> SUFFICES ASSUME StopInv, [Next]_vars PROVE StopInv'
  OBVIOUS
<1>0. TypeOK /\ FifoInv'
  BY FifoStep DEF StopInv, FifoInv, TypeInv
<1> USE <1>0, CallerSets DEF StopInv, TypeOK
<1> USE DEF orderVars, callerVars, closeVars, threadVars, turnVars, Move, CloseQueue, MayLoad
<1>1. ASSUME NEW c \in Callers, Calls(c) PROVE StopInv'
  <2>1. CASE c \in Foreground /\ SendOpen(c)
    BY <2>1, CallersAssumption DEF SendOpen
  <2>2. CASE c \in Foreground /\ SendRefused(c)
    BY <2>2, CallersAssumption DEF SendRefused
  <2>3. CASE c \in Loans /\ BackgroundLock(c)
    BY <2>3 DEF BackgroundLock
  <2> QED
    BY <1>1, <2>1, <2>2, <2>3 DEF Calls, Send, SendFence, Foreground
<1>2. ASSUME NEW c \in Callers, Proceeds(c) PROVE StopInv'
  <2>1. CASE c \in Loans /\ BackgroundGone(c)
    BY <2>1 DEF BackgroundGone
  <2>2. CASE c \in Loans /\ BackgroundCheck(c)
    BY <2>2 DEF BackgroundCheck
  <2>3. CASE c \in Loans /\ BackgroundPush(c)
    BY <2>3 DEF BackgroundPush
  <2>4. CASE c \in Loans /\ BackgroundPushClosed(c)
    BY <2>4 DEF BackgroundPushClosed
  <2>5. CASE c \in Loans /\ BackgroundNotify(c)
    BY <2>5 DEF BackgroundNotify
  <2>6. CASE c \in Loans /\ BackgroundNotifyGone(c)
    BY <2>6 DEF BackgroundNotifyGone
  <2>7. CASE Disconnected(c)
    BY <2>7 DEF Disconnected
  <2> QED
    BY <1>2, <2>1, <2>2, <2>3, <2>4, <2>5, <2>6, <2>7 DEF Proceeds
<1>3. CASE Close
  BY <1>3 DEF Close
<1>4. ASSUME UNCHANGED <<lock, queue, closed, status>>,
             pc \in {"take", "recv", "idle", "route", "count", "batch", "commit"},
             pc' \notin {"closing", "dropped", "stopped"},
             bg = <<>> => bg' = <<>>
      PROVE  StopInv'
  BY <1>4
<1>5. CASE Scheduler
  <2>1. UNCHANGED <<lock, queue, closed, status>>
    BY <1>5 DEF Scheduler, TakeNext, TakeChannel, TakeEmpty, TakeClosed, IdlePop,
       IdleWait, RouteReady, RouteUnknown, RoutePop, RouteKeep, Count
  <2>2. pc \in {"take", "recv", "idle", "route", "count"}
    BY <1>5 DEF Scheduler, TakeNext, TakeChannel, TakeEmpty, TakeClosed, IdlePop,
       IdleWait, RouteReady, RouteUnknown, RoutePop, RouteKeep, Count
  <2>3. pc' \notin {"closing", "dropped", "stopped"}
    BY <1>5 DEF Scheduler, TakeNext, TakeChannel, TakeEmpty, TakeClosed, IdlePop,
       IdleWait, RouteReady, RouteUnknown, RoutePop, RouteKeep, Count, DispatchLoan,
       DispatchForeground
  <2>4. bg = <<>> => bg' = <<>>
    BY <1>5 DEF Scheduler, TakeNext, TakeChannel, TakeEmpty, TakeClosed, IdlePop,
       IdleWait, RouteReady, RouteUnknown, RoutePop, RouteKeep, Count, Poppable
  <2> QED
    BY <1>4, <2>1, <2>2, <2>3, <2>4
<1>6. CASE Returned
  BY <1>6 DEF Returned
<1>7. CASE GuardLost
  BY <1>7 DEF GuardLost
<1>8. CASE LendFailed
  BY <1>8 DEF LendFailed
<1>9. CASE BatchTake \/ BatchMeets \/ BatchEnd \/ BatchPanic
  BY <1>4, <1>9 DEF BatchTake, BatchMeets, BatchEnd, BatchPanic
<1>10. CASE BatchCommit
  <2>1. \A g \in Loans : status'[g] = status[g]
    <3>1. \A g \in Loans : g \notin Elements(batch)
      BY CallersAssumption, SMT DEF Elements, Foreground
    <3> QED
      BY <1>10, <3>1 DEF BatchCommit
  <2>2. lock' = lock /\ queue' = queue /\ closed' = closed /\ bg' = bg
        /\ pc = "commit" /\ pc' = "take"
    BY <1>10 DEF BatchCommit
  <2> QED
    BY <2>1, <2>2
<1>11. CASE DropStore
  BY <1>11 DEF DropStore
<1>12. CASE DropBackground
  BY <1>12 DEF DropBackground
<1>13. CASE DropNoBackground
  BY <1>13 DEF DropNoBackground
<1>14. CASE DropChannel
  BY <1>14 DEF DropChannel
<1>15. CASE Publish
  BY <1>15 DEF Publish
<1>16. CASE UNCHANGED vars
  BY <1>16 DEF vars
<1> QED
  BY <1>1, <1>2, <1>3, <1>5, <1>6, <1>7, <1>8, <1>9, <1>10, <1>11, <1>12, <1>13,
     <1>14, <1>15, <1>16 DEF Next, Serves, Fails, Drops

(* What the steps of callers and of the thread leave of a stop seen. *)
LEMMA StopKeeps == StopInv /\ StopKept /\ [Next]_vars => StopKept'
<1> SUFFICES ASSUME StopInv, StopKept, [Next]_vars PROVE StopKept'
  OBVIOUS
<1>0. TypeOK
  BY DEF StopInv, FifoInv, TypeInv
<1> USE <1>0, CallerSets DEF StopInv, StopKept, StopSeen, TypeOK
<1> USE DEF orderVars, callerVars, closeVars, threadVars, turnVars, Move, CloseQueue, MayLoad
<1>1. ASSUME NEW c \in Callers, Calls(c) PROVE StopKept'
  <2>1. CASE c \in Foreground /\ SendOpen(c)
    BY <2>1 DEF SendOpen
  <2>2. CASE c \in Foreground /\ SendRefused(c)
    BY <2>2, CallersAssumption DEF SendRefused
  <2>3. CASE c \in Loans /\ BackgroundLock(c)
    BY <2>3 DEF BackgroundLock
  <2> QED
    BY <1>1, <2>1, <2>2, <2>3 DEF Calls, Send, SendFence, Foreground
<1>2. ASSUME NEW c \in Callers, Proceeds(c) PROVE StopKept'
  <2>1. CASE c \in Loans /\ BackgroundGone(c)
    BY <2>1 DEF BackgroundGone
  <2>2. CASE c \in Loans /\ BackgroundCheck(c)
    BY <2>2 DEF BackgroundCheck
  <2>3. CASE c \in Loans /\ BackgroundPush(c)
    BY <2>3 DEF BackgroundPush
  <2>4. CASE c \in Loans /\ BackgroundPushClosed(c)
    BY <2>4 DEF BackgroundPushClosed
  <2>5. CASE c \in Loans /\ BackgroundNotify(c)
    BY <2>5 DEF BackgroundNotify
  <2>6. CASE c \in Loans /\ BackgroundNotifyGone(c)
    BY <2>6 DEF BackgroundNotifyGone
  <2>7. CASE Disconnected(c)
    BY <2>7 DEF Disconnected
  <2> QED
    BY <1>2, <2>1, <2>2, <2>3, <2>4, <2>5, <2>6, <2>7 DEF Proceeds
<1>3. CASE Close
  BY <1>3 DEF Close
<1>4. ASSUME UNCHANGED <<queue, closed>>, pc \notin {"dropped", "stopped"},
             pc' \notin {"dropped", "stopped"}
      PROVE  StopKept'
  BY <1>4
<1>5. CASE Scheduler
  <2>1. UNCHANGED <<queue, closed>> /\ pc \in {"take", "recv", "idle", "route", "count"}
    BY <1>5 DEF Scheduler, TakeNext, TakeChannel, TakeEmpty, TakeClosed, IdlePop,
       IdleWait, RouteReady, RouteUnknown, RoutePop, RouteKeep, Count
  <2>2. pc' \notin {"dropped", "stopped"}
    BY <1>5 DEF Scheduler, TakeNext, TakeChannel, TakeEmpty, TakeClosed, IdlePop,
       IdleWait, RouteReady, RouteUnknown, RoutePop, RouteKeep, Count, DispatchLoan,
       DispatchForeground
  <2> QED
    BY <1>4, <2>1, <2>2
<1>6. CASE Serves \/ Fails
  BY <1>4, <1>6 DEF Serves, Fails, Returned, BatchTake, BatchMeets, BatchEnd, BatchCommit,
     GuardLost, LendFailed, BatchPanic
<1>7. CASE DropStore
  BY <1>7 DEF DropStore
<1>8. CASE DropBackground
  BY <1>8 DEF DropBackground
<1>9. CASE DropNoBackground
  BY <1>9 DEF DropNoBackground
<1>10. CASE DropChannel
  BY <1>10 DEF DropChannel
<1>11. CASE Publish
  BY <1>11 DEF Publish
<1>12. CASE UNCHANGED vars
  BY <1>12 DEF vars
<1> QED
  BY <1>1, <1>2, <1>3, <1>5, <1>6, <1>7, <1>8, <1>9, <1>10, <1>11, <1>12 DEF Next, Drops

(* A stopped thread holds no job; what is held is queued in the background. *)
LEMMA StopHolds ==
  ASSUME StopInv, pc = "stopped"
  PROVE  Held = Elements(bg) /\ Elements(<<>>) = {}
<1>1. cur = None /\ batch = <<>> /\ holder = None
  BY DEF StopInv, FifoInv, Shape
<1>2. chan = <<>> /\ next = None
  BY DEF StopInv
<1>3. Elements(<<>>) = {}
  BY SMT DEF Elements
<1>4. Ready \notin Elements(bg) /\ None \notin Elements(bg)
  BY CallerSets, SMT DEF Elements, StopInv, FifoInv, TypeInv, TypeOK
<1> QED
  BY <1>1, <1>2, <1>3, <1>4 DEF Held, Pending

(* A writer that stops strands nobody once, before it loads the queue slot, *)
(* the slot is set or its store to `closed` is visible: every borrower of a *)
(* connection whose background queue exists disconnects, "rather than wait  *)
(* forever", however the Release store is ordered (Drop for Admission).     *)
(* What remains is a queue created after that load, with the store still in *)
(* flight; WriterQueue_shutdown_race.cfg shows that its loan may wait on.   *)
THEOREM StopStrandsNobody == Spec => [](StopSeen => []NoneStranded)
<1>1. StopSeen => StopKept
  BY DEF StopKept
<1>2. StopInv /\ StopKept => NoneStranded
  BY StopHolds DEF StopKept, StopSeen, NoneStranded
<1> QED
  BY <1>1, <1>2, StopInit, StopStep, StopKeeps, PTL DEF Spec

(* Whatever the order of its stores, a stopped writer never leaves a        *)
(* foreground caller waiting: all it can still hold is background loans     *)
(* (the fields of Admission drop, and with them the channel).               *)
THEOREM ForegroundNeverStranded == Spec => [](pc = "stopped" => Held \subseteq Loans)
<1>1. StopInv => (pc = "stopped" => Held \subseteq Loans)
  <2> SUFFICES ASSUME StopInv, pc = "stopped" PROVE Elements(bg) \subseteq Loans
    BY StopHolds
  <2> QED
    BY SMT DEF Elements, StopInv, FifoInv, TypeInv, TypeOK
<1> QED
  BY <1>1, StopInit, StopStep, PTL DEF Spec

-----------------------------------------------------------------------------
(* The order of loans and fences. *)

(* A caller inside enqueue_background holds the jobs lock.                  *)
Locking ==
  \A g \in Loans : status[g] \in {"check", "push", "notify"} => lock = g

(* Sequence numbers and watermarks agree with the order of admission: a     *)
(* loan is at most as old as a fence's watermark exactly if it was admitted *)
(* before the fence.                                                        *)
Numbered ==
  /\ \A c \in Callers : stamp[c] <= clock
  /\ \A f \in Fencers : through[f] <= last
  /\ \A g \in Loans : sequence[g] <= last
  /\ \A g \in Loans : status[g] \in {"idle", "check", "push"} => sequence[g] = 0
  /\ \A g \in Loans, f \in Fencers : sequence[g] > 0 =>
       IF sequence[g] <= through[f] THEN stamp[g] < stamp[f] ELSE stamp[f] < stamp[g]

(* The background queue holds numbered loans, in order of admission.        *)
LoansSorted ==
  /\ \A i \in DOMAIN bg : sequence[bg[i]] > 0
  /\ \A i, j \in DOMAIN bg : i < j => stamp[bg[i]] < stamp[bg[j]]

(* Does the thread meet a notification before the i-th job of the channel?  *)
Heralded(i) == Ready \in {cur, next} \/ \E j \in DOMAIN chan : j < i /\ chan[j] = Ready

Alive == pc \notin {"drop", "closing", "dropped", "stopped"}

(* Is the caller that holds the jobs lock about to send its notification?   *)
Notifying == lock # None /\ status[lock] = "notify"

(* Until it meets a notification the thread knows of no loan, and meets no  *)
(* job admitted after the oldest one.                                       *)
Announced ==
  background = "none" /\ bg # <<>> /\ Alive =>
    /\ Notifying \/ Heralded(Len(chan) + 1)
    /\ \A c \in {cur, next} \cap Foreground : stamp[c] < stamp[bg[1]]
    /\ \A i \in DOMAIN chan :
         chan[i] \in Foreground => stamp[chan[i]] < stamp[bg[1]] \/ Heralded(i)

(* No loan that waits is older than the loan or the fence that is served,   *)
(* or than the fence about to be.                                           *)
Older(c) == \A i \in DOMAIN bg : stamp[c] < stamp[bg[i]]

LoanServed ==
  /\ pc \in {"idle", "recv", "count"} => background = "some"
  /\ holder \in Loans => sequence[holder] > 0 /\ Older(holder)
  /\ holder \in Fencers => Older(holder)
  /\ pc = "count" /\ cur \in Fencers => Older(cur)

(* The turns counted are at least those that overtook the oldest loan.      *)
Overtaking ==
  /\ bg = <<>> => overtaken = 0
  /\ overtaken <= turns /\ overtaken <= ForegroundTurns
  /\ pc = "count" => overtaken < ForegroundTurns \/ (bg # <<>> /\ stamp[cur] < stamp[bg[1]])

OrderInv == FifoInv /\ Locking /\ Numbered

ServeInv == LoansSorted /\ Announced /\ LoanServed /\ Overtaking /\ FenceNotProlonged

-----------------------------------------------------------------------------
(* Numbers and the lock. *)

(* Steps that admit nothing and start no call. *)
LEMMA NumbersKept ==
  ASSUME OrderInv, UNCHANGED <<lock, last, sequence, through, stamp, clock>>,
         \A g \in Loans : status'[g] = status[g] \/ status'[g] \in {"done", "refused"}
  PROVE  Locking' /\ Numbered'
  BY DEF OrderInv, Locking, Numbered

(* Steps of the writer thread move callers only to the end of their call. *)
LEMMA ThreadNumbers ==
  ASSUME OrderInv, Scheduler \/ Serves \/ Fails \/ Drops
  PROVE  Locking' /\ Numbered'
<1> USE DEF orderVars, callerVars
<1>1. UNCHANGED <<lock, last, sequence, through, stamp, clock>>
  <2>1. CASE Scheduler
    BY <2>1 DEF Scheduler, TakeNext, TakeChannel, TakeEmpty, TakeClosed, IdlePop,
       IdleWait, RouteReady, RouteUnknown, RoutePop, RouteKeep, Count
  <2>2. CASE Serves \/ Fails \/ Drops
    BY <2>2 DEF Serves, Fails, Drops, Returned, GuardLost, LendFailed, BatchTake, BatchMeets,
       BatchEnd, BatchCommit, BatchPanic, DropStore, DropBackground, DropNoBackground,
       DropChannel
  <2> QED
    BY <2>1, <2>2
<1>2. \A g \in Loans : status'[g] = status[g] \/ status'[g] \in {"done", "refused"}
  <2>1. status \in [Callers -> {"idle", "check", "push", "notify", "waiting", "done", "refused"}]
    BY DEF OrderInv, FifoInv, TypeInv, TypeOK
  <2>2. CASE Returned \/ GuardLost \/ LendFailed
    BY <2>1, <2>2, CallerSets DEF Returned, GuardLost, LendFailed, Move
  <2>3. CASE BatchCommit
    BY <2>3, CallerSets DEF BatchCommit
  <2>4. CASE UNCHANGED status
    BY <2>4
  <2> QED
    BY <2>2, <2>3, <2>4 DEF Scheduler, TakeNext, TakeChannel, TakeEmpty, TakeClosed, IdlePop,
       IdleWait, RouteReady, RouteUnknown, RoutePop, RouteKeep, Count, Serves, Fails, Drops,
       BatchTake, BatchMeets, BatchEnd, BatchPanic, DropStore, DropBackground,
       DropNoBackground, DropChannel
<1> QED
  BY <1>1, <1>2, NumbersKept

(* A foreground job is admitted after all others, a fence with the present  *)
(* watermark.                                                               *)
LEMMA SendNumbers ==
  ASSUME OrderInv, NEW c \in Foreground, SendOpen(c),
         \/ c \notin Fencers /\ UNCHANGED through
         \/ c \in Fencers /\ through' = [through EXCEPT ![c] = last]
  PROVE  Locking' /\ Numbered'
<1> USE DEF OrderInv, FifoInv, TypeInv, TypeOK
<1>1. /\ UNCHANGED <<lock, last, sequence>> /\ clock' = clock + 1
      /\ stamp' = [stamp EXCEPT ![c] = clock + 1]
      /\ status' = [status EXCEPT ![c] = "waiting"]
  BY DEF SendOpen, Stamp, Move
<1>2. clock \in Nat /\ stamp \in [Callers -> Nat] /\ c \in Callers /\ c \notin Loans
  BY CallerSets, CallersAssumption
<1>3. stamp'[c] = clock + 1 /\ \A d \in Callers : d # c => stamp'[d] = stamp[d]
  BY <1>1, <1>2
<1>4. \A g \in Loans : status'[g] = status[g] /\ stamp'[g] = stamp[g]
  BY <1>1, <1>2, <1>3, CallerSets
<1>5. \A f \in Fencers : through'[f] = IF f = c THEN last ELSE through[f]
  OBVIOUS
<1>6. Locking'
  BY <1>1, <1>4 DEF Locking
<1>7. /\ \A d \in Callers : stamp[d] <= clock /\ stamp[d] \in Nat
      /\ \A g \in Loans : sequence[g] <= last /\ sequence[g] \in Nat
      /\ last \in Nat /\ \A f \in Fencers : through[f] <= last
  BY DEF Numbered
<1> HIDE DEF OrderInv, FifoInv, TypeInv, TypeOK
<1>8. \A d \in Callers : stamp'[d] <= clock'
  BY <1>1, <1>2, <1>3, <1>7, SMT
<1>9. \A f \in Fencers : through'[f] <= last'
  BY <1>1, <1>5, <1>7, SMT
<1>10. ASSUME NEW g \in Loans, NEW f \in Fencers, sequence[g] > 0
       PROVE  IF sequence[g] <= through'[f] THEN stamp'[g] < stamp'[f] ELSE stamp'[f] < stamp'[g]
  <2>1. g \in Callers /\ f \in Callers
    BY CallerSets
  <2>2. CASE f = c
    BY <1>2, <1>3, <1>4, <1>5, <1>7, <2>1, <2>2, SMT
  <2>3. CASE f # c
    BY <1>3, <1>4, <1>5, <1>10, <2>1, <2>3 DEF OrderInv, Numbered
  <2> QED
    BY <2>2, <2>3
<1> QED
  BY <1>1, <1>4, <1>6, <1>8, <1>9, <1>10 DEF OrderInv, Numbered

(* enqueue_background: the lock protects the number the push hands out. *)
LEMMA LoanNumbers ==
  ASSUME OrderInv, NEW g \in Loans,
         \/ BackgroundLock(g) \/ BackgroundGone(g) \/ BackgroundCheck(g)
         \/ BackgroundPush(g) \/ BackgroundPushClosed(g)
         \/ BackgroundNotify(g) \/ BackgroundNotifyGone(g)
  PROVE  Locking' /\ Numbered'
<1> USE DEF OrderInv, FifoInv, TypeInv, TypeOK, orderVars, callerVars
<1>1. g \in Callers
  BY CallerSets
<1>2. \A h \in Loans : h # g => status'[h] = status[h]
  <2>1. \E to : status' = [status EXCEPT ![g] = to]
    BY DEF BackgroundLock, BackgroundGone, BackgroundCheck, BackgroundPush,
       BackgroundPushClosed, BackgroundNotify, BackgroundNotifyGone, Move
  <2> QED
    BY <1>1, <2>1, CallerSets
<1>3. Locking'
  <2>1. CASE BackgroundLock(g)
    <3>1. lock = None /\ lock' = g
      BY <2>1 DEF BackgroundLock
    <3> QED
      BY <1>1, <1>2, <3>1, CallerSets DEF Locking
  <2>2. CASE \/ BackgroundGone(g) \/ BackgroundCheck(g) \/ BackgroundPush(g)
             \/ BackgroundPushClosed(g) \/ BackgroundNotify(g) \/ BackgroundNotifyGone(g)
    <3>1. status[g] \in {"check", "push", "notify"}
      BY <2>2 DEF BackgroundGone, BackgroundCheck, BackgroundPush,
         BackgroundPushClosed, BackgroundNotify, BackgroundNotifyGone
    <3>2. lock' = lock \/ status'[g] \notin {"check", "push", "notify"}
      BY <1>1, <2>2 DEF BackgroundGone, BackgroundCheck, BackgroundPush,
         BackgroundPushClosed, BackgroundNotify, BackgroundNotifyGone, Move
    <3> QED
      BY <1>2, <3>1, <3>2 DEF Locking
  <2> QED
    BY <2>1, <2>2
<1>4. CASE BackgroundPush(g)
  <2>1. /\ last' = last + 1 /\ sequence' = [sequence EXCEPT ![g] = last + 1]
        /\ clock' = clock + 1 /\ stamp' = [stamp EXCEPT ![g] = clock + 1]
        /\ through' = through /\ status'[g] \in {"notify", "waiting"}
    BY <1>1, <1>4 DEF BackgroundPush, Stamp, Move
  <2>2. /\ sequence'[g] = last + 1 /\ stamp'[g] = clock + 1
        /\ \A h \in Loans : h # g => sequence'[h] = sequence[h]
        /\ \A c \in Callers : c # g => stamp'[c] = stamp[c]
    BY <1>1, <2>1
  <2>3. /\ \A d \in Callers : stamp[d] <= clock /\ stamp[d] \in Nat
        /\ \A h \in Loans : sequence[h] <= last /\ sequence[h] \in Nat
        /\ last \in Nat /\ clock \in Nat
        /\ \A f \in Fencers : through[f] <= last /\ through[f] \in Nat
    BY DEF Numbered
  <2> HIDE DEF OrderInv, FifoInv, TypeInv, TypeOK
  <2>4. \A d \in Callers : stamp'[d] <= clock'
    BY <2>1, <2>2, <2>3, SMT
  <2>5. \A h \in Loans : sequence'[h] <= last'
    BY <2>1, <2>2, <2>3, SMT
  <2>6. \A f \in Fencers : through'[f] <= last'
    BY <2>1, <2>3, SMT
  <2>7. ASSUME NEW h \in Loans, NEW f \in Fencers, sequence'[h] > 0
        PROVE  IF sequence'[h] <= through'[f] THEN stamp'[h] < stamp'[f] ELSE stamp'[f] < stamp'[h]
    <3>1. h \in Callers /\ f \in Callers /\ f # g
      BY CallerSets, CallersAssumption
    <3>2. CASE h = g
      BY <2>1, <2>2, <2>3, <3>1, <3>2, SMT
    <3>3. CASE h # g
      BY <2>1, <2>2, <2>7, <3>1, <3>3 DEF OrderInv, Numbered
    <3> QED
      BY <3>2, <3>3
  <2> QED
    BY <1>2, <1>3, <2>1, <2>2, <2>4, <2>5, <2>6, <2>7 DEF OrderInv, Numbered
<1>5. CASE \/ BackgroundLock(g) \/ BackgroundGone(g) \/ BackgroundCheck(g)
           \/ BackgroundPushClosed(g) \/ BackgroundNotify(g) \/ BackgroundNotifyGone(g)
  <2>1. UNCHANGED <<last, sequence, through, stamp, clock>>
    BY <1>5 DEF BackgroundLock, BackgroundGone, BackgroundCheck,
       BackgroundPushClosed, BackgroundNotify, BackgroundNotifyGone
  <2>2. status'[g] \in {"idle", "check", "push"} => status[g] \in {"idle", "check", "push"}
    BY <1>1, <1>5 DEF BackgroundLock, BackgroundGone, BackgroundCheck,
       BackgroundPushClosed, BackgroundNotify, BackgroundNotifyGone, Move
  <2> QED
    BY <1>2, <1>3, <2>1, <2>2 DEF Numbered
<1> QED
  BY <1>4, <1>5

(* Numbers, watermarks and the lock are inductive. *)
LEMMA OrderStep == OrderInv /\ [Next]_vars => OrderInv'
<1> SUFFICES ASSUME OrderInv, [Next]_vars PROVE Locking' /\ Numbered'
  BY FifoStep DEF OrderInv
<1> USE DEF orderVars, callerVars
<1>1. TypeOK
  BY DEF OrderInv, FifoInv, TypeInv
<1>2. ASSUME NEW c \in Callers, SendRefused(c) \/ Disconnected(c) PROVE Locking' /\ Numbered'
  <2>1. \A g \in Loans : status'[g] = status[g] \/ status'[g] \in {"done", "refused"}
    BY <1>1, <1>2, CallerSets DEF SendRefused, Disconnected, Move, TypeOK
  <2>2. UNCHANGED <<lock, last, sequence, through, stamp, clock>>
    BY <1>2 DEF SendRefused, Disconnected
  <2> QED
    BY <2>1, <2>2, NumbersKept
<1>3. ASSUME NEW c \in Callers, Calls(c) PROVE Locking' /\ Numbered'
  <2>1. CASE c \in Lenders \cup Batchers /\ Send(c)
    BY <2>1, CallerSets, CallersAssumption, SendNumbers DEF Send
  <2>2. CASE c \in Fencers /\ SendFence(c)
    BY <2>2, CallerSets, SendNumbers DEF SendFence
  <2> QED
    BY <1>2, <1>3, <2>1, <2>2, LoanNumbers DEF Calls
<1>4. ASSUME NEW c \in Callers, Proceeds(c) PROVE Locking' /\ Numbered'
  BY <1>2, <1>4, LoanNumbers DEF Proceeds
<1>5. CASE Close \/ Publish \/ UNCHANGED vars
  <2>1. UNCHANGED <<lock, last, sequence, through, stamp, clock, status>>
    BY <1>5 DEF Close, Publish, vars
  <2> QED
    BY <2>1, NumbersKept
<1> QED
  BY <1>3, <1>4, <1>5, ThreadNumbers DEF Next

-----------------------------------------------------------------------------
(* What is served, and what waits. *)

(* The callers the queues hold are of their kind. *)
LEMMA Kinds ==
  ASSUME OrderInv
  PROVE  /\ bg \in Seq(Loans) /\ \A i \in DOMAIN bg : i \in Nat /\ bg[i] \in Loans
         /\ bg # <<>> => 1 \in DOMAIN bg /\ Head(bg) = bg[1]
         /\ chan \in Seq(Foreground \cup {Ready})
         /\ \A i \in DOMAIN chan : i \in Nat /\ chan[i] \in Foreground \cup {Ready}
         /\ {cur, next} \subseteq Foreground \cup {Ready, None}
         /\ stamp \in [Callers -> Nat] /\ clock \in Nat
         /\ \A c \in Callers : stamp[c] <= clock /\ stamp[c] \in Nat
  BY SMT DEF OrderInv, FifoInv, TypeInv, TypeOK, Numbered

(* Steps that move no job keep what is served, and a caller about to notify. *)
LEMMA QuietServe ==
  ASSUME OrderInv, ServeInv,
         UNCHANGED <<chan, bg, next, cur, holder, pc, background, turns, overtaken>>,
         UNCHANGED <<sequence, through, stamp, clock>>,
         Notifying => Notifying' \/ ~ Alive
  PROVE  ServeInv'
<1>1. LoansSorted' /\ LoanServed' /\ Overtaking' /\ FenceNotProlonged'
  BY DEF ServeInv, LoansSorted, LoanServed, Older, Overtaking, FenceNotProlonged
<1>2. \A i : Heralded(i)' <=> Heralded(i)
  BY DEF Heralded
<1>3. Alive' <=> Alive
  BY DEF Alive
<1>4. Announced'
  BY <1>2, <1>3 DEF ServeInv, Announced
<1> QED
  BY <1>1, <1>4 DEF ServeInv

(* Closing the background queue leaves nothing to order. *)
LEMMA CloseServe ==
  ASSUME OrderInv, ServeInv, CloseQueue,
         UNCHANGED <<next, cur, holder, background, turns, sequence, through, stamp>>,
         pc' = pc \/ pc' = "dropped"
  PROVE  ServeInv'
<1>1. bg' = <<>> /\ overtaken' = 0 /\ \A i \in DOMAIN bg' : FALSE
  BY SMT DEF CloseQueue
<1>2. LoansSorted' /\ Announced' /\ FenceNotProlonged'
  BY <1>1 DEF LoansSorted, Announced, ServeInv, FenceNotProlonged
<1>3. LoanServed'
  BY <1>1 DEF ServeInv, LoanServed, Older
<1>4. turns \in Nat
  BY DEF OrderInv, FifoInv, TypeInv, TypeOK
<1>5. Overtaking'
  BY <1>1, <1>4, BoundsAssumption, SMT DEF Overtaking
<1> QED
  BY <1>2, <1>3, <1>5 DEF ServeInv

(* A foreground job joins the channel behind every notification. *)
LEMMA SendServe ==
  ASSUME OrderInv, ServeInv, NEW c \in Foreground, SendOpen(c),
         \A f \in Fencers : f # c => through'[f] = through[f]
  PROVE  ServeInv'
<1>1. /\ chan' = Append(chan, c) /\ status[c] = "idle" /\ lock = None
      /\ stamp' = [stamp EXCEPT ![c] = clock + 1]
      /\ UNCHANGED <<bg, next, cur, holder, pc, background, turns, overtaken, sequence>>
  BY DEF SendOpen, Stamp, threadVars, turnVars
<1>2. \A d \in Callers : d # c => stamp'[d] = stamp[d]
  BY <1>1, Kinds
<1>3. \A i \in DOMAIN bg : bg[i] # c /\ stamp'[bg[i]] = stamp[bg[i]]
  BY <1>2, Kinds, CallerSets, CallersAssumption, SMT
<1>4. \A d \in {cur, next, holder} \cap Callers : d # c /\ stamp'[d] = stamp[d]
  <2>1. \A d \in {cur, next, holder} \cap Foreground : status[d] # "idle"
    BY DEF OrderInv, FifoInv, AllAdmitted, Admitted
  <2>2. \A d \in {cur, next, holder} \cap Callers : d # c
    BY <1>1, <2>1, CallerSets
  <2> QED
    BY <1>2, <2>2
<1>5. \A i \in DOMAIN chan : chan[i] \in Foreground =>
        chan[i] # c /\ stamp'[chan[i]] = stamp[chan[i]]
  <2>1. \A i \in DOMAIN chan : chan[i] \in Foreground => status[chan[i]] # "idle"
    BY DEF OrderInv, FifoInv, AllAdmitted, Admitted
  <2> QED
    BY <1>1, <1>2, <2>1, CallerSets
<1>6. /\ \A i \in DOMAIN chan' : i \in Nat /\ (i \in DOMAIN chan \/ i = Len(chan) + 1)
      /\ \A i \in DOMAIN chan : i \in DOMAIN chan' /\ chan'[i] = chan[i] /\ i < Len(chan) + 1
      /\ Len(chan') = Len(chan) + 1 /\ Len(chan) \in Nat
  BY <1>1, Kinds, AppendIndex, CallerSets, SMTT(30)
<1>7. LoansSorted'
  BY <1>1, <1>3, SMT DEF ServeInv, LoansSorted
<1>8. LoanServed'
  <2>1. \A d \in {cur, holder} \cap Callers : Older(d) => Older(d)'
    BY <1>1, <1>3, <1>4, SMT DEF Older
  <2> QED
    BY <1>1, <2>1, CallerSets DEF ServeInv, LoanServed
<1>9. Overtaking'
  <2>1. pc = "count" => cur \in Callers
    BY CallerSets DEF OrderInv, FifoInv, TypeInv, TypeOK, Shape
  <2>2. bg # <<>> => stamp'[bg[1]] = stamp[bg[1]]
    BY <1>3, Kinds
  <2> QED
    BY <1>1, <1>4, <2>1, <2>2 DEF ServeInv, Overtaking
<1>10. FenceNotProlonged'
  BY <1>1, <1>4, CallerSets DEF ServeInv, FenceNotProlonged
<1>11. Announced'
  <2> SUFFICES ASSUME background = "none", bg # <<>>, Alive
               PROVE  /\ Heralded(Len(chan) + 1)'
                      /\ \A d \in {cur, next} \cap Foreground : stamp'[d] < stamp'[bg[1]]
                      /\ \A i \in DOMAIN chan' :
                           chan'[i] \in Foreground => stamp'[chan'[i]] < stamp'[bg[1]] \/ Heralded(i)'
    BY <1>1 DEF Announced, Alive
  <2>1. \A i \in Nat : Heralded(i) => Heralded(i)'
    BY <1>1, <1>6 DEF Heralded
  <2>2. Heralded(Len(chan) + 1)
    BY <1>1 DEF ServeInv, Announced, Notifying
  <2>3. /\ \A n \in Nat : n = Len(chan) + 1 => Heralded(n)'
        /\ Heralded(Len(chan) + 1)'
    <3>1. PICK n \in Nat : n = Len(chan) + 1
      BY <1>6, SMT
    <3>2. Heralded(n)'
      BY <2>1, <2>2, <3>1
    <3>3. n < Len(chan') + 1
      BY <1>6, <3>1, SMT
    <3>4. \A j \in DOMAIN chan' : j < n => j < Len(chan') + 1
      BY <1>6, <3>3, SMT
    <3> QED
      BY <3>1, <3>2, <3>4 DEF Heralded
  <2>4. stamp'[bg[1]] = stamp[bg[1]]
    BY <1>3, Kinds
  <2>5. \A d \in {cur, next} \cap Foreground : stamp'[d] < stamp'[bg[1]]
    BY <1>4, <2>4, CallerSets DEF ServeInv, Announced
  <2>6. \A i \in DOMAIN chan :
          chan[i] \in Foreground => stamp'[chan[i]] < stamp'[bg[1]] \/ Heralded(i)'
    BY <1>5, <1>6, <2>1, <2>4, Kinds DEF ServeInv, Announced
  <2>7. \A i \in DOMAIN chan' :
          chan'[i] \in Foreground => stamp'[chan'[i]] < stamp'[bg[1]] \/ Heralded(i)'
    BY <1>6, <2>3, <2>6
  <2> QED
    BY <2>3, <2>5, <2>7
<1> QED
  BY <1>7, <1>8, <1>9, <1>10, <1>11 DEF ServeInv

(* A loan joins the background queue behind all others. *)
LEMMA PushServe ==
  ASSUME OrderInv, ServeInv, NEW g \in Loans, BackgroundPush(g)
  PROVE  ServeInv'
<1>1. /\ bg' = Append(bg, g) /\ status[g] = "push"
      /\ stamp' = [stamp EXCEPT ![g] = clock + 1]
      /\ sequence' = [sequence EXCEPT ![g] = last + 1]
      /\ lock' = IF bg = <<>> THEN lock ELSE None
      /\ status' = [status EXCEPT ![g] = IF bg = <<>> THEN "notify" ELSE "waiting"]
      /\ UNCHANGED <<chan, next, cur, holder, pc, background, turns, overtaken, through>>
  BY DEF BackgroundPush, Stamp, Move, threadVars, turnVars
<1>2. /\ g \in Callers /\ lock = g /\ sequence[g] = 0
      /\ last \in Nat /\ sequence \in [Loans -> Nat]
      /\ status \in [Callers -> {"idle", "check", "push", "notify", "waiting", "done", "refused"}]
  BY <1>1, CallerSets DEF OrderInv, FifoInv, TypeInv, TypeOK, Locking, Numbered
<1>3. /\ stamp'[g] = clock + 1 /\ \A d \in Callers : d # g => stamp'[d] = stamp[d]
      /\ sequence'[g] > 0 /\ \A h \in Loans : h # g => sequence'[h] = sequence[h]
  BY <1>1, <1>2, Kinds, SMT
<1>4. \A d \in Callers : d # g => stamp'[d] < stamp'[g]
  BY <1>3, Kinds, SMT
<1>5. \A i \in DOMAIN bg : /\ bg[i] # g /\ stamp'[bg[i]] = stamp[bg[i]]
                           /\ bg[i] \in Callers /\ sequence'[bg[i]] > 0
  BY <1>2, <1>3, Kinds, CallerSets, SMTT(30) DEF ServeInv, LoansSorted
<1>6. \A i \in DOMAIN bg' :
        /\ i \in Nat
        /\ \/ i \in DOMAIN bg /\ i < Len(bg) + 1 /\ bg'[i] = bg[i]
           \/ i = Len(bg) + 1 /\ bg'[i] = g
  BY <1>1, Kinds, AppendIndex, SMT
<1>7. Len(bg) \in Nat /\ bg' # <<>> /\ (bg # <<>> => bg'[1] = bg[1]) /\ (bg = <<>> => bg'[1] = g)
  BY <1>1, Kinds, SMT
<1>8. \A d \in {cur, next, holder} \cap Callers : d # g /\ stamp'[d] = stamp[d]
  <2>1. holder \in Loans => sequence[holder] > 0
    BY DEF ServeInv, LoanServed
  <2>2. \A d \in {cur, next, holder} \cap Callers : d # g
    BY <1>2, <2>1, Kinds, CallerSets, CallersAssumption, SMT
  <2> QED
    BY <1>3, <2>2
<1>9. LoansSorted'
  <2>1. \A i, j \in DOMAIN bg' : i < j => i \in DOMAIN bg /\ bg'[i] = bg[i]
    BY <1>6, <1>7, SMT
  <2>2. \A i, j \in DOMAIN bg' : i < j => stamp'[bg'[i]] < stamp'[bg'[j]]
    BY <1>4, <1>5, <1>6, <2>1, SMT DEF ServeInv, LoansSorted
  <2> QED
    BY <1>3, <1>5, <1>6, <2>2 DEF LoansSorted
<1>10. LoanServed'
  <2>1. \A d \in {cur, holder} \cap Callers : Older(d) => Older(d)'
    BY <1>4, <1>5, <1>6, <1>8 DEF Older
  <2>2. holder \in Loans => sequence'[holder] > 0
    BY <1>3, <1>8, CallerSets DEF ServeInv, LoanServed
  <2> QED
    BY <1>1, <2>1, <2>2, CallerSets DEF ServeInv, LoanServed
<1>11. Overtaking'
  <2>1. pc = "count" => cur \in Callers
    BY CallerSets DEF OrderInv, FifoInv, TypeInv, TypeOK, Shape
  <2>2. bg # <<>> => stamp'[bg'[1]] = stamp[bg[1]]
    BY <1>5, <1>7, Kinds
  <2> QED
    BY <1>1, <1>7, <1>8, <2>1, <2>2 DEF ServeInv, Overtaking
<1>12. FenceNotProlonged'
  BY <1>1, <1>8, CallerSets DEF ServeInv, FenceNotProlonged
<1>13. Announced'
  <2>1. \A i : Heralded(i)' <=> Heralded(i)
    BY <1>1 DEF Heralded
  <2>2. \A i \in DOMAIN chan : chan[i] \in Foreground =>
          chan[i] \in Callers /\ chan[i] # g /\ stamp'[chan[i]] = stamp[chan[i]]
    BY <1>3, CallerSets, CallersAssumption
  <2>3. CASE bg = <<>>
    <3>1. Notifying'
      BY <1>1, <1>2, <2>3, CallerSets DEF Notifying
    <3>2. \A d \in Foreground : stamp'[d] < stamp'[bg'[1]]
      BY <1>4, <1>7, <2>3, CallerSets, CallersAssumption
    <3> QED
      BY <1>1, <3>1, <3>2 DEF Announced
  <2>4. CASE bg # <<>>
    <3>1. ~ Notifying
      BY <1>1, <1>2 DEF Notifying
    <3>2. stamp'[bg'[1]] = stamp[bg[1]]
      BY <1>5, <1>7, <2>4, Kinds
    <3>3. \A d \in {cur, next} \cap Foreground : stamp'[d] = stamp[d]
      BY <1>8, CallerSets
    <3>4. Alive' <=> Alive
      BY <1>1 DEF Alive
    <3> QED
      BY <1>1, <2>1, <2>2, <2>4, <3>1, <3>2, <3>3, <3>4 DEF ServeInv, Announced
  <2> QED
    BY <2>3, <2>4
<1> QED
  BY <1>9, <1>10, <1>11, <1>12, <1>13 DEF ServeInv

(* The notification joins the channel. *)
LEMMA NotifyServe ==
  ASSUME OrderInv, ServeInv, NEW g \in Loans, BackgroundNotify(g)
  PROVE  ServeInv'
<1>1. /\ chan' = Append(chan, Ready)
      /\ UNCHANGED <<bg, next, cur, holder, pc, background, turns, overtaken>>
      /\ UNCHANGED <<sequence, through, stamp>>
  BY DEF BackgroundNotify, orderVars, threadVars, turnVars
<1>2. LoansSorted' /\ LoanServed' /\ Overtaking' /\ FenceNotProlonged'
  BY <1>1 DEF ServeInv, LoansSorted, LoanServed, Older, Overtaking, FenceNotProlonged
<1>3. /\ \A i \in DOMAIN chan' : i \in DOMAIN chan \/ chan'[i] = Ready
      /\ \A i \in DOMAIN chan : i \in DOMAIN chan' /\ chan'[i] = chan[i]
      /\ Len(chan') \in DOMAIN chan' /\ chan'[Len(chan')] = Ready /\ Len(chan') < Len(chan') + 1
  BY <1>1, Kinds, SMT
<1>4. Heralded(Len(chan) + 1)'
  BY <1>3 DEF Heralded
<1>5. \A i : Heralded(i) => Heralded(i)'
  BY <1>1, <1>3 DEF Heralded
<1>6. Announced'
  BY <1>1, <1>3, <1>4, <1>5, CallerSets DEF ServeInv, Announced, Alive
<1> QED
  BY <1>2, <1>6 DEF ServeInv

(* Steps of the thread that serve nobody keep what is served. *)
LEMMA MoveServe ==
  ASSUME OrderInv, ServeInv, pc # "lent", pc' # "count",
         pc' \in {"idle", "recv"} => background' = "some",
         UNCHANGED <<bg, holder, turns, overtaken, sequence, stamp>>
  PROVE  LoansSorted' /\ LoanServed' /\ Overtaking' /\ FenceNotProlonged'
<1>1. holder' = None /\ None \notin Loans /\ None \notin Fencers
  BY CallerSets DEF OrderInv, FifoInv, Shape
<1>2. LoansSorted' /\ Overtaking'
  BY DEF ServeInv, LoansSorted, Overtaking
<1> QED
  BY <1>1, <1>2 DEF LoanServed, FenceNotProlonged

(* Moving the job in hand to or from the put-back slot hides no             *)
(* notification.                                                            *)
LEMMA AnnouncedKept ==
  ASSUME ServeInv, Alive, UNCHANGED <<chan, bg, background, stamp>>,
         {cur', next'} \cap (Foreground \cup {Ready}) = {cur, next} \cap (Foreground \cup {Ready}),
         Notifying => Notifying'
  PROVE  Announced'
<1>1. {cur', next'} \cap Foreground = {cur, next} \cap Foreground
  BY CallerSets
<1>2. Ready \in {cur', next'} <=> Ready \in {cur, next}
  BY CallerSets
<1>3. \A i : Heralded(i)' <=> Heralded(i)
  BY <1>2 DEF Heralded
<1> QED
  BY <1>1, <1>3 DEF ServeInv, Announced

(* Taking the first job of the channel meets what comes first. *)
LEMMA HeadAnnounced ==
  ASSUME OrderInv, ServeInv, Alive, chan # <<>>, chan' = Tail(chan),
         cur = None, next = None, next' = None,
         cur' = Head(chan) \/ (Head(chan) \in Foreground /\ cur' = None),
         UNCHANGED <<bg, background, stamp, lock, status>>
  PROVE  Announced'
<1>1. /\ 1 \in DOMAIN chan /\ Head(chan) = chan[1]
      /\ \A i \in DOMAIN chan' : i \in Nat /\ i + 1 \in DOMAIN chan /\ chan'[i] = chan[i + 1]
      /\ \A j \in DOMAIN chan : j \in Nat /\ (j # 1 => j - 1 \in DOMAIN chan' /\ chan'[j - 1] = chan[j])
      /\ Len(chan') + 1 = Len(chan) /\ Len(chan') \in Nat
  BY Kinds, SMTT(30)
<1>2. ASSUME NEW i \in Nat, Heralded(i + 1) PROVE Heralded(i)'
  <2>1. PICK j \in DOMAIN chan : j < i + 1 /\ chan[j] = Ready
    BY <1>2, CallerSets DEF Heralded
  <2>2. CASE j = 1
    <3>1. cur' = Ready
      BY <1>1, <2>1, <2>2, CallerSets
    <3> QED
      BY <3>1 DEF Heralded
  <2>3. CASE j # 1
    <3>1. j - 1 \in DOMAIN chan' /\ chan'[j - 1] = Ready /\ j - 1 < i
      BY <1>1, <2>1, <2>3, SMT
    <3> QED
      BY <3>1 DEF Heralded
  <2> QED
    BY <2>2, <2>3
<1>3. Heralded(Len(chan) + 1) => Heralded(Len(chan) + 1)'
  <2>1. PICK n \in Nat : n = Len(chan') + 1
    <3>1. Len(chan') + 1 \in Nat
      BY <1>1, SMT
    <3> QED
      BY <3>1
  <2>2. Heralded(n + 1) => Heralded(n)'
    BY <1>2, <2>1
  <2>3. n + 1 = Len(chan) + 1
    BY <1>1, <2>1
  <2>4. Heralded(n)' => Heralded(Len(chan) + 1)'
    BY <2>1 DEF Heralded
  <2> QED
    BY <2>2, <2>3, <2>4
<1>4. ~ Heralded(1)
  BY Kinds, CallerSets, SMT DEF Heralded
<1>5. (Notifying' <=> Notifying) /\ None \notin Foreground
  BY CallerSets DEF Notifying
<1>6. SUFFICES ASSUME background = "none", bg # <<>> PROVE Announced'
  BY DEF Announced
<1>7. cur' \in Foreground => stamp[cur'] < stamp[bg[1]]
  BY <1>1, <1>4, <1>5, <1>6, SMT DEF ServeInv, Announced
<1>8. \A i \in DOMAIN chan' :
        chan'[i] \in Foreground => stamp[chan'[i]] < stamp[bg[1]] \/ Heralded(i)'
  BY <1>1, <1>2, <1>6 DEF ServeInv, Announced
<1> QED
  BY <1>3, <1>5, <1>6, <1>7, <1>8 DEF ServeInv, Announced

(* The oldest loan is dispatched. *)
LEMMA LoanServe ==
  ASSUME OrderInv, ServeInv, DispatchLoan, bg # <<>>, background = "some",
         UNCHANGED <<background, sequence, through, stamp>>,
         next' \in Fencers /\ through[next'] > 0 => stamp[bg[1]] < stamp[next']
  PROVE  ServeInv'
<1>1. /\ holder' = bg[1] /\ bg' = Tail(bg) /\ turns' = 0 /\ overtaken' = 0
      /\ cur' = None /\ pc' = "lent" /\ 1 \in DOMAIN bg /\ bg[1] \in Loans
  BY Kinds DEF DispatchLoan
<1>2. \A i \in DOMAIN bg' : i \in Nat /\ 1 < i + 1 /\ i + 1 \in DOMAIN bg /\ bg'[i] = bg[i + 1]
  BY <1>1, Kinds, TailIndex
<1>3. LoansSorted'
  <2>1. \A i, j \in DOMAIN bg' : i < j => i + 1 < j + 1
    BY <1>2, SMT
  <2> QED
    BY <1>2, <2>1 DEF ServeInv, LoansSorted
<1>4. sequence[bg[1]] > 0 /\ Older(holder)'
  BY <1>1, <1>2 DEF ServeInv, LoansSorted, Older
<1>5. LoanServed'
  BY <1>1, <1>4, CallerSets, CallersAssumption DEF LoanServed
<1>6. Announced' /\ FenceNotProlonged'
  BY <1>1 DEF Announced, FenceNotProlonged
<1>7. Overtaking'
  BY <1>1, BoundsAssumption, SMT DEF Overtaking
<1> QED
  BY <1>3, <1>5, <1>6, <1>7 DEF ServeInv

(* What is older than the oldest loan is older than every loan. *)
LEMMA OldestFirst ==
  ASSUME OrderInv, ServeInv, NEW c \in Callers, bg # <<>> => stamp[c] < stamp[bg[1]]
  PROVE  Older(c)
<1>1. \A i \in DOMAIN bg : bg # <<>> /\ (i = 1 \/ 1 < i) /\ 1 \in DOMAIN bg /\ bg[i] \in Callers
  BY Kinds, CallerSets, SMT
<1>2. \A i \in DOMAIN bg : i = 1 \/ stamp[bg[1]] < stamp[bg[i]]
  BY <1>1 DEF ServeInv, LoansSorted
<1>3. \A i \in DOMAIN bg : stamp[bg[i]] \in Nat /\ stamp[bg[1]] \in Nat /\ stamp[c] \in Nat
  BY <1>1, Kinds
<1> QED
  BY <1>1, <1>2, <1>3, SMT DEF Older

(* A foreground job is dispatched: a fence has no older loan to wait for,   *)
(* and a turn that overtakes the oldest loan is counted.                    *)
LEMMA ForegroundServe ==
  ASSUME OrderInv, ServeInv, RouteUnknown \/ Count
  PROVE  ServeInv'
<1> USE DEF orderVars, callerVars
<1>1. /\ DispatchForeground /\ pc \in {"route", "count"} /\ Alive
      /\ UNCHANGED <<chan, bg, next, background, sequence, through, stamp, lock, status>>
  BY DEF RouteUnknown, Count, Alive
<1>2. cur \in Foreground /\ cur # Ready /\ next = None /\ holder = None
  BY CallerSets DEF RouteUnknown, Count, OrderInv, FifoInv, TypeInv, TypeOK, Shape
<1>3. /\ cur' = None /\ pc' \in {"batch", "lent"} /\ holder' \in {None, cur}
      /\ overtaken' = IF bg # <<>> /\ stamp[cur] > stamp[bg[1]] THEN overtaken + 1 ELSE overtaken
  BY <1>1, <1>2, Kinds DEF DispatchForeground
<1>4. RouteUnknown /\ bg # <<>> => background = "none" /\ stamp[cur] < stamp[bg[1]]
  BY <1>1, <1>2 DEF RouteUnknown, ServeInv, Announced
<1>5. cur \in Fencers => Older(cur)
  <2>1. CASE RouteUnknown
    BY <1>2, <1>4, <2>1, OldestFirst, CallerSets
  <2>2. CASE Count
    BY <2>2 DEF Count, ServeInv, LoanServed
  <2> QED
    BY <2>1, <2>2
<1>6. LoansSorted'
  BY <1>1 DEF ServeInv, LoansSorted
<1>7. holder' \notin Loans /\ (holder' \in Fencers => Older(holder)')
  BY <1>1, <1>2, <1>3, <1>5, CallerSets, CallersAssumption DEF Older
<1>8. LoanServed' /\ FenceNotProlonged'
  BY <1>3, <1>7 DEF LoanServed, FenceNotProlonged
<1>9. Announced'
  <2>1. CASE RouteUnknown
    <3>1. /\ {cur', next'} \cap Foreground = {} /\ \A i : Heralded(i)' <=> Heralded(i)
      BY <1>1, <1>2, <1>3, CallerSets DEF Heralded
    <3> QED
      BY <1>1, <3>1 DEF ServeInv, Announced, Notifying
  <2>2. CASE Count
    <3>1. background' = "some"
      BY <1>1, <2>2 DEF Count, ServeInv, LoanServed
    <3> QED
      BY <3>1 DEF Announced
  <2> QED
    BY <2>1, <2>2
<1>10. Overtaking'
  <2>1. turns \in Nat /\ overtaken \in Nat /\ ForegroundTurns \in Nat /\ cur \in Callers
    BY <1>2, CallerSets, BoundsAssumption DEF OrderInv, FifoInv, TypeInv, TypeOK
  <2>2. bg # <<>> => bg[1] \in Callers
    BY Kinds, CallerSets
  <2>3. CASE RouteUnknown
    <3>1. overtaken' = overtaken /\ turns' = turns
      BY <1>3, <1>4, <2>1, <2>2, <2>3, Kinds, SMT DEF RouteUnknown
    <3> QED
      BY <1>1, <1>3, <3>1 DEF ServeInv, Overtaking
  <2>4. CASE Count
    <3>1. turns' = IF bg # <<>> THEN turns + 1 ELSE 0
      BY <2>4 DEF Count
    <3>2. overtaken < ForegroundTurns \/ (bg # <<>> /\ stamp[cur] < stamp[bg[1]])
      BY <2>4 DEF Count, ServeInv, Overtaking
    <3>3. overtaken <= turns /\ overtaken <= ForegroundTurns /\ (bg = <<>> => overtaken = 0)
      BY DEF ServeInv, Overtaking
    <3>4. overtaken' <= turns' /\ overtaken' <= ForegroundTurns /\ (bg = <<>> => overtaken' = 0)
      BY <1>3, <2>1, <2>2, <3>1, <3>2, <3>3, Kinds, SMTT(30)
    <3> QED
      BY <1>1, <1>3, <3>4 DEF Overtaking
  <2> QED
    BY <2>3, <2>4
<1> QED
  BY <1>6, <1>8, <1>9, <1>10 DEF ServeInv

(* The decision to run the job in hand before every loan that waits. *)
LEMMA KeepServe ==
  ASSUME OrderInv, ServeInv, RouteKeep
  PROVE  ServeInv'
<1>1. /\ background = "some" /\ ~ Poppable /\ pc' = "count" /\ pc = "route"
      /\ UNCHANGED <<bg, cur, next, background, holder, turns, overtaken>>
      /\ UNCHANGED <<sequence, through, stamp>>
  BY DEF RouteKeep, callerVars, orderVars, turnVars
<1>2. /\ cur \in Foreground /\ holder = None
      /\ turns \in Nat /\ overtaken \in Nat /\ ForegroundTurns \in Nat \ {0}
      /\ sequence \in [Loans -> Nat] /\ through \in [Fencers -> Nat]
  BY CallerSets, BoundsAssumption DEF RouteKeep, OrderInv, FifoInv, TypeInv, TypeOK, Shape
<1>3. ASSUME bg # <<>>, cur \in Fencers PROVE stamp[cur] < stamp[bg[1]]
  <2>1. bg[1] \in Loans /\ sequence[bg[1]] \in Nat /\ sequence[bg[1]] > 0 /\ through[cur] \in Nat
    BY <1>2, <1>3, Kinds DEF ServeInv, LoansSorted
  <2>2. Head(bg) = bg[1]
    BY <1>3, Kinds
  <2>3. ~ (through[cur] > 0 /\ sequence[bg[1]] <= through[cur])
    BY <1>1, <1>3, <2>2 DEF Poppable
  <2>4. ~ (sequence[bg[1]] <= through[cur])
    BY <2>1, <2>3, SMT
  <2> QED
    BY <1>3, <2>1, <2>4 DEF OrderInv, Numbered
<1>4. cur \in Fencers => Older(cur)
  BY <1>2, <1>3, OldestFirst, CallerSets
<1>5. overtaken < ForegroundTurns \/ (bg # <<>> /\ stamp[cur] < stamp[bg[1]])
  <2>1. CASE bg = <<>>
    BY <1>2, <2>1, SMT DEF ServeInv, Overtaking
  <2>2. CASE bg # <<>> /\ cur \notin Fencers
    <3>1. turns < ForegroundTurns
      BY <1>1, <1>2, <2>2, SMT DEF Poppable
    <3>2. overtaken <= turns
      BY DEF ServeInv, Overtaking
    <3> QED
      BY <1>2, <3>1, <3>2, SMT
  <2> QED
    BY <1>3, <2>1, <2>2
<1>6. LoansSorted' /\ Announced' /\ FenceNotProlonged'
  BY <1>1 DEF ServeInv, LoansSorted, Announced, FenceNotProlonged
<1>7. LoanServed'
  BY <1>1, <1>2, <1>4, CallerSets DEF LoanServed, Older
<1>8. Overtaking'
  BY <1>1, <1>5 DEF ServeInv, Overtaking
<1> QED
  BY <1>6, <1>7, <1>8 DEF ServeInv

(* Admission::next keeps the order of loans and fences. *)
LEMMA SchedulerServe ==
  ASSUME OrderInv, ServeInv, Scheduler
  PROVE  ServeInv'
<1> USE DEF orderVars, callerVars, turnVars
<1>1. pc = "take" => cur = None
  BY DEF OrderInv, FifoInv, Shape
<1>2. CASE TakeNext
  <2>1. LoansSorted' /\ LoanServed' /\ Overtaking' /\ FenceNotProlonged'
    BY <1>2, MoveServe DEF TakeNext
  <2>2. Announced'
    BY <1>1, <1>2, AnnouncedKept DEF TakeNext, Alive, Notifying
  <2> QED
    BY <2>1, <2>2 DEF ServeInv
<1>3. CASE TakeChannel
  <2>1. LoansSorted' /\ LoanServed' /\ Overtaking' /\ FenceNotProlonged'
    BY <1>3, MoveServe DEF TakeChannel
  <2>2. cur = None
    BY <1>3 DEF TakeChannel, OrderInv, FifoInv, Shape
  <2>3. Announced'
    BY <1>3, <2>2, HeadAnnounced DEF TakeChannel, Alive
  <2> QED
    BY <2>1, <2>3 DEF ServeInv
<1>4. CASE TakeEmpty
  <2>1. LoansSorted' /\ LoanServed' /\ Overtaking' /\ FenceNotProlonged'
    BY <1>4, MoveServe DEF TakeEmpty
  <2> QED
    BY <1>4, <2>1 DEF ServeInv, Announced, TakeEmpty
<1>5. CASE TakeClosed
  <2>1. LoansSorted' /\ LoanServed' /\ Overtaking' /\ FenceNotProlonged'
    BY <1>5, MoveServe DEF TakeClosed
  <2> QED
    BY <1>5, <2>1 DEF ServeInv, Announced, Alive, TakeClosed
<1>6. CASE IdlePop
  <2>1. /\ DispatchLoan /\ bg # <<>> /\ pc = "idle" /\ next' = next
        /\ UNCHANGED <<background, sequence, through, stamp>>
    BY <1>6 DEF IdlePop
  <2>2. background = "some" /\ next' \notin Fencers
    BY <2>1, CallerSets DEF ServeInv, LoanServed, OrderInv, FifoInv, Shape
  <2> QED
    BY <2>1, <2>2, LoanServe
<1>7. CASE IdleWait
  <2>1. background = "some"
    BY <1>7 DEF ServeInv, LoanServed, IdleWait
  <2>2. LoansSorted' /\ LoanServed' /\ Overtaking' /\ FenceNotProlonged'
    BY <1>7, <2>1, MoveServe DEF IdleWait
  <2> QED
    BY <1>7, <2>1, <2>2 DEF ServeInv, Announced, IdleWait
<1>8. CASE RouteReady
  <2>1. LoansSorted' /\ LoanServed' /\ Overtaking' /\ FenceNotProlonged'
    BY <1>8, MoveServe DEF RouteReady
  <2> QED
    BY <1>8, <2>1 DEF ServeInv, Announced, RouteReady
<1>9. CASE RoutePop
  <2>1. /\ DispatchLoan /\ Poppable /\ bg # <<>> /\ background = "some" /\ next' = cur
        /\ UNCHANGED <<background, sequence, through, stamp>>
    BY <1>9 DEF RoutePop, Poppable
  <2>2. bg[1] \in Loans /\ Head(bg) = bg[1] /\ sequence[bg[1]] > 0
    BY <2>1, Kinds DEF ServeInv, LoansSorted
  <2>3. cur \in Fencers /\ through[cur] > 0 => sequence[bg[1]] <= through[cur]
    BY <2>1, <2>2 DEF Poppable
  <2>4. cur \in Fencers /\ through[cur] > 0 => stamp[bg[1]] < stamp[cur]
    BY <2>2, <2>3 DEF OrderInv, Numbered
  <2> QED
    BY <2>1, <2>4, LoanServe
<1> QED
  BY <1>2, <1>3, <1>4, <1>5, <1>6, <1>7, <1>8, <1>9, KeepServe, ForegroundServe DEF Scheduler

(* Loans, batches and the thread's end keep it. *)
LEMMA ServesServe ==
  ASSUME OrderInv, ServeInv, Serves \/ Fails \/ Drops
  PROVE  ServeInv'
<1> USE DEF orderVars, callerVars, turnVars
<1>1. status \in [Callers -> {"idle", "check", "push", "notify", "waiting", "done", "refused"}]
  BY DEF OrderInv, FifoInv, TypeInv, TypeOK
<1>2. CASE Returned \/ GuardLost \/ LendFailed
  <2>1. /\ pc = "lent" /\ status[holder] = "waiting" /\ holder' = None /\ pc' \in {"take", "drop"}
        /\ \E to : status' = [status EXCEPT ![holder] = to]
        /\ UNCHANGED <<chan, bg, lock, next, background, turns, cur, overtaken>>
        /\ UNCHANGED <<sequence, stamp>>
    BY <1>2 DEF Returned, GuardLost, LendFailed, Move
  <2>2. LoansSorted' /\ Overtaking'
    BY <2>1 DEF ServeInv, LoansSorted, Overtaking
  <2>3. LoanServed' /\ FenceNotProlonged'
    BY <2>1, CallerSets DEF LoanServed, FenceNotProlonged
  <2>4. Notifying => Notifying'
    BY <1>1, <2>1, SMT DEF Notifying
  <2>5. Announced'
    BY <2>1, <2>4, AnnouncedKept DEF Alive
  <2> QED
    BY <2>2, <2>3, <2>5 DEF ServeInv
<1>3. CASE BatchTake \/ BatchMeets
  <2>1. LoansSorted' /\ LoanServed' /\ Overtaking' /\ FenceNotProlonged'
    BY <1>3, MoveServe DEF BatchTake, BatchMeets
  <2>2. cur = None /\ next = None
    BY <1>3 DEF BatchTake, BatchMeets, OrderInv, FifoInv, Shape
  <2>3. Announced'
    BY <1>3, <2>2, HeadAnnounced, CallerSets DEF BatchTake, BatchMeets, Alive
  <2> QED
    BY <2>1, <2>3 DEF ServeInv
<1>4. CASE BatchEnd
  <2>1. LoansSorted' /\ LoanServed' /\ Overtaking' /\ FenceNotProlonged'
    BY <1>4, MoveServe DEF BatchEnd
  <2>2. Announced'
    BY <1>4, AnnouncedKept DEF BatchEnd, Alive, Notifying
  <2> QED
    BY <2>1, <2>2 DEF ServeInv
<1>5. CASE BatchCommit
  <2>1. LoansSorted' /\ LoanServed' /\ Overtaking' /\ FenceNotProlonged'
    BY <1>5, MoveServe DEF BatchCommit
  <2>2. next = None /\ lock \in Loans \cup {None} /\ Elements(batch) \subseteq Batchers
    BY <1>5, SMT DEF BatchCommit, OrderInv, FifoInv, Shape, TypeInv, TypeOK, Elements
  <2>3. Notifying => Notifying'
    BY <1>5, <2>2, CallerSets, CallersAssumption DEF BatchCommit, Notifying
  <2>4. Announced'
    BY <1>5, <2>2, <2>3, AnnouncedKept DEF BatchCommit, Alive
  <2> QED
    BY <2>1, <2>4 DEF ServeInv
<1>6. CASE BatchPanic \/ DropStore \/ DropNoBackground \/ DropChannel
  <2>1. /\ pc # "lent" /\ pc' \in {"drop", "closing", "dropped", "stopped"}
        /\ UNCHANGED <<bg, holder, turns, overtaken, sequence, stamp>>
    BY <1>6 DEF BatchPanic, DropStore, DropNoBackground, DropChannel, MayLoad
  <2>2. LoansSorted' /\ LoanServed' /\ Overtaking' /\ FenceNotProlonged'
    BY <2>1, MoveServe
  <2> QED
    BY <2>1, <2>2 DEF ServeInv, Announced, Alive
<1>7. CASE DropBackground
  BY <1>7, CloseServe DEF DropBackground
<1> QED
  BY <1>2, <1>3, <1>4, <1>5, <1>6, <1>7 DEF Serves, Fails, Drops

(* The callers keep it. *)
LEMMA CallerServe ==
  ASSUME OrderInv, ServeInv, NEW c \in Callers, Calls(c) \/ Proceeds(c)
  PROVE  ServeInv'
<1> USE DEF orderVars, callerVars, turnVars, threadVars
<1>1. status \in [Callers -> {"idle", "check", "push", "notify", "waiting", "done", "refused"}]
  BY DEF OrderInv, FifoInv, TypeInv, TypeOK
<1>2. CASE c \in Lenders \cup Batchers /\ Send(c)
  BY <1>2, SendServe, CallerSets DEF Send
<1>3. CASE c \in Fencers /\ SendFence(c)
  <2>1. \A f \in Fencers : f # c => through'[f] = through[f]
    BY <1>3 DEF SendFence, OrderInv, FifoInv, TypeInv, TypeOK
  <2> QED
    BY <1>3, <2>1, SendServe, CallerSets DEF SendFence
<1>4. CASE \/ SendRefused(c) \/ (c \in Loans /\ BackgroundLock(c))
           \/ c \in Loans /\ (BackgroundCheck(c) \/ BackgroundPushClosed(c))
           \/ BackgroundNotifyGone(c) \/ Disconnected(c)
  <2>1. /\ UNCHANGED <<chan, bg, next, cur, holder, pc, background, turns, overtaken>>
        /\ UNCHANGED <<sequence, through, stamp, clock>>
    BY <1>4 DEF SendRefused, BackgroundLock, BackgroundCheck, BackgroundPushClosed,
       BackgroundNotifyGone, Disconnected
  <2> SUFFICES Notifying => Notifying' \/ ~ Alive
    BY <2>1, QuietServe
  <2>2. CASE SendRefused(c) \/ BackgroundLock(c)
    BY <2>2 DEF SendRefused, BackgroundLock, Notifying
  <2>3. CASE c \in Loans /\ (BackgroundCheck(c) \/ BackgroundPushClosed(c))
    BY <2>3 DEF BackgroundCheck, BackgroundPushClosed, Notifying, OrderInv, Locking
  <2>4. CASE BackgroundNotifyGone(c)
    BY <2>4 DEF BackgroundNotifyGone, Alive
  <2>5. CASE Disconnected(c)
    BY <1>1, <2>5, SMT DEF Disconnected, Move, Notifying
  <2> QED
    BY <1>4, <2>2, <2>3, <2>4, <2>5
<1>5. CASE c \in Loans /\ BackgroundGone(c)
  BY <1>5, CloseServe DEF BackgroundGone
<1>6. CASE c \in Loans /\ (BackgroundPush(c) \/ BackgroundNotify(c))
  BY <1>6, PushServe, NotifyServe
<1> QED
  BY <1>2, <1>3, <1>4, <1>5, <1>6 DEF Calls, Proceeds

(* Every step keeps the order of loans and fences. *)
LEMMA ServeStep == OrderInv /\ ServeInv /\ [Next]_vars => ServeInv'
<1> SUFFICES ASSUME OrderInv, ServeInv, [Next]_vars PROVE ServeInv'
  OBVIOUS
<1> USE DEF orderVars, callerVars, turnVars, threadVars
<1>1. CASE UNCHANGED vars \/ Close \/ Publish
  <2>1. /\ UNCHANGED <<chan, bg, next, cur, holder, pc, background, turns, overtaken>>
        /\ UNCHANGED <<sequence, through, stamp, clock, lock, status>>
    BY <1>1 DEF vars, Close, Publish
  <2> QED
    BY <2>1, QuietServe DEF Notifying
<1> QED
  BY <1>1, CallerServe, SchedulerServe, ServesServe DEF Next

(* A new scheduler has admitted and serves nothing. *)
LEMMA ServeInit == Init => OrderInv /\ ServeInv
<1> SUFFICES ASSUME Init PROVE OrderInv /\ ServeInv
  OBVIOUS
<1>1. FifoInv
  BY FifoInit
<1>2. Locking
  BY CallerSets DEF Init, Locking
<1>3. Numbered
  BY CallerSets, SMT DEF Init, Numbered
<1>4. \A i \in DOMAIN bg : FALSE
  BY SMT DEF Init
<1>5. LoansSorted /\ Announced
  BY <1>4 DEF Init, LoansSorted, Announced
<1>6. LoanServed /\ FenceNotProlonged
  BY CallerSets DEF Init, LoanServed, FenceNotProlonged
<1>7. Overtaking
  BY BoundsAssumption, SMT DEF Init, Overtaking
<1> QED
  BY <1>1, <1>2, <1>3, <1>5, <1>6, <1>7 DEF OrderInv, ServeInv

(* What is served is older than what waits: the foreground by the order of  *)
(* the pipeline, the loans by the order of their queue.                     *)
LEMMA ServeImplies == OrderInv /\ ServeInv => FenceOrder /\ FenceNotProlonged /\ BoundedOvertaking
<1> SUFFICES ASSUME OrderInv, ServeInv PROVE FenceOrder /\ BoundedOvertaking
  BY DEF ServeInv
<1>1. BoundedOvertaking
  BY DEF ServeInv, Overtaking, BoundedOvertaking
<1>2. Pending \cap Loans \subseteq Elements(bg) /\ Pending \subseteq Callers
  <2>1. Elements(chan) \subseteq Foreground \cup {Ready} /\ Elements(bg) \subseteq Loans
    BY Kinds DEF Elements
  <2> QED
    BY <2>1, Kinds, CallerSets, CallersAssumption, SMT DEF Pending
<1>3. holder \in Fencers => \A c \in Pending \cap Foreground : stamp[holder] < stamp[c]
  BY FifoImplies, CallerSets DEF OrderInv, ForegroundFifo
<1>4. holder \in Fencers \cup Loans => \A c \in Pending \cap Loans : stamp[holder] < stamp[c]
  BY <1>2 DEF ServeInv, LoanServed, Older, Elements
<1>5. FenceOrder
  BY <1>2, <1>3, <1>4, CallerSets DEF FenceOrder
<1> QED
  BY <1>1, <1>5

(* A fence runs after every job admitted before it, foreground or           *)
(* background, and a background loan after every older one                  *)
(* (Admission::next and BackgroundQueue::pop_through).                      *)
THEOREM FencesRunInOrder == Spec => []FenceOrder
  BY ServeInit, OrderStep, ServeStep, ServeImplies, PTL DEF Spec

(* A fence put back waits only for loans admitted before it.                *)
THEOREM FencesAreNotProlonged == Spec => []FenceNotProlonged
  BY ServeInit, OrderStep, ServeStep, ServeImplies, PTL DEF Spec

(* At most ForegroundTurns turns led by younger jobs are dispatched before  *)
(* the oldest background loan (FOREGROUND_TURNS), whatever callers do.      *)
THEOREM OvertakingIsBounded == Spec => []BoundedOvertaking
  BY ServeInit, OrderStep, ServeStep, ServeImplies, PTL DEF Spec
=============================================================================
