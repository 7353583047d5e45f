------------------------ MODULE CommitObserversProofs ------------------------
(* Theorems about CommitObservers, for any number of observers, threads and *)
(* commits.                                                                 *)
EXTENDS CommitObservers, TLAPS

(* The leaves are first-order, for Zenon, but for those that cite SMT. *)
USE Zenon

(* An observer's callback is there exactly while its handle is held.        *)
Registered ==
  \A o \in Observers :
    /\ run[o] = "unregistered" <=> handle[o] = "none"
    /\ run[o] = "some" <=> handle[o] = "held"

(* Only the callback in hand runs, on the notifying thread, and no thread   *)
(* that waits in a drop notifies.                                           *)
Invoking ==
  /\ \A o \in Observers : running[o] # None =>
       pc = "invoke" /\ cur = o /\ running[o] = notifier
  /\ pc = "invoke" => cur \in Observers
  /\ pc = "idle" => notifier = None
  /\ pc # "idle" => notifier \in Threads
  /\ \A o \in Observers : handle[o] = "waiting" => dropper[o] \in Threads \ {notifier}

(* A held observer is in the registry, which is then active.                *)
Listed ==
  /\ \A o \in Observers : handle[o] = "held" => \E i \in DOMAIN callbacks : callbacks[i] = o
  /\ callbacks # <<>> => active

(* The observers this notification owes a call, by how far it has come.     *)
Owed ==
  /\ \A o \in due : handle[o] = "held"
  /\ pc = "idle" => due = {}
  /\ pc \in {"visit", "invoke"} => \A o \in due : \E i \in DOMAIN snapshot : snapshot[i] = o

ObserversInv == TypeOK /\ Registered /\ Invoking /\ QuietAfterDrop /\ Listed /\ Owed

-----------------------------------------------------------------------------
(* The elements of a sequence with one more at its end. *)
LEMMA AppendElements ==
  ASSUME NEW S, NEW s \in Seq(S), NEW e \in S
  PROVE  /\ Append(s, e) \in Seq(S)
         /\ \A i \in DOMAIN s : i \in DOMAIN Append(s, e) /\ Append(s, e)[i] = s[i]
         /\ Len(s) + 1 \in DOMAIN Append(s, e) /\ Append(s, e)[Len(s) + 1] = e
  BY SMT

(* The elements of a sequence without its first. *)
LEMMA TailElements ==
  ASSUME NEW S, NEW s \in Seq(S), s # <<>>
  PROVE  /\ Head(s) \in S /\ Tail(s) \in Seq(S)
         /\ \A i \in DOMAIN s :
              s[i] = Head(s) \/ (i - 1 \in DOMAIN Tail(s) /\ Tail(s)[i - 1] = s[i])
  BY SMT

(* The retain leaves every other element. *)
LEMMA WithoutElements ==
  ASSUME NEW S, NEW s \in Seq(S), NEW i \in DOMAIN s
  PROVE  /\ WithoutAt(s, i) \in Seq(S)
         /\ \A j \in DOMAIN s : j # i => \E k \in DOMAIN WithoutAt(s, i) : WithoutAt(s, i)[k] = s[j]
<1>1. Len(s) \in Nat /\ DOMAIN s = 1..Len(s) /\ Len(s) - 1 \in Nat
  BY SMT
<1>2. DOMAIN WithoutAt(s, i) = 1..Len(s) - 1
  BY DEF WithoutAt
<1>3. \A j \in 1..Len(s) - 1 : j \in DOMAIN s /\ j + 1 \in DOMAIN s
  BY <1>1, SMT
<1>4. WithoutAt(s, i) \in [1..Len(s) - 1 -> S]
  BY <1>3, SMT DEF WithoutAt
<1>5. WithoutAt(s, i) \in Seq(S)
  BY <1>1, <1>4, SMT
<1>6. ASSUME NEW j \in DOMAIN s, j < i
      PROVE  j \in DOMAIN WithoutAt(s, i) /\ WithoutAt(s, i)[j] = s[j]
  BY <1>1, <1>6, SMT DEF WithoutAt
<1>7. ASSUME NEW j \in DOMAIN s, i < j
      PROVE  j - 1 \in DOMAIN WithoutAt(s, i) /\ WithoutAt(s, i)[j - 1] = s[j]
  BY <1>1, <1>7, SMT DEF WithoutAt
<1>8. \A j \in DOMAIN s : j # i => j < i \/ i < j
  BY <1>1, SMT
<1> QED
  BY <1>5, <1>6, <1>7, <1>8

-----------------------------------------------------------------------------
(* A new registry is empty. *)
LEMMA ObserversInit == Init => ObserversInv
<1> SUFFICES ASSUME Init PROVE ObserversInv
  OBVIOUS
<1>1. TypeOK
  <2>1. <<>> \in Seq(Observers) /\ 0 \in 0..MaxCommits
    BY CommitObserversAssumption, SMT
  <2> QED
    BY <2>1 DEF Init, TypeOK
<1>2. Registered /\ Invoking /\ QuietAfterDrop
  BY DEF Init, Registered, Invoking, QuietAfterDrop
<1>3. Listed /\ Owed
  BY DEF Init, Listed, Owed
<1> QED
  BY <1>1, <1>2, <1>3 DEF ObserversInv

(* CommitObservers::register. *)
LEMMA RegisterKeeps ==
  ASSUME ObserversInv, NEW o \in Observers, Register(o)
  PROVE  ObserversInv'
<1> USE DEF ObserversInv, registryVars, stateVars, handleVars, notifyVars
<1>1. /\ handle[o] = "none" /\ handle' = [handle EXCEPT ![o] = "held"]
      /\ run' = [run EXCEPT ![o] = "some"]
      /\ callbacks' = Append(callbacks, o) /\ active' = TRUE
      /\ UNCHANGED <<running, dropper, notifier, pc, snapshot, cur, stopped, commits, due>>
  BY DEF Register
<1>2. callbacks \in Seq(Observers)
  BY DEF TypeOK
<1>3. /\ callbacks' \in Seq(Observers)
      /\ \A i \in DOMAIN callbacks : i \in DOMAIN callbacks' /\ callbacks'[i] = callbacks[i]
      /\ \E i \in DOMAIN callbacks' : callbacks'[i] = o
  BY <1>1, <1>2, AppendElements, SMT
<1>4. TypeOK'
  BY <1>1, <1>3 DEF TypeOK
<1>5. \A p \in Observers : p # o => handle'[p] = handle[p] /\ run'[p] = run[p]
  BY <1>1 DEF TypeOK
<1>6. handle'[o] = "held" /\ run'[o] = "some"
  BY <1>1 DEF TypeOK
<1>7. Registered' /\ Invoking' /\ QuietAfterDrop'
  BY <1>1, <1>5, <1>6, SMT DEF Registered, Invoking, QuietAfterDrop
<1>8. Listed'
  BY <1>1, <1>3, <1>5, SMT DEF Listed
<1>9. Owed'
  BY <1>1, <1>5, <1>6, SMT DEF Owed, TypeOK
<1> QED
  BY <1>4, <1>7, <1>8, <1>9

(* CommitObservers::notify, up to the callbacks. *)
LEMMA NotifyKeeps ==
  ASSUME ObserversInv,
         (\E t \in Threads : StartNotify(t)) \/ LoadActive \/ CloneCallbacks \/ EndNotify
  PROVE  ObserversInv'
<1> USE CommitObserversAssumption
    DEF ObserversInv, registryVars, stateVars, handleVars, notifyVars
<1>1. UNCHANGED <<callbacks, active, run, running, handle, dropper, cur, stopped>>
  BY DEF StartNotify, LoadActive, CloneCallbacks, EndNotify
<1>2. Registered' /\ QuietAfterDrop' /\ Listed'
  BY <1>1 DEF Registered, QuietAfterDrop, Listed
<1>3. ASSUME NEW t \in Threads, StartNotify(t) PROVE ObserversInv'
  <2>1. /\ pc = "idle" /\ pc' = "load" /\ notifier' = t /\ commits' = commits + 1
        /\ commits < MaxCommits /\ due' = {o \in Observers : handle[o] = "held"}
        /\ snapshot' = snapshot
    BY <1>3 DEF StartNotify
  <2>2. TypeOK'
    BY <1>1, <2>1, SMT DEF TypeOK
  <2>3. \A o \in Observers : handle[o] = "waiting" => dropper[o] # t
    BY <1>3 DEF StartNotify, Free, Blocked
  <2>4. Invoking'
    BY <1>1, <2>1, <2>3 DEF Invoking
  <2>5. Owed'
    BY <1>1, <2>1 DEF Owed
  <2> QED
    BY <1>2, <2>2, <2>4, <2>5
<1>4. CASE LoadActive
  <2>1. /\ pc = "load" /\ pc' = IF active THEN "clone" ELSE "idle"
        /\ notifier' = IF active THEN notifier ELSE None
        /\ UNCHANGED <<snapshot, commits, due>>
    BY <1>4 DEF LoadActive
  <2>2. TypeOK'
    BY <1>1, <2>1 DEF TypeOK
  <2>3. Invoking'
    BY <1>1, <2>1 DEF Invoking
  <2>4. ~ active => due = {}
    BY SMT DEF Listed, Owed, TypeOK
  <2>5. Owed'
    BY <1>1, <2>1, <2>4 DEF Owed
  <2> QED
    BY <1>2, <2>2, <2>3, <2>5
<1>5. CASE CloneCallbacks
  <2>1. pc = "clone" /\ pc' = "visit" /\ snapshot' = callbacks /\ UNCHANGED <<notifier, commits, due>>
    BY <1>5 DEF CloneCallbacks
  <2>2. TypeOK'
    BY <1>1, <2>1 DEF TypeOK
  <2>3. Invoking'
    BY <1>1, <2>1 DEF Invoking
  <2>4. Owed'
    BY <1>1, <2>1 DEF Owed, Listed, TypeOK
  <2> QED
    BY <1>2, <2>2, <2>3, <2>4
<1>6. CASE EndNotify
  <2>1. /\ pc = "visit" /\ snapshot = <<>> /\ pc' = "idle" /\ notifier' = None
        /\ UNCHANGED <<snapshot, commits, due>>
    BY <1>6 DEF EndNotify
  <2>2. TypeOK'
    BY <1>1, <2>1 DEF TypeOK
  <2>3. Invoking'
    BY <1>1, <2>1 DEF Invoking
  <2>4. Owed'
    BY <1>1, <2>1, SMT DEF Owed
  <2> QED
    BY <1>2, <2>2, <2>3, <2>4
<1> QED
  BY <1>3, <1>4, <1>5, <1>6

(* The callbacks of a snapshot, skipped, claimed, returned or panicked. *)
LEMMA VisitKeeps ==
  ASSUME ObserversInv, VisitSkip \/ VisitClaim \/ InvokeReturns \/ InvokePanics
  PROVE  ObserversInv'
<1> USE CommitObserversAssumption
    DEF ObserversInv, registryVars, stateVars, handleVars, notifyVars
<1>1. UNCHANGED <<callbacks, active, run, handle, dropper, commits>>
  BY DEF VisitSkip, VisitClaim, InvokeReturns, InvokePanics
<1>2. Registered' /\ Listed'
  BY <1>1 DEF Registered, Listed
<1>3. CASE VisitSkip
  <2>1. /\ pc = "visit" /\ snapshot # <<>> /\ run[Head(snapshot)] = "none"
        /\ snapshot' = Tail(snapshot) /\ UNCHANGED <<running, notifier, pc, cur, stopped, due>>
    BY <1>3 DEF VisitSkip
  <2>2. /\ Head(snapshot) \in Observers /\ snapshot' \in Seq(Observers)
        /\ \A i \in DOMAIN snapshot :
             snapshot[i] = Head(snapshot) \/ \E j \in DOMAIN snapshot' : snapshot'[j] = snapshot[i]
    BY <2>1, TailElements DEF TypeOK
  <2>3. TypeOK'
    BY <1>1, <2>1, <2>2 DEF TypeOK
  <2>4. Invoking' /\ QuietAfterDrop'
    BY <1>1, <2>1 DEF Invoking, QuietAfterDrop
  <2>5. Head(snapshot) \notin due
    BY <2>1, <2>2 DEF Owed, Registered
  <2>6. Owed'
    BY <1>1, <2>1, <2>2, <2>5, SMT DEF Owed
  <2> QED
    BY <1>2, <2>3, <2>4, <2>6
<1>4. CASE VisitClaim
  <2>1. /\ pc = "visit" /\ snapshot # <<>> /\ run[Head(snapshot)] = "some"
        /\ cur' = Head(snapshot) /\ snapshot' = Tail(snapshot) /\ pc' = "invoke"
        /\ running' = [running EXCEPT ![Head(snapshot)] = notifier]
        /\ due' = due \ {Head(snapshot)} /\ UNCHANGED <<notifier, stopped>>
    BY <1>4 DEF VisitClaim
  <2>2. /\ Head(snapshot) \in Observers /\ snapshot' \in Seq(Observers)
        /\ \A i \in DOMAIN snapshot :
             snapshot[i] = Head(snapshot) \/ \E j \in DOMAIN snapshot' : snapshot'[j] = snapshot[i]
    BY <2>1, TailElements DEF TypeOK
  <2>3. TypeOK'
    BY <1>1, <2>1, <2>2 DEF TypeOK
  <2>4. \A o \in Observers : running[o] = None
    BY <2>1 DEF Invoking
  <2>5. \A o \in Observers : running'[o] = IF o = Head(snapshot) THEN notifier ELSE None
    BY <2>1, <2>4 DEF TypeOK
  <2>6. Invoking'
    BY <1>1, <2>1, <2>2, <2>5 DEF Invoking
  <2>7. handle[Head(snapshot)] = "held"
    BY <2>1, <2>2 DEF Registered
  <2>8. QuietAfterDrop'
    BY <1>1, <2>5, <2>7 DEF QuietAfterDrop
  <2>9. Owed'
    BY <1>1, <2>1, <2>2, SMT DEF Owed
  <2> QED
    BY <1>2, <2>3, <2>6, <2>8, <2>9
<1>5. CASE InvokeReturns \/ InvokePanics
  <2>1. /\ pc = "invoke" /\ running' = [running EXCEPT ![cur] = None] /\ cur' = None
        /\ \/ pc' = "visit" /\ UNCHANGED <<notifier, snapshot, stopped, due>>
           \/ pc' = "idle" /\ notifier' = None /\ snapshot' = <<>> /\ stopped' = TRUE /\ due' = {}
    BY <1>5 DEF InvokeReturns, InvokePanics
  <2>2. \A o \in Observers : running'[o] = None
    BY <2>1 DEF Invoking, TypeOK
  <2>3. TypeOK'
    <3>0. running' = [running EXCEPT ![cur] = None]
      BY <2>1
    <3>1. running' \in [Observers -> Threads \cup {None}]
      BY <3>0 DEF TypeOK
    <3>4. snapshot' \in Seq(Observers)
      <4>1. <<>> \in Seq(Observers)
        BY SMT
      <4> QED
        BY <2>1, <4>1 DEF TypeOK
    <3>2. stopped' = stopped \/ stopped' = TRUE
      BY <2>1
    <3>3. stopped' \in BOOLEAN
      BY <3>2 DEF TypeOK
    <3> QED
      BY <1>1, <2>1, <3>1, <3>3, <3>4 DEF TypeOK
  <2>4. Invoking'
    BY <1>1, <2>1, <2>2 DEF Invoking
  <2>5. QuietAfterDrop'
    BY <2>2 DEF QuietAfterDrop
  <2>6. Owed'
    BY <1>1, <2>1 DEF Owed
  <2> QED
    BY <1>2, <2>3, <2>4, <2>5, <2>6
<1> QED
  BY <1>3, <1>4, <1>5

(* Drop for CommitObserver. *)
LEMMA DropKeeps ==
  ASSUME ObserversInv, NEW o \in Observers, Drops(o) \/ \E t \in Threads : Deactivate(t, o)
  PROVE  ObserversInv'
<1> USE CommitObserversAssumption
    DEF ObserversInv, registryVars, stateVars, handleVars, notifyVars
<1>1. UNCHANGED <<running, notifier, pc, snapshot, cur, stopped, commits>>
  BY DEF Drops, Waited, Remove, Deactivate
<1>2. ASSUME NEW t \in Threads, Deactivate(t, o) PROVE ObserversInv'
  <2>1. /\ handle[o] = "held" /\ Free(t) /\ run' = [run EXCEPT ![o] = "none"]
        /\ dropper' = [dropper EXCEPT ![o] = t] /\ due' = due \ {o}
        /\ handle' = [handle EXCEPT ![o] =
             IF running[o] \notin {None, t} THEN "waiting" ELSE "removing"]
        /\ UNCHANGED <<callbacks, active>>
    BY <1>2 DEF Deactivate
  <2>2. /\ handle'[o] = IF running[o] \notin {None, t} THEN "waiting" ELSE "removing"
        /\ run'[o] = "none" /\ dropper'[o] = t
        /\ \A p \in Observers : p # o =>
             handle'[p] = handle[p] /\ run'[p] = run[p] /\ dropper'[p] = dropper[p]
    BY <2>1 DEF TypeOK
  <2>3. TypeOK'
    BY <1>1, <2>1 DEF TypeOK
  <2>4. Registered'
    BY <2>1, <2>2, SMT DEF Registered
  <2>5. Invoking'
    BY <1>1, <2>2 DEF Invoking
  <2>6. QuietAfterDrop'
    BY <1>1, <2>2 DEF QuietAfterDrop
  <2>7. Listed'
    BY <2>1, <2>2, SMT DEF Listed
  <2>8. Owed'
    BY <1>1, <2>1, <2>2, SMT DEF Owed, TypeOK
  <2> QED
    BY <2>3, <2>4, <2>5, <2>6, <2>7, <2>8
<1>3. CASE Waited(o)
  <2>1. /\ handle[o] = "waiting" /\ running[o] = None
        /\ handle' = [handle EXCEPT ![o] = "removing"]
        /\ UNCHANGED <<callbacks, active, run, dropper, due>>
    BY <1>3 DEF Waited
  <2>2. handle'[o] = "removing" /\ \A p \in Observers : p # o => handle'[p] = handle[p]
    BY <2>1 DEF TypeOK
  <2>3. TypeOK'
    BY <1>1, <2>1 DEF TypeOK
  <2>4. Registered' /\ Invoking'
    BY <1>1, <2>1, <2>2 DEF Registered, Invoking
  <2>5. QuietAfterDrop' /\ Listed'
    BY <1>1, <2>1, <2>2 DEF QuietAfterDrop, Listed
  <2>6. Owed'
    BY <1>1, <2>1, <2>2 DEF Owed, TypeOK
  <2> QED
    BY <2>3, <2>4, <2>5, <2>6
<1>4. CASE Remove(o)
  <2>1. /\ handle[o] = "removing" /\ active' = (callbacks' # <<>>)
        /\ handle' = [handle EXCEPT ![o] = "dropped"]
        /\ UNCHANGED <<run, dropper, due>>
    BY <1>4 DEF Remove
  <2>2. PICK i \in DOMAIN callbacks : callbacks[i] = o /\ callbacks' = WithoutAt(callbacks, i)
    BY <1>4 DEF Remove, Unlist
  <2>3. /\ callbacks' \in Seq(Observers)
        /\ \A j \in DOMAIN callbacks :
             j # i => \E k \in DOMAIN callbacks' : callbacks'[k] = callbacks[j]
    BY <2>2, WithoutElements, SMT DEF TypeOK
  <2>4. handle'[o] = "dropped" /\ \A p \in Observers : p # o => handle'[p] = handle[p]
    BY <2>1 DEF TypeOK
  <2>5. TypeOK'
    BY <1>1, <2>1, <2>3 DEF TypeOK
  <2>6. Registered' /\ Invoking'
    BY <1>1, <2>1, <2>4 DEF Registered, Invoking
  <2>7. QuietAfterDrop'
    BY <1>1, <2>1, <2>4 DEF QuietAfterDrop
  <2>8. Listed'
    <3>1. (\A p \in Observers : handle[p] = "held" => \E k \in DOMAIN callbacks : callbacks[k] = p)'
      BY <2>1, <2>2, <2>3, <2>4, SMT DEF Listed
    <3>2. callbacks' # <<>> => active'
      BY <2>1
    <3> QED
      BY <3>1, <3>2 DEF Listed
  <2>9. Owed'
    BY <1>1, <2>1, <2>4 DEF Owed, TypeOK
  <2> QED
    BY <2>5, <2>6, <2>7, <2>8, <2>9
<1> QED
  BY <1>2, <1>3, <1>4 DEF Drops

(* The strengthening is inductive. *)
LEMMA ObserversStep == ObserversInv /\ [Next]_vars => ObserversInv'
<1> SUFFICES ASSUME ObserversInv, [Next]_vars PROVE ObserversInv'
  OBVIOUS
<1>1. CASE UNCHANGED vars
  BY <1>1 DEF vars, registryVars, stateVars, handleVars, notifyVars, ObserversInv, TypeOK,
     Registered, Invoking, QuietAfterDrop, Listed, Owed
<1> QED
  BY <1>1, RegisterKeeps, NotifyKeeps, VisitKeeps, DropKeeps DEF Next, Notifies

-----------------------------------------------------------------------------
(* Once the drop of a CommitObserver has returned, its callback does not    *)
(* run, unless it is the callback that dropped it.                          *)
THEOREM DropsAreQuiet == Spec => []QuietAfterDrop
<1>1. ObserversInv => QuietAfterDrop
  BY DEF ObserversInv
<1> QED
  BY <1>1, ObserversInit, ObserversStep, PTL DEF Spec

(* No commit passes an observer whose handle is held from before the commit *)
(* to the end of the notification, although notify reads `active` without a *)
(* lock and calls the callbacks of a snapshot.                              *)
THEOREM CommitsAreObserved == Spec => []NoMissedCommit
<1>1. ObserversInv => NoMissedCommit
  BY DEF ObserversInv, Owed, NoMissedCommit
<1> QED
  BY <1>1, ObserversInit, ObserversStep, PTL DEF Spec

(* No step starts the callback of a handle whose drop has begun: a snapshot *)
(* that still lists it skips it.                                            *)
THEOREM DroppedStayQuiet == Spec => NeverRestarted
<1>1. ObserversInv /\ [Next]_vars =>
        [\A o \in Observers :
           handle[o] \in {"waiting", "removing", "dropped"} /\ running[o] = None
             => running'[o] = None]_vars
  <2> SUFFICES ASSUME ObserversInv, Next, NEW o \in Observers,
                      handle[o] \in {"waiting", "removing", "dropped"}, running[o] = None
               PROVE  running'[o] = None
    OBVIOUS
  <2>1. CASE VisitClaim
    <3>1. run[Head(snapshot)] = "some" /\ running' = [running EXCEPT ![Head(snapshot)] = notifier]
      BY <2>1 DEF VisitClaim
    <3>2. run[o] # "some"
      BY DEF ObserversInv, Registered
    <3> QED
      BY <3>1, <3>2 DEF ObserversInv, TypeOK
  <2>2. CASE InvokeReturns \/ InvokePanics
    BY <2>2 DEF InvokeReturns, InvokePanics, ObserversInv, TypeOK
  <2>3. CASE running' = running
    BY <2>3
  <2> QED
    BY <2>1, <2>2, <2>3 DEF Next, Notifies, Drops, Register, Waited, Remove, Deactivate,
       StartNotify, LoadActive, CloneCallbacks, VisitSkip, EndNotify, stateVars
<1> QED
  BY <1>1, ObserversInit, ObserversStep, PTL DEF Spec, NeverRestarted

(* The thread that notifies never waits in a drop: not for its own callback,*)
(* and not for another, since no other runs.                                *)
THEOREM NotifierNeverWaits == Spec => [](notifier # None => ~ Blocked(notifier))
<1>1. ObserversInv => (notifier # None => ~ Blocked(notifier))
  BY DEF ObserversInv, Invoking, Blocked
<1> QED
  BY <1>1, ObserversInit, ObserversStep, PTL DEF Spec
=============================================================================
