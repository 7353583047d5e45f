--------------------------- MODULE CommitObservers ---------------------------
(***************************************************************************)
(* Registration, notification and removal of committed-write observers      *)
(* (crates/smallclaims/src/sqlite.rs: CommitObservers, CommitObserver).     *)
(*                                                                          *)
(* The holder of the writer connection notifies after each commit: it       *)
(* clones the registry and calls the callbacks without a lock.  Meanwhile   *)
(* other threads register observers and drop their handles, and a callback  *)
(* may drop its own handle or another's.  An observer is registered at most *)
(* once.                                                                    *)
(***************************************************************************)
EXTENDS Naturals, Sequences, FiniteSets

CONSTANTS
  Observers,
  Threads,     \* threads that drop handles; each may also hold the writer
  MaxCommits,  \* bound on the notifications of a run
  None

ASSUME CommitObserversAssumption ==
  /\ None \notin Observers \cup Threads
  /\ MaxCommits \in Nat

VARIABLES
  callbacks,  \* CommitObservers.callbacks
  active,     \* CommitObservers.active
  run,        \* CommitObserverState.run: "unregistered", "some" or "none"
  running,    \* CommitObserverState.running
  handle,     \* where the drop of each CommitObserver is
  dropper,    \* the thread dropping each handle
  notifier,   \* the thread in CommitObservers::notify
  pc,         \* where that thread is
  snapshot,   \* the callbacks it has still to visit
  cur,        \* the callback it is invoking
  stopped,    \* a callback panicked and the writer is gone
  commits,    \* the number of notifications so far
  due         \* ghost: observers this notification must still invoke

registryVars == <<callbacks, active>>
stateVars == <<run, running>>
handleVars == <<handle, dropper>>
notifyVars == <<notifier, pc, snapshot, cur, stopped, commits>>
vars == <<registryVars, stateVars, handleVars, notifyVars, due>>

TypeOK ==
  /\ callbacks \in Seq(Observers)
  /\ active \in BOOLEAN
  /\ run \in [Observers -> {"unregistered", "some", "none"}]
  /\ running \in [Observers -> Threads \cup {None}]
  /\ handle \in [Observers -> {"none", "held", "waiting", "removing", "dropped"}]
  /\ dropper \in [Observers -> Threads \cup {None}]
  /\ notifier \in Threads \cup {None}
  /\ pc \in {"idle", "load", "clone", "visit", "invoke"}
  /\ snapshot \in Seq(Observers)
  /\ cur \in Observers \cup {None}
  /\ stopped \in BOOLEAN
  /\ commits \in 0..MaxCommits
  /\ due \subseteq Observers

Init ==
  /\ callbacks = <<>> /\ active = FALSE
  /\ run = [o \in Observers |-> "unregistered"]
  /\ running = [o \in Observers |-> None]
  /\ handle = [o \in Observers |-> "none"]
  /\ dropper = [o \in Observers |-> None]
  /\ notifier = None /\ pc = "idle" /\ snapshot = <<>> /\ cur = None
  /\ stopped = FALSE /\ commits = 0
  /\ due = {}

(* Is thread t inside the drop of some handle, blocked on its condvar?      *)
Blocked(t) == \E o \in Observers : handle[o] = "waiting" /\ dropper[o] = t

(* A thread may drop a handle when it is not notifying, or from inside the  *)
(* callback it is invoking.                                                 *)
Free(t) ==
  /\ ~Blocked(t)
  /\ ~\E o \in Observers : handle[o] = "removing" /\ dropper[o] = t
  /\ t = notifier => pc = "invoke"

-----------------------------------------------------------------------------
(* CommitObservers::register: push and activate under the registry lock.    *)
Register(o) ==
  /\ handle[o] = "none"
  /\ run' = [run EXCEPT ![o] = "some"]
  /\ callbacks' = Append(callbacks, o)
  /\ active' = TRUE
  /\ handle' = [handle EXCEPT ![o] = "held"]
  /\ UNCHANGED <<running, dropper, notifyVars, due>>

-----------------------------------------------------------------------------
(* CommitObservers::notify, by whichever thread holds the writer.           *)

StartNotify(t) ==
  /\ pc = "idle" /\ ~stopped /\ commits < MaxCommits /\ Free(t)
  /\ notifier' = t /\ pc' = "load"
  /\ commits' = commits + 1
  /\ due' = {o \in Observers : handle[o] = "held"}
  /\ UNCHANGED <<registryVars, stateVars, handleVars, snapshot, cur, stopped>>

(* The common case takes no lock.                                           *)
LoadActive ==
  /\ pc = "load"
  /\ pc' = IF active THEN "clone" ELSE "idle"
  /\ notifier' = IF active THEN notifier ELSE None
  /\ UNCHANGED <<registryVars, stateVars, handleVars, snapshot, cur, stopped, commits,
                 due>>

CloneCallbacks ==
  /\ pc = "clone"
  /\ snapshot' = callbacks
  /\ pc' = "visit"
  /\ UNCHANGED <<registryVars, stateVars, handleVars, notifier, cur, stopped, commits,
                 due>>

(* Under the callback's state lock: skip it if its handle was dropped since *)
(* the snapshot, or claim it.                                               *)
VisitSkip ==
  /\ pc = "visit" /\ snapshot # <<>> /\ run[Head(snapshot)] = "none"
  /\ snapshot' = Tail(snapshot)
  /\ UNCHANGED <<registryVars, stateVars, handleVars, notifier, pc, cur, stopped,
                 commits, due>>

(* Mutant: a drop that waits for a callback takes it only afterwards.       *)
VisitClaimStale ==
  /\ pc = "visit" /\ snapshot # <<>>
  /\ run[Head(snapshot)] = "some" \/ handle[Head(snapshot)] = "waiting"
  /\ cur' = Head(snapshot) /\ snapshot' = Tail(snapshot) /\ pc' = "invoke"
  /\ running' = [running EXCEPT ![Head(snapshot)] = notifier]
  /\ due' = due \ {Head(snapshot)}
  /\ UNCHANGED <<registryVars, run, handleVars, notifier, stopped, commits>>

VisitClaim ==
  /\ pc = "visit" /\ snapshot # <<>> /\ run[Head(snapshot)] = "some"
  /\ cur' = Head(snapshot) /\ snapshot' = Tail(snapshot) /\ pc' = "invoke"
  /\ running' = [running EXCEPT ![Head(snapshot)] = notifier]
  /\ due' = due \ {Head(snapshot)}
  /\ UNCHANGED <<registryVars, run, handleVars, notifier, stopped, commits>>

(* The callback returns; Drop for CommitObserverInvocation clears running   *)
(* and wakes a dropper that waits for it.  The callback has finished any    *)
(* drop it performs itself.                                                 *)
InvokeReturns ==
  /\ pc = "invoke" /\ Free(notifier)
  /\ running' = [running EXCEPT ![cur] = None]
  /\ cur' = None /\ pc' = "visit"
  /\ UNCHANGED <<registryVars, run, handleVars, notifier, snapshot, stopped, commits,
                 due>>

(* It panics: the invocation's drop still clears running, the callbacks     *)
(* after it are not called, and the writer stops.                           *)
InvokePanics ==
  /\ pc = "invoke" /\ Free(notifier)
  /\ running' = [running EXCEPT ![cur] = None]
  /\ cur' = None /\ pc' = "idle" /\ notifier' = None /\ snapshot' = <<>>
  /\ stopped' = TRUE /\ due' = {}
  /\ UNCHANGED <<registryVars, run, handleVars, commits>>

EndNotify ==
  /\ pc = "visit" /\ snapshot = <<>>
  /\ pc' = "idle" /\ notifier' = None
  /\ UNCHANGED <<registryVars, stateVars, handleVars, snapshot, cur, stopped, commits,
                 due>>

-----------------------------------------------------------------------------
(* Drop for CommitObserver.                                                *)

(* Mutant: the drop waits even for its own thread.                          *)
DeactivateWaitsForSelf(t, o) ==
  /\ handle[o] = "held" /\ Free(t)
  /\ run' = [run EXCEPT ![o] = "none"]
  /\ dropper' = [dropper EXCEPT ![o] = t]
  /\ handle' = [handle EXCEPT ![o] = IF running[o] # None THEN "waiting" ELSE "removing"]
  /\ due' = due \ {o}
  /\ UNCHANGED <<registryVars, running, notifyVars>>

(* Mutant: the drop does not wait at all.                                   *)
DeactivateNoWait(t, o) ==
  /\ handle[o] = "held" /\ Free(t)
  /\ run' = [run EXCEPT ![o] = "none"]
  /\ dropper' = [dropper EXCEPT ![o] = t]
  /\ handle' = [handle EXCEPT ![o] = "removing"]
  /\ due' = due \ {o}
  /\ UNCHANGED <<registryVars, running, notifyVars>>

(* Deactivate under the callback's state lock; wait if another thread is    *)
(* running the callback.                                                    *)
Deactivate(t, o) ==
  /\ handle[o] = "held" /\ Free(t)
  /\ run' = [run EXCEPT ![o] = "none"]
  /\ dropper' = [dropper EXCEPT ![o] = t]
  /\ handle' = [handle EXCEPT ![o] =
                  IF running[o] \notin {None, t} THEN "waiting" ELSE "removing"]
  /\ due' = due \ {o}
  /\ UNCHANGED <<registryVars, running, notifyVars>>

(* completed.wait returns once the invocation has ended.                    *)
Waited(o) ==
  /\ handle[o] = "waiting" /\ running[o] = None
  /\ handle' = [handle EXCEPT ![o] = "removing"]
  /\ UNCHANGED <<registryVars, stateVars, dropper, notifyVars, due>>

(* The retain of Drop for CommitObserver, which finds an observer once.     *)
WithoutAt(s, i) == [j \in 1..Len(s) - 1 |-> IF j < i THEN s[j] ELSE s[j + 1]]

Unlist(o) ==
  \E i \in DOMAIN callbacks : callbacks[i] = o /\ callbacks' = WithoutAt(callbacks, i)

(* Mutant: removing one observer deactivates the registry.                  *)
RemoveDeactivates(o) ==
  /\ handle[o] = "removing"
  /\ Unlist(o)
  /\ active' = FALSE
  /\ handle' = [handle EXCEPT ![o] = "dropped"]
  /\ UNCHANGED <<stateVars, dropper, notifyVars, due>>

(* Remove it from future snapshots, under the registry lock.                *)
Remove(o) ==
  /\ handle[o] = "removing"
  /\ Unlist(o)
  /\ active' = (callbacks' # <<>>)
  /\ handle' = [handle EXCEPT ![o] = "dropped"]
  /\ UNCHANGED <<stateVars, dropper, notifyVars, due>>

-----------------------------------------------------------------------------
Notifies ==
  \/ LoadActive \/ CloneCallbacks \/ VisitSkip \/ VisitClaim \/ InvokeReturns
  \/ EndNotify

Drops(o) == Waited(o) \/ Remove(o)

Next ==
  \/ \E o \in Observers :
       \/ Register(o)
       \/ Drops(o)
       \/ \E t \in Threads : Deactivate(t, o)
  \/ \E t \in Threads : StartNotify(t)
  \/ Notifies
  \/ InvokePanics

Spec == Init /\ [][Next]_vars

(* Threads keep running and a callback that nothing blocks returns.         *)
FairSpec ==
  /\ Spec
  /\ WF_vars(Notifies)
  /\ \A o \in Observers : WF_vars(Drops(o))

-----------------------------------------------------------------------------
(* Properties.                                                             *)

(* Once the drop of a handle returns, its callback neither runs nor will,     *)
(* even if an in-flight snapshot still lists it, except inside the callback   *)
(* that dropped it (the doc of CommitObserver).                               *)
QuietAfterDrop ==
  \A o \in Observers :
    handle[o] \in {"removing", "dropped"} => running[o] \in {None, dropper[o]}

(* A dropped handle's callback is never started again.                        *)
NeverRestarted ==
  [][\A o \in Observers :
       handle[o] \in {"waiting", "removing", "dropped"} /\ running[o] = None
         => running'[o] = None]_vars

(* A commit is observed by every observer whose register returned before it   *)
(* and whose handle is still held: the lock-free test of `active` misses none.*)
NoMissedCommit == pc = "idle" => due = {}

(* Every drop of a handle returns: no thread waits for its own callback, and  *)
(* a panicking callback still releases its waiters.                           *)
EveryDropReturns ==
  \A o \in Observers : handle[o] = "waiting" ~> handle[o] = "dropped"
=============================================================================
