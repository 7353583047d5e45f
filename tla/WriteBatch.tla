----------------------------- MODULE WriteBatch -----------------------------
(***************************************************************************)
(* What smallclaims' writer thread does with the connection it owns         *)
(* (crates/smallclaims/src/sqlite.rs, sqlite/transaction_finalizer.rs):     *)
(* run_write_batch runs queued writes in savepoints of one transaction,     *)
(* commits once and answers every caller; a lent connection runs managed    *)
(* transactions of its borrower; the install functions set a hook while     *)
(* they hold the connection.  Any SQL statement or callback may fail, and   *)
(* a post-commit observer may panic, which ends the writer thread.          *)
(*                                                                          *)
(* The order in which jobs are served is WriterQueue's subject.  Here the   *)
(* thread serves any job that is queued.                                    *)
(***************************************************************************)
EXTENDS Naturals, Sequences, FiniteSets

CONSTANTS
  Writes,      \* calls of WriterConnection::batched
  Loans,       \* calls of WriterConnection::write, each writing one row
  BatchLimit,  \* WRITE_BATCH_LIMIT
  None

Hooks == {"runtime", "maintenance", "adapter"}
Rows == Writes \cup Loans

ASSUME WriteBatchAssumption ==
  /\ BatchLimit \in Nat \ {0}
  /\ Writes \cap Loans = {}
  /\ Rows \cap Hooks = {} /\ None \notin Rows \cup Hooks

VARIABLES
  db,         \* the rows committed to the database
  version,    \* the number of commits: the index current_index would read
  committedIn,\* ghost: the version a row was committed in
  tx,         \* the rows of the open transaction
  failure,    \* the batch's (or transaction's) failure
  pc,         \* where the writer thread, or the holder of the loan, is
  cur,        \* the write being run, or the borrower holding the connection
  answers,    \* the batch's callers, in the order they will be answered
  outcome,    \* batched's `outcome` slot: what its job returned
  reply,      \* what each caller has been told
  hooks,      \* the TransactionFinalizers slots that are set
  prepared,   \* hooks that were set when the open transaction began
  finalized,  \* ghost: per row, the hooks prepared for and run on it
  index       \* WriterConnection.committed_index

dbVars == <<db, version, committedIn, finalized>>
txVars == <<tx, failure, prepared>>
callVars == <<answers, outcome, reply>>
vars == <<dbVars, txVars, callVars, pc, cur, hooks, index>>

Elements(s) == {s[i] : i \in DOMAIN s}

TypeOK ==
  /\ db \subseteq Rows
  /\ version \in Nat
  /\ committedIn \in [Rows -> Nat]
  /\ tx \subseteq Rows
  /\ failure \in {"none", "failed"}
  /\ pc \in {"idle", "prepare", "run", "intake", "finalize", "publish", "notify",
             "answer", "lent", "loanPrepare", "loanOpen", "stopped"}
  /\ cur \in Rows \cup Hooks \cup {None}
  /\ answers \in Seq(Writes) /\ Len(answers) <= BatchLimit
  /\ outcome \in [Writes -> {"none", "ok", "err", "panic"}]
  /\ reply \in [Rows -> {"idle", "queued", "ok", "err", "panic", "failed", "stopped",
                         "unrun", "unused"}]
  /\ hooks \subseteq Hooks
  /\ prepared \subseteq Hooks
  /\ finalized \in [Rows -> [prepared : SUBSET Hooks, ran : SUBSET Hooks]]
  /\ index \in Nat

Init ==
  /\ db = {} /\ version = 0 /\ committedIn = [r \in Rows |-> 0]
  /\ tx = {} /\ failure = "none" /\ prepared = {}
  /\ pc = "idle" /\ cur = None /\ answers = <<>>
  /\ outcome = [w \in Writes |-> "none"]
  /\ reply = [r \in Rows |-> "idle"]
  /\ hooks = {}
  /\ finalized = [r \in Rows |-> [prepared |-> {}, ran |-> {}]]
  /\ index = 0

Call(r) ==
  /\ reply[r] = "idle" /\ pc # "stopped"
  /\ reply' = [reply EXCEPT ![r] = "queued"]
  /\ UNCHANGED <<dbVars, txVars, answers, outcome, pc, cur, hooks, index>>

-----------------------------------------------------------------------------
(* run_write_batch                                                         *)

(* BEGIN IMMEDIATE; a batch that cannot begin still answers its first write *)
(* with the error.                                                          *)
Begin(w) ==
  /\ pc = "idle" /\ reply[w] = "queued"
  /\ cur' = w /\ answers' = <<>> /\ tx' = {} /\ prepared' = hooks
  /\ \/ pc' = "prepare" /\ failure' = "none"
     \/ pc' = "run" /\ failure' = "failed"
  /\ UNCHANGED <<dbVars, outcome, reply, hooks, index>>

(* TransactionFinalizers::prepare calls the adapter, if there is one.       *)
Prepare ==
  /\ pc = "prepare"
  /\ \/ failure' = "none"
     \/ "adapter" \in hooks /\ failure' = "failed"
  /\ pc' = "run"
  /\ UNCHANGED <<dbVars, tx, prepared, callVars, cur, hooks, index>>

(* Mutant: a job that fails keeps its savepoint's rows.                     *)
RunReleasesAlways ==
  /\ pc = "run" /\ failure = "none"
  /\ \E o \in {"ok", "err", "panic"} :
       /\ outcome' = [outcome EXCEPT ![cur] = o]
       /\ tx' = tx \cup {cur}
       /\ failure' = "none"
  /\ answers' = Append(answers, cur)
  /\ pc' = "intake"
  /\ UNCHANGED <<dbVars, prepared, reply, cur, hooks, index>>

(* SAVEPOINT; the job, whose panic is caught; RELEASE, or ROLLBACK TO and   *)
(* RELEASE.  A failing savepoint statement fails the batch.  That includes  *)
(* the case where SQLite itself has rolled the transaction back.            *)
Run ==
  /\ pc = "run" /\ failure = "none"
  /\ \/ \E o \in {"ok", "err", "panic"} :
          /\ outcome' = [outcome EXCEPT ![cur] = o]
          /\ \/ /\ tx' = IF o = "ok" THEN tx \cup {cur} ELSE tx
                /\ failure' = "none"
             \/ /\ tx' \in {tx \cup {cur}, {}}
                /\ failure' = "failed"
     \/ /\ failure' = "failed"
        /\ UNCHANGED <<tx, outcome>>
  /\ answers' = Append(answers, cur)
  /\ pc' = "intake"
  /\ UNCHANGED <<dbVars, prepared, reply, cur, hooks, index>>

(* A failed batch drops the write unrun.                                    *)
DropRun ==
  /\ pc = "run" /\ failure = "failed"
  /\ answers' = Append(answers, cur)
  /\ pc' = "intake"
  /\ UNCHANGED <<dbVars, txVars, outcome, reply, cur, hooks, index>>

Take(w) ==
  /\ pc = "intake" /\ failure = "none" /\ Len(answers) < BatchLimit
  /\ reply[w] = "queued" /\ w \notin Elements(answers)
  /\ cur' = w /\ pc' = "run"
  /\ UNCHANGED <<dbVars, txVars, callVars, hooks, index>>

(* The queue is empty or holds a lending write, the window is over, the     *)
(* batch is full or it failed.                                              *)
EndIntake ==
  /\ pc = "intake"
  /\ pc' = "finalize" /\ cur' = None
  /\ UNCHANGED <<dbVars, txVars, callVars, hooks, index>>

(* TransactionFinalizers::run: the runtime, then the maintenance, then the  *)
(* adapter.  run_source_finalizers leaves the runtime out.                  *)
Finalizers(deferred) == IF deferred THEN hooks \ {"runtime"} ELSE hooks

(* COMMIT lands.                                                            *)
Committed(deferred) ==
  /\ db' = db \cup tx
  /\ version' = version + 1
  /\ committedIn' = [r \in Rows |-> IF r \in tx THEN version + 1 ELSE committedIn[r]]
  /\ finalized' = [r \in Rows |->
       IF r \in tx THEN [prepared |-> IF deferred THEN prepared \ {"runtime"} ELSE prepared,
                         ran |-> Finalizers(deferred)]
                   ELSE finalized[r]]

(* Mutant: a failed batch leaves its transaction open.                      *)
FinalizeCommitLeavesOpen ==
  /\ pc = "finalize"
  /\ \/ /\ failure = "none"
        /\ Committed(FALSE) /\ tx' = {}
        /\ UNCHANGED failure
     \/ /\ failure' = "failed"
        /\ UNCHANGED <<dbVars, tx>>
  /\ pc' = "publish"
  /\ UNCHANGED <<prepared, callVars, cur, hooks, index>>

(* A batch that did not fail is finalized and committed; either may fail,   *)
(* and dropping the transaction rolls every write back.                     *)
FinalizeCommit ==
  /\ pc = "finalize"
  /\ tx' = {}
  /\ \/ /\ failure = "none"
        /\ Committed(FALSE)
        /\ UNCHANGED failure
     \/ /\ failure' = "failed"
        /\ UNCHANGED dbVars
  /\ pc' = "publish"
  /\ UNCHANGED <<prepared, callVars, cur, hooks, index>>

(* current_index, on the writer's own connection: inside an open            *)
(* transaction it would read uncommitted rows.                              *)
CurrentIndex == IF tx = {} THEN version ELSE version + 1

(* committed_index is read back from the connection; the mutation observer  *)
(* resolves.  A failing read keeps the old index.                           *)
Publish ==
  /\ pc = "publish"
  /\ index' \in {index, CurrentIndex}
  /\ pc' = IF failure = "none" THEN "notify" ELSE "answer"
  /\ UNCHANGED <<dbVars, txVars, callVars, cur, hooks>>

Notify ==
  /\ pc = "notify"
  /\ pc' = "answer"
  /\ UNCHANGED <<dbVars, txVars, callVars, cur, hooks, index>>

(* What `batched` makes of its outcome and of the writer's answer.          *)
Result(w, committed) ==
  IF outcome[w] = "panic" THEN "panic"
  ELSE IF committed # "ok" THEN committed
  ELSE IF outcome[w] = "none" THEN "unrun"
  ELSE outcome[w]

(* An observer panics on the writer thread: it unwinds, the answers and the *)
(* queued jobs are dropped, and every caller is told that it stopped.       *)
NotifyPanics ==
  /\ pc = "notify"
  /\ pc' = "stopped"
  /\ reply' = [r \in Rows |->
       IF r \in Writes /\ reply[r] = "queued" THEN Result(r, "stopped")
       ELSE IF reply[r] = "queued" THEN "stopped"
       ELSE reply[r]]
  /\ answers' = <<>>
  /\ UNCHANGED <<dbVars, txVars, outcome, cur, hooks, index>>

(* Mutant: an answer carries the write's own outcome, not the commit's.     *)
AnswerOutcome ==
  /\ pc = "answer" /\ answers # <<>>
  /\ reply' = [reply EXCEPT ![Head(answers)] = Result(Head(answers), "ok")]
  /\ answers' = Tail(answers)
  /\ UNCHANGED <<dbVars, txVars, outcome, pc, cur, hooks, index>>

Answer ==
  /\ pc = "answer" /\ answers # <<>>
  /\ reply' = [reply EXCEPT ![Head(answers)] =
                 Result(Head(answers), IF failure = "none" THEN "ok" ELSE "failed")]
  /\ answers' = Tail(answers)
  /\ UNCHANGED <<dbVars, txVars, outcome, pc, cur, hooks, index>>

EndBatch ==
  /\ pc = "answer" /\ answers = <<>>
  /\ pc' = "idle" /\ failure' = "none" /\ prepared' = {}
  /\ UNCHANGED <<dbVars, tx, callVars, cur, hooks, index>>

-----------------------------------------------------------------------------
(* A lent connection: WriterGuard and WriterTransaction.                   *)

Lend(l) ==
  /\ pc = "idle" /\ reply[l] = "queued"
  /\ pc' = "lent" /\ cur' = l
  /\ UNCHANGED <<dbVars, txVars, callVars, hooks, index>>

(* WriterGuard::transaction: BEGIN, then prepare; a failing BEGIN or        *)
(* prepare leaves no transaction.                                           *)
LoanBegin ==
  /\ pc = "lent" /\ cur \in Loans /\ reply[cur] = "queued"
  /\ \/ pc' = "loanPrepare" /\ prepared' = hooks /\ UNCHANGED reply
     \/ /\ reply' = [reply EXCEPT ![cur] = "failed"]
        /\ UNCHANGED <<pc, prepared>>
  /\ UNCHANGED <<dbVars, tx, failure, answers, outcome, cur, hooks, index>>

LoanPrepare ==
  /\ pc = "loanPrepare"
  /\ \/ pc' = "loanOpen" /\ tx' = {cur} /\ UNCHANGED <<prepared, reply>>
     \/ /\ "adapter" \in hooks
        /\ pc' = "lent" /\ prepared' = {} /\ tx' = {}
        /\ reply' = [reply EXCEPT ![cur] = "failed"]
  /\ UNCHANGED <<dbVars, failure, answers, outcome, cur, hooks, index>>

(* WriterTransaction::commit, commit_checked, commit_with_deferred_runtime. *)
LoanCommit ==
  /\ pc = "loanOpen"
  /\ \E deferred \in BOOLEAN : Committed(deferred)
  /\ tx' = {} /\ prepared' = {} /\ pc' = "lent"
  /\ reply' = [reply EXCEPT ![cur] = "ok"]
  /\ UNCHANGED <<failure, answers, outcome, cur, hooks, index>>

(* A finalizer, the check or COMMIT fails, or the borrower rolls back or    *)
(* drops the transaction.                                                   *)
LoanRollback ==
  /\ pc = "loanOpen"
  /\ tx' = {} /\ prepared' = {} /\ pc' = "lent"
  /\ reply' = [reply EXCEPT ![cur] = "failed"]
  /\ UNCHANGED <<dbVars, failure, answers, outcome, cur, hooks, index>>

(* Mutant: a hook is set without holding the writer.                        *)
InstallUnfenced(h) ==
  /\ pc # "stopped" /\ h \notin hooks
  /\ hooks' = hooks \cup {h}
  /\ UNCHANGED <<dbVars, txVars, callVars, pc, cur, index>>

(* install_transaction_hooks, install_transaction_maintenance and           *)
(* install_runtime_finalizer set their slot while they hold the writer; a   *)
(* second install of a slot is refused.                                     *)
Install(h) ==
  /\ pc = "idle" /\ h \notin hooks
  /\ pc' = "lent" /\ cur' = h
  /\ hooks' = hooks \cup {h}
  /\ UNCHANGED <<dbVars, txVars, callVars, index>>

(* Drop for WriterGuard: publish the index, notify the observers whatever   *)
(* the borrower did, and give the connection back ...                       *)
GuardDrop ==
  /\ pc = "lent"
  /\ index' \in {index, CurrentIndex}
  /\ pc' = "idle" /\ cur' = None
  /\ reply' = [r \in Rows |-> IF r = cur /\ reply[r] = "queued" THEN "unused" ELSE reply[r]]
  /\ UNCHANGED <<dbVars, txVars, answers, outcome, hooks>>

(* ... or lose it in an observer's panic, which stops the writer.           *)
GuardDropPanics ==
  /\ pc = "lent"
  /\ index' \in {index, CurrentIndex}
  /\ pc' = "stopped" /\ cur' = None
  /\ reply' = [r \in Rows |-> IF reply[r] = "queued" THEN "stopped" ELSE reply[r]]
  /\ UNCHANGED <<dbVars, txVars, answers, outcome, hooks>>

-----------------------------------------------------------------------------
Batch ==
  \/ \E w \in Writes : Begin(w) \/ Take(w)
  \/ Prepare \/ Run \/ DropRun \/ EndIntake \/ FinalizeCommit \/ Publish
  \/ Notify \/ Answer \/ EndBatch

Loan ==
  \/ \E l \in Loans : Lend(l)
  \/ LoanBegin \/ LoanPrepare \/ LoanCommit \/ LoanRollback \/ GuardDrop

Fails == NotifyPanics \/ GuardDropPanics

Next ==
  \/ \E r \in Rows : Call(r)
  \/ \E h \in Hooks : Install(h)
  \/ Batch \/ Loan \/ Fails

Spec == Init /\ [][Next]_vars

-----------------------------------------------------------------------------
(* Properties.                                                             *)

(* What a caller makes of its reply.                                          *)
Told(r) ==
  IF reply[r] \in {"idle", "queued"} THEN "waiting"
  ELSE IF reply[r] \in {"err", "panic", "failed", "unused"} THEN "undone"
  ELSE reply[r]

Atomic == INSTANCE AtomicWrites WITH durable <- db, told <- [r \in Rows |-> Told(r)]

(* Answers are true (AtomicWrites): a caller told "ok" has a durable row, a   *)
(* caller told of an error, a panic or a failed commit never has one, however *)
(* writes, failing savepoints and rollbacks are mixed in a batch.             *)
AnswersTrue == Atomic!Spec

(* batched's fallback "the writer answered a write it did not run" is never   *)
(* taken: a write dropped unrun is always answered with the batch's failure.  *)
NeverUnrun == \A w \in Writes : reply[w] # "unrun"

(* A committed row was finalized by exactly the hooks that were set when its  *)
(* transaction began, so an adapter never finalizes what it did not prepare:  *)
(* the installs hold the writer.                                              *)
HooksStable == \A r \in db : finalized[r].ran = finalized[r].prepared

(* committed_index never runs ahead of what is committed.                     *)
IndexCommitted == index <= version

(* What the doc of `batched` says of its outer Err: it "is a commit that      *)
(* failed, which undid every write in the batch".                             *)
OuterErrUndone ==
  \A w \in Writes : reply[w] \in {"failed", "stopped"} => w \notin db
=============================================================================
