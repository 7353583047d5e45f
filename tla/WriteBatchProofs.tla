-------------------------- MODULE WriteBatchProofs --------------------------
(* Theorems about WriteBatch, for every set of callers and every limit: it  *)
(* implements AtomicWrites, hooks and the committed index are sound, and no *)
(* write is answered unrun.                                                 *)
EXTENDS WriteBatch, TLAPS

(* The leaves are first-order, for Zenon, but for those that cite SMT. *)
USE Zenon

-----------------------------------------------------------------------------
(* The inductive invariant. *)

(* The batch's transaction is open, or is over. *)
Open == pc \in {"run", "intake", "finalize"}
Over == pc \in {"publish", "notify", "answer"}

Distinct(s) == \A i, j \in DOMAIN s : s[i] = s[j] => i = j

(* Where the thread is, and whom it serves there. *)
PlaceOK ==
  /\ pc \in {"prepare", "run"} =>
       /\ cur \in Writes /\ reply[cur] = "queued" /\ cur \notin Elements(answers)
       /\ Len(answers) < BatchLimit
  /\ pc \in {"loanPrepare", "loanOpen"} => cur \in Loans /\ reply[cur] = "queued"
  /\ ~ Open /\ ~ Over => answers = <<>>
  /\ pc = "notify" => failure = "none"
  /\ pc \in {"prepare", "run", "intake", "finalize", "loanPrepare", "loanOpen"} => prepared = hooks

(* A transaction holds rows of those it will answer only. *)
TxOK ==
  /\ Open => tx \subseteq Elements(answers)
  /\ pc = "loanOpen" => tx = {cur}
  /\ ~ Open /\ pc # "loanOpen" => tx = {}

AnswersOK ==
  /\ Distinct(answers)
  /\ \A w \in Elements(answers) :
       reply[w] = "queued" /\ (failure = "none" => outcome[w] # "none")

(* What is durable of those who have no answer yet. *)
RowsOK ==
  /\ \A r \in Rows :
       reply[r] \in {"idle", "queued"} /\ r \notin Elements(answers) =>
         r \notin db /\ (r \in Writes => outcome[r] = "none")
  /\ Open => \A w \in Elements(answers) :
       w \notin db /\ (failure = "none" => (w \in tx <=> outcome[w] = "ok"))
  /\ Over => \A w \in Elements(answers) :
       w \in db <=> failure = "none" /\ outcome[w] = "ok"

BatchInv ==
  /\ TypeOK /\ PlaceOK /\ TxOK /\ AnswersOK /\ RowsOK
  /\ HooksStable /\ IndexCommitted /\ NeverUnrun

-----------------------------------------------------------------------------
(* Sequences of callers. *)

LEMMA ElementsAppend ==
  ASSUME NEW S, NEW s \in Seq(S), NEW e \in S
  PROVE  /\ Append(s, e) \in Seq(S) /\ Len(Append(s, e)) = Len(s) + 1 /\ Len(s) \in Nat
         /\ Elements(Append(s, e)) = Elements(s) \cup {e}
         /\ Distinct(s) /\ e \notin Elements(s) => Distinct(Append(s, e))
<1>1. \A i \in DOMAIN Append(s, e) :
        \/ i \in DOMAIN s /\ Append(s, e)[i] = s[i]
        \/ i = Len(s) + 1 /\ Append(s, e)[i] = e
  BY SMT
<1>2. /\ \A i \in DOMAIN s : i \in DOMAIN Append(s, e) /\ Append(s, e)[i] = s[i]
      /\ Len(s) + 1 \in DOMAIN Append(s, e) /\ Append(s, e)[Len(s) + 1] = e
  BY SMT
<1>3. Elements(Append(s, e)) = Elements(s) \cup {e}
  BY <1>1, <1>2 DEF Elements
<1>4. Distinct(s) /\ e \notin Elements(s) => Distinct(Append(s, e))
  BY <1>1 DEF Distinct, Elements
<1> QED
  BY <1>3, <1>4, SMT

LEMMA ElementsTail ==
  ASSUME NEW S, NEW s \in Seq(S), s # <<>>, Distinct(s)
  PROVE  /\ Tail(s) \in Seq(S) /\ Len(Tail(s)) + 1 = Len(s) /\ Len(Tail(s)) \in Nat
         /\ Head(s) \in S /\ Head(s) \in Elements(s) /\ Distinct(Tail(s))
         /\ Elements(Tail(s)) = Elements(s) \ {Head(s)}
<1>1. /\ 1 \in DOMAIN s /\ Head(s) = s[1] /\ Len(s) \in Nat /\ Len(s) # 0
      /\ Tail(s) \in Seq(S) /\ Len(Tail(s)) = Len(s) - 1
  BY SMT
<1>2. \A i \in DOMAIN Tail(s) : i \in Nat /\ i + 1 \in DOMAIN s /\ Tail(s)[i] = s[i + 1]
  BY SMT
<1>3. \A i \in DOMAIN s \ {1} : i - 1 \in DOMAIN Tail(s) /\ Tail(s)[i - 1] = s[i]
  BY SMT
<1>4. Distinct(Tail(s))
  BY <1>2, SMT DEF Distinct
<1>5. \A i \in DOMAIN Tail(s) : Tail(s)[i] # Head(s)
  BY <1>1, <1>2, SMT DEF Distinct
<1>6. Elements(Tail(s)) \subseteq Elements(s) \ {Head(s)}
  BY <1>2, <1>5 DEF Elements
<1>7. ASSUME NEW e \in Elements(s), e # Head(s) PROVE e \in Elements(Tail(s))
  <2>1. PICK i \in DOMAIN s : e = s[i]
    BY DEF Elements
  <2>2. i - 1 \in DOMAIN Tail(s) /\ Tail(s)[i - 1] = e
    BY <1>1, <1>3, <1>7, <2>1
  <2> QED
    BY <2>2 DEF Elements
<1>8. Head(s) \in Elements(s) /\ Head(s) \in S
  BY <1>1, SMT DEF Elements
<1>9. Len(Tail(s)) \in Nat /\ Len(Tail(s)) + 1 = Len(s)
  BY <1>1, SMT
<1> QED
  BY <1>1, <1>4, <1>6, <1>7, <1>8, <1>9

-----------------------------------------------------------------------------
(* Steps. *)

(* A caller queues its write or asks for the connection. *)
LEMMA CallKeeps ==
  ASSUME BatchInv, NEW r \in Rows, Call(r)
  PROVE  BatchInv'
<1> USE DEF BatchInv, Call, dbVars, txVars, callVars
<1>1. TypeOK'
  BY WriteBatchAssumption DEF TypeOK, Rows
<1>2. PlaceOK'
  BY WriteBatchAssumption DEF PlaceOK, TypeOK, Open, Over, Rows, Elements
<1>3. TxOK'
  BY DEF TxOK, PlaceOK, Open, Over, TypeOK, Rows
<1>4. AnswersOK' /\ RowsOK'
  BY WriteBatchAssumption, SMT DEF AnswersOK, RowsOK, PlaceOK, TypeOK, Open, Over, Rows, Elements, Distinct
<1>5. HooksStable' /\ IndexCommitted' /\ NeverUnrun'
  BY DEF HooksStable, IndexCommitted, NeverUnrun, TypeOK, Rows, TxOK
<1> QED
  BY <1>1, <1>2, <1>3, <1>4, <1>5

(* A batch begins, or fails to begin, with an empty list of callers. *)
LEMMA BeginKeeps ==
  ASSUME BatchInv, NEW w \in Writes, Begin(w)
  PROVE  BatchInv'
<1> USE DEF BatchInv, Begin, dbVars, txVars, callVars
<1>1. TypeOK'
  BY WriteBatchAssumption, SMT DEF TypeOK, Rows
<1>2. PlaceOK'
  BY WriteBatchAssumption, SMT DEF PlaceOK, TypeOK, Open, Over, Rows, Elements
<1>3. TxOK'
  BY DEF TxOK, PlaceOK, Open, Over, TypeOK, Rows
<1>4. AnswersOK' /\ RowsOK'
  BY WriteBatchAssumption, SMT DEF AnswersOK, RowsOK, PlaceOK, TypeOK, Open, Over, Rows, Elements, Distinct
<1>5. HooksStable' /\ IndexCommitted' /\ NeverUnrun'
  BY DEF HooksStable, IndexCommitted, NeverUnrun, TypeOK, Rows, TxOK
<1> QED
  BY <1>1, <1>2, <1>3, <1>4, <1>5

(* The adapter's preparation, which may fail the batch. *)
LEMMA PrepareKeeps ==
  ASSUME BatchInv, Prepare
  PROVE  BatchInv'
<1> USE DEF BatchInv, Prepare, dbVars, txVars, callVars
<1>1. TypeOK'
  BY WriteBatchAssumption DEF TypeOK, Rows
<1>2. PlaceOK'
  BY WriteBatchAssumption DEF PlaceOK, TypeOK, Open, Over, Rows, Elements
<1>3. TxOK'
  BY DEF TxOK, PlaceOK, Open, Over, TypeOK, Rows
<1>4. AnswersOK' /\ RowsOK'
  BY WriteBatchAssumption, SMT DEF AnswersOK, RowsOK, PlaceOK, TypeOK, Open, Over, Rows, Elements, Distinct
<1>5. HooksStable' /\ IndexCommitted' /\ NeverUnrun'
  BY DEF HooksStable, IndexCommitted, NeverUnrun, TypeOK, Rows, TxOK
<1> QED
  BY <1>1, <1>2, <1>3, <1>4, <1>5

(* A failed batch drops the write unrun. *)
LEMMA DropRunKeeps ==
  ASSUME BatchInv, DropRun
  PROVE  BatchInv'
<1> USE DEF BatchInv, DropRun, dbVars, txVars
<1>0. cur \in Writes /\ answers \in Seq(Writes) /\ Distinct(answers)
  BY DEF PlaceOK, TypeOK, AnswersOK
<1>1. /\ answers' \in Seq(Writes) /\ Len(answers') = Len(answers) + 1 /\ Len(answers) \in Nat
      /\ Elements(answers)' = Elements(answers) \cup {cur} /\ Distinct(answers)'
  BY <1>0, ElementsAppend, SMT DEF PlaceOK
<1>2. TypeOK'
  BY <1>1, WriteBatchAssumption, SMT DEF TypeOK, PlaceOK
<1>3. PlaceOK' /\ TxOK'
  BY <1>1 DEF PlaceOK, TxOK, Open, Over
<1>4. AnswersOK' /\ RowsOK'
  BY <1>1 DEF AnswersOK, RowsOK, PlaceOK, Open, Over, Rows
<1>5. HooksStable' /\ IndexCommitted' /\ NeverUnrun'
  BY DEF HooksStable, IndexCommitted, NeverUnrun
<1> QED
  BY <1>2, <1>3, <1>4, <1>5

(* A write runs in its savepoint: what it leaves in the transaction is its    *)
(* row if and only if its outcome is "ok", unless the batch has failed.       *)
LEMMA RunKeeps ==
  ASSUME BatchInv, Run
  PROVE  BatchInv'
<1> USE DEF BatchInv, Run, dbVars
<1>0. cur \in Writes /\ answers \in Seq(Writes) /\ Distinct(answers)
  BY DEF PlaceOK, TypeOK, AnswersOK
<1>1. /\ answers' \in Seq(Writes) /\ Len(answers') = Len(answers) + 1 /\ Len(answers) \in Nat
      /\ Elements(answers)' = Elements(answers) \cup {cur} /\ Distinct(answers)'
  BY <1>0, ElementsAppend, SMT DEF PlaceOK
<1>2. /\ outcome' \in [Writes -> {"none", "ok", "err", "panic"}]
      /\ \A w \in Writes : w # cur => outcome'[w] = outcome[w]
      /\ failure' = "none" => outcome'[cur] # "none"
      /\ failure' = "none" => tx' = IF outcome'[cur] = "ok" THEN tx \cup {cur} ELSE tx
      /\ tx' \subseteq tx \cup {cur} /\ failure' \in {"none", "failed"}
  BY <1>0 DEF TypeOK
<1>3. TypeOK'
  BY <1>0, <1>1, <1>2, WriteBatchAssumption, SMT DEF TypeOK, PlaceOK, Rows
<1>4. PlaceOK' /\ TxOK'
  BY <1>1, <1>2 DEF PlaceOK, TxOK, Open, Over
<1>5. Elements(answers) \subseteq Writes /\ cur \notin Elements(answers) /\ cur \notin tx
      /\ cur \notin db /\ reply[cur] = "queued"
  BY <1>0, SMT DEF Elements, PlaceOK, TxOK, RowsOK, Open, Rows
<1>6. AnswersOK'
  BY <1>1, <1>2, <1>5 DEF AnswersOK
<1>7. RowsOK'
  BY <1>1, <1>2, <1>5, SMT DEF RowsOK, Open, Over, Rows
<1>8. HooksStable' /\ IndexCommitted' /\ NeverUnrun'
  BY DEF HooksStable, IndexCommitted, NeverUnrun
<1> QED
  BY <1>3, <1>4, <1>6, <1>7, <1>8

(* A further write joins the batch. *)
LEMMA TakeKeeps ==
  ASSUME BatchInv, NEW w \in Writes, Take(w)
  PROVE  BatchInv'
<1> USE DEF BatchInv, Take, dbVars, txVars, callVars
<1>1. TypeOK'
  BY WriteBatchAssumption DEF TypeOK, Rows
<1>2. PlaceOK'
  BY WriteBatchAssumption DEF PlaceOK, TypeOK, Open, Over, Rows, Elements
<1>3. TxOK'
  BY DEF TxOK, PlaceOK, Open, Over, TypeOK, Rows
<1>4. AnswersOK' /\ RowsOK'
  BY WriteBatchAssumption, SMT DEF AnswersOK, RowsOK, PlaceOK, TypeOK, Open, Over, Rows, Elements, Distinct
<1>5. HooksStable' /\ IndexCommitted' /\ NeverUnrun'
  BY DEF HooksStable, IndexCommitted, NeverUnrun, TypeOK, Rows, TxOK
<1> QED
  BY <1>1, <1>2, <1>3, <1>4, <1>5

(* The batch takes no more writes. *)
LEMMA EndIntakeKeeps ==
  ASSUME BatchInv, EndIntake
  PROVE  BatchInv'
<1> USE DEF BatchInv, EndIntake, dbVars, txVars, callVars
<1>1. TypeOK'
  BY WriteBatchAssumption DEF TypeOK, Rows
<1>2. PlaceOK'
  BY WriteBatchAssumption DEF PlaceOK, TypeOK, Open, Over, Rows, Elements
<1>3. TxOK'
  BY DEF TxOK, PlaceOK, Open, Over, TypeOK, Rows
<1>4. AnswersOK' /\ RowsOK'
  BY WriteBatchAssumption, SMT DEF AnswersOK, RowsOK, PlaceOK, TypeOK, Open, Over, Rows, Elements, Distinct
<1>5. HooksStable' /\ IndexCommitted' /\ NeverUnrun'
  BY DEF HooksStable, IndexCommitted, NeverUnrun, TypeOK, Rows, TxOK
<1> QED
  BY <1>1, <1>2, <1>3, <1>4, <1>5

(* The index is read back with no transaction open. *)
LEMMA PublishKeeps ==
  ASSUME BatchInv, Publish
  PROVE  BatchInv'
<1> USE DEF BatchInv, Publish, CurrentIndex, dbVars, txVars, callVars
<1>1. TypeOK'
  BY WriteBatchAssumption, SMT DEF TypeOK, Rows
<1>2. PlaceOK'
  BY WriteBatchAssumption DEF PlaceOK, TypeOK, Open, Over, Rows, Elements
<1>3. TxOK'
  BY DEF TxOK, PlaceOK, Open, Over, TypeOK, Rows
<1>4. AnswersOK' /\ RowsOK'
  BY WriteBatchAssumption, SMT DEF AnswersOK, RowsOK, PlaceOK, TypeOK, Open, Over, Rows, Elements, Distinct
<1>5. HooksStable' /\ IndexCommitted' /\ NeverUnrun'
  BY SMT DEF HooksStable, IndexCommitted, NeverUnrun, TypeOK, Rows, TxOK, Open
<1> QED
  BY <1>1, <1>2, <1>3, <1>4, <1>5

(* The observers are told. *)
LEMMA NotifyKeeps ==
  ASSUME BatchInv, Notify
  PROVE  BatchInv'
<1> USE DEF BatchInv, Notify, dbVars, txVars, callVars
<1>1. TypeOK'
  BY WriteBatchAssumption DEF TypeOK, Rows
<1>2. PlaceOK'
  BY WriteBatchAssumption DEF PlaceOK, TypeOK, Open, Over, Rows, Elements
<1>3. TxOK'
  BY DEF TxOK, PlaceOK, Open, Over, TypeOK, Rows
<1>4. AnswersOK' /\ RowsOK'
  BY WriteBatchAssumption, SMT DEF AnswersOK, RowsOK, PlaceOK, TypeOK, Open, Over, Rows, Elements, Distinct
<1>5. HooksStable' /\ IndexCommitted' /\ NeverUnrun'
  BY DEF HooksStable, IndexCommitted, NeverUnrun, TypeOK, Rows, TxOK
<1> QED
  BY <1>1, <1>2, <1>3, <1>4, <1>5

(* Every caller has its answer. *)
LEMMA EndBatchKeeps ==
  ASSUME BatchInv, EndBatch
  PROVE  BatchInv'
<1> USE DEF BatchInv, EndBatch, dbVars, txVars, callVars
<1>1. TypeOK'
  BY WriteBatchAssumption DEF TypeOK, Rows
<1>2. PlaceOK'
  BY WriteBatchAssumption DEF PlaceOK, TypeOK, Open, Over, Rows, Elements
<1>3. TxOK'
  BY DEF TxOK, PlaceOK, Open, Over, TypeOK, Rows
<1>4. AnswersOK' /\ RowsOK'
  BY WriteBatchAssumption, SMT DEF AnswersOK, RowsOK, PlaceOK, TypeOK, Open, Over, Rows, Elements, Distinct
<1>5. HooksStable' /\ IndexCommitted' /\ NeverUnrun'
  BY DEF HooksStable, IndexCommitted, NeverUnrun, TypeOK, Rows, TxOK
<1> QED
  BY <1>1, <1>2, <1>3, <1>4, <1>5

(* The connection is lent. *)
LEMMA LendKeeps ==
  ASSUME BatchInv, NEW l \in Loans, Lend(l)
  PROVE  BatchInv'
<1> USE DEF BatchInv, Lend, dbVars, txVars, callVars
<1>1. TypeOK'
  BY WriteBatchAssumption DEF TypeOK, Rows
<1>2. PlaceOK'
  BY WriteBatchAssumption DEF PlaceOK, TypeOK, Open, Over, Rows, Elements
<1>3. TxOK'
  BY DEF TxOK, PlaceOK, Open, Over, TypeOK, Rows
<1>4. AnswersOK' /\ RowsOK'
  BY WriteBatchAssumption, SMT DEF AnswersOK, RowsOK, PlaceOK, TypeOK, Open, Over, Rows, Elements, Distinct
<1>5. HooksStable' /\ IndexCommitted' /\ NeverUnrun'
  BY DEF HooksStable, IndexCommitted, NeverUnrun, TypeOK, Rows, TxOK
<1> QED
  BY <1>1, <1>2, <1>3, <1>4, <1>5

(* A borrower's BEGIN. *)
LEMMA LoanBeginKeeps ==
  ASSUME BatchInv, LoanBegin
  PROVE  BatchInv'
<1> USE DEF BatchInv, LoanBegin, dbVars, txVars, callVars
<1>1. TypeOK'
  BY WriteBatchAssumption DEF TypeOK, Rows
<1>2. PlaceOK'
  BY WriteBatchAssumption DEF PlaceOK, TypeOK, Open, Over, Rows, Elements
<1>3. TxOK'
  BY DEF TxOK, PlaceOK, Open, Over, TypeOK, Rows
<1>4. AnswersOK' /\ RowsOK'
  BY WriteBatchAssumption, SMT DEF AnswersOK, RowsOK, PlaceOK, TypeOK, Open, Over, Rows, Elements, Distinct
<1>5. HooksStable' /\ IndexCommitted' /\ NeverUnrun'
  BY DEF HooksStable, IndexCommitted, NeverUnrun, TypeOK, Rows, TxOK
<1> QED
  BY <1>1, <1>2, <1>3, <1>4, <1>5

(* A borrower's prepare. *)
LEMMA LoanPrepareKeeps ==
  ASSUME BatchInv, LoanPrepare
  PROVE  BatchInv'
<1> USE DEF BatchInv, LoanPrepare, dbVars, txVars, callVars
<1>1. TypeOK'
  BY DEF TypeOK, PlaceOK, Rows
<1>2. PlaceOK'
  BY WriteBatchAssumption DEF PlaceOK, TypeOK, Open, Over, Rows, Elements
<1>3. TxOK'
  BY DEF TxOK, PlaceOK, Open, Over, TypeOK, Rows
<1>4. AnswersOK' /\ RowsOK'
  BY WriteBatchAssumption, SMT DEF AnswersOK, RowsOK, PlaceOK, TypeOK, Open, Over, Rows, Elements, Distinct
<1>5. HooksStable' /\ IndexCommitted' /\ NeverUnrun'
  BY DEF HooksStable, IndexCommitted, NeverUnrun, TypeOK, Rows, TxOK
<1> QED
  BY <1>1, <1>2, <1>3, <1>4, <1>5

(* A borrower's transaction is undone. *)
LEMMA LoanRollbackKeeps ==
  ASSUME BatchInv, LoanRollback
  PROVE  BatchInv'
<1> USE DEF BatchInv, LoanRollback, dbVars, txVars, callVars
<1>1. TypeOK'
  BY WriteBatchAssumption DEF TypeOK, Rows
<1>2. PlaceOK'
  BY WriteBatchAssumption DEF PlaceOK, TypeOK, Open, Over, Rows, Elements
<1>3. TxOK'
  BY DEF TxOK, PlaceOK, Open, Over, TypeOK, Rows
<1>4. AnswersOK' /\ RowsOK'
  BY WriteBatchAssumption, SMT DEF AnswersOK, RowsOK, PlaceOK, TypeOK, Open, Over, Rows, Elements, Distinct
<1>5. HooksStable' /\ IndexCommitted' /\ NeverUnrun'
  BY DEF HooksStable, IndexCommitted, NeverUnrun, TypeOK, Rows, TxOK
<1> QED
  BY <1>1, <1>2, <1>3, <1>4, <1>5

(* An install holds the writer, so no transaction is open. *)
LEMMA InstallKeeps ==
  ASSUME BatchInv, NEW h \in Hooks, Install(h)
  PROVE  BatchInv'
<1> USE DEF BatchInv, Install, dbVars, txVars, callVars
<1>1. TypeOK'
  BY WriteBatchAssumption DEF TypeOK, Rows
<1>2. PlaceOK'
  BY WriteBatchAssumption DEF PlaceOK, TypeOK, Open, Over, Rows, Elements
<1>3. TxOK'
  BY DEF TxOK, PlaceOK, Open, Over, TypeOK, Rows
<1>4. AnswersOK' /\ RowsOK'
  BY WriteBatchAssumption, SMT DEF AnswersOK, RowsOK, PlaceOK, TypeOK, Open, Over, Rows, Elements, Distinct
<1>5. HooksStable' /\ IndexCommitted' /\ NeverUnrun'
  BY DEF HooksStable, IndexCommitted, NeverUnrun, TypeOK, Rows, TxOK
<1> QED
  BY <1>1, <1>2, <1>3, <1>4, <1>5

(* The connection is given back. *)
LEMMA GuardDropKeeps ==
  ASSUME BatchInv, GuardDrop
  PROVE  BatchInv'
<1> USE DEF BatchInv, GuardDrop, CurrentIndex, dbVars, txVars, callVars
<1>1. TypeOK'
  BY WriteBatchAssumption, SMT DEF TypeOK, Rows
<1>2. PlaceOK'
  BY WriteBatchAssumption DEF PlaceOK, TypeOK, Open, Over, Rows, Elements
<1>3. TxOK'
  BY DEF TxOK, PlaceOK, Open, Over, TypeOK, Rows
<1>4. AnswersOK' /\ RowsOK'
  BY WriteBatchAssumption, SMT DEF AnswersOK, RowsOK, PlaceOK, TypeOK, Open, Over, Rows, Elements, Distinct
<1>5. HooksStable' /\ IndexCommitted' /\ NeverUnrun'
  BY SMT DEF HooksStable, IndexCommitted, NeverUnrun, TypeOK, Rows, TxOK, Open
<1> QED
  BY <1>1, <1>2, <1>3, <1>4, <1>5

(* The connection is lost, and the writer stops. *)
LEMMA GuardDropPanicsKeeps ==
  ASSUME BatchInv, GuardDropPanics
  PROVE  BatchInv'
<1> USE DEF BatchInv, GuardDropPanics, CurrentIndex, dbVars, txVars, callVars
<1>1. TypeOK'
  BY WriteBatchAssumption, SMT DEF TypeOK, Rows
<1>2. PlaceOK'
  BY WriteBatchAssumption DEF PlaceOK, TypeOK, Open, Over, Rows, Elements
<1>3. TxOK'
  BY DEF TxOK, PlaceOK, Open, Over, TypeOK, Rows
<1>4. AnswersOK' /\ RowsOK'
  BY WriteBatchAssumption, SMT DEF AnswersOK, RowsOK, PlaceOK, TypeOK, Open, Over, Rows, Elements, Distinct
<1>5. HooksStable' /\ IndexCommitted' /\ NeverUnrun'
  BY SMT DEF HooksStable, IndexCommitted, NeverUnrun, TypeOK, Rows, TxOK, Open
<1> QED
  BY <1>1, <1>2, <1>3, <1>4, <1>5

(* The commit of a batch that did not fail makes durable exactly the rows     *)
(* whose outcome is "ok"; a failed batch leaves none of its rows behind.      *)
LEMMA FinalizeCommitKeeps ==
  ASSUME BatchInv, FinalizeCommit
  PROVE  BatchInv'
<1> USE DEF BatchInv, FinalizeCommit, dbVars, callVars
<1>0. tx \subseteq Elements(answers) /\ Elements(answers) \subseteq Writes /\ prepared = hooks
  BY SMT DEF TxOK, Open, Elements, TypeOK, PlaceOK
<1>1. /\ db' = IF failure' = "none" THEN db \cup tx ELSE db
      /\ failure' = "none" => failure = "none"
      /\ failure' \in {"none", "failed"}
  BY DEF Committed
<1>2. /\ version' \in Nat /\ committedIn' \in [Rows -> Nat] /\ version <= version'
      /\ finalized' \in [Rows -> [prepared : SUBSET Hooks, ran : SUBSET Hooks]]
      /\ \A r \in Rows : \/ r \notin tx /\ finalized'[r] = finalized[r]
                         \/ db' = db /\ finalized'[r] = finalized[r]
                         \/ finalized'[r].ran = finalized'[r].prepared
  BY <1>0, SMT DEF Committed, Finalizers, TypeOK
<1>3. TypeOK'
  BY <1>1, <1>2 DEF TypeOK
<1>4. PlaceOK' /\ TxOK'
  BY <1>1 DEF PlaceOK, TxOK, Open, Over
<1>5. AnswersOK'
  BY <1>1 DEF AnswersOK
<1>6. RowsOK'
  BY <1>0, <1>1 DEF RowsOK, Open, Over
<1>7. HooksStable'
  BY <1>1, <1>2 DEF HooksStable, TypeOK
<1>8. IndexCommitted' /\ NeverUnrun'
  BY <1>2, SMT DEF IndexCommitted, NeverUnrun, TypeOK
<1> QED
  BY <1>3, <1>4, <1>5, <1>6, <1>7, <1>8

(* The first caller is told its outcome, or the batch's failure.              *)
LEMMA AnswerKeeps ==
  ASSUME BatchInv, Answer
  PROVE  BatchInv'
<1> USE DEF BatchInv, Answer, dbVars, txVars
<1> DEFINE w == Head(answers)
<1>0. answers \in Seq(Writes) /\ answers # <<>> /\ Distinct(answers)
  BY DEF TypeOK, AnswersOK
<1>1. /\ answers' \in Seq(Writes) /\ Len(answers') + 1 = Len(answers) /\ Len(answers') \in Nat
      /\ w \in Writes /\ w \in Elements(answers) /\ Distinct(answers)'
      /\ Elements(answers)' = Elements(answers) \ {w}
  BY <1>0, ElementsTail
<1>2. /\ Result(w, IF failure = "none" THEN "ok" ELSE "failed") \in {"ok", "err", "panic", "failed"}
  BY <1>1 DEF Result, TypeOK, AnswersOK
<1> HIDE DEF w
<1>3. /\ reply' \in [Rows -> {"idle", "queued", "ok", "err", "panic", "failed", "stopped",
                               "unrun", "unused"}]
      /\ reply'[w] \in {"ok", "err", "panic", "failed"}
      /\ \A r \in Rows \ {w} : reply'[r] = reply[r]
  BY <1>1, <1>2 DEF TypeOK, Rows, w
<1>4. TypeOK'
  BY <1>1, <1>3, WriteBatchAssumption, SMT DEF TypeOK
<1>5. PlaceOK' /\ TxOK'
  BY DEF PlaceOK, TxOK, Open, Over
<1>6. Elements(answers) \subseteq Rows /\ w \in Rows
  BY <1>0, <1>1, SMT DEF Elements, Rows
<1>7. AnswersOK'
  BY <1>1, <1>3, <1>6 DEF AnswersOK
<1>8. RowsOK'
  BY <1>1, <1>3, <1>6 DEF RowsOK, Open, Over
<1>9. HooksStable' /\ IndexCommitted' /\ NeverUnrun'
  BY <1>3 DEF HooksStable, IndexCommitted, NeverUnrun, Rows
<1> QED
  BY <1>4, <1>5, <1>7, <1>8, <1>9

(* The writer thread unwinds, and everyone who waits is told something.       *)
LEMMA NotifyPanicsKeeps ==
  ASSUME BatchInv, NotifyPanics
  PROVE  BatchInv'
<1> USE DEF BatchInv, NotifyPanics, dbVars, txVars
<1>1. \A w \in Writes : Result(w, "stopped") \in {"panic", "stopped"}
  BY DEF Result
<1>2. /\ reply' \in [Rows -> {"idle", "queued", "ok", "err", "panic", "failed", "stopped",
                               "unrun", "unused"}]
      /\ \A r \in Rows : \/ reply[r] # "queued" /\ reply'[r] = reply[r]
                         \/ reply'[r] \in {"panic", "stopped"}
  BY <1>1 DEF TypeOK
<1>3. answers' = <<>> /\ answers' \in Seq(Writes) /\ Len(answers') = 0
      /\ Elements(answers)' = {} /\ Distinct(answers)'
  BY SMT DEF Elements, Distinct
<1>4. TypeOK'
  BY <1>2, <1>3, WriteBatchAssumption, SMT DEF TypeOK
<1>5. PlaceOK' /\ TxOK'
  BY <1>3 DEF PlaceOK, TxOK, Open, Over
<1>6. AnswersOK' /\ RowsOK'
  BY <1>2, <1>3 DEF AnswersOK, RowsOK, Open, Over, Rows
<1>7. HooksStable' /\ IndexCommitted' /\ NeverUnrun'
  BY <1>2 DEF HooksStable, IndexCommitted, NeverUnrun, Rows
<1> QED
  BY <1>4, <1>5, <1>6, <1>7

(* A borrower's commit makes its one row durable.                             *)
LEMMA LoanCommitKeeps ==
  ASSUME BatchInv, LoanCommit
  PROVE  BatchInv'
<1> USE DEF BatchInv, LoanCommit
<1>0. cur \in Loans /\ cur \in Rows /\ tx = {cur} /\ prepared = hooks /\ answers = <<>>
      /\ Elements(answers) = {}
  BY SMT DEF TxOK, PlaceOK, Rows, Open, Over, Elements
<1>1. PICK deferred \in BOOLEAN : Committed(deferred)
  OBVIOUS
<1>2. /\ db' = db \cup {cur} /\ version' \in Nat /\ committedIn' \in [Rows -> Nat] /\ version <= version'
      /\ finalized' \in [Rows -> [prepared : SUBSET Hooks, ran : SUBSET Hooks]]
      /\ \A r \in Rows : \/ r # cur /\ finalized'[r] = finalized[r]
                         \/ finalized'[r].ran = finalized'[r].prepared
  BY <1>0, <1>1, SMT DEF Committed, Finalizers, TypeOK
<1>3. /\ reply' \in [Rows -> {"idle", "queued", "ok", "err", "panic", "failed", "stopped",
                               "unrun", "unused"}]
      /\ reply'[cur] = "ok" /\ \A r \in Rows \ {cur} : reply'[r] = reply[r]
  BY <1>0 DEF TypeOK
<1>4. TypeOK'
  BY <1>0, <1>2, <1>3 DEF TypeOK
<1>5. PlaceOK' /\ TxOK'
  BY <1>0 DEF PlaceOK, TxOK, Open, Over
<1>6. AnswersOK' /\ RowsOK'
  BY <1>0, <1>2, <1>3 DEF AnswersOK, RowsOK, Open, Over, Rows
<1>7. HooksStable' /\ IndexCommitted' /\ NeverUnrun'
  BY <1>2, <1>3, SMT DEF HooksStable, IndexCommitted, NeverUnrun, TypeOK, Rows
<1> QED
  BY <1>4, <1>5, <1>6, <1>7

LEMMA BatchInit == Init => BatchInv
<1> SUFFICES ASSUME Init PROVE BatchInv
  OBVIOUS
<1> USE DEF Init
<1>1. answers \in Seq(Writes) /\ Len(answers) = 0 /\ Elements(answers) = {} /\ Distinct(answers)
  BY SMT DEF Elements, Distinct
<1>2. TypeOK
  BY <1>1, WriteBatchAssumption, SMT DEF TypeOK, Rows
<1>3. PlaceOK /\ TxOK
  BY DEF PlaceOK, TxOK, Open, Over
<1>4. AnswersOK /\ RowsOK
  BY <1>1 DEF AnswersOK, RowsOK, Open, Over, Rows
<1>5. HooksStable /\ IndexCommitted /\ NeverUnrun
  BY SMT DEF HooksStable, IndexCommitted, NeverUnrun, Rows
<1> QED
  BY <1>2, <1>3, <1>4, <1>5 DEF BatchInv

LEMMA BatchStep == BatchInv /\ [Next]_vars => BatchInv'
<1> SUFFICES ASSUME BatchInv, [Next]_vars PROVE BatchInv'
  OBVIOUS
<1>1. ASSUME NEW r \in Rows, Call(r) PROVE BatchInv'
  BY <1>1, CallKeeps
<1>2. ASSUME NEW h \in Hooks, Install(h) PROVE BatchInv'
  BY <1>2, InstallKeeps
<1>3. ASSUME NEW w \in Writes, Begin(w) \/ Take(w) PROVE BatchInv'
  BY <1>3, BeginKeeps, TakeKeeps
<1>4. CASE Prepare \/ Run \/ DropRun \/ EndIntake \/ FinalizeCommit \/ Publish
  BY <1>4, PrepareKeeps, RunKeeps, DropRunKeeps, EndIntakeKeeps, FinalizeCommitKeeps,
     PublishKeeps
<1>5. CASE Notify \/ Answer \/ EndBatch
  BY <1>5, NotifyKeeps, AnswerKeeps, EndBatchKeeps
<1>6. ASSUME NEW l \in Loans, Lend(l) PROVE BatchInv'
  BY <1>6, LendKeeps
<1>7. CASE LoanBegin \/ LoanPrepare \/ LoanCommit \/ LoanRollback \/ GuardDrop
  BY <1>7, LoanBeginKeeps, LoanPrepareKeeps, LoanCommitKeeps, LoanRollbackKeeps, GuardDropKeeps
<1>8. CASE Fails
  BY <1>8, NotifyPanicsKeeps, GuardDropPanicsKeeps DEF Fails
<1>9. CASE UNCHANGED vars
  BY <1>9, SMT DEF BatchInv, TypeOK, PlaceOK, TxOK, AnswersOK, RowsOK, HooksStable, IndexCommitted,
     NeverUnrun, Open, Over, Distinct, Elements, vars, dbVars, txVars, callVars
<1> QED
  BY <1>1, <1>2, <1>3, <1>4, <1>5, <1>6, <1>7, <1>8, <1>9 DEF Next, Batch, Loan

LEMMA BatchInvariant == Spec => []BatchInv
  BY BatchInit, BatchStep, PTL DEF Spec

-----------------------------------------------------------------------------
(* Theorems. *)

(* No write is ever answered with batched's fallback "the writer answered a   *)
(* write it did not run", however long the batch and whichever of its         *)
(* statements fail.                                                           *)
THEOREM NoWriteUnrun == Spec => []NeverUnrun
<1>1. BatchInv => NeverUnrun
  BY DEF BatchInv
<1> QED
  BY <1>1, BatchInvariant, PTL

(* A committed row was finalized by exactly the hooks that were set when its  *)
(* transaction began: every install holds the writer.                         *)
THEOREM HooksAreStable == Spec => []HooksStable
<1>1. BatchInv => HooksStable
  BY DEF BatchInv
<1> QED
  BY <1>1, BatchInvariant, PTL

(* committed_index never runs ahead of the last commit, because it is read    *)
(* back only where no transaction is open.                                    *)
THEOREM IndexIsCommitted == Spec => []IndexCommitted
<1>1. BatchInv => IndexCommitted
  BY DEF BatchInv
<1> QED
  BY <1>1, BatchInvariant, PTL

-----------------------------------------------------------------------------
(* The refinement: WriteBatch implements AtomicWrites.                       *)

(* What a step may make of one caller's answer.                               *)
TellsTruly(r) ==
  \/ Told(r)' = Told(r)
  \/ Told(r) = "waiting" /\ Told(r)' \in {"stopped"} \cup (IF r \in db' THEN {"ok"} ELSE {"undone"})

(* A step that makes durable only rows whose callers wait, and tells callers  *)
(* only what holds of their row, is a step of AtomicWrites.                   *)
LEMMA AtomicStep ==
  ASSUME NEW group \in SUBSET (Rows \ db), db' = db \cup group,
         \A r \in group : Told(r) = "waiting",
         \A r \in Rows : TellsTruly(r)
  PROVE  Atomic!Next
<1>1. Atomic!Commit
  BY DEF Atomic!Commit, Atomic!Waiting
<1>2. Atomic!Tell
  BY DEF Atomic!Tell, Atomic!MayTell, TellsTruly
<1> QED
  BY <1>1, <1>2 DEF Atomic!Next

LEMMA AnswerStep ==
  ASSUME db' = db, \A r \in Rows : TellsTruly(r)
  PROVE  Atomic!Next
<1>1. {} \in SUBSET (Rows \ db) /\ db' = db \cup {}
  OBVIOUS
<1> QED
  BY <1>1, AtomicStep

(* Steps that change neither the database nor an answer.                      *)
LEMMA SilentSteps ==
  ASSUME UNCHANGED <<db, reply>>
  PROVE  UNCHANGED Atomic!vars
  BY DEF Atomic!vars, Told

(* Calling is still waiting.                                                  *)
LEMMA CallTells ==
  ASSUME BatchInv, NEW c \in Rows, Call(c)
  PROVE  Atomic!Next
<1>1. db' = db /\ \A r \in Rows : TellsTruly(r)
  BY DEF Call, dbVars, TellsTruly, Told, BatchInv, TypeOK
<1> QED
  BY <1>1, AnswerStep

(* The batch's rows become durable together, while their callers wait.        *)
LEMMA FinalizeCommitTells ==
  ASSUME BatchInv, FinalizeCommit
  PROVE  Atomic!Next
<1>1. PICK group \in {{}, tx} : db' = db \cup group
  BY DEF FinalizeCommit, Committed, dbVars
<1>2. group \subseteq Elements(answers) /\ Elements(answers) \subseteq Rows
  BY <1>1, SMT DEF BatchInv, TypeOK, TxOK, Open, Elements, FinalizeCommit, Rows
<1>3. group \in SUBSET (Rows \ db) /\ \A r \in group : Told(r) = "waiting"
  BY <1>2 DEF BatchInv, AnswersOK, RowsOK, Open, FinalizeCommit, Told
<1>4. \A r \in Rows : TellsTruly(r)
  BY DEF FinalizeCommit, callVars, TellsTruly, Told
<1> QED
  BY <1>1, <1>3, <1>4, AtomicStep

(* An answer of the batch is what holds of the caller's row.                  *)
LEMMA AnswerTells ==
  ASSUME BatchInv, Answer
  PROVE  Atomic!Next
<1> DEFINE w == Head(answers)
           said == Result(w, IF failure = "none" THEN "ok" ELSE "failed")
<1>1. w \in Elements(answers) /\ w \in Writes /\ w \in Rows
  BY ElementsTail DEF BatchInv, TypeOK, AnswersOK, Answer, Rows
<1>2. /\ reply[w] = "queued" /\ (failure = "none" => outcome[w] # "none")
      /\ w \in db <=> failure = "none" /\ outcome[w] = "ok"
  BY <1>1 DEF BatchInv, AnswersOK, RowsOK, Over, Answer
<1>3. IF w \in db THEN said = "ok" ELSE said \in {"err", "panic", "failed"}
  BY <1>1, <1>2 DEF Result, BatchInv, TypeOK
<1>4. reply' = [reply EXCEPT ![w] = said] /\ db' = db
  BY DEF Answer, dbVars
<1> HIDE DEF w, said
<1>5. \A r \in Rows : TellsTruly(r)
  BY <1>1, <1>2, <1>3, <1>4 DEF TellsTruly, Told, BatchInv, TypeOK
<1> QED
  BY <1>4, <1>5, AnswerStep

(* When the writer dies, a caller is told that its job panicked, and has no   *)
(* row, or that the writer stopped.                                           *)
LEMMA NotifyPanicsTells ==
  ASSUME BatchInv, NotifyPanics
  PROVE  Atomic!Next
<1>1. \A r \in Writes : reply[r] = "queued" /\ outcome[r] = "panic" => r \notin db
  BY DEF BatchInv, RowsOK, Over, NotifyPanics, Rows
<1>2. \A r \in Writes : Result(r, "stopped") = IF outcome[r] = "panic" THEN "panic" ELSE "stopped"
  BY DEF Result
<1>3. \A r \in Rows : \/ reply'[r] = reply[r]
                      \/ reply[r] = "queued" /\ reply'[r] = "stopped"
                      \/ reply[r] = "queued" /\ reply'[r] = "panic" /\ r \notin db
  BY <1>1, <1>2 DEF NotifyPanics
<1>4. db' = db /\ \A r \in Rows : TellsTruly(r)
  BY <1>3 DEF NotifyPanics, dbVars, TellsTruly, Told
<1> QED
  BY <1>4, AnswerStep

(* A borrower learns "ok" in the step that commits its row, and a failure     *)
(* only where its row was not committed.                                      *)
LEMMA LoanTells ==
  ASSUME BatchInv, LoanBegin \/ LoanPrepare \/ LoanCommit \/ LoanRollback
  PROVE  Atomic!Next
<1>1. cur \in Loans /\ cur \in Rows /\ reply[cur] = "queued" /\ Elements(answers) = {}
  BY SMT DEF BatchInv, PlaceOK, Open, Over, LoanBegin, LoanPrepare, LoanCommit, LoanRollback, Rows,
     Elements
<1>2. cur \notin db
  BY <1>1 DEF BatchInv, RowsOK
<1>3. CASE LoanCommit
  <2>1. db' = db \cup {cur} /\ reply' = [reply EXCEPT ![cur] = "ok"]
    BY <1>3 DEF LoanCommit, Committed, BatchInv, TxOK
  <2>2. \A r \in Rows : TellsTruly(r)
    BY <1>1, <2>1 DEF TellsTruly, Told, BatchInv, TypeOK
  <2>3. {cur} \in SUBSET (Rows \ db) /\ \A r \in {cur} : Told(r) = "waiting"
    BY <1>1, <1>2 DEF Told
  <2> QED
    BY <2>1, <2>2, <2>3, AtomicStep
<1>4. CASE LoanBegin \/ LoanPrepare \/ LoanRollback
  <2>1. db' = db /\ reply' \in {reply, [reply EXCEPT ![cur] = "failed"]}
    BY <1>4 DEF LoanBegin, LoanPrepare, LoanRollback, dbVars
  <2>2. \A r \in Rows : TellsTruly(r)
    BY <1>1, <1>2, <2>1 DEF TellsTruly, Told, BatchInv, TypeOK
  <2> QED
    BY <2>1, <2>2, AnswerStep
<1> QED
  BY <1>3, <1>4

(* A borrower that gives the connection back unused has no row.               *)
LEMMA GuardDropTells ==
  ASSUME BatchInv, GuardDrop \/ GuardDropPanics
  PROVE  Atomic!Next
<1>1. Elements(answers) = {}
  BY SMT DEF BatchInv, PlaceOK, Open, Over, GuardDrop, GuardDropPanics, Elements
<1>2. \A r \in Rows : reply[r] = "queued" => r \notin db
  BY <1>1 DEF BatchInv, RowsOK
<1>3. db' = db /\ \A r \in Rows : TellsTruly(r)
  BY <1>2 DEF GuardDrop, GuardDropPanics, dbVars, TellsTruly, Told
<1> QED
  BY <1>3, AnswerStep

LEMMA AtomicNext == BatchInv /\ [Next]_vars => [Atomic!Next]_(Atomic!vars)
<1> SUFFICES ASSUME BatchInv, [Next]_vars PROVE Atomic!Next \/ UNCHANGED Atomic!vars
  OBVIOUS
<1>1. CASE \E r \in Rows : Call(r)
  BY <1>1, CallTells
<1>2. CASE \/ \E h \in Hooks : Install(h)
           \/ \E w \in Writes : Begin(w) \/ Take(w)
           \/ \E l \in Loans : Lend(l)
           \/ Prepare \/ Run \/ DropRun \/ EndIntake \/ Publish \/ Notify \/ EndBatch
           \/ UNCHANGED vars
  <2>1. UNCHANGED <<db, reply>>
    BY <1>2 DEF Install, Begin, Take, Lend, Prepare, Run, DropRun, EndIntake, Publish, Notify,
       EndBatch, vars, dbVars, callVars
  <2> QED
    BY <2>1, SilentSteps
<1>3. CASE FinalizeCommit \/ Answer \/ NotifyPanics
  BY <1>3, FinalizeCommitTells, AnswerTells, NotifyPanicsTells
<1>4. CASE LoanBegin \/ LoanPrepare \/ LoanCommit \/ LoanRollback \/ GuardDrop \/ GuardDropPanics
  BY <1>4, LoanTells, GuardDropTells
<1> QED
  BY <1>1, <1>2, <1>3, <1>4 DEF Next, Batch, Loan, Fails

(* The writer implements AtomicWrites: rows become durable in atomic groups   *)
(* while their callers wait, a caller told "ok" has a durable row, and one    *)
(* told of an error, a panic or a failed commit never has one.                *)
THEOREM WriterIsAtomic == Spec => AnswersTrue
<1>1. Init => Atomic!Init
  BY DEF Init, Atomic!Init, Told
<1> QED
  BY <1>1, AtomicNext, BatchInvariant, PTL DEF Spec, AnswersTrue, Atomic!Spec
=============================================================================
