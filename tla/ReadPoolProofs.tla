--------------------------- MODULE ReadPoolProofs ----------------------------
(* Theorems about ReadPool, for any pools, threads, limits and nesting:     *)
(* every step keeps the shape of the state, its queue and its wakes, and    *)
(* what is counted of connections and permits adds up.                      *)
EXTENDS ReadPool, Integers, TLAPS

(* The leaves are first-order, for Zenon, but for those that cite SMT. *)
USE Zenon

(* On the way to a connection. *)
Acquiring == {"queued", "get", "open", "lock", "asleep", "woken"}

(* The variables are well typed (that connections are never closed too      *)
(* often follows from the counts below), an operation in progress names its *)
(* pool, only one past admission has a permit, and nesting is bounded.      *)
PoolTypes ==
  /\ idle \in [Pools -> 0..MaxIdle]
  /\ open \in [Pools -> Int]
  /\ permits \in [Pools -> Nat]
  /\ outside \in [Pools -> Nat]
  /\ waiters \in [Pools -> Seq(Threads)]
  /\ loans \in [Threads -> Seq(Loan)]
  /\ pc \in [Threads -> {"run", "queued", "get", "open", "lock", "asleep",
                         "woken", "insert", "repay"}]
  /\ pool \in [Threads -> Pools \cup {None}]
  /\ kind \in [Threads -> Kind \cup {None}]
  /\ permit \in [Threads -> {"none", "held"}]

PoolShape ==
  /\ PoolTypes
  /\ \A t \in Threads : pc[t] # "run" => pool[t] \in Pools /\ kind[t] \in Kind
  /\ \A t \in Threads : pc[t] \in {"run", "queued"} => permit[t] = "none"
  /\ \A t \in Threads : Len(loans[t]) <= MaxDepth
  /\ \A t \in Threads : pc[t] \in Acquiring => Len(loans[t]) < MaxDepth

(* The semaphore's queue lists the requests that wait for it, each once. *)
QueueShape ==
  \A p \in Pools :
    /\ \A i \in DOMAIN waiters[p] :
         pc[waiters[p][i]] = "queued" /\ pool[waiters[p][i]] = p
    /\ \A i, j \in DOMAIN waiters[p] : waiters[p][i] = waiters[p][j] => i = j

-----------------------------------------------------------------------------
(* What the steps below use of finite sets.  ReadPoolProofs shows it of the *)
(* places and of the threads.                                               *)
CountsIn(U) ==
  \A S \in SUBSET U :
    /\ Cardinality(S) \in Nat
    /\ \A x \in U \ S : Cardinality(S \cup {x}) = Cardinality(S) + 1
    /\ \A x \in S : Cardinality(S \ {x}) = Cardinality(S) - 1
    /\ \A T \in SUBSET U : Cardinality(S \cup T) <= Cardinality(S) + Cardinality(T)
    /\ \A T \in SUBSET S : Cardinality(T) <= Cardinality(S)

Counting == CountsIn(Places) /\ CountsIn(Threads)

(* A set of places with one more or one less. *)
LEMMA PlaceSets ==
  ASSUME Counting, NEW S \in SUBSET Places
  PROVE  /\ Cardinality(S) \in Nat
         /\ \A x \in Places \ S : Cardinality(S \cup {x}) = Cardinality(S) + 1
         /\ \A x \in S : Cardinality(S \ {x}) = Cardinality(S) - 1
  BY DEF Counting, CountsIn

(* Leaving a queue from its middle. *)
LEMMA WithoutAtProperties ==
  ASSUME NEW S, NEW s \in Seq(S), NEW i \in DOMAIN s
  PROVE  /\ WithoutAt(s, i) \in Seq(S)
         /\ DOMAIN WithoutAt(s, i) = 1..Len(s) - 1
         /\ \A j \in DOMAIN WithoutAt(s, i) :
              /\ j < i => WithoutAt(s, i)[j] = s[j] /\ j \in DOMAIN s
              /\ j >= i => WithoutAt(s, i)[j] = s[j + 1] /\ j + 1 \in DOMAIN s
<1>1. Len(s) \in Nat /\ DOMAIN s = 1..Len(s) /\ i \in 1..Len(s) /\ \A j \in 1..Len(s) : s[j] \in S
  BY SMT
<1>2. Len(s) - 1 \in Nat
  BY <1>1, SMT
<1>3. \A j \in 1..Len(s) - 1 : (IF j < i THEN s[j] ELSE s[j + 1]) \in S
  BY <1>1, SMT
<1>4. WithoutAt(s, i) \in [1..Len(s) - 1 -> S]
  BY <1>3 DEF WithoutAt
<1>5. WithoutAt(s, i) \in Seq(S)
  BY <1>2, <1>4, SMT DEF WithoutAt
<1> QED
  BY <1>1, <1>2, <1>5, SMT DEF WithoutAt

(* The semaphore grants a permit only to a request in its queue. *)
LEMMA HeadWaits ==
  ASSUME PoolShape, QueueShape, NEW p \in Pools, waiters[p] # <<>>
  PROVE  /\ Head(waiters[p]) \in Threads
         /\ pc[Head(waiters[p])] = "queued" /\ pool[Head(waiters[p])] = p
         /\ permit[Head(waiters[p])] = "none"
         /\ kind[Head(waiters[p])] \in Kind
         /\ Len(loans[Head(waiters[p])]) < MaxDepth
<1>1. waiters[p] \in Seq(Threads)
  BY DEF PoolShape, PoolTypes
<1>2. 1 \in DOMAIN waiters[p] /\ Head(waiters[p]) = waiters[p][1] /\ waiters[p][1] \in Threads
  BY <1>1, SMT
<1> QED
  BY <1>2, SMT DEF PoolShape, QueueShape, Acquiring

-----------------------------------------------------------------------------
(* Every step keeps the shape. *)
LEMMA ShapeStep ==
  ASSUME Counting, PoolShape, QueueShape, [Next]_vars
  PROVE  PoolShape'
<1> USE ReadPoolAssumption DEF PoolShape, PoolTypes, Acquiring, Go, AtRest, poolVars, opVars
<1>1. ASSUME NEW t \in Threads, NEW p \in Pools, Admit(t, p), UNCHANGED outside PROVE PoolShape'
  <2>1. permits' \in [Pools -> Nat]
    <3>1. permits[p] - 1 \in Nat
      BY <1>1, SMT DEF Admit
    <3> QED
      BY <1>1, <3>1 DEF Admit
  <2> QED
    BY <1>1, <2>1 DEF Admit, Begin, Kind
<1>2. ASSUME NEW t \in Threads, NEW p \in Pools, Queue(t, p), UNCHANGED outside PROVE PoolShape'
  <2>1. waiters' \in [Pools -> Seq(Threads)]
    BY <1>2, SMT DEF Queue
  <2> QED
    BY <1>2, <2>1 DEF Queue, Begin, Kind
<1>3. ASSUME NEW t \in Threads, NEW p \in Pools, NEW k \in Kind, Begin(t, p, k), OneMoreOutside(p),
             Go(t, "get"), UNCHANGED <<poolVars, loans, permit>>
      PROVE  PoolShape'
  <2>1. outside' \in [Pools -> Nat]
    <3>1. Cardinality(Unadmitted(p)) \in Nat
      BY PlaceSets, Unadmitted(p) \in SUBSET Places DEF Unadmitted
    <3> QED
      BY <1>3, <3>1, SMT DEF OneMoreOutside
  <2> QED
    BY <1>3, <2>1 DEF Begin
<1>4. ASSUME NEW t \in Threads, CancelQueued(t) PROVE PoolShape'
  <2>1. PICK i \in DOMAIN waiters[pool[t]] :
          waiters' = [waiters EXCEPT ![pool[t]] = WithoutAt(waiters[pool[t]], i)]
    BY <1>4 DEF CancelQueued
  <2>2. WithoutAt(waiters[pool[t]], i) \in Seq(Threads)
    BY <1>4, WithoutAtProperties, SMT DEF CancelQueued
  <2> QED
    BY <1>4, <2>1, <2>2 DEF CancelQueued
<1>5. ASSUME NEW t \in Threads, GetIdle(t) \/ GetOpens(t), UNCHANGED outside PROVE PoolShape'
  <2>1. pc[t] \in Acquiring /\ pool[t] \in Pools /\ kind[t] \in Kind
    BY <1>5 DEF GetIdle, GetOpens
  <2>2. idle' \in [Pools -> 0..MaxIdle] /\ open' \in [Pools -> Int]
    <3>1. idle[pool[t]] \in 0..MaxIdle /\ open[pool[t]] + 1 \in Int
      BY <2>1, SMT
    <3>2. CASE GetIdle(t)
      BY <2>1, <3>1, <3>2, SMT DEF GetIdle
    <3>3. CASE GetOpens(t)
      BY <2>1, <3>1, <3>3 DEF GetOpens
    <3> QED
      BY <1>5, <3>2, <3>3
  <2>3. CASE Lent(t)
    <3>1. [pool |-> pool[t], kind |-> kind[t], permit |-> permit[t]] \in Loan
      BY <2>1 DEF Loan
    <3>2. /\ loans' \in [Threads -> Seq(Loan)]
          /\ Len(loans'[t]) = Len(loans[t]) + 1
          /\ \A u \in Threads \ {t} : loans'[u] = loans[u]
      BY <2>3, <3>1, SMT DEF Lent
    <3> QED
      BY <1>5, <2>1, <2>2, <2>3, <3>2, SMT DEF Lent
  <2>4. CASE Expired(t)
    BY <1>5, <2>1, <2>2, <2>4 DEF Expired
  <2> QED
    BY <1>5, <2>3, <2>4 DEF GetIdle, GetOpens
<1>6. ASSUME NEW t \in Threads, GetNone(t) \/ RequestFails(t) \/ OpenFails(t) \/ Sleep(t),
             UNCHANGED outside
      PROVE  PoolShape'
  BY <1>6, ZenonT(60) DEF GetNone, RequestFails, OpenFails, Sleep
<1>7. ASSUME NEW t \in Threads, Return(t) PROVE PoolShape'
  <2> DEFINE n == Len(loans[t])
  <2>1. n \in 1..MaxDepth /\ n \in DOMAIN loans[t] /\ loans[t][n] \in Loan
    BY <1>7, SMT DEF Return
  <2>2. SubSeq(loans[t], 1, n - 1) \in Seq(Loan) /\ Len(SubSeq(loans[t], 1, n - 1)) = n - 1
    <3>1. (\A i \in 1..n - 1 : loans[t][i] \in Loan) /\ n - 1 \in Int /\ 1 \in Int
      BY <2>1, SMT
    <3> HIDE DEF n
    <3>2. /\ SubSeq(loans[t], 1, n - 1) \in Seq(Loan)
          /\ Len(SubSeq(loans[t], 1, n - 1)) = IF 1 <= n - 1 THEN n - 1 - 1 + 1 ELSE 0
      BY <3>1, SMT
    <3> QED
      BY <2>1, <3>2, SMT
  <2>3. /\ loans' \in [Threads -> Seq(Loan)]
        /\ Len(loans'[t]) = n - 1
        /\ \A u \in Threads \ {t} : loans'[u] = loans[u]
    BY <1>7, <2>2 DEF Return
  <2>4. loans[t][n].pool \in Pools /\ loans[t][n].kind \in Kind
        /\ loans[t][n].permit \in {"none", "held"}
    BY <2>1 DEF Loan
  <2>5. /\ pc' = [pc EXCEPT ![t] = "insert"] /\ pool' = [pool EXCEPT ![t] = loans[t][n].pool]
        /\ kind' = [kind EXCEPT ![t] = loans[t][n].kind]
        /\ permit' = [permit EXCEPT ![t] = loans[t][n].permit]
        /\ pc[t] = "run" /\ UNCHANGED <<poolVars, outside>>
    BY <1>7 DEF Return
  <2> HIDE DEF n
  <2>6. PoolTypes'
    BY <2>3, <2>4, <2>5
  <2>7. \A u \in Threads :
          /\ u # t => pc'[u] = pc[u] /\ pool'[u] = pool[u] /\ kind'[u] = kind[u]
                      /\ permit'[u] = permit[u] /\ loans'[u] = loans[u]
          /\ u = t => pc'[u] = "insert" /\ pool'[u] \in Pools /\ kind'[u] \in Kind
                      /\ Len(loans'[u]) <= MaxDepth
    BY <2>1, <2>3, <2>4, <2>5, SMTT(30)
  <2> QED
    BY <2>6, <2>7
<1>8. ASSUME NEW t \in Threads, Insert(t), UNCHANGED outside PROVE PoolShape'
  <2>1. idle' \in [Pools -> 0..MaxIdle]
    BY <1>8, SMT DEF Insert
  <2>2. CASE Asleep(pool[t]) = {} /\ Go(t, "repay")
    BY <1>8, <2>1, <2>2 DEF Insert
  <2>3. ASSUME NEW u \in Asleep(pool[t]), pc' = [pc EXCEPT ![t] = "repay", ![u] = "woken"]
        PROVE  PoolShape'
    BY <1>8, <2>1, <2>3 DEF Insert, Asleep
  <2> QED
    BY <1>8, <2>2, <2>3 DEF Insert
<1>9. ASSUME NEW t \in Threads, CloseConnection(t), UNCHANGED outside PROVE PoolShape'
  <2>1. open' \in [Pools -> Int]
    <3>1. pool[t] \in Pools /\ open[pool[t]] - 1 \in Int
      BY <1>9, SMT DEF CloseConnection
    <3> QED
      BY <1>9, <3>1 DEF CloseConnection
  <2> QED
    BY <1>9, <2>1 DEF CloseConnection
<1>10. ASSUME NEW t \in Threads, Repay(t), UNCHANGED outside PROVE PoolShape'
  <2>1. pool[t] \in Pools
    BY <1>10 DEF Repay
  <2>2. CASE permit[t] = "none"
    BY <1>10, <2>1, <2>2 DEF Repay
  <2>3. CASE permit[t] = "held" /\ waiters[pool[t]] = <<>>
    <3>1. permits[pool[t]] + 1 \in Nat
      BY <2>1, SMT
    <3>2. permits' = [permits EXCEPT ![pool[t]] = permits[pool[t]] + 1]
      BY <1>10, <2>3 DEF Repay, Repaid
    <3>3. /\ pc' = [pc EXCEPT ![t] = "run"] /\ permit' = [permit EXCEPT ![t] = "none"]
          /\ pool' = [pool EXCEPT ![t] = None] /\ kind' = [kind EXCEPT ![t] = None]
          /\ UNCHANGED <<idle, open, waiters, loans, outside>>
      BY <1>10, <2>3 DEF Repay, Repaid
    <3>4. permits' \in [Pools -> Nat]
      BY <3>1, <3>2
    <3> QED
      BY <3>3, <3>4
  <2>4. CASE permit[t] = "held" /\ waiters[pool[t]] # <<>>
    <3> DEFINE h == Head(waiters[pool[t]])
    <3>1. h \in Threads /\ h # t /\ pool[h] \in Pools /\ kind[h] \in Kind
          /\ Len(loans[h]) < MaxDepth
      BY <1>10, <2>1, <2>4, HeadWaits DEF Repay
    <3>2. waiters' \in [Pools -> Seq(Threads)]
      <4>1. Tail(waiters[pool[t]]) \in Seq(Threads)
        BY <2>1, <2>4, SMT
      <4>2. waiters' = [waiters EXCEPT ![pool[t]] = Tail(waiters[pool[t]])]
        BY <1>10, <2>4 DEF Repay, Repaid
      <4> QED
        BY <2>1, <4>1, <4>2
    <3>3. /\ pc' = [[pc EXCEPT ![t] = "run"] EXCEPT ![h] = "get"]
          /\ permit' = [[permit EXCEPT ![t] = "none"] EXCEPT ![h] = "held"]
          /\ permits' = permits
      BY <1>10, <2>4 DEF Repay, Repaid
    <3>4. /\ pool' = [pool EXCEPT ![t] = None] /\ kind' = [kind EXCEPT ![t] = None]
          /\ UNCHANGED <<idle, open, loans, outside>>
      BY <1>10 DEF Repay
    <3> HIDE DEF h
    <3> QED
      BY <2>1, <3>1, <3>2, <3>3, <3>4
  <2> QED
    BY <2>2, <2>3, <2>4
<1>11. CASE UNCHANGED vars
  BY <1>11 DEF vars
<1>12. ASSUME NEW t \in Threads, Borrows(t) PROVE PoolShape'
  <2>1. PICK p \in Pools : AdmitNested(t, p) \/ \E k \in Kinds[t] : Get(t, p, k)
    BY <1>12 DEF Borrows
  <2>2. CASE AdmitNested(t, p)
    <3>1. "request" \in Kind
      BY DEF Kind
    <3> QED
      BY <1>3, <2>2, <3>1 DEF AdmitNested
  <2>3. ASSUME NEW k \in Kinds[t], Get(t, p, k) PROVE PoolShape'
    <3>1. k \in Kind
      BY DEF Kind
    <3> QED
      BY <1>3, <2>3, <3>1 DEF Get
  <2> QED
    BY <2>1, <2>2, <2>3
<1> QED
  BY <1>1, <1>2, <1>4, <1>5, <1>6, <1>7, <1>8, <1>9, <1>10, <1>11, <1>12
     DEF Next, Admits, Gets, Releases

(* What happens to the queue when nobody joins or leaves it. *)
LEMMA SameQueue ==
  ASSUME PoolShape, QueueShape, UNCHANGED waiters,
         \A u \in Threads : pc[u] = "queued" => pc'[u] = "queued" /\ pool'[u] = pool[u]
  PROVE  QueueShape'
<1>1. \A p \in Pools : \A i \in DOMAIN waiters[p] : waiters[p][i] \in Threads
  BY SMT DEF PoolShape, PoolTypes
<1> QED
  BY <1>1, SMT DEF QueueShape

(* Every step keeps the semaphore's queue. *)
LEMMA QueueStep ==
  ASSUME Counting, PoolShape, QueueShape, [Next]_vars
  PROVE  QueueShape'
<1> USE DEF Go, AtRest, poolVars, opVars
<1>0. PoolTypes
  BY DEF PoolShape
<1>1. ASSUME NEW t \in Threads, NEW p \in Pools, Queue(t, p) PROVE QueueShape'
  <2>1. waiters[p] \in Seq(Threads) /\ pc[t] = "run"
    BY <1>0, <1>1 DEF PoolTypes, Queue, Begin
  <2>2. /\ waiters' = [waiters EXCEPT ![p] = Append(waiters[p], t)]
        /\ pc' = [pc EXCEPT ![t] = "queued"] /\ pool' = [pool EXCEPT ![t] = p]
    BY <1>1 DEF Queue, Begin
  <2>3. /\ DOMAIN waiters'[p] = 1..Len(waiters[p]) + 1
        /\ \A i \in DOMAIN waiters[p] : waiters'[p][i] = waiters[p][i]
        /\ waiters'[p][Len(waiters[p]) + 1] = t
    BY <1>0, <2>1, <2>2, SMT DEF PoolTypes
  <2>4. \A q \in Pools : \A i \in DOMAIN waiters[q] :
          /\ waiters[q][i] # t
          /\ pc'[waiters[q][i]] = "queued" /\ pool'[waiters[q][i]] = q
    BY <1>0, <2>1, <2>2, SMT DEF QueueShape, PoolTypes
  <2>5. ASSUME NEW q \in Pools, q # p
        PROVE  /\ \A i \in DOMAIN waiters'[q] :
                    pc'[waiters'[q][i]] = "queued" /\ pool'[waiters'[q][i]] = q
               /\ \A i, j \in DOMAIN waiters'[q] : waiters'[q][i] = waiters'[q][j] => i = j
    BY <1>0, <2>2, <2>4, <2>5, SMTT(30) DEF QueueShape, PoolTypes
  <2>6. \A i \in DOMAIN waiters'[p] :
          i \in DOMAIN waiters[p] \/ i = Len(waiters[p]) + 1
    BY <2>1, <2>3, SMT
  <2>7. \A i \in DOMAIN waiters'[p] :
          pc'[waiters'[p][i]] = "queued" /\ pool'[waiters'[p][i]] = p
    BY <1>0, <2>2, <2>3, <2>4, <2>6, SMT DEF PoolTypes
  <2>8. \A i, j \in DOMAIN waiters'[p] : waiters'[p][i] = waiters'[p][j] => i = j
    BY <2>3, <2>4, <2>6, SMT DEF QueueShape
  <2> QED
    BY <2>5, <2>7, <2>8 DEF QueueShape
<1>2. ASSUME NEW t \in Threads, CancelQueued(t) PROVE QueueShape'
  <2> DEFINE p == pool[t]
             s == waiters[p]
  <2>1. p \in Pools /\ s \in Seq(Threads)
    BY <1>2 DEF CancelQueued, PoolShape, PoolTypes
  <2>2. PICK i \in DOMAIN s : s[i] = t /\ waiters' = [waiters EXCEPT ![p] = WithoutAt(s, i)]
    BY <1>2 DEF CancelQueued
  <2>3. /\ waiters'[p] = WithoutAt(s, i)
        /\ \A q \in Pools \ {p} : waiters'[q] = waiters[q]
    BY <1>0, <2>1, <2>2 DEF PoolTypes
  <2>4. \A u \in Threads \ {t} : pc'[u] = pc[u] /\ pool'[u] = pool[u]
    BY <1>0, <1>2 DEF CancelQueued, PoolTypes
  <2>5. i \in Nat /\ i \in 1..Len(s) /\ DOMAIN s = 1..Len(s)
        /\ \A j \in DOMAIN s : j # i => s[j] \in Threads \ {t}
    BY <2>1, <2>2, SMT DEF QueueShape
  <2> DEFINE from(j) == IF j < i THEN j ELSE j + 1
  <2>6. \A j \in DOMAIN WithoutAt(s, i) :
          /\ WithoutAt(s, i)[j] = s[from(j)]
          /\ from(j) \in DOMAIN s /\ from(j) # i
    <3>1. /\ DOMAIN WithoutAt(s, i) = 1..Len(s) - 1
          /\ \A j \in DOMAIN WithoutAt(s, i) :
               /\ j < i => WithoutAt(s, i)[j] = s[j] /\ j \in DOMAIN s
               /\ j >= i => WithoutAt(s, i)[j] = s[j + 1] /\ j + 1 \in DOMAIN s
      <4> HIDE DEF s
      <4> QED
        BY <2>1, <2>2, WithoutAtProperties
    <3> SUFFICES ASSUME NEW j \in DOMAIN WithoutAt(s, i)
                 PROVE  /\ WithoutAt(s, i)[j] = s[from(j)]
                        /\ from(j) \in DOMAIN s /\ from(j) # i
      OBVIOUS
    <3>2. j \in Int /\ i \in Int
      BY <2>5, <3>1, SMT
    <3>3. CASE j < i
      BY <3>1, <3>2, <3>3, SMT
    <3>4. CASE j >= i
      BY <3>1, <3>2, <3>4, SMT
    <3> QED
      BY <3>2, <3>3, <3>4, SMT
  <2>7. \A j, k \in DOMAIN WithoutAt(s, i) : from(j) = from(k) => j = k
    <3>1. DOMAIN WithoutAt(s, i) = 1..Len(s) - 1 /\ Len(s) \in Nat
      BY <2>1, <2>2, WithoutAtProperties, SMT
    <3> QED
      BY <2>5, <3>1, SMT
  <2>8. \A j \in DOMAIN waiters'[p] :
          pc'[waiters'[p][j]] = "queued" /\ pool'[waiters'[p][j]] = p
    <3> HIDE DEF from
    <3>1. \A j \in DOMAIN s : pc[s[j]] = "queued" /\ pool[s[j]] = p
      BY <2>1 DEF QueueShape
    <3> QED
      BY <2>3, <2>4, <2>5, <2>6, <3>1, SMT
  <2>9. \A j, k \in DOMAIN waiters'[p] : waiters'[p][j] = waiters'[p][k] => j = k
    <3> HIDE DEF from
    <3>1. \A j, k \in DOMAIN s : s[j] = s[k] => j = k
      BY <2>1 DEF QueueShape
    <3> QED
      BY <2>3, <2>6, <2>7, <3>1, SMT
  <2>10. ASSUME NEW q \in Pools \ {p}
         PROVE  /\ \A j \in DOMAIN waiters'[q] :
                     pc'[waiters'[q][j]] = "queued" /\ pool'[waiters'[q][j]] = q
                /\ \A j, k \in DOMAIN waiters'[q] : waiters'[q][j] = waiters'[q][k] => j = k
    <3>1. \A j \in DOMAIN waiters[q] : waiters[q][j] \in Threads /\ waiters[q][j] # t
      BY <1>0, <2>10, SMT DEF QueueShape, PoolTypes
    <3> QED
      BY <2>3, <2>4, <3>1, SMT DEF QueueShape
  <2> QED
    BY <2>8, <2>9, <2>10 DEF QueueShape
<1>3. ASSUME NEW t \in Threads, Repay(t) PROVE QueueShape'
  <2> DEFINE p == pool[t]
  <2>1. p \in Pools /\ waiters[p] \in Seq(Threads) /\ pc[t] = "repay"
    BY <1>3 DEF Repay, PoolShape, PoolTypes
  <2>2. CASE permit[t] = "none" \/ waiters[p] = <<>>
    <3>1. UNCHANGED waiters /\ pc' = [pc EXCEPT ![t] = "run"]
          /\ pool' = [pool EXCEPT ![t] = None]
      BY <1>3, <2>2 DEF Repay, Repaid
    <3> QED
      BY <1>0, <2>1, <3>1, SameQueue DEF PoolTypes
  <2>3. CASE permit[t] = "held" /\ waiters[p] # <<>>
    <3> DEFINE h == Head(waiters[p])
    <3>1. /\ pc' = [[pc EXCEPT ![t] = "run"] EXCEPT ![h] = "get"]
          /\ pool' = [pool EXCEPT ![t] = None]
          /\ waiters' = [waiters EXCEPT ![p] = Tail(waiters[p])]
      BY <1>3, <2>3 DEF Repay, Repaid
    <3>2. h \in Threads /\ pc[h] = "queued" /\ pool[h] = p
      BY <2>1, <2>3, HeadWaits
    <3>3. h = waiters[p][1] /\ 1 \in DOMAIN waiters[p]
      BY <2>1, <2>3, SMT
    <3>4. \A u \in Threads \ {t, h} : pc'[u] = pc[u] /\ pool'[u] = pool[u]
      BY <1>0, <3>1 DEF PoolTypes
    <3> HIDE DEF h
    <3>5. /\ waiters'[p] = Tail(waiters[p])
          /\ \A q \in Pools \ {p} : waiters'[q] = waiters[q]
      BY <1>0, <2>1, <3>1 DEF PoolTypes
    <3>6. \A i \in DOMAIN Tail(waiters[p]) :
            /\ i \in Nat /\ i >= 1 /\ i + 1 \in DOMAIN waiters[p]
            /\ Tail(waiters[p])[i] = waiters[p][i + 1]
      BY <2>1, <2>3, SMT
    <3>7. \A i \in DOMAIN Tail(waiters[p]) :
            Tail(waiters[p])[i] \in Threads \ {t, h}
      <4> SUFFICES ASSUME NEW i \in DOMAIN Tail(waiters[p])
                   PROVE  waiters[p][i + 1] \in Threads \ {t, h}
        BY <3>6
      <4>1. waiters[p][i + 1] # h
        BY <2>1, <3>3, <3>6, SMT DEF QueueShape
      <4>2. pc[waiters[p][i + 1]] = "queued" /\ waiters[p][i + 1] \in Threads
        BY <2>1, <3>6, SMT DEF QueueShape
      <4> QED
        BY <2>1, <4>1, <4>2
    <3>8. \A i \in DOMAIN waiters'[p] :
            pc'[waiters'[p][i]] = "queued" /\ pool'[waiters'[p][i]] = p
      BY <2>1, <3>4, <3>5, <3>6, <3>7, SMT DEF QueueShape
    <3>9. \A i, j \in DOMAIN waiters'[p] : waiters'[p][i] = waiters'[p][j] => i = j
      <4>1. \A i, j \in DOMAIN waiters[p] : waiters[p][i] = waiters[p][j] => i = j
        BY <2>1 DEF QueueShape
      <4> QED
        BY <3>5, <3>6, <4>1, SMT
    <3>10. ASSUME NEW q \in Pools \ {p}
           PROVE  /\ \A j \in DOMAIN waiters'[q] :
                       pc'[waiters'[q][j]] = "queued" /\ pool'[waiters'[q][j]] = q
                  /\ \A j, k \in DOMAIN waiters'[q] : waiters'[q][j] = waiters'[q][k] => j = k
      <4>1. \A j \in DOMAIN waiters[q] : waiters[q][j] \in Threads \ {t, h}
        BY <1>0, <2>1, <3>2, <3>10, SMT DEF QueueShape, PoolTypes
      <4> QED
        BY <3>4, <3>5, <4>1, SMT DEF QueueShape
    <3> QED
      BY <3>8, <3>9, <3>10 DEF QueueShape
  <2> QED
    BY <1>0, <2>2, <2>3 DEF PoolTypes
<1>4. ASSUME NEW t \in Threads, pc[t] # "queued", UNCHANGED waiters,
             \A u \in Threads \ {t} : pc[u] = "queued" => pc'[u] = "queued" /\ pool'[u] = pool[u]
      PROVE  QueueShape'
  BY <1>4, SameQueue
<1>5. ASSUME NEW t \in Threads, NEW p \in Pools, NEW k, Begin(t, p, k), Go(t, "get"), UNCHANGED waiters
      PROVE  QueueShape'
  BY <1>0, <1>4, <1>5 DEF Begin, PoolTypes
<1>6. ASSUME NEW t \in Threads, GetIdle(t) \/ GetOpens(t) PROVE QueueShape'
  BY <1>0, <1>4, <1>6 DEF GetIdle, GetOpens, Lent, Expired, PoolTypes
<1>7. ASSUME NEW t \in Threads, GetNone(t) \/ RequestFails(t) \/ OpenFails(t) \/ Sleep(t)
      PROVE  QueueShape'
  BY <1>0, <1>4, <1>7 DEF GetNone, RequestFails, OpenFails, Sleep, PoolTypes
<1>8. ASSUME NEW t \in Threads, Return(t) PROVE QueueShape'
  BY <1>0, <1>4, <1>8 DEF Return, PoolTypes
<1>9. ASSUME NEW t \in Threads, Insert(t) \/ CloseConnection(t) PROVE QueueShape'
  BY <1>0, <1>4, <1>9 DEF Insert, CloseConnection, Asleep, PoolTypes
<1>10. CASE UNCHANGED vars
  BY <1>10, SameQueue DEF vars
<1> QED
  BY <1>1, <1>2, <1>3, <1>5, <1>6, <1>7, <1>8, <1>9, <1>10
     DEF Next, Admits, Admit, Borrows, AdmitNested, Get, Gets, Releases

-----------------------------------------------------------------------------
(* A set of threads with one more or one less. *)
LEMMA ThreadSets ==
  ASSUME Counting, NEW S \in SUBSET Threads
  PROVE  /\ Cardinality(S) \in Nat
         /\ \A t \in Threads \ S : Cardinality(S \cup {t}) = Cardinality(S) + 1
         /\ \A t \in S : Cardinality(S \ {t}) = Cardinality(S) - 1
  BY DEF Counting, CountsIn

(* A step that sends nobody to sleep, returns nothing and leaves the woken. *)
LEMMA SameSleepers ==
  ASSUME Counting, PoolShape, ReturnWakes,
         \A p \in Pools : idle'[p] <= idle[p] /\ idle'[p] \in Nat,
         \A u \in Threads : pc'[u] = "asleep" => pc[u] = "asleep" /\ pool'[u] = pool[u],
         \A u \in Threads : pc[u] = "woken" => pc'[u] = "woken" /\ pool'[u] = pool[u],
         \A u \in Threads : pc'[u] = "woken" => pc[u] = "woken"
  PROVE  ReturnWakes'
<1> SUFFICES ASSUME NEW p \in Pools, Asleep(p)' # {}
             PROVE  idle'[p] <= Cardinality(Woken(p)')
  BY DEF ReturnWakes
<1>1. Woken(p)' = Woken(p) /\ Asleep(p) # {}
  BY DEF Woken, Asleep
<1>2. Cardinality(Woken(p)) \in Nat /\ idle[p] \in Nat
  BY ThreadSets, Woken(p) \in SUBSET Threads, SMT DEF Woken, PoolShape, PoolTypes
<1> QED
  BY <1>1, <1>2, SMT DEF ReturnWakes

(* Every step keeps sleepers and idle connections apart. *)
LEMMA WakeStep ==
  ASSUME Counting, PoolShape, QueueShape, ReturnWakes, [Next]_vars
  PROVE  ReturnWakes'
<1> USE ReadPoolAssumption DEF Go, AtRest, poolVars, opVars
<1>0. PoolTypes /\ PoolTypes'
  BY ShapeStep DEF PoolShape
<1>a. \A p \in Pools : idle[p] \in Nat /\ idle'[p] \in Nat
      /\ Cardinality(Woken(p)) \in Nat /\ Woken(p) \in SUBSET Threads
  BY <1>0, ThreadSets, SMT DEF PoolTypes, Woken
<1>1. ASSUME NEW t \in Threads, GetIdle(t) PROVE ReturnWakes'
  <2>1. /\ pool[t] \in Pools /\ idle'[pool[t]] = idle[pool[t]] - 1
        /\ \A p \in Pools \ {pool[t]} : idle'[p] = idle[p]
    BY <1>0, <1>1 DEF GetIdle, PoolShape, PoolTypes
  <2>2. /\ pc'[t] \in {"run", "insert"}
        /\ \A u \in Threads \ {t} : pc'[u] = pc[u] /\ pool'[u] = pool[u]
    BY <1>0, <1>1, SMT DEF GetIdle, Lent, Expired, PoolTypes
  <2>3. ASSUME NEW p \in Pools, Asleep(p)' # {}
        PROVE  idle'[p] <= Cardinality(Woken(p)')
    <3>1. Asleep(p) # {}
      BY <2>2, <2>3 DEF Asleep
    <3>2. CASE t \in Woken(p)
      <4>1. Woken(p)' = Woken(p) \ {t} /\ pool[t] = p
        BY <2>2, <3>2 DEF Woken
      <4>2. Cardinality(Woken(p) \ {t}) = Cardinality(Woken(p)) - 1
        BY <1>a, <3>2, ThreadSets
      <4> QED
        BY <1>a, <2>1, <3>1, <4>1, <4>2, SMT DEF ReturnWakes
    <3>3. CASE t \notin Woken(p)
      <4>1. Woken(p)' = Woken(p)
        BY <2>2, <3>3 DEF Woken
      <4>2. idle'[p] <= idle[p]
        BY <1>a, <2>1, SMT
      <4> QED
        BY <1>a, <3>1, <4>1, <4>2, SMT DEF ReturnWakes
    <3> QED
      BY <3>2, <3>3
  <2> QED
    BY <2>3 DEF ReturnWakes
<1>2. ASSUME NEW t \in Threads, Sleep(t) PROVE ReturnWakes'
  <2>1. pool[t] \in Pools /\ idle[pool[t]] = 0 /\ UNCHANGED <<idle, pool>>
    BY <1>2 DEF Sleep, PoolShape
  <2>2. pc'[t] = "asleep" /\ \A u \in Threads \ {t} : pc'[u] = pc[u]
    BY <1>0, <1>2 DEF Sleep, PoolTypes
  <2>3. ASSUME NEW p \in Pools, Asleep(p)' # {}
        PROVE  idle'[p] <= Cardinality(Woken(p)')
    <3>1. CASE p = pool[t]
      <4>1. Cardinality(Woken(p)') \in Nat
        BY ThreadSets, Woken(p)' \in SUBSET Threads DEF Woken
      <4> QED
        BY <2>1, <3>1, <4>1, SMT
    <3>2. CASE p # pool[t]
      <4>1. Woken(p)' = Woken(p) /\ Asleep(p) # {}
        BY <2>1, <2>2, <2>3, <3>2 DEF Woken, Asleep
      <4> QED
        BY <2>1, <4>1 DEF ReturnWakes
    <3> QED
      BY <3>1, <3>2
  <2> QED
    BY <2>3 DEF ReturnWakes
<1>3. ASSUME NEW t \in Threads, Insert(t) PROVE ReturnWakes'
  <2>1. /\ pool[t] \in Pools /\ idle'[pool[t]] = idle[pool[t]] + 1
        /\ \A p \in Pools \ {pool[t]} : idle'[p] = idle[p]
        /\ pc[t] = "insert" /\ UNCHANGED pool
    BY <1>0, <1>3 DEF Insert, PoolShape, PoolTypes
  <2>2. CASE Asleep(pool[t]) = {} /\ Go(t, "repay")
    <3>0. pc'[t] = "repay" /\ \A u \in Threads \ {t} : pc'[u] = pc[u]
      BY <1>0, <2>2 DEF PoolTypes
    <3>1. ASSUME NEW p \in Pools, Asleep(p)' # {}
          PROVE  idle'[p] <= Cardinality(Woken(p)')
      <4>1. Asleep(p)' = Asleep(p) /\ Woken(p)' = Woken(p)
        BY <2>1, <3>0 DEF Asleep, Woken
      <4>2. p # pool[t] /\ Asleep(p) # {}
        BY <2>2, <3>1, <4>1
      <4> QED
        BY <2>1, <4>1, <4>2 DEF ReturnWakes
    <3> QED
      BY <3>1 DEF ReturnWakes
  <2>3. ASSUME NEW u \in Asleep(pool[t]), pc' = [pc EXCEPT ![t] = "repay", ![u] = "woken"]
        PROVE  ReturnWakes'
    <3>0. u \in Threads /\ pc[u] = "asleep" /\ pool[u] = pool[t] /\ u # t
      BY <2>1 DEF Asleep
    <3>1. /\ pc'[u] = "woken" /\ pc'[t] = "repay"
          /\ \A v \in Threads \ {t, u} : pc'[v] = pc[v]
      BY <1>0, <2>3, <3>0 DEF PoolTypes
    <3>2. ASSUME NEW p \in Pools, Asleep(p)' # {}
          PROVE  idle'[p] <= Cardinality(Woken(p)')
      <4>1. CASE p = pool[t]
        <5>1. Woken(p)' = Woken(p) \cup {u} /\ u \in Threads \ Woken(p) /\ u \in Asleep(p)
          BY <2>1, <3>0, <3>1, <4>1 DEF Woken, Asleep
        <5>2. Cardinality(Woken(p) \cup {u}) = Cardinality(Woken(p)) + 1
          BY <1>a, <5>1, ThreadSets
        <5> QED
          BY <1>a, <2>1, <4>1, <5>1, <5>2, SMT DEF ReturnWakes
      <4>2. CASE p # pool[t]
        <5>1. Woken(p)' = Woken(p) /\ Asleep(p) # {}
          BY <2>1, <3>0, <3>1, <3>2, <4>2 DEF Woken, Asleep
        <5> QED
          BY <1>0, <2>1, <4>2, <5>1 DEF ReturnWakes, PoolTypes
      <4> QED
        BY <4>1, <4>2
    <3> QED
      BY <3>2 DEF ReturnWakes
  <2> QED
    BY <1>3, <2>2, <2>3 DEF Insert
<1>4. ASSUME NEW t \in Threads, UNCHANGED idle, pc[t] \notin {"asleep", "woken"},
             pc'[t] \notin {"asleep", "woken"},
             \A u \in Threads \ {t} : pc'[u] = pc[u] /\ pool'[u] = pool[u]
      PROVE  ReturnWakes'
  BY <1>a, <1>4, SameSleepers, SMT
<1>5. ASSUME NEW t \in Threads, NEW p \in Pools, Admit(t, p) \/ Queue(t, p) PROVE ReturnWakes'
  BY <1>0, <1>4, <1>5, ZenonT(60) DEF Admit, Queue, Begin, PoolTypes
<1>6. ASSUME NEW t \in Threads, Borrows(t) PROVE ReturnWakes'
  BY <1>0, <1>4, <1>6 DEF Borrows, AdmitNested, Get, Begin, PoolTypes
<1>7. ASSUME NEW t \in Threads,
             CancelQueued(t) \/ GetOpens(t) \/ GetNone(t) \/ RequestFails(t) \/ OpenFails(t)
      PROVE  ReturnWakes'
  BY <1>0, <1>4, <1>7, ZenonT(60)
     DEF CancelQueued, GetOpens, Lent, Expired, GetNone, RequestFails, OpenFails, PoolTypes
<1>8. ASSUME NEW t \in Threads, Return(t) \/ CloseConnection(t) PROVE ReturnWakes'
  BY <1>0, <1>4, <1>8, ZenonT(60) DEF Return, CloseConnection, PoolTypes
<1>9. ASSUME NEW t \in Threads, Repay(t) PROVE ReturnWakes'
  <2>1. pool[t] \in Pools /\ pc[t] = "repay"
    BY <1>9 DEF Repay, PoolShape
  <2>2. CASE permit[t] = "none" \/ waiters[pool[t]] = <<>>
    <3>1. UNCHANGED idle /\ pc' = [pc EXCEPT ![t] = "run"] /\ pool' = [pool EXCEPT ![t] = None]
      BY <1>9, <2>2 DEF Repay, Repaid
    <3> QED
      BY <1>0, <1>4, <2>1, <3>1 DEF PoolTypes
  <2>3. CASE permit[t] = "held" /\ waiters[pool[t]] # <<>>
    <3> DEFINE h == Head(waiters[pool[t]])
    <3>1. /\ pc' = [[pc EXCEPT ![t] = "run"] EXCEPT ![h] = "get"]
          /\ pool' = [pool EXCEPT ![t] = None] /\ UNCHANGED idle
      BY <1>9, <2>3 DEF Repay, Repaid
    <3>2. h \in Threads /\ pc[h] = "queued"
      BY <2>1, <2>3, HeadWaits
    <3> HIDE DEF h
    <3>3. \A u \in Threads : /\ u \notin {t, h} => pc'[u] = pc[u] /\ pool'[u] = pool[u]
                             /\ u \in {t, h} => pc'[u] \in {"run", "get"}
      BY <1>0, <3>1, <3>2 DEF PoolTypes
    <3>4. \A p \in Pools : idle'[p] <= idle[p] /\ idle'[p] \in Nat
      BY <1>a, <3>1, SMT
    <3> QED
      BY <2>1, <3>2, <3>3, <3>4, SameSleepers
  <2> QED
    BY <1>0, <2>2, <2>3 DEF PoolTypes
<1>10. CASE UNCHANGED vars
  BY <1>a, <1>10, SameSleepers, SMT DEF vars
<1> QED
  BY <1>1, <1>2, <1>3, <1>5, <1>6, <1>7, <1>8, <1>9, <1>10
     DEF Next, Admits, Gets, Releases

-----------------------------------------------------------------------------
(* How the steps change what is counted. *)

(* The connections of p that a thread holds, and those it is opening too. *)
HeldAt(t, i, p) ==
  \/ i = 0 /\ pool[t] = p /\ pc[t] = "insert"
  \/ i \in DOMAIN loans[t] /\ loans[t][i].pool = p
Held(p) == {x \in Places : HeldAt(x[1], x[2], p)}

UsingAt(t, i, p) ==
  \/ i = 0 /\ pool[t] = p /\ pc[t] \in {"open", "insert"}
  \/ i \in DOMAIN loans[t] /\ loans[t][i].pool = p
Using(p) == {x \in Places : UsingAt(x[1], x[2], p)}

(* Every permit is left or carried by a read; every open connection is idle *)
(* or held, and those held or being opened stay within the permits and the  *)
(* reads outside admission.                                                 *)
Counted(p) ==
  /\ permits[p] + Cardinality(Tokens(p)) = Limit
  /\ open[p] = idle[p] + Cardinality(Held(p))
  /\ idle[p] + Cardinality(Using(p)) <= Limit + outside[p]
  /\ Cardinality(Unadmitted(p)) <= outside[p]

-----------------------------------------------------------------------------
(* What one place more or one less does to the number of a set of places.   *)
LEMMA OnePlace ==
  ASSUME Counting, NEW S \in SUBSET Places, NEW T \in SUBSET Places, NEW x \in Places,
         \A y \in Places \ {x} : y \in T <=> y \in S
  PROVE  /\ x \in S /\ x \notin T => Cardinality(T) = Cardinality(S) - 1
         /\ x \notin S /\ x \in T => Cardinality(T) = Cardinality(S) + 1
         /\ (x \in S <=> x \in T) => T = S
<1>1. CASE x \in S /\ x \notin T
  <2>1. T = S \ {x}
    BY <1>1
  <2> QED
    BY <1>1, <2>1, PlaceSets
<1>2. CASE x \notin S /\ x \in T
  <2>1. T = S \cup {x}
    BY <1>2
  <2> QED
    BY <1>2, <2>1, PlaceSets
<1>3. CASE x \in S <=> x \in T
  BY <1>3, SMT
<1> QED
  BY <1>1, <1>2, <1>3

(* The same when one place goes and another comes.                          *)
LEMMA TwoPlaces ==
  ASSUME Counting, NEW S \in SUBSET Places, NEW T \in SUBSET Places,
         NEW x \in Places, NEW y \in Places, x # y,
         \A z \in Places \ {x, y} : z \in T <=> z \in S,
         y \notin S, x \notin T, x \in S <=> y \in T
  PROVE  Cardinality(T) = Cardinality(S)
<1>1. CASE x \in S
  <2>1. Cardinality(S \ {x}) = Cardinality(S) - 1
    BY <1>1, PlaceSets
  <2>2. T = (S \ {x}) \cup {y} /\ y \notin S \ {x} /\ S \ {x} \in SUBSET Places
    BY <1>1
  <2>3. Cardinality((S \ {x}) \cup {y}) = Cardinality(S \ {x}) + 1
    BY <2>2, PlaceSets
  <2> QED
    BY <2>1, <2>2, <2>3, PlaceSets, SMT
<1>2. CASE x \notin S
  <2>1. T = S
    BY <1>2, SMT
  <2> QED
    BY <2>1
<1> QED
  BY <1>1, <1>2

-----------------------------------------------------------------------------
(* A place counts after the step as before. *)
SameAt(y, q) ==
  /\ y \in Tokens(q)' <=> y \in Tokens(q)
  /\ y \in Unadmitted(q)' <=> y \in Unadmitted(q)
  /\ y \in Held(q)' <=> y \in Held(q)
  /\ y \in Using(q)' <=> y \in Using(q)

(* A place whose operation, or whose loan, is as before counts as before. *)
LEMMA SamePlace ==
  ASSUME NEW q \in Pools, NEW u \in Threads, NEW i \in 0..MaxDepth,
         i = 0 => pool'[u] = pool[u] /\ permit'[u] = permit[u] /\ pc'[u] = pc[u],
         i \in DOMAIN loans'[u] <=> i \in DOMAIN loans[u],
         i \in DOMAIN loans[u] => loans'[u][i] = loans[u][i]
  PROVE  SameAt(<<u, i>>, q)
<1>1. TokenAt(u, i, q)' = TokenAt(u, i, q) /\ OutsideAt(u, i, q)' = OutsideAt(u, i, q)
  BY DEF TokenAt, OutsideAt
<1>2. HeldAt(u, i, q)' = HeldAt(u, i, q) /\ UsingAt(u, i, q)' = UsingAt(u, i, q)
  BY DEF HeldAt, UsingAt
<1> QED
  BY <1>1, <1>2 DEF SameAt, Tokens, Unadmitted, Held, Using

(* What the n-th loan of a thread counts for. *)
LEMMA AtLoan ==
  ASSUME NEW q \in Pools, NEW t \in Threads, NEW n \in 1..MaxDepth
  PROVE  LET lent == n \in DOMAIN loans[t] /\ loans[t][n].pool = q
             lentNow == n \in DOMAIN loans'[t] /\ loans'[t][n].pool = q
         IN  /\ <<t, n>> \in Tokens(q) <=> lent /\ loans[t][n].permit = "held"
             /\ <<t, n>> \in Unadmitted(q) <=> lent /\ loans[t][n].permit = "none"
             /\ <<t, n>> \in Held(q) <=> lent
             /\ <<t, n>> \in Using(q) <=> lent
             /\ <<t, n>> \in Tokens(q)' <=> lentNow /\ loans'[t][n].permit = "held"
             /\ <<t, n>> \in Unadmitted(q)' <=> lentNow /\ loans'[t][n].permit = "none"
             /\ <<t, n>> \in Held(q)' <=> lentNow
             /\ <<t, n>> \in Using(q)' <=> lentNow
<1>1. n # 0 /\ <<t, n>> \in Places
  BY ReadPoolAssumption, SMT DEF Places
<1> QED
  BY <1>1 DEF Tokens, TokenAt, Unadmitted, OutsideAt, Held, HeldAt, Using, UsingAt

(* All four sets are sets of places. *)
LEMMA Subsets ==
  ASSUME NEW q \in Pools
  PROVE  /\ Tokens(q) \in SUBSET Places /\ Unadmitted(q) \in SUBSET Places
         /\ Held(q) \in SUBSET Places /\ Using(q) \in SUBSET Places
         /\ Tokens(q)' \in SUBSET Places /\ Unadmitted(q)' \in SUBSET Places
         /\ Held(q)' \in SUBSET Places /\ Using(q)' \in SUBSET Places
  BY DEF Tokens, Unadmitted, Held, Using, Places

(* Threads outside D keep their operations, but a sleeper may be woken. *)
Apart(D) ==
  \A u \in Threads \ D :
    /\ pool'[u] = pool[u] /\ permit'[u] = permit[u]
    /\ pc'[u] = pc[u] \/ (pc[u] = "asleep" /\ pc'[u] = "woken")

(* Operations in progress of the threads in D change nothing else, and a    *)
(* sleeper that is woken counts as it did.                                  *)
LEMMA AtZero ==
  ASSUME PoolShape, NEW D \in SUBSET Threads, UNCHANGED loans,
         Apart(D), NEW q \in Pools, NEW y \in Places, ~(y[1] \in D /\ y[2] = 0)
  PROVE  SameAt(y, q)
<1>1. y[1] \in Threads /\ y[2] \in 0..MaxDepth /\ loans[y[1]] \in Seq(Loan)
  BY DEF Places, PoolShape, PoolTypes
<1>2. CASE y[1] \in D
  <2>1. y[2] # 0
    BY <1>2
  <2> QED
    BY <2>1 DEF SameAt, Tokens, TokenAt, Unadmitted, OutsideAt, Held, HeldAt, Using, UsingAt
<1>3. CASE y[1] \notin D
  BY <1>1, <1>3
     DEF Apart, SameAt, Tokens, TokenAt, Unadmitted, OutsideAt, Held, HeldAt, Using, UsingAt
<1> QED
  BY <1>2, <1>3

(* What Lent does: the operation at place 0 becomes the read above the      *)
(* thread's others.                                                         *)
LEMMA LentEffect ==
  ASSUME PoolShape, NEW t \in Threads, Lent(t), pc[t] \in Acquiring
  PROVE  /\ pc'[t] = "run" /\ pool'[t] = None /\ permit'[t] = "none"
         /\ pool[t] \in Pools
         /\ Len(loans[t]) + 1 \in 1..MaxDepth
         /\ DOMAIN loans'[t] = 1..Len(loans[t]) + 1
         /\ \A i \in DOMAIN loans[t] : loans'[t][i] = loans[t][i]
         /\ loans'[t][Len(loans[t]) + 1].pool = pool[t]
         /\ loans'[t][Len(loans[t]) + 1].permit = permit[t]
         /\ \A u \in Threads \ {t} :
              /\ loans'[u] = loans[u] /\ pc'[u] = pc[u]
              /\ pool'[u] = pool[u] /\ permit'[u] = permit[u]
         /\ UNCHANGED <<permits, waiters>>
<1> USE DEF PoolShape, PoolTypes, Acquiring
<1>0. pool[t] \in Pools /\ kind[t] \in Kind /\ loans[t] \in Seq(Loan)
  OBVIOUS
<1> DEFINE l == [pool |-> pool[t], kind |-> kind[t], permit |-> permit[t]]
<1>1. l \in Loan /\ l.pool = pool[t] /\ l.permit = permit[t]
  BY <1>0 DEF Loan
<1>2. loans' = [loans EXCEPT ![t] = Append(loans[t], l)]
  BY DEF Lent
<1> HIDE DEF l
<1>3. loans'[t] = Append(loans[t], l) /\ \A u \in Threads \ {t} : loans'[u] = loans[u]
  BY <1>2
<1>4. /\ DOMAIN loans'[t] = 1..Len(loans[t]) + 1
      /\ \A i \in DOMAIN loans[t] : loans'[t][i] = loans[t][i]
      /\ loans'[t][Len(loans[t]) + 1] = l
  BY <1>0, <1>1, <1>3, SMT
<1>5. Len(loans[t]) + 1 \in 1..MaxDepth
  BY <1>0, ReadPoolAssumption, SMT
<1> QED
  BY <1>0, <1>1, <1>3, <1>4, <1>5 DEF Lent, Go, AtRest

(* What Return does: the innermost read becomes the operation at place 0. *)
LEMMA ReturnEffect ==
  ASSUME PoolShape, NEW t \in Threads, Return(t)
  PROVE  LET n == Len(loans[t]) IN
         /\ n \in 1..MaxDepth /\ pc[t] = "run" /\ permit[t] = "none"
         /\ pc'[t] = "insert" /\ n \in DOMAIN loans[t]
         /\ pool'[t] = loans[t][n].pool /\ permit'[t] = loans[t][n].permit
         /\ loans[t][n].permit \in {"none", "held"}
         /\ DOMAIN loans'[t] = 1..n - 1
         /\ \A i \in DOMAIN loans'[t] : i \in DOMAIN loans[t] /\ loans'[t][i] = loans[t][i]
         /\ \A u \in Threads \ {t} :
              /\ loans'[u] = loans[u] /\ pc'[u] = pc[u]
              /\ pool'[u] = pool[u] /\ permit'[u] = permit[u]
         /\ UNCHANGED <<poolVars, outside>>
<1> USE DEF PoolShape, PoolTypes
<1> DEFINE n == Len(loans[t])
<1>1. n \in 1..MaxDepth /\ n \in DOMAIN loans[t] /\ loans[t][n] \in Loan
      /\ DOMAIN loans[t] = 1..n /\ \A i \in 1..n - 1 : loans[t][i] \in Loan
  BY SMT DEF Return
<1>2. loans'[t] = SubSeq(loans[t], 1, n - 1) /\ \A u \in Threads \ {t} : loans'[u] = loans[u]
  BY DEF Return
<1>3. /\ pc' = [pc EXCEPT ![t] = "insert"] /\ pool' = [pool EXCEPT ![t] = loans[t][n].pool]
      /\ permit' = [permit EXCEPT ![t] = loans[t][n].permit]
      /\ pc[t] = "run" /\ UNCHANGED <<poolVars, outside>>
  BY DEF Return, Go
<1> HIDE DEF n
<1>a. n - 1 \in Int
  BY <1>1, SMT
<1>4. /\ SubSeq(loans[t], 1, n - 1) \in Seq(Loan)
      /\ Len(SubSeq(loans[t], 1, n - 1)) = IF 1 <= n - 1 THEN n - 1 - 1 + 1 ELSE 0
      /\ \A i \in 1..n - 1 - 1 + 1 : SubSeq(loans[t], 1, n - 1)[i] = loans[t][1 + i - 1]
  BY <1>1, <1>a, SMT
<1>5. DOMAIN loans'[t] = 1..n - 1 /\ \A i \in 1..n - 1 : loans'[t][i] = loans[t][i]
  BY <1>1, <1>2, <1>4, SMT
<1>6. loans[t][n].permit \in {"none", "held"}
  BY <1>1 DEF Loan
<1> QED
  BY <1>1, <1>2, <1>3, <1>5, <1>6, SMT DEF n

-----------------------------------------------------------------------------
(* How many a set has after a step that can only add or take away one place, *)
(* which was in it or is in it then.                                         *)
ChangesAt(was, is, S, T) ==
  /\ was /\ ~is => Cardinality(T) = Cardinality(S) - 1
  /\ ~was /\ is => Cardinality(T) = Cardinality(S) + 1
  /\ (was <=> is) => Cardinality(T) = Cardinality(S)

Engaged == {"get", "open", "lock", "asleep", "woken", "insert"}

Changes(t, q) ==
  /\ ChangesAt(pool[t] = q /\ permit[t] = "held", pool'[t] = q /\ permit'[t] = "held",
               Tokens(q), Tokens(q)')
  /\ ChangesAt(pool[t] = q /\ permit[t] = "none" /\ pc[t] \in Engaged,
               pool'[t] = q /\ permit'[t] = "none" /\ pc'[t] \in Engaged,
               Unadmitted(q), Unadmitted(q)')
  /\ ChangesAt(pool[t] = q /\ pc[t] = "insert", pool'[t] = q /\ pc'[t] = "insert",
               Held(q), Held(q)')
  /\ ChangesAt(pool[t] = q /\ pc[t] \in {"open", "insert"},
               pool'[t] = q /\ pc'[t] \in {"open", "insert"}, Using(q), Using(q)')

(* What the operation in progress counts for. *)
LEMMA InProgress ==
  ASSUME PoolShape, PoolShape', NEW t \in Threads, NEW q \in Pools
  PROVE  /\ <<t, 0>> \in Places
         /\ <<t, 0>> \in Tokens(q) <=> pool[t] = q /\ permit[t] = "held"
         /\ <<t, 0>> \in Tokens(q)' <=> pool'[t] = q /\ permit'[t] = "held"
         /\ <<t, 0>> \in Held(q) <=> pool[t] = q /\ pc[t] = "insert"
         /\ <<t, 0>> \in Held(q)' <=> pool'[t] = q /\ pc'[t] = "insert"
         /\ <<t, 0>> \in Using(q) <=> pool[t] = q /\ pc[t] \in {"open", "insert"}
         /\ <<t, 0>> \in Using(q)' <=> pool'[t] = q /\ pc'[t] \in {"open", "insert"}
         /\ <<t, 0>> \in Unadmitted(q) <=> pool[t] = q /\ permit[t] = "none"
              /\ pc[t] \in {"get", "open", "lock", "asleep", "woken", "insert"}
         /\ <<t, 0>> \in Unadmitted(q)' <=> pool'[t] = q /\ permit'[t] = "none"
              /\ pc'[t] \in {"get", "open", "lock", "asleep", "woken", "insert"}
<1>1. <<t, 0>> \in Places
  BY ReadPoolAssumption, SMT DEF Places
<1>2. 0 \notin DOMAIN loans[t] /\ 0 \notin DOMAIN loans'[t]
  BY SMT DEF PoolShape, PoolTypes
<1> QED
  BY <1>1, <1>2 DEF Tokens, TokenAt, Unadmitted, OutsideAt, Held, HeldAt, Using, UsingAt

(* A step that changes only the read in progress changes the four sets by   *)
(* its place at most.                                                       *)
LEMMA InProgressCounts ==
  ASSUME Counting, PoolShape, PoolShape', NEW t \in Threads, NEW q \in Pools, UNCHANGED loans,
         Apart({t})
  PROVE  Changes(t, q)
<1> DEFINE x == <<t, 0>>
<1>1. x \in Places
  BY InProgress
<1>2. \A y \in Places \ {x} : ~(y[1] \in {t} /\ y[2] = 0)
  BY SMT DEF Places
<1>3. \A y \in Places \ {x} : SameAt(y, q)
  BY <1>2, AtZero, {t} \in SUBSET Threads
<1> HIDE DEF x
<1>4. ChangesAt(x \in Tokens(q), x \in Tokens(q)', Tokens(q), Tokens(q)')
  <2>1. \A y \in Places \ {x} : y \in Tokens(q)' <=> y \in Tokens(q)
    BY <1>3 DEF SameAt
  <2> QED
    BY <1>1, <2>1, Subsets, OnePlace, SMT DEF ChangesAt
<1>5. ChangesAt(x \in Unadmitted(q), x \in Unadmitted(q)', Unadmitted(q), Unadmitted(q)')
  <2>1. \A y \in Places \ {x} : y \in Unadmitted(q)' <=> y \in Unadmitted(q)
    BY <1>3 DEF SameAt
  <2> QED
    BY <1>1, <2>1, Subsets, OnePlace, SMT DEF ChangesAt
<1>6. ChangesAt(x \in Held(q), x \in Held(q)', Held(q), Held(q)')
  <2>1. \A y \in Places \ {x} : y \in Held(q)' <=> y \in Held(q)
    BY <1>3 DEF SameAt
  <2> QED
    BY <1>1, <2>1, Subsets, OnePlace, SMT DEF ChangesAt
<1>7. ChangesAt(x \in Using(q), x \in Using(q)', Using(q), Using(q)')
  <2>1. \A y \in Places \ {x} : y \in Using(q)' <=> y \in Using(q)
    BY <1>3 DEF SameAt
  <2> QED
    BY <1>1, <2>1, Subsets, OnePlace, SMT DEF ChangesAt
<1> USE DEF x
<1>8. ChangesAt(pool[t] = q /\ permit[t] = "held",
               pool'[t] = q /\ permit'[t] = "held", Tokens(q), Tokens(q)')
  BY <1>4, InProgress DEF ChangesAt
<1>9. ChangesAt(pool[t] = q /\ permit[t] = "none" /\ pc[t] \in Engaged,
               pool'[t] = q /\ permit'[t] = "none" /\ pc'[t] \in Engaged, Unadmitted(q), Unadmitted(q)')
  BY <1>5, InProgress DEF ChangesAt, Engaged
<1>10. ChangesAt(pool[t] = q /\ pc[t] = "insert",
               pool'[t] = q /\ pc'[t] = "insert", Held(q), Held(q)')
  BY <1>6, InProgress DEF ChangesAt
<1>11. ChangesAt(pool[t] = q /\ pc[t] \in {"open", "insert"},
               pool'[t] = q /\ pc'[t] \in {"open", "insert"}, Using(q), Using(q)')
  BY <1>7, InProgress DEF ChangesAt
<1> QED
  BY <1>8, <1>9, <1>10, <1>11 DEF Changes

(* The numbers themselves. *)
LEMMA Counts ==
  ASSUME Counting, NEW q \in Pools
  PROVE  /\ Cardinality(Tokens(q)) \in Nat /\ Cardinality(Tokens(q)') \in Nat
         /\ Cardinality(Unadmitted(q)) \in Nat /\ Cardinality(Unadmitted(q)') \in Nat
         /\ Cardinality(Held(q)) \in Nat /\ Cardinality(Held(q)') \in Nat
         /\ Cardinality(Using(q)) \in Nat /\ Cardinality(Using(q)') \in Nat
  BY Subsets, PlaceSets

(* A read held or opened has a permit or is outside admission. *)
LEMMA UsingBound ==
  ASSUME Counting, PoolShape', NEW q \in Pools
  PROVE  Cardinality(Using(q)') <= Cardinality(Tokens(q)') + Cardinality(Unadmitted(q)')
<1>1. \A t \in Threads : /\ permit'[t] \in {"none", "held"}
                        /\ \A i \in DOMAIN loans'[t] : loans'[t][i].permit \in {"none", "held"}
  <2> TAKE t \in Threads
  <2>1. permit'[t] \in {"none", "held"} /\ loans'[t] \in Seq(Loan)
    BY DEF PoolShape, PoolTypes
  <2>2. \A i \in DOMAIN loans'[t] : loans'[t][i] \in Loan
    BY <2>1, SMT
  <2> QED
    BY <2>1, <2>2 DEF Loan
<1>2. Using(q)' \subseteq Tokens(q)' \cup Unadmitted(q)'
  BY <1>1 DEF Using, UsingAt, Tokens, TokenAt, Unadmitted, OutsideAt, Places
<1>3. Tokens(q)' \in SUBSET Places /\ Unadmitted(q)' \in SUBSET Places
  BY Subsets
<1>4. Cardinality(Using(q)') <= Cardinality(Tokens(q)' \cup Unadmitted(q)')
  BY <1>2, <1>3 DEF Counting, CountsIn
<1>5. Cardinality(Tokens(q)' \cup Unadmitted(q)')
        <= Cardinality(Tokens(q)') + Cardinality(Unadmitted(q)')
  BY <1>3 DEF Counting, CountsIn
<1>6. Cardinality(Tokens(q)' \cup Unadmitted(q)') \in Nat
  BY <1>3 DEF Counting, CountsIn
<1> QED
  BY <1>4, <1>5, <1>6, Counts, SMT

-----------------------------------------------------------------------------
(* Where a place goes and another comes, how many there are then.           *)
Moves(S, T, x, y) ==
  x \notin T /\ y \notin S =>
    /\ (x \in S <=> y \in T) => Cardinality(T) = Cardinality(S)
    /\ x \notin S /\ y \in T => Cardinality(T) = Cardinality(S) + 1

LEMMA SetMoves ==
  ASSUME Counting, NEW S \in SUBSET Places, NEW T \in SUBSET Places,
         NEW x \in Places, NEW y \in Places, x # y,
         \A z \in Places \ {x, y} : z \in T <=> z \in S
  PROVE  Moves(S, T, x, y)
<1> SUFFICES ASSUME x \notin T, y \notin S
             PROVE  /\ (x \in S <=> y \in T) => Cardinality(T) = Cardinality(S)
                    /\ x \notin S /\ y \in T => Cardinality(T) = Cardinality(S) + 1
  BY DEF Moves
<1>1. (x \in S <=> y \in T) => Cardinality(T) = Cardinality(S)
  BY TwoPlaces
<1>2. ASSUME x \notin S, y \in T PROVE Cardinality(T) = Cardinality(S) + 1
  <2>1. \A z \in Places \ {y} : z \in T <=> z \in S
    BY <1>2
  <2> QED
    BY <1>2, <2>1, OnePlace, SMT
<1> QED
  BY <1>1, <1>2

LEMMA AllMove ==
  ASSUME Counting, NEW q \in Pools, NEW x \in Places, NEW y \in Places, x # y,
         \A z \in Places \ {x, y} : SameAt(z, q)
  PROVE  /\ Moves(Tokens(q), Tokens(q)', x, y) /\ Moves(Unadmitted(q), Unadmitted(q)', x, y)
         /\ Moves(Held(q), Held(q)', x, y) /\ Moves(Using(q), Using(q)', x, y)
<1>1. \A z \in Places \ {x, y} : z \in Tokens(q)' <=> z \in Tokens(q)
  BY DEF SameAt
<1>2. \A z \in Places \ {x, y} : z \in Unadmitted(q)' <=> z \in Unadmitted(q)
  BY DEF SameAt
<1>3. \A z \in Places \ {x, y} : z \in Held(q)' <=> z \in Held(q)
  BY DEF SameAt
<1>4. \A z \in Places \ {x, y} : z \in Using(q)' <=> z \in Using(q)
  BY DEF SameAt
<1>5. Moves(Tokens(q), Tokens(q)', x, y) /\ Moves(Unadmitted(q), Unadmitted(q)', x, y)
  BY <1>1, <1>2, Subsets, SetMoves
<1>6. Moves(Held(q), Held(q)', x, y) /\ Moves(Using(q), Using(q)', x, y)
  BY <1>3, <1>4, Subsets, SetMoves
<1> QED
  BY <1>5, <1>6

(* A read that gets its connection takes its permit along. *)
LEMMA LentCounts ==
  ASSUME Counting, PoolShape, PoolShape', NEW t \in Threads, Lent(t),
         pc[t] \in {"get", "open", "lock", "woken"}, NEW q \in Pools
  PROVE  /\ Cardinality(Tokens(q)') = Cardinality(Tokens(q))
         /\ Cardinality(Unadmitted(q)') = Cardinality(Unadmitted(q))
         /\ Cardinality(Held(q)') =
              IF pool[t] = q THEN Cardinality(Held(q)) + 1 ELSE Cardinality(Held(q))
         /\ Cardinality(Using(q)') =
              IF pool[t] = q /\ pc[t] # "open"
                THEN Cardinality(Using(q)) + 1 ELSE Cardinality(Using(q))
<1> DEFINE n == Len(loans[t]) + 1
           x == <<t, 0>>
           y == <<t, n>>
<1>0. pc[t] \in Acquiring
  BY DEF Acquiring
<1>1. /\ pc'[t] = "run" /\ pool'[t] = None /\ permit'[t] = "none"
      /\ pool[t] \in Pools /\ n \in 1..MaxDepth
      /\ DOMAIN loans'[t] = 1..n
      /\ \A i \in DOMAIN loans[t] : loans'[t][i] = loans[t][i]
      /\ loans'[t][n].pool = pool[t] /\ loans'[t][n].permit = permit[t]
      /\ \A u \in Threads \ {t} :
           /\ loans'[u] = loans[u] /\ pc'[u] = pc[u]
           /\ pool'[u] = pool[u] /\ permit'[u] = permit[u]
  BY <1>0, LentEffect
<1>2. DOMAIN loans[t] = 1..n - 1 /\ n \in Nat
  BY SMT DEF PoolShape, PoolTypes
<1> HIDE DEF n
<1>a. n \notin DOMAIN loans[t] /\ n \in DOMAIN loans'[t]
  BY <1>1, <1>2, SMT
<1>3. x \in Places /\ y \in Places /\ x # y
  BY <1>1, ReadPoolAssumption, SMT DEF Places
<1>4. ASSUME NEW z \in Places \ {x, y} PROVE SameAt(z, q)
  <2>1. PICK u \in Threads, i \in 0..MaxDepth : z = <<u, i>>
    BY SMT DEF Places
  <2>2. CASE u # t
    BY <1>1, <2>1, <2>2, SamePlace
  <2>3. CASE u = t
    <3>1. i # 0 /\ i # n
      BY <1>4, <2>1, <2>3
    <3>2. /\ i \in DOMAIN loans'[t] <=> i \in DOMAIN loans[t]
          /\ i \in DOMAIN loans[t] => loans'[t][i] = loans[t][i]
      BY <1>1, <1>2, <3>1, SMT
    <3> QED
      BY <2>1, <2>3, <3>1, <3>2, SamePlace
  <2> QED
    BY <2>2, <2>3
<1>5. x \notin Tokens(q)' /\ x \notin Unadmitted(q)' /\ x \notin Held(q)' /\ x \notin Using(q)'
  BY <1>1, InProgress, ReadPoolAssumption
<1>6. y \notin Tokens(q) /\ y \notin Unadmitted(q) /\ y \notin Held(q) /\ y \notin Using(q)
  BY <1>1, <1>a, AtLoan
<1>7. /\ x \in Tokens(q) <=> pool[t] = q /\ permit[t] = "held"
      /\ x \in Unadmitted(q) <=> pool[t] = q /\ permit[t] = "none"
      /\ x \notin Held(q)
      /\ x \in Using(q) <=> pool[t] = q /\ pc[t] = "open"
  BY InProgress
<1>8. /\ y \in Tokens(q)' <=> pool[t] = q /\ permit[t] = "held"
      /\ y \in Unadmitted(q)' <=> pool[t] = q /\ permit[t] = "none"
      /\ y \in Held(q)' <=> pool[t] = q
      /\ y \in Using(q)' <=> pool[t] = q
  BY <1>1, <1>a, AtLoan, SMT
<1> HIDE DEF x, y
<1>9. /\ Moves(Tokens(q), Tokens(q)', x, y) /\ Moves(Unadmitted(q), Unadmitted(q)', x, y)
      /\ Moves(Held(q), Held(q)', x, y) /\ Moves(Using(q), Using(q)', x, y)
  BY <1>3, <1>4, AllMove
<1>10. /\ Cardinality(Tokens(q)') = Cardinality(Tokens(q))
       /\ Cardinality(Unadmitted(q)') = Cardinality(Unadmitted(q))
  BY <1>5, <1>6, <1>7, <1>8, <1>9 DEF Moves
<1>11. Cardinality(Held(q)') =
         IF pool[t] = q THEN Cardinality(Held(q)) + 1 ELSE Cardinality(Held(q))
  BY <1>5, <1>6, <1>7, <1>8, <1>9 DEF Moves
<1>12. Cardinality(Using(q)') =
         IF pool[t] = q /\ pc[t] # "open"
           THEN Cardinality(Using(q)) + 1 ELSE Cardinality(Using(q))
  BY <1>5, <1>6, <1>7, <1>8, <1>9 DEF Moves
<1> QED
  BY <1>10, <1>11, <1>12

(* A read that ends is counted at place 0 until it has given both back. *)
LEMMA ReturnCounts ==
  ASSUME Counting, PoolShape, PoolShape', NEW t \in Threads, Return(t), NEW q \in Pools
  PROVE  /\ Cardinality(Tokens(q)') = Cardinality(Tokens(q))
         /\ Cardinality(Unadmitted(q)') = Cardinality(Unadmitted(q))
         /\ Cardinality(Held(q)') = Cardinality(Held(q))
         /\ Cardinality(Using(q)') = Cardinality(Using(q))
<1> DEFINE n == Len(loans[t])
           x == <<t, n>>
           y == <<t, 0>>
<1>1. /\ n \in 1..MaxDepth /\ pc[t] = "run" /\ permit[t] = "none"
      /\ pc'[t] = "insert" /\ n \in DOMAIN loans[t]
      /\ pool'[t] = loans[t][n].pool /\ permit'[t] = loans[t][n].permit
      /\ loans[t][n].permit \in {"none", "held"}
      /\ DOMAIN loans'[t] = 1..n - 1
      /\ \A i \in DOMAIN loans'[t] : i \in DOMAIN loans[t] /\ loans'[t][i] = loans[t][i]
      /\ \A u \in Threads \ {t} :
           /\ loans'[u] = loans[u] /\ pc'[u] = pc[u]
           /\ pool'[u] = pool[u] /\ permit'[u] = permit[u]
  BY ReturnEffect
<1>2. DOMAIN loans[t] = 1..n
  BY SMT DEF PoolShape, PoolTypes
<1>a. /\ n \in 1..MaxDepth /\ n \notin DOMAIN loans'[t]
      /\ \A i \in 0..MaxDepth \ {n} :
           /\ i \in DOMAIN loans'[t] <=> i \in DOMAIN loans[t]
           /\ i \in DOMAIN loans[t] => loans'[t][i] = loans[t][i]
  <2>1. /\ n \in 1..MaxDepth /\ DOMAIN loans'[t] = 1..n - 1 /\ DOMAIN loans[t] = 1..n
        /\ \A i \in DOMAIN loans'[t] : loans'[t][i] = loans[t][i]
    BY <1>1, <1>2
  <2> HIDE DEF n
  <2> QED
    BY <2>1, ReadPoolAssumption, SMT
<1> HIDE DEF n
<1>3. x \in Places /\ y \in Places /\ x # y
  BY <1>1, ReadPoolAssumption, SMT DEF Places
<1>4. ASSUME NEW z \in Places \ {x, y} PROVE SameAt(z, q)
  <2>1. PICK u \in Threads, i \in 0..MaxDepth : z = <<u, i>>
    BY SMT DEF Places
  <2>2. CASE u # t
    BY <1>1, <2>1, <2>2, SamePlace
  <2>3. CASE u = t
    <3>1. i # 0 /\ i # n
      BY <1>4, <2>1, <2>3
    <3>2. /\ i \in DOMAIN loans'[t] <=> i \in DOMAIN loans[t]
          /\ i \in DOMAIN loans[t] => loans'[t][i] = loans[t][i]
      BY <1>a, <3>1
    <3> QED
      BY <2>1, <2>3, <3>1, <3>2, SamePlace
  <2> QED
    BY <2>2, <2>3
<1>5. y \notin Tokens(q) /\ y \notin Unadmitted(q) /\ y \notin Held(q) /\ y \notin Using(q)
  BY <1>1, InProgress
<1>6. x \notin Tokens(q)' /\ x \notin Unadmitted(q)' /\ x \notin Held(q)' /\ x \notin Using(q)'
  BY <1>a, AtLoan
<1>7. /\ x \in Tokens(q) <=> y \in Tokens(q)'
      /\ x \in Unadmitted(q) <=> y \in Unadmitted(q)'
      /\ x \in Held(q) <=> y \in Held(q)'
      /\ x \in Using(q) <=> y \in Using(q)'
  <2>1. /\ x \in Tokens(q) <=> loans[t][n].pool = q /\ loans[t][n].permit = "held"
        /\ x \in Unadmitted(q) <=> loans[t][n].pool = q /\ loans[t][n].permit = "none"
        /\ x \in Held(q) <=> loans[t][n].pool = q
        /\ x \in Using(q) <=> loans[t][n].pool = q
    BY <1>1, AtLoan, SMT
  <2> QED
    BY <1>1, <2>1, InProgress, SMT
<1> HIDE DEF x, y
<1>8. /\ Moves(Tokens(q), Tokens(q)', x, y) /\ Moves(Unadmitted(q), Unadmitted(q)', x, y)
      /\ Moves(Held(q), Held(q)', x, y) /\ Moves(Using(q), Using(q)', x, y)
  BY <1>3, <1>4, AllMove
<1> QED
  BY <1>5, <1>6, <1>7, <1>8 DEF Moves

(* A permit that a waiter takes over is carried by that waiter's request. *)
LEMMA HandOverCounts ==
  ASSUME Counting, PoolShape, PoolShape', QueueShape, NEW t \in Threads, Repay(t),
         permit[t] = "held", waiters[pool[t]] # <<>>, NEW q \in Pools
  PROVE  /\ Cardinality(Tokens(q)') = Cardinality(Tokens(q))
         /\ Unadmitted(q)' = Unadmitted(q) /\ Held(q)' = Held(q) /\ Using(q)' = Using(q)
         /\ UNCHANGED <<idle, open, permits>>
<1> DEFINE h == Head(waiters[pool[t]])
           x == <<t, 0>>
           y == <<h, 0>>
<1>1. pc[t] = "repay" /\ pool[t] \in Pools /\ t \in DOMAIN pc /\ t \in DOMAIN permit
  BY DEF Repay, PoolShape, PoolTypes
<1>2. h \in Threads /\ pc[h] = "queued" /\ pool[h] = pool[t] /\ h # t
  BY <1>1, HeadWaits
<1>3. /\ pc' = [[pc EXCEPT ![t] = "run"] EXCEPT ![h] = "get"]
      /\ permit' = [[permit EXCEPT ![t] = "none"] EXCEPT ![h] = "held"]
      /\ pool' = [pool EXCEPT ![t] = None]
      /\ UNCHANGED <<idle, open, permits, loans>>
  BY DEF Repay, Repaid, AtRest
<1> HIDE DEF h
<1>4. /\ pc'[t] = "run" /\ permit'[t] = "none" /\ pool'[t] = None
      /\ pc'[h] = "get" /\ permit'[h] = "held" /\ pool'[h] = pool[t]
      /\ \A u \in Threads \ {t, h} :
           pool'[u] = pool[u] /\ permit'[u] = permit[u] /\ pc'[u] = pc[u]
  BY <1>1, <1>2, <1>3, SMT DEF PoolShape, PoolTypes
<1>5. permit[h] = "none"
  BY <1>2 DEF PoolShape
<1>6. x \in Places /\ y \in Places /\ x # y
  BY <1>2, InProgress
<1>7. \A z \in Places \ {x, y} : SameAt(z, q)
  <2>1. \A z \in Places \ {x, y} : ~(z[1] \in {t, h} /\ z[2] = 0)
    BY SMT DEF Places
  <2> QED
    <3>1. {t, h} \in SUBSET Threads /\ UNCHANGED loans /\ Apart({t, h})
      BY <1>2, <1>3, <1>4 DEF Apart
    <3> QED
      BY <2>1, <3>1, AtZero
<1>8. /\ x \in Tokens(q) <=> pool[t] = q
      /\ x \notin Unadmitted(q) /\ x \notin Held(q) /\ x \notin Using(q)
  BY <1>1, InProgress
<1>9. x \notin Tokens(q)' /\ x \notin Unadmitted(q)' /\ x \notin Held(q)' /\ x \notin Using(q)'
  BY <1>4, InProgress, ReadPoolAssumption
<1>10. y \notin Tokens(q) /\ y \notin Unadmitted(q) /\ y \notin Held(q) /\ y \notin Using(q)
  BY <1>2, <1>5, InProgress
<1>11. /\ y \in Tokens(q)' <=> pool[t] = q
       /\ y \notin Unadmitted(q)' /\ y \notin Held(q)' /\ y \notin Using(q)'
  BY <1>2, <1>4, InProgress, SMT
<1> HIDE DEF x, y
<1>12. Cardinality(Tokens(q)') = Cardinality(Tokens(q))
  <2>1. Moves(Tokens(q), Tokens(q)', x, y)
    BY <1>6, <1>7, AllMove
  <2> QED
    BY <1>8, <1>9, <1>10, <1>11, <2>1 DEF Moves
<1>13. \A z \in Places :
         /\ z \in Unadmitted(q)' <=> z \in Unadmitted(q)
         /\ z \in Held(q)' <=> z \in Held(q)
         /\ z \in Using(q)' <=> z \in Using(q)
  BY <1>7, <1>8, <1>9, <1>10, <1>11 DEF SameAt
<1>14. Unadmitted(q)' = Unadmitted(q) /\ Held(q)' = Held(q) /\ Using(q)' = Using(q)
  BY <1>13, Subsets
<1> QED
  BY <1>3, <1>12, <1>14

-----------------------------------------------------------------------------
(* Every step keeps the counts: one lemma per action. *)

Numbers(q) ==
  /\ idle[q] \in Nat /\ open[q] \in Int /\ permits[q] \in Nat /\ outside[q] \in Nat
  /\ Limit \in Nat
  /\ Cardinality(Tokens(q)) \in Nat /\ Cardinality(Unadmitted(q)) \in Nat
  /\ Cardinality(Held(q)) \in Nat /\ Cardinality(Using(q)) \in Nat

LEMMA PoolNumbers ==
  ASSUME Counting, PoolShape, NEW q \in Pools
  PROVE  Numbers(q)
<1>1. /\ Cardinality(Tokens(q)) \in Nat /\ Cardinality(Unadmitted(q)) \in Nat
      /\ Cardinality(Held(q)) \in Nat /\ Cardinality(Using(q)) \in Nat
  BY Counts
<1>2. /\ idle[q] \in Nat /\ open[q] \in Int /\ permits[q] \in Nat /\ outside[q] \in Nat
      /\ Limit \in Nat
  BY ReadPoolAssumption, SMT DEF PoolShape, PoolTypes
<1> QED
  BY <1>1, <1>2 DEF Numbers

(* What a thread may be doing. *)
LEMMA ThreadFacts ==
  ASSUME PoolShape, NEW t \in Threads
  PROVE  /\ permit[t] = "none" \/ permit[t] = "held"
         /\ pc[t] # "run" => pool[t] \in Pools
         /\ pc[t] \in {"run", "queued"} => permit[t] = "none"
  BY DEF PoolShape, PoolTypes

(* A step of a thread that is at no pool or at another one, and goes to     *)
(* another one.                                                             *)
LEMMA OtherPool ==
  ASSUME NEW t \in Threads, NEW q \in Pools, Counted(q), Changes(t, q),
         pool[t] # q \/ (pc[t] = "run" /\ permit[t] = "none"), pool'[t] # q,
         idle'[q] = idle[q], open'[q] = open[q], permits'[q] = permits[q],
         outside'[q] = outside[q]
  PROVE  Counted(q)'
<1>1. /\ Cardinality(Tokens(q)') = Cardinality(Tokens(q))
      /\ Cardinality(Unadmitted(q)') = Cardinality(Unadmitted(q))
      /\ Cardinality(Held(q)') = Cardinality(Held(q))
      /\ Cardinality(Using(q)') = Cardinality(Using(q))
  BY DEF Changes, ChangesAt, Engaged
<1> QED
  BY <1>1 DEF Counted

LEMMA AdmitCounts ==
  ASSUME Counting, PoolShape, PoolShape', NEW q \in Pools, Counted(q),
         NEW t \in Threads, NEW p \in Pools, Admit(t, p), UNCHANGED outside
  PROVE  Counted(q)'
<1>1. /\ pc[t] = "run" /\ pc'[t] = "get" /\ pool'[t] = p /\ permit'[t] = "held"
      /\ Apart({t}) /\ UNCHANGED <<idle, open, loans, outside>>
      /\ permits'[q] = IF q = p THEN permits[q] - 1 ELSE permits[q]
  BY SMT DEF Apart, Admit, Begin, Go, PoolShape, PoolTypes
<1>2. permit[t] = "none"
  BY <1>1, ThreadFacts
<1>3. Changes(t, q)
  BY <1>1, InProgressCounts
<1>4. CASE q = p
  <2>1. /\ Cardinality(Tokens(q)') = Cardinality(Tokens(q)) + 1
        /\ Cardinality(Unadmitted(q)') = Cardinality(Unadmitted(q))
        /\ Cardinality(Held(q)') = Cardinality(Held(q))
        /\ Cardinality(Using(q)') = Cardinality(Using(q))
    BY <1>1, <1>2, <1>3, <1>4 DEF Changes, ChangesAt, Engaged
  <2> QED
    BY <1>1, <1>4, <2>1, PoolNumbers, SMT DEF Counted, Numbers
<1>5. CASE q # p
  BY <1>1, <1>2, <1>3, <1>5, OtherPool
<1> QED
  BY <1>4, <1>5

(* A request that queues holds nothing yet. *)
LEMMA QueueCounts ==
  ASSUME Counting, PoolShape, PoolShape', NEW q \in Pools, Counted(q), NEW t \in Threads,
         \/ (\E p \in Pools : Queue(t, p)) /\ UNCHANGED outside
         \/ CancelQueued(t)
  PROVE  Counted(q)'
<1>1. /\ pc[t] \in {"run", "queued"} /\ pc'[t] \in {"run", "queued"}
      /\ permit'[t] = permit[t]
      /\ Apart({t}) /\ UNCHANGED <<idle, open, permits, loans, outside>>
  BY SMT DEF Apart, Queue, CancelQueued, AtRest, Begin, Go, PoolShape, PoolTypes
<1>2. Changes(t, q)
  BY <1>1, InProgressCounts
<1>3. /\ pc[t] \notin Engaged /\ pc'[t] \notin Engaged
      /\ permit[t] # "held" /\ permit'[t] # "held"
  BY <1>1, ThreadFacts DEF Engaged
<1>4. /\ Cardinality(Tokens(q)') = Cardinality(Tokens(q))
      /\ Cardinality(Unadmitted(q)') = Cardinality(Unadmitted(q))
      /\ Cardinality(Held(q)') = Cardinality(Held(q))
      /\ Cardinality(Using(q)') = Cardinality(Using(q))
  BY <1>1, <1>2, <1>3 DEF Changes, ChangesAt
<1> QED
  BY <1>1, <1>4 DEF Counted

(* A read outside admission: the ghost follows. *)
LEMMA BorrowCounts ==
  ASSUME Counting, PoolShape, PoolShape', NEW q \in Pools, Counted(q),
         NEW t \in Threads, NEW p \in Pools,
         AdmitNested(t, p) \/ \E k \in Kinds[t] : Get(t, p, k)
  PROVE  Counted(q)'
<1>1. /\ pc[t] = "run" /\ pc'[t] = "get" /\ pool'[t] = p /\ permit'[t] = permit[t]
      /\ Apart({t}) /\ UNCHANGED <<idle, open, permits, loans>>
      /\ OneMoreOutside(p)
  <2>1. pc[t] = "run" /\ UNCHANGED <<idle, open, permits, loans, permit>>
    BY DEF AdmitNested, Get, Begin, poolVars
  <2>2. pc'[t] = "get" /\ pool'[t] = p
    BY DEF AdmitNested, Get, Begin, Go, PoolShape, PoolTypes
  <2>3. Apart({t})
    <3>1. pc' = [pc EXCEPT ![t] = "get"] /\ pool' = [pool EXCEPT ![t] = p]
      BY DEF AdmitNested, Get, Begin, Go
    <3> QED
      BY <2>1, <3>1, SMT DEF Apart, PoolShape, PoolTypes
  <2>4. OneMoreOutside(p)
    BY DEF AdmitNested, Get, Begin
  <2> QED
    BY <2>1, <2>2, <2>3, <2>4
<1>2. permit[t] = "none"
  BY <1>1, ThreadFacts
<1>3. Changes(t, q)
  BY <1>1, InProgressCounts
<1>4. outside'[q] = IF q = p /\ ~(Cardinality(Unadmitted(q)) < outside[q])
                      THEN Cardinality(Unadmitted(q)) + 1 ELSE outside[q]
  BY <1>1 DEF OneMoreOutside, PoolShape, PoolTypes
<1>5. CASE q = p
  <2>1. /\ Cardinality(Tokens(q)') = Cardinality(Tokens(q))
        /\ Cardinality(Unadmitted(q)') = Cardinality(Unadmitted(q)) + 1
        /\ Cardinality(Held(q)') = Cardinality(Held(q))
        /\ Cardinality(Using(q)') = Cardinality(Using(q))
    BY <1>1, <1>2, <1>3, <1>5 DEF Changes, ChangesAt, Engaged
  <2> QED
    BY <1>1, <1>4, <1>5, <2>1, PoolNumbers, SMT DEF Counted, Numbers
<1>6. CASE q # p
  BY <1>1, <1>2, <1>3, <1>4, <1>6, OtherPool
<1> QED
  BY <1>5, <1>6

(* What happens to a connection that expired while it was found: it is      *)
(* given back.                                                              *)
LEMMA ExpiredCounts ==
  ASSUME Counting, PoolShape, PoolShape', NEW q \in Pools, NEW t \in Threads, Expired(t),
         pc[t] \in {"get", "open", "lock", "woken"}
  PROVE  /\ Cardinality(Tokens(q)') = Cardinality(Tokens(q))
         /\ Cardinality(Unadmitted(q)') = Cardinality(Unadmitted(q))
         /\ Cardinality(Held(q)') = IF pool[t] = q THEN Cardinality(Held(q)) + 1
                                                  ELSE Cardinality(Held(q))
         /\ Cardinality(Using(q)') = IF pool[t] = q /\ pc[t] # "open"
                                       THEN Cardinality(Using(q)) + 1
                                       ELSE Cardinality(Using(q))
<1>1. pc'[t] = "insert" /\ UNCHANGED <<pool, permit, loans>> /\ Apart({t})
  BY DEF Apart, Expired, Go, opVars, PoolShape, PoolTypes
<1>2. Changes(t, q)
  BY <1>1, InProgressCounts
<1>3. pc[t] \in Engaged /\ pc'[t] \in Engaged
  BY <1>1 DEF Engaged
<1>4. /\ Cardinality(Tokens(q)') = Cardinality(Tokens(q))
      /\ Cardinality(Unadmitted(q)') = Cardinality(Unadmitted(q))
  BY <1>1, <1>2, <1>3 DEF Changes, ChangesAt
<1>5. Cardinality(Held(q)') = IF pool[t] = q THEN Cardinality(Held(q)) + 1
                                            ELSE Cardinality(Held(q))
  BY <1>1, <1>2 DEF Changes, ChangesAt
<1>6. Cardinality(Using(q)') = IF pool[t] = q /\ pc[t] # "open"
                                 THEN Cardinality(Using(q)) + 1 ELSE Cardinality(Using(q))
  BY <1>1, <1>2 DEF Changes, ChangesAt
<1> QED
  BY <1>4, <1>5, <1>6

(* A connection is found, idle or opened anew. *)
LEMMA FoundCounts ==
  ASSUME Counting, PoolShape, PoolShape', NEW q \in Pools, Counted(q), NEW t \in Threads,
         GetIdle(t) \/ GetOpens(t), UNCHANGED outside
  PROVE  Counted(q)'
<1>1. pc[t] \in {"get", "open", "lock", "woken"} /\ (Lent(t) \/ Expired(t))
  BY DEF GetIdle, GetOpens
<1>2. /\ Cardinality(Tokens(q)') = Cardinality(Tokens(q))
      /\ Cardinality(Unadmitted(q)') = Cardinality(Unadmitted(q))
      /\ Cardinality(Held(q)') = IF pool[t] = q THEN Cardinality(Held(q)) + 1
                                               ELSE Cardinality(Held(q))
      /\ Cardinality(Using(q)') = IF pool[t] = q /\ pc[t] # "open"
                                    THEN Cardinality(Using(q)) + 1
                                    ELSE Cardinality(Using(q))
  BY <1>1, LentCounts, ExpiredCounts
<1>3. CASE GetIdle(t)
  <2>1. /\ pc[t] # "open" /\ UNCHANGED <<open, permits>>
        /\ idle'[q] = IF pool[t] = q THEN idle[q] - 1 ELSE idle[q]
    BY <1>3 DEF GetIdle, Lent, Expired, PoolShape, PoolTypes
  <2>2. CASE pool[t] = q
    BY <1>2, <2>1, <2>2, PoolNumbers, SMT DEF Counted, Numbers
  <2>3. CASE pool[t] # q
    BY <1>2, <2>1, <2>3 DEF Counted
  <2> QED
    BY <2>2, <2>3
<1>4. CASE GetOpens(t)
  <2>1. /\ pc[t] = "open" /\ UNCHANGED <<idle, permits>>
        /\ open'[q] = IF pool[t] = q THEN open[q] + 1 ELSE open[q]
    BY <1>4 DEF GetOpens, Lent, Expired, PoolShape, PoolTypes
  <2>2. CASE pool[t] = q
    BY <1>2, <2>1, <2>2, PoolNumbers, SMT DEF Counted, Numbers
  <2>3. CASE pool[t] # q
    BY <1>2, <2>1, <2>3 DEF Counted
  <2> QED
    BY <2>2, <2>3
<1> QED
  BY <1>3, <1>4

(* A read that finds no idle connection is about to open one. *)
LEMMA GetNoneCounts ==
  ASSUME Counting, PoolShape, PoolShape', NEW q \in Pools, Counted(q),
         NEW t \in Threads, GetNone(t), UNCHANGED outside
  PROVE  Counted(q)'
<1>1. /\ pc[t] = "get" /\ pc'[t] = "open" /\ idle[pool[t]] = 0
      /\ UNCHANGED <<pool, permit, loans, permits, idle, open>> /\ Apart({t})
  BY DEF Apart, GetNone, Go, opVars, poolVars, PoolShape, PoolTypes
<1>2. Changes(t, q)
  BY <1>1, InProgressCounts
<1>3. CASE q = pool[t]
  <2>1. pc[t] \in Engaged /\ pc'[t] \in Engaged
    BY <1>1 DEF Engaged
  <2>2. /\ Cardinality(Tokens(q)') = Cardinality(Tokens(q))
        /\ Cardinality(Unadmitted(q)') = Cardinality(Unadmitted(q))
        /\ Cardinality(Held(q)') = Cardinality(Held(q))
    BY <1>1, <1>2, <2>1 DEF Changes, ChangesAt
  <2>3. Cardinality(Using(q)') <= Cardinality(Tokens(q)) + Cardinality(Unadmitted(q))
    BY <2>2, UsingBound
  <2>4. idle[q] = 0 /\ Cardinality(Using(q)') \in Nat
    BY <1>1, <1>3, Counts
  <2> QED
    BY <1>1, <2>2, <2>3, <2>4, PoolNumbers, SMT DEF Counted, Numbers
<1>4. CASE q # pool[t]
  BY <1>1, <1>2, <1>4, OtherPool
<1> QED
  BY <1>3, <1>4

(* A read that fails or sleeps gives up what it was about to use. *)
LEMMA FailCounts ==
  ASSUME Counting, PoolShape, PoolShape', NEW q \in Pools, Counted(q), NEW t \in Threads,
         RequestFails(t) \/ OpenFails(t) \/ Sleep(t), UNCHANGED outside
  PROVE  Counted(q)'
<1>1. /\ pc[t] \in {"get", "open", "lock", "woken"}
      /\ pc'[t] \in {"repay", "lock", "asleep"}
      /\ UNCHANGED <<pool, permit, loans, permits, idle, open>> /\ Apart({t})
  <2>1. /\ pc[t] \in {"get", "open", "lock", "woken"}
        /\ \E to \in {"repay", "lock", "asleep"} : pc' = [pc EXCEPT ![t] = to]
        /\ UNCHANGED <<pool, permit, loans, permits, idle, open>>
    BY DEF RequestFails, OpenFails, Sleep, Go, opVars, poolVars
  <2>2. pc'[t] \in {"repay", "lock", "asleep"}
    BY <2>1 DEF PoolShape, PoolTypes
  <2>3. Apart({t})
    BY <2>1, ZenonT(60) DEF Apart, PoolShape, PoolTypes
  <2> QED
    BY <2>1, <2>2, <2>3
<1>2. Changes(t, q)
  BY <1>1, InProgressCounts
<1>3. /\ Cardinality(Tokens(q)') = Cardinality(Tokens(q))
      /\ Cardinality(Held(q)') = Cardinality(Held(q))
  BY <1>1, <1>2 DEF Changes, ChangesAt
<1>4. /\ Cardinality(Using(q)') = Cardinality(Using(q))
         \/ Cardinality(Using(q)') = Cardinality(Using(q)) - 1
      /\ Cardinality(Unadmitted(q)') = Cardinality(Unadmitted(q))
         \/ Cardinality(Unadmitted(q)') = Cardinality(Unadmitted(q)) - 1
  <2>1. pc[t] \in Engaged
    BY <1>1 DEF Engaged
  <2> QED
    BY <1>1, <1>2, <2>1 DEF Changes, ChangesAt
<1> QED
  BY <1>1, <1>3, <1>4, PoolNumbers, SMT DEF Counted, Numbers

(* A connection is idle again, or closed, before its permit is repaid. *)
LEMMA GiveBackCounts ==
  ASSUME Counting, PoolShape, PoolShape', NEW q \in Pools, Counted(q), NEW t \in Threads,
         pc[t] = "insert", pc'[t] = "repay", Apart({t}),
         UNCHANGED <<pool, permit, loans, permits, outside>>,
         \/ /\ idle'[q] = IF q = pool[t] THEN idle[q] + 1 ELSE idle[q]
            /\ open'[q] = open[q]
         \/ /\ idle'[q] = idle[q]
            /\ open'[q] = IF q = pool[t] THEN open[q] - 1 ELSE open[q]
  PROVE  Counted(q)'
<1>1. Changes(t, q)
  BY InProgressCounts
<1>2. CASE q = pool[t]
  <2>1. pc[t] \in Engaged /\ pc'[t] \notin Engaged
    BY DEF Engaged
  <2>2. /\ Cardinality(Tokens(q)') = Cardinality(Tokens(q))
        /\ Cardinality(Held(q)') = Cardinality(Held(q)) - 1
        /\ Cardinality(Using(q)') = Cardinality(Using(q)) - 1
    BY <1>1, <1>2 DEF Changes, ChangesAt
  <2>3. \/ Cardinality(Unadmitted(q)') = Cardinality(Unadmitted(q))
        \/ Cardinality(Unadmitted(q)') = Cardinality(Unadmitted(q)) - 1
    BY <1>1, <2>1 DEF Changes, ChangesAt
  <2> QED
    BY <1>2, <2>2, <2>3, PoolNumbers, SMT DEF Counted, Numbers
<1>3. CASE q # pool[t]
  BY <1>1, <1>3, OtherPool
<1> QED
  BY <1>2, <1>3

LEMMA InsertCounts ==
  ASSUME Counting, PoolShape, PoolShape', NEW q \in Pools, Counted(q),
         NEW t \in Threads, Insert(t), UNCHANGED outside
  PROVE  Counted(q)'
<1>1. /\ UNCHANGED <<pool, permit, loans, permits, open>> /\ pc[t] = "insert"
      /\ idle'[q] = IF q = pool[t] THEN idle[q] + 1 ELSE idle[q]
  BY DEF Insert, opVars, PoolShape, PoolTypes
<1>2. pc \in [Threads -> {"run", "queued", "get", "open", "lock", "asleep",
                        "woken", "insert", "repay"}]
  BY DEF PoolShape, PoolTypes
<1>3. CASE pc' = [pc EXCEPT ![t] = "repay"]
  <2>1. pc'[t] = "repay" /\ Apart({t})
    BY <1>1, <1>2, <1>3 DEF Apart
  <2> QED
    BY <1>1, <2>1, GiveBackCounts
<1>4. ASSUME NEW u \in Asleep(pool[t]),
             pc' = [pc EXCEPT ![t] = "repay", ![u] = "woken"]
      PROVE  Counted(q)'
  <2>1. u \in Threads /\ pc[u] = "asleep" /\ u # t
    BY <1>1, <1>4 DEF Asleep
  <2>2. /\ pc'[t] = "repay" /\ pc'[u] = "woken"
        /\ \A v \in Threads \ {t, u} : pc'[v] = pc[v]
    BY <1>2, <1>4, <2>1
  <2>3. Apart({t})
    BY <1>1, <2>1, <2>2 DEF Apart
  <2> QED
    BY <1>1, <2>2, <2>3, GiveBackCounts
<1> QED
  BY <1>3, <1>4 DEF Insert, Go

LEMMA CloseCounts ==
  ASSUME Counting, PoolShape, PoolShape', NEW q \in Pools, Counted(q),
         NEW t \in Threads, CloseConnection(t), UNCHANGED outside
  PROVE  Counted(q)'
<1>1. /\ pc[t] = "insert" /\ pc'[t] = "repay"
      /\ UNCHANGED <<pool, permit, loans, permits, idle>> /\ Apart({t})
      /\ open'[q] = IF q = pool[t] THEN open[q] - 1 ELSE open[q]
  BY DEF Apart, CloseConnection, Go, opVars, PoolShape, PoolTypes
<1> QED
  BY <1>1, GiveBackCounts

(* A permit goes to the first waiter or back to the pool. *)
LEMMA RepayCounts ==
  ASSUME Counting, PoolShape, PoolShape', QueueShape, NEW q \in Pools, Counted(q),
         NEW t \in Threads, Repay(t), UNCHANGED outside
  PROVE  Counted(q)'
<1>1. CASE permit[t] = "held" /\ waiters[pool[t]] # <<>>
  BY <1>1, HandOverCounts DEF Counted
<1>2. CASE ~(permit[t] = "held" /\ waiters[pool[t]] # <<>>)
  <2>1. pc[t] = "repay" /\ pool[t] \in Pools /\ q # None
    BY ThreadFacts, ReadPoolAssumption DEF Repay
  <2>2. /\ pc'[t] = "run" /\ permit'[t] = "none" /\ pool'[t] = None
        /\ UNCHANGED <<loans, idle, open>> /\ Apart({t})
        /\ permits'[q] = IF q = pool[t] /\ permit[t] = "held" THEN permits[q] + 1
                                                              ELSE permits[q]
    <3>1. /\ pc' = [pc EXCEPT ![t] = "run"] /\ pool' = [pool EXCEPT ![t] = None]
          /\ \/ permit' = [permit EXCEPT ![t] = "none"]
             \/ permit[t] # "held" /\ permit' = permit
          /\ UNCHANGED <<loans, idle, open>>
      BY <1>2, <2>1 DEF Repay, Repaid, Go, AtRest
    <3>2. pc'[t] = "run" /\ permit'[t] = "none" /\ pool'[t] = None
      BY <3>1 DEF PoolShape, PoolTypes
    <3>3. Apart({t})
      BY <3>1, ZenonT(60) DEF Apart, PoolShape, PoolTypes
    <3>4. permits \in [Pools -> Nat]
      BY DEF PoolShape, PoolTypes
    <3>5. permits'[q] = IF q = pool[t] /\ permit[t] = "held" THEN permits[q] + 1
                                                              ELSE permits[q]
      BY <1>2, <2>1, <3>4 DEF Repay, Repaid
    <3> QED
      BY <3>1, <3>2, <3>3, <3>5
  <2>3. Changes(t, q)
    BY <2>2, InProgressCounts
  <2>4. CASE q = pool[t]
    <3>1. pc[t] \notin Engaged /\ pc'[t] \notin Engaged
      BY <2>1, <2>2 DEF Engaged
    <3>2. /\ Cardinality(Unadmitted(q)') = Cardinality(Unadmitted(q))
          /\ Cardinality(Held(q)') = Cardinality(Held(q))
          /\ Cardinality(Using(q)') = Cardinality(Using(q))
      BY <2>1, <2>2, <2>3, <3>1 DEF Changes, ChangesAt
    <3>3. Cardinality(Tokens(q)') = IF permit[t] = "held" THEN Cardinality(Tokens(q)) - 1
                                                         ELSE Cardinality(Tokens(q))
      BY <2>2, <2>3, <2>4 DEF Changes, ChangesAt
    <3> QED
      BY <2>2, <2>4, <3>2, <3>3, PoolNumbers, SMT DEF Counted, Numbers
  <2>5. CASE q # pool[t]
    BY <2>1, <2>2, <2>3, <2>5, OtherPool
  <2> QED
    BY <2>4, <2>5
<1> QED
  BY <1>1, <1>2

LEMMA CountStep ==
  ASSUME Counting, PoolShape, PoolShape', QueueShape, [Next]_vars, NEW q \in Pools, Counted(q)
  PROVE  Counted(q)'
<1>1. ASSUME NEW t \in Threads, Admits(t) \/ Borrows(t) \/ CancelQueued(t)
      PROVE  Counted(q)'
  BY <1>1, AdmitCounts, QueueCounts, BorrowCounts DEF Admits, Borrows
<1>2. ASSUME NEW t \in Threads, Gets(t) PROVE Counted(q)'
  BY <1>2, FoundCounts, GetNoneCounts, FailCounts DEF Gets
<1>3. ASSUME NEW t \in Threads, Return(t) PROVE Counted(q)'
  BY <1>3, ReturnCounts, ReturnEffect DEF Counted, poolVars
<1>4. ASSUME NEW t \in Threads, Releases(t) PROVE Counted(q)'
  BY <1>4, InsertCounts, CloseCounts, RepayCounts DEF Releases
<1>5. CASE UNCHANGED vars
  BY <1>5 DEF vars, poolVars, opVars, Counted, Tokens, TokenAt, Unadmitted, OutsideAt,
               Held, HeldAt, Using, UsingAt
<1> QED
  BY <1>1, <1>2, <1>3, <1>4, <1>5 DEF Next

-----------------------------------------------------------------------------
INSTANCE FiniteSetTheorems

(* The subsets of a finite set can be counted. *)
LEMMA FiniteCounts ==
  ASSUME NEW U, IsFiniteSet(U)
  PROVE  CountsIn(U)
<1> SUFFICES ASSUME NEW S \in SUBSET U
    PROVE  /\ Cardinality(S) \in Nat
           /\ \A x \in U \ S : Cardinality(S \cup {x}) = Cardinality(S) + 1
           /\ \A x \in S : Cardinality(S \ {x}) = Cardinality(S) - 1
           /\ \A T \in SUBSET U : Cardinality(S \cup T) <= Cardinality(S) + Cardinality(T)
           /\ \A T \in SUBSET S : Cardinality(T) <= Cardinality(S)
  BY DEF CountsIn
<1>1. IsFiniteSet(S) /\ Cardinality(S) \in Nat
  BY FS_Subset, FS_CardinalityType
<1>2. \A x \in U \ S : Cardinality(S \cup {x}) = Cardinality(S) + 1
  BY <1>1, FS_AddElement
<1>3. \A x \in S : Cardinality(S \ {x}) = Cardinality(S) - 1
  BY <1>1, FS_RemoveElement
<1>4. ASSUME NEW T \in SUBSET U
      PROVE  Cardinality(S \cup T) <= Cardinality(S) + Cardinality(T)
  <2>1. IsFiniteSet(T) /\ IsFiniteSet(S \cap T)
    BY FS_Subset
  <2>2. Cardinality(T) \in Nat /\ Cardinality(S \cap T) \in Nat
    BY <2>1, FS_CardinalityType
  <2>3. Cardinality(S \cup T) = Cardinality(S) + Cardinality(T) - Cardinality(S \cap T)
    BY <1>1, <2>1, FS_Union
  <2> QED
    BY <1>1, <2>2, <2>3, SMT
<1>5. \A T \in SUBSET S : Cardinality(T) <= Cardinality(S)
  BY <1>1, FS_Subset
<1> QED
  BY <1>1, <1>2, <1>3, <1>4, <1>5

(* There are finitely many threads, and finitely many places.               *)
LEMMA PoolCounting == Counting
<1>1. IsFiniteSet(0..MaxDepth)
  BY FS_Interval, ReadPoolAssumption, SMT
<1>2. IsFiniteSet(Places)
  BY <1>1, FS_Product, ReadPoolAssumption DEF Places
<1> QED
  BY <1>2, FiniteCounts, ReadPoolAssumption DEF Counting

-----------------------------------------------------------------------------
WakeInv == PoolShape /\ QueueShape /\ ReturnWakes

(* The invariant holds of ReadPool::new: no reads, nobody asleep.           *)
LEMMA InitWake ==
  ASSUME Init
  PROVE  WakeInv
<1> USE ReadPoolAssumption DEF Init
<1>1. PoolShape /\ QueueShape
  BY SMT DEF PoolShape, PoolTypes, QueueShape, Acquiring
<1>2. ReturnWakes
  BY DEF ReturnWakes, Asleep
<1> QED
  BY <1>1, <1>2 DEF WakeInv

(* Every step of every thread keeps the shape, the queue and the wakes.     *)
LEMMA WakeInvariant == Spec => []WakeInv
<1>1. Init => WakeInv
  BY InitWake
<1>2. WakeInv /\ [Next]_vars => WakeInv'
  BY PoolCounting, ShapeStep, QueueStep, WakeStep DEF WakeInv
<1> QED
  BY <1>1, <1>2, PTL DEF Spec

(* release never leaves a read asleep beside an idle connection that nobody *)
(* was woken for, however many threads, pools and nested reads there are.   *)
THEOREM ReturnsAlwaysWake == Spec => []ReturnWakes
<1>1. WakeInv => ReturnWakes
  BY DEF WakeInv
<1> QED
  BY <1>1, WakeInvariant, PTL

-----------------------------------------------------------------------------
PoolInv == WakeInv /\ \A p \in Pools : Counted(p)

(* The invariant holds of ReadPool::new: no reads, every permit free.       *)
LEMMA InitPool ==
  ASSUME Init
  PROVE  PoolInv
<1> USE ReadPoolAssumption DEF Init
<1>1. ASSUME NEW p \in Pools PROVE Counted(p)
  <2>1. Tokens(p) = {} /\ Unadmitted(p) = {} /\ Held(p) = {} /\ Using(p) = {}
    BY SMT DEF Tokens, TokenAt, Unadmitted, OutsideAt, Held, HeldAt, Using, UsingAt, Places
  <2>2. idle[p] \in 0..1 /\ open[p] = idle[p] /\ permits[p] = Limit /\ outside[p] = 0
    BY SMT
  <2> QED
    BY <2>1, <2>2, FS_EmptySet, SMTT(30) DEF Counted
<1> QED
  BY <1>1, InitWake DEF PoolInv

(* Every step of every thread keeps the shape, the queue, the wakes and the *)
(* counts.                                                                  *)
LEMMA PoolInvariant == Spec => []PoolInv
<1>1. Init => PoolInv
  BY InitPool
<1>2. PoolInv /\ [Next]_vars => PoolInv'
  <2> SUFFICES ASSUME PoolInv, [Next]_vars PROVE PoolInv'
    OBVIOUS
  <2>1. WakeInv'
    BY PoolCounting, ShapeStep, QueueStep, WakeStep DEF PoolInv, WakeInv
  <2>2. ASSUME NEW p \in Pools PROVE Counted(p)'
    BY <2>1, PoolCounting, CountStep DEF PoolInv, WakeInv
  <2> QED
    BY <2>1, <2>2 DEF PoolInv
<1> QED
  BY <1>1, <1>2, PTL DEF Spec

(* Every permit of a pool is either left or carried by exactly one read,    *)
(* whatever is cancelled, expires or fails to open on the way.              *)
THEOREM PermitsAlwaysConserved == Spec => []PermitsConserved
<1>1. PoolInv => PermitsConserved
  BY DEF PoolInv, Counted, PermitsConserved
<1> QED
  BY <1>1, PoolInvariant, PTL

(* A pool never has more connections open than permits and reads outside    *)
(* admission, because a connection goes back before its permit.             *)
THEOREM OpenAlwaysBounded == Spec => []OpenBound
<1>1. PoolInv => OpenBound
  <2> SUFFICES ASSUME PoolInv, NEW p \in Pools PROVE open[p] <= Limit + outside[p]
    BY DEF OpenBound
  <2>1. Counted(p) /\ idle[p] \in Nat /\ outside[p] \in Nat /\ Limit \in Nat
    BY ReadPoolAssumption, SMT DEF PoolInv, WakeInv, PoolShape, PoolTypes
  <2>2. Held(p) \subseteq Using(p)
    BY DEF Held, HeldAt, Using, UsingAt
  <2>3. Cardinality(Held(p)) <= Cardinality(Using(p))
    BY <2>2, Subsets, PoolCounting DEF Counting, CountsIn
  <2> QED
    BY <2>1, <2>3, PoolCounting, Counts, SMT DEF Counted
<1> QED
  BY <1>1, PoolInvariant, PTL

(* The pool's numbers stay in their ranges: no permit too many, no          *)
(* connection closed that was not open, no idle list past its limit.        *)
THEOREM TypeAlwaysOK == Spec => []TypeOK
<1>1. PoolInv => TypeOK
  <2> SUFFICES ASSUME PoolInv PROVE TypeOK
    OBVIOUS
  <2>1. PoolTypes
    BY DEF PoolInv, WakeInv, PoolShape
  <2>2. ASSUME NEW p \in Pools PROVE open[p] \in Nat /\ permits[p] \in 0..Limit
    <3>1. Counted(p) /\ idle[p] \in Nat /\ permits[p] \in Nat /\ Limit \in Nat
      BY <2>1, ReadPoolAssumption, SMT DEF PoolInv, PoolTypes
    <3> QED
      BY <3>1, PoolCounting, Counts, SMT DEF Counted
  <2>3. open \in [Pools -> Nat] /\ permits \in [Pools -> 0..Limit]
    BY <2>1, <2>2 DEF PoolTypes
  <2> QED
    BY <2>1, <2>3 DEF PoolTypes, TypeOK
<1> QED
  BY <1>1, PoolInvariant, PTL
=============================================================================
