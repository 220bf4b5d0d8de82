-------------------------- MODULE SyncHistoryProofs --------------------------
(***************************************************************************)
(* How often a record is tried, for every number of reports and of         *)
(* concurrent drains, every limit, and any number of faults: not too       *)
(* seldom before it is given up, and not for ever.                         *)
(*                                                                         *)
(* Both invariants speak of the drains that hold a record, and of the      *)
(* attempts they have read, as well as of its row: what such a drain may   *)
(* still write is where the column can jump, or be set back.               *)
(***************************************************************************)
EXTENDS SyncHistory, SyncQueueProofs

\* The history is only a record: a behaviour with it is one of the queue.
LEMMA HistoryIsQueue == HistorySpec => Spec
<1>1. HistoryInit => Init
  BY DEF HistoryInit
<1>2. [HistoryNext]_allVars => [Next]_vars
  BY DEF HistoryNext, allVars
<1> QED
  BY <1>1, <1>2, PTL DEF HistorySpec, Spec

FailuresTyped == failures \in [Reports -> [Attempts -> Nat]]

\* A drain ends a request without success.
Fails(t) == Rejected(t) \/ NetworkError(t)

------------------------------------------------------------------------------
(* What a step does to a record and to what the drains hold of it.          *)

\* A failed request: one record, one drain, and the count it has read.
LEMMA FailStep ==
  ASSUME IInv, NEW t \in Drains, Fails(t)
  PROVE  LET x == posting[t]
             m == seen[t][x]
         IN  /\ x \in batch[t] /\ x \in Reports /\ m \in Attempts
             /\ queue' = queue /\ created_at' = created_at
             /\ attempts' = IF x \in queue THEN [attempts EXCEPT ![x] = m + 1] ELSE attempts
             /\ x \notin batch'[t]
             /\ \A u \in Drains : \A r \in batch'[u] : r \in batch[u] /\ seen'[u][r] = seen[u][r]
             /\ \A r \in Reports, n \in Attempts : FailsAt(r, n) <=> r = x /\ n = m
<1> DEFINE x == posting[t]
           m == seen[t][x]
<1> TypeOK /\ RequestOK
  BY DEF IInv
<1>1. pc[t] = "wait" /\ NextRecord(t) /\ RecordFailure(x, m) /\ created_at' = created_at
  BY DEF Fails, Rejected, NetworkError
<1>2. x \in batch[t] /\ x \in Reports /\ m \in Attempts
  BY <1>1 DEF RequestOK, TypeOK, Attempts
<1>3. queue' = queue
      /\ attempts' = IF x \in queue THEN [attempts EXCEPT ![x] = m + 1] ELSE attempts
  BY <1>1 DEF RecordFailure
<1>4. x \notin batch'[t]
  BY <1>1 DEF NextRecord, TypeOK
<1>5. ASSUME NEW u \in Drains, NEW r \in batch'[u]
      PROVE  r \in batch[u] /\ seen'[u][r] = seen[u][r]
  <2>1. r \in batch[u] /\ r \in Reports /\ (u = t => r # x)
    BY <1>1, <1>4, <1>5 DEF NextRecord, TypeOK
  <2> QED
    BY <1>1, <1>2, <2>1 DEF NextRecord, TypeOK
<1>6. ASSUME NEW u \in Drains, Fails(u) PROVE u = t
  <2>1. pc[u] = "wait" /\ NextRecord(u)
    BY <1>6 DEF Fails, Rejected, NetworkError
  <2> SUFFICES ASSUME u # t PROVE FALSE
    OBVIOUS
  <2>2. u \in Threads /\ t \in Threads
    BY DEF Threads
  <2>3. pc'[u] = "wait"
    BY <1>1, <2>1, <2>2 DEF NextRecord, Goto, TypeOK
  <2>4. pc'[u] \in {"depth", "send"}
    BY <2>1, <2>2 DEF NextRecord, Goto, TypeOK
  <2> QED
    BY <2>3, <2>4
<1>7. ASSUME NEW r \in Reports, NEW n \in Attempts
      PROVE  FailsAt(r, n) <=> r = x /\ n = m
  <2>1. FailsAt(r, n) <=> \E u \in Drains : posting[u] = r /\ seen[u][r] = n /\ Fails(u)
    BY DEF FailsAt, Fails
  <2> QED
    BY <1>6, <2>1
<1> QED
  BY <1>1, <1>2, <1>3, <1>4, <1>5, <1>7

\* Any other step: a row is inserted or deleted, or a drain reads what the rows count.
Quiet ==
  \A r \in Reports :
    /\ attempts'[r] = attempts[r] \/ (r \notin queue' /\ attempts'[r] = 0)
    /\ r \in queue' => r \in queue \/ r \notin Enqueued
    /\ r \in queue /\ r \notin queue' => attempts'[r] = 0
    /\ r \in Enqueued => r \in Enqueued'
    /\ \A u \in Drains : r \in batch'[u] =>
         \/ r \in batch[u] /\ seen'[u][r] = seen[u][r]
         \/ r \in queue /\ seen'[u][r] = attempts[r]

LEMMA QuietStep ==
  ASSUME IInv, Next, \A t \in Drains : ~Fails(t)
  PROVE  Quiet
<1> TypeOK /\ RequestOK
  BY DEF IInv
<1> USE DEF table, request, Goto
<1> DEFINE Kept == /\ attempts' = attempts /\ queue' = queue /\ created_at' = created_at
                   /\ \A u \in Drains : batch'[u] = {} \/ (batch'[u] = batch[u] /\ seen'[u] = seen[u])
<1>0. Kept => Quiet
  BY DEF Quiet, Enqueued
<1>1. ASSUME NEW x \in Reports, Enqueue(x) PROVE Quiet
  <2>1. x \notin Enqueued /\ queue' = queue \cup {x} /\ attempts' = attempts
        /\ batch' = batch /\ seen' = seen
    BY <1>1 DEF Enqueue, Enqueued
  <2>2. \A r \in Enqueued : r \in Enqueued'
    BY <1>1, <2>1 DEF Enqueue, Enqueued, TypeOK
  <2> QED
    BY <2>1, <2>2 DEF Quiet
<1>2. ASSUME NEW t \in Drains, Probe(t) \/ Send(t) PROVE Kept
  BY <1>2 DEF Probe, Send
<1>3. ASSUME NEW t \in Drains, Fetch(t) PROVE Quiet
  <2>1. attempts' = attempts /\ queue' = queue /\ created_at' = created_at
    BY <1>3 DEF Fetch
  <2>2. ASSUME NEW u \in Drains, NEW r \in Reports, r \in batch'[u]
        PROVE  \/ r \in batch[u] /\ seen'[u][r] = seen[u][r]
               \/ r \in queue /\ seen'[u][r] = attempts[r]
    <3>1. CASE u = t
      <4>1. r \in Eligible /\ r \in queue
        BY <1>3, <2>2, <3>1, EligibleBelowLimit DEF Fetch, TypeOK
      <4> QED
        BY <1>3, <3>1, <4>1 DEF Fetch, TypeOK
    <3>2. CASE u # t
      BY <1>3, <2>2, <3>2 DEF Fetch, TypeOK
    <3> QED
      BY <3>1, <3>2
  <2> QED
    BY <2>1, <2>2 DEF Quiet, Enqueued
<1>4. ASSUME NEW t \in Drains, Synced(t) PROVE Quiet
  <2>1. NextRecord(t) /\ MarkSynced(posting[t]) /\ created_at' = created_at
    BY <1>4 DEF Synced
  <2>2. posting[t] \in Reports
    BY <1>4 DEF Synced, RequestOK, TypeOK
  <2>3. ASSUME NEW u \in Drains, NEW r \in Reports, r \in batch'[u]
        PROVE  r \in batch[u] /\ seen'[u][r] = seen[u][r]
    <3>1. r \in batch[u] /\ (u = t => r # posting[t])
      BY <2>1, <2>3 DEF NextRecord, TypeOK
    <3> QED
      BY <2>1, <2>2, <3>1 DEF NextRecord, TypeOK
  <2>4. ASSUME NEW r \in Reports
        PROVE  /\ attempts'[r] = attempts[r] \/ (r \notin queue' /\ attempts'[r] = 0)
               /\ r \in queue' => r \in queue
               /\ r \in queue /\ r \notin queue' => attempts'[r] = 0
    BY <2>1, <2>2 DEF MarkSynced, TypeOK
  <2> QED
    BY <2>1, <2>3, <2>4 DEF Quiet, Enqueued
<1>5. ASSUME NEW t \in Threads, RefreshStep(t) PROVE Kept
  BY <1>5 DEF RefreshStep, ReadDepth, SetGauge
<1>6. ASSUME NEW t \in Threads, StorageFails(t) PROVE Kept
  BY <1>6 DEF StorageFails, Abort
<1>7. ASSUME Crash PROVE Kept
  BY <1>7 DEF Crash
<1>8. ASSUME NEW t \in Drains, NEW f \in BOOLEAN, StartDrain(t, f) PROVE Kept
  BY <1>8 DEF StartDrain
<1>9. ASSUME EnqueueFails \/ CheckConnectivity \/ Tick \/ SetClock PROVE Kept
  BY <1>9 DEF EnqueueFails, CheckConnectivity, Tick, SetClock, Fault
<1>10. ASSUME Server PROVE Kept
  BY <1>10 DEF Server, ServerAccepts, ServerRejects, LateArrival
<1> HIDE DEF Kept
<1> QED
  BY <1>0, <1>1, <1>2, <1>3, <1>4, <1>5, <1>6, <1>7, <1>8, <1>9, <1>10 DEF Next, DrainStep, Fails

\* The history counts the failed requests, and nothing else.
LEMMA FailuresStep ==
  ASSUME FailuresTyped, HistoryNext
  PROVE  /\ FailuresTyped'
         /\ \A r \in Reports, n \in Attempts :
              failures'[r][n] = IF FailsAt(r, n) THEN failures[r][n] + 1 ELSE failures[r][n]
<1>1. failures' = [r \in Reports |-> [n \in Attempts |->
                     IF FailsAt(r, n) THEN failures[r][n] + 1 ELSE failures[r][n]]]
  BY DEF HistoryNext
<1>2. \A r \in Reports, n \in Attempts : failures[r][n] \in Nat
  BY DEF FailuresTyped
<1> HIDE DEF FailsAt
<1> QED
  BY <1>1, <1>2 DEF FailuresTyped

\* When no request fails, the history stands still.
LEMMA QuietHistory ==
  ASSUME IInv, FailuresTyped, HistoryNext, \A t \in Drains : ~Fails(t)
  PROVE  \A r \in Reports, n \in Attempts : failures'[r][n] = failures[r][n]
<1>1. \A r \in Reports, n \in Attempts : ~FailsAt(r, n)
  BY DEF FailsAt, Fails
<1> QED
  BY <1>1, FailuresStep

------------------------------------------------------------------------------
(* Not given up early                                                       *)

\* Whoever counts some attempts for a report, its row or a drain, has a failure of each
\* number below to show for it.
CountsEarned ==
  /\ FailuresTyped
  /\ \A r \in Reports : \A n \in Attempts : n < attempts[r] => failures[r][n] > 0
  /\ \A t \in Drains : \A r \in batch[t] : \A n \in Attempts :
       n < seen[t][r] => failures[r][n] > 0

\* Every step keeps the counts earned.
LEMMA EarnedStep ==
  ASSUME IInv, CountsEarned, HistoryNext
  PROVE  CountsEarned'
<1> TypeOK
  BY DEF IInv
<1>1. FailuresTyped /\ FailuresTyped'
  BY FailuresStep DEF CountsEarned
<1>2. ASSUME NEW r \in Reports, NEW n \in Attempts
      PROVE  failures[r][n] \in Nat /\ failures'[r][n] \in Nat /\ failures'[r][n] >= failures[r][n]
  BY <1>1, <1>2, FailuresStep DEF FailuresTyped
<1>3. CASE \A t \in Drains : ~Fails(t)
  <2>1. Quiet
    BY <1>3, QuietStep DEF HistoryNext
  <2>2. ASSUME NEW r \in Reports, NEW n \in Attempts, n < attempts'[r]
        PROVE  failures'[r][n] > 0
    <3>1. attempts'[r] = attempts[r]
      BY <2>1, <2>2 DEF Quiet, Attempts
    <3> QED
      BY <1>2, <2>2, <3>1 DEF CountsEarned
  <2>3. ASSUME NEW t \in Drains, NEW r \in batch'[t], NEW n \in Attempts, n < seen'[t][r]
        PROVE  failures'[r][n] > 0
    <3>0. r \in Reports
      <4>1. TypeOK'
        BY NextInv DEF HistoryNext, IInv
      <4> QED
        BY <2>3, <4>1 DEF TypeOK
    <3>1. CASE r \in batch[t] /\ seen'[t][r] = seen[t][r]
      BY <1>2, <2>3, <3>0, <3>1 DEF CountsEarned
    <3>2. CASE seen'[t][r] = attempts[r]
      BY <1>2, <2>3, <3>0, <3>2 DEF CountsEarned
    <3> QED
      BY <2>1, <2>3, <3>0, <3>1, <3>2 DEF Quiet
  <2> QED
    BY <1>1, <2>2, <2>3 DEF CountsEarned
<1>4. ASSUME NEW t \in Drains, Fails(t) PROVE CountsEarned'
  <2> DEFINE x == posting[t]
             m == seen[t][x]
  <2>1. /\ x \in batch[t] /\ x \in Reports /\ m \in Attempts
        /\ attempts' = IF x \in queue THEN [attempts EXCEPT ![x] = m + 1] ELSE attempts
        /\ \A u \in Drains : \A r \in batch'[u] : r \in batch[u] /\ seen'[u][r] = seen[u][r]
        /\ FailsAt(x, m)
    BY <1>4, FailStep
  <2> HIDE DEF x, m
  <2>2. failures'[x][m] > 0
    BY <1>2, <2>1, FailuresStep DEF CountsEarned
  <2>3. ASSUME NEW r \in Reports, NEW n \in Attempts, n < attempts'[r]
        PROVE  failures'[r][n] > 0
    <3>1. CASE attempts'[r] = attempts[r]
      BY <1>2, <2>3, <3>1 DEF CountsEarned
    <3>2. CASE r = x /\ attempts'[r] = m + 1
      <4>1. n = m \/ n < m
        BY <2>1, <2>3, <3>2 DEF Attempts
      <4>2. n < m => failures[x][n] > 0
        BY <2>1 DEF CountsEarned, m
      <4> QED
        BY <1>2, <2>2, <3>2, <4>1, <4>2
    <3>3. attempts'[r] = attempts[r] \/ (r = x /\ attempts'[r] = m + 1)
      BY <2>1 DEF TypeOK
    <3> QED
      BY <3>1, <3>2, <3>3
  <2>4. ASSUME NEW u \in Drains, NEW r \in batch'[u], NEW n \in Attempts, n < seen'[u][r]
        PROVE  failures'[r][n] > 0
    <3>1. r \in batch[u] /\ seen'[u][r] = seen[u][r] /\ r \in Reports
      BY <2>1, <2>4 DEF TypeOK
    <3> QED
      BY <1>2, <2>4, <3>1 DEF CountsEarned
  <2> QED
    BY <1>1, <2>3, <2>4 DEF CountsEarned
<1> QED
  BY <1>3, <1>4

\* A record ends as a dead letter only after a failed request of each number of attempts,
\* however many drains overlap and overwrite each other's counts (_record_failure, which
\* writes the attempts of the batch plus one).
THEOREM GivenUpLate == HistorySpec => []DeadLettersTried
<1>1. HistoryInit => CountsEarned
  BY NumbersAssumption DEF HistoryInit, Init, CountsEarned, FailuresTyped, Attempts
<1>2. IInv /\ CountsEarned /\ [HistoryNext]_allVars => CountsEarned'
  <2>1. ASSUME CountsEarned, UNCHANGED allVars PROVE CountsEarned'
    BY <2>1 DEF CountsEarned, FailuresTyped, allVars, vars, table, request
  <2> QED
    BY <2>1, EarnedStep
<1>3. IInv /\ CountsEarned => DeadLettersTried
  <2> SUFFICES ASSUME IInv, CountsEarned, NEW r \in DeadLetters, NEW n \in Attempts
               PROVE  failures[r][n] > 0
    BY DEF DeadLettersTried
  <2>1. r \in Reports /\ attempts[r] >= MaxAttempts /\ attempts[r] \in Nat
    BY DEF DeadLetters, IInv, TypeOK
  <2>2. n < attempts[r]
    BY <2>1, NumbersAssumption DEF Attempts
  <2> QED
    BY <2>1, <2>2 DEF CountsEarned
<1> QED
  BY HistoryIsQueue, Invariance, <1>1, <1>2, <1>3, PTL DEF HistorySpec

------------------------------------------------------------------------------
(* Not tried for ever                                                       *)
(*                                                                          *)
(* While a row counts n attempts no request for it fails, and at most all   *)
(* the drains read the n.  It comes to count n by a failure after n - 1.    *)
(* So each failure after n - 1 is good for at most so many after n as       *)
(* there are drains.                                                        *)

\* The drains that hold r with n attempts.
Holders(r, n) == {t \in Drains : r \in batch[t] /\ seen[t][r] = n}

\* How often the row of r has come to count n attempts, at most.
Visits(r, n) == IF n = 0 THEN 1 ELSE failures[r][n - 1]

\* The failures there have been after n attempts, and those that the drains holding r may
\* still add, are within what its visits allow; and when the row counts n, the failures so
\* far are within what the earlier visits allow.
WithinVisits(r, n) ==
  /\ failures[r][n] + Cardinality(Holders(r, n)) <= Cardinality(Drains) * Visits(r, n)
  /\ r \in queue /\ attempts[r] = n =>
       failures[r][n] + Cardinality(Drains) <= Cardinality(Drains) * Visits(r, n)

RoomLeft ==
  /\ FailuresTyped
  /\ \A r \in Reports :
       /\ r \notin queue => attempts[r] = 0
       /\ r \notin Enqueued => \A n \in Attempts : failures[r][n] = 0
       /\ \A n \in Attempts : WithinVisits(r, n)

\* There are no more holders than drains, nor fewer holders in a larger set of them.
LEMMA HoldersBounded ==
  ASSUME IsFiniteSet(Drains), NEW S \in SUBSET Drains, NEW T \in SUBSET S
  PROVE  /\ Cardinality(Drains) \in Nat /\ Cardinality(S) \in Nat /\ Cardinality(T) \in Nat
         /\ Cardinality(T) <= Cardinality(S) /\ Cardinality(S) <= Cardinality(Drains)
         /\ \A t \in S : t \notin T => Cardinality(T) + 1 <= Cardinality(S)
<1>1. IsFiniteSet(S) /\ Cardinality(S) <= Cardinality(Drains)
  BY FS_Subset
<1>2. IsFiniteSet(T) /\ Cardinality(T) <= Cardinality(S)
  BY <1>1, FS_Subset
<1>3. Cardinality(Drains) \in Nat /\ Cardinality(S) \in Nat /\ Cardinality(T) \in Nat
  BY <1>1, <1>2, FS_CardinalityType
<1>4. ASSUME NEW t \in S, t \notin T PROVE Cardinality(T) + 1 <= Cardinality(S)
  <2>1. T \cup {t} \in SUBSET S
    BY <1>4
  <2>2. Cardinality(T \cup {t}) = Cardinality(T) + 1
    BY <1>2, <1>4, FS_AddElement
  <2> QED
    BY <1>1, <2>1, <2>2, FS_Subset
<1> QED
  BY <1>1, <1>2, <1>3, <1>4

\* A step without a failure: new holders have read the row, for which there is room.
LEMMA RoomQuiet ==
  ASSUME IInv, RoomLeft, HistoryNext, IsFiniteSet(Drains), \A t \in Drains : ~Fails(t)
  PROVE  RoomLeft'
<1> DEFINE N == Cardinality(Drains)
<1>1. Quiet /\ FailuresTyped /\ FailuresTyped'
  BY QuietStep, FailuresStep DEF HistoryNext, RoomLeft
<1>2. \A r \in Reports, n \in Attempts : failures'[r][n] = failures[r][n] /\ failures[r][n] \in Nat
  BY <1>1, QuietHistory DEF FailuresTyped
<1>3. queue \subseteq Enqueued /\ queue' \subseteq Enqueued'
  BY NextInv DEF HistoryNext, IInv, OnlyEnqueued
<1>4. ASSUME NEW r \in Reports
      PROVE  /\ r \notin queue' => attempts'[r] = 0
             /\ r \notin Enqueued' => \A n \in Attempts : failures'[r][n] = 0
  BY <1>1, <1>2, <1>3 DEF Quiet, RoomLeft
<1>5. ASSUME NEW r \in Reports, NEW n \in Attempts PROVE WithinVisits(r, n)'
  <2> DEFINE H == Holders(r, n)
             I == Holders(r, n)'
             f == failures[r][n]
             V == N * Visits(r, n)
  <2>1. N \in Nat /\ Cardinality(H) \in Nat /\ Cardinality(I) \in Nat /\ Cardinality(I) <= N
    BY HoldersBounded DEF Holders
  <2>2. Visits(r, n) \in Nat /\ Visits(r, n)' = Visits(r, n)
    <3>1. n # 0 => n - 1 \in Attempts
      BY NumbersAssumption DEF Attempts
    <3> QED
      BY <1>2, <3>1 DEF Visits
  <2>3. f \in Nat /\ V \in Nat
    BY <1>2, <2>1, <2>2
  <2>4. /\ f + Cardinality(H) <= V
        /\ r \in queue /\ attempts[r] = n => f + N <= V
    BY DEF RoomLeft, WithinVisits
  <2>5. f + Cardinality(I) <= V
    <3>1. CASE I \subseteq H
      <4>1. Cardinality(I) <= Cardinality(H)
        BY <3>1, HoldersBounded DEF Holders
      <4> HIDE DEF H, I, f, V
      <4> QED
        BY <2>1, <2>3, <2>4, <4>1
    <3>2. CASE ~(I \subseteq H)
      <4>1. r \in queue /\ attempts[r] = n
        BY <1>1, <3>2 DEF Holders, Quiet
      <4> HIDE DEF H, I, f, V
      <4> QED
        BY <2>1, <2>3, <2>4, <4>1
    <3> QED
      BY <3>1, <3>2
  <2>6. ASSUME r \in queue', attempts'[r] = n PROVE f + N <= V
    <3>1. attempts[r] = n
      BY <1>1, <2>6 DEF Quiet
    <3>2. CASE r \in queue
      BY <2>4, <3>1, <3>2
    <3>3. CASE r \notin queue
      <4>1. n = 0 /\ f = 0
        BY <1>1, <2>6, <3>1, <3>3 DEF Quiet, RoomLeft
      <4>2. V = N
        BY <2>1, <4>1 DEF Visits
      <4> QED
        BY <2>1, <4>1, <4>2
    <3> QED
      BY <3>2, <3>3
  <2>7. failures'[r][n] = f /\ Cardinality(Drains) * Visits(r, n)' = V
    BY <1>2, <2>2
  <2> HIDE DEF f, V
  <2> QED
    BY <2>5, <2>6, <2>7 DEF WithinVisits
<1> QED
  BY <1>1, <1>4, <1>5 DEF RoomLeft

\* A failed request uses up its drain's place, and is a visit to the next number.
LEMMA RoomFails ==
  ASSUME IInv, RoomLeft, HistoryNext, IsFiniteSet(Drains), NEW t \in Drains, Fails(t)
  PROVE  RoomLeft'
<1> DEFINE N == Cardinality(Drains)
           x == posting[t]
           m == seen[t][x]
<1>0. FailuresTyped /\ FailuresTyped' /\ TypeOK
  BY FailuresStep DEF RoomLeft, IInv
<1>1. /\ x \in batch[t] /\ x \in Reports /\ m \in Attempts
      /\ queue' = queue /\ created_at' = created_at
      /\ attempts' = IF x \in queue THEN [attempts EXCEPT ![x] = m + 1] ELSE attempts
      /\ x \notin batch'[t]
      /\ \A u \in Drains : \A r \in batch'[u] : r \in batch[u] /\ seen'[u][r] = seen[u][r]
      /\ \A r \in Reports, n \in Attempts : FailsAt(r, n) <=> r = x /\ n = m
  BY FailStep
<1>2. ASSUME NEW r \in Reports, NEW n \in Attempts, r = x, n = m
      PROVE  t \in Holders(r, n) /\ t \notin Holders(r, n)'
  BY <1>1, <1>2 DEF Holders
<1> HIDE DEF x, m
<1>3. ASSUME NEW r \in Reports, NEW n \in Attempts
      PROVE  /\ failures[r][n] \in Nat
             /\ failures'[r][n] = IF r = x /\ n = m THEN failures[r][n] + 1 ELSE failures[r][n]
  BY <1>0, <1>1, FailuresStep DEF FailuresTyped
<1>4. ASSUME NEW r \in Reports
      PROVE  /\ r \notin queue' => attempts'[r] = 0
             /\ r \notin Enqueued' => \A n \in Attempts : failures'[r][n] = 0
  <2>1. x \in Enqueued /\ Enqueued' = Enqueued
    BY <1>1 DEF IInv, OnlyEnqueued, Enqueued
  <2>2. r \notin queue' => attempts'[r] = attempts[r]
    BY <1>0, <1>1 DEF TypeOK
  <2> QED
    BY <1>1, <1>3, <2>1, <2>2 DEF RoomLeft
<1>5. ASSUME NEW r \in Reports, NEW n \in Attempts PROVE WithinVisits(r, n)'
  <2> DEFINE H == Holders(r, n)
             I == Holders(r, n)'
             f == failures[r][n]
             g == failures'[r][n]
             v == Visits(r, n)
             w == Visits(r, n)'
  <2>1. I \subseteq H /\ H \subseteq Drains
    BY <1>1 DEF Holders
  <2>2. N \in Nat /\ Cardinality(H) \in Nat /\ Cardinality(I) \in Nat
        /\ Cardinality(I) <= Cardinality(H)
    <3> HIDE DEF H, I
    <3> QED
      BY <2>1, HoldersBounded
  <2>3. v \in Nat /\ w \in Nat /\ w >= v /\ (r = x /\ n = m + 1 => w = v + 1)
    <3>1. n \in Nat /\ m \in Nat /\ (n # 0 => n - 1 \in Attempts)
      BY <1>1, NumbersAssumption DEF Attempts
    <3>2. CASE n = 0
      BY <3>1, <3>2 DEF Visits
    <3>3. CASE n # 0
      <4>1. /\ failures[r][n - 1] \in Nat
            /\ failures'[r][n - 1] = IF r = x /\ n - 1 = m THEN failures[r][n - 1] + 1
                                                          ELSE failures[r][n - 1]
        BY <1>3, <3>1, <3>3
      <4>2. v = failures[r][n - 1] /\ w = failures'[r][n - 1]
        BY <3>3 DEF Visits
      <4> HIDE DEF v, w
      <4> QED
        BY <3>1, <4>1, <4>2
    <3> QED
      BY <3>2, <3>3
  <2>4. f \in Nat /\ g = IF r = x /\ n = m THEN f + 1 ELSE f
    BY <1>3
  <2>5. /\ f + Cardinality(H) <= N * v
        /\ r \in queue /\ attempts[r] = n => f + N <= N * v
    BY DEF RoomLeft, WithinVisits
  <2>6. g + Cardinality(I) <= f + Cardinality(H)
    <3>1. CASE r = x /\ n = m
      <4>1. t \in H /\ t \notin I
        BY <1>2, <3>1
      <4>2. Cardinality(I) + 1 <= Cardinality(H)
        <5> HIDE DEF H, I
        <5> QED
          BY <2>1, <4>1, HoldersBounded
      <4> HIDE DEF H, I, f, g
      <4> QED
        BY <2>2, <2>4, <3>1, <4>2
    <3>2. CASE ~(r = x /\ n = m)
      <4> HIDE DEF H, I, f, g
      <4> QED
        BY <2>2, <2>4, <3>2
    <3> QED
      BY <3>1, <3>2
  <2>7. N * v \in Nat /\ N * w \in Nat /\ N * v <= N * w /\ (w = v + 1 => N * w = N * v + N)
    <3> HIDE DEF N, v, w
    <3> QED
      BY <2>2, <2>3
  <2>8. g \in Nat
    <3> HIDE DEF f, g
    <3> QED
      BY <2>4
  <2>9. ASSUME r \in queue', attempts'[r] = n PROVE g + N <= N * w
    <3>1. CASE r = x
      <4>1. n = m + 1
        BY <1>0, <1>1, <2>9, <3>1 DEF TypeOK
      <4>2. w = v + 1 /\ g = f
        <5> HIDE DEF f, g, v, w
        <5> QED
          BY <1>1, <2>3, <2>4, <3>1, <4>1 DEF Attempts
      <4> HIDE DEF f, g, v, w, H, N
      <4> QED
        BY <2>2, <2>4, <2>5, <2>7, <4>2
    <3>2. CASE r # x
      <4>1. r \in queue /\ attempts[r] = n
        BY <1>0, <1>1, <2>9, <3>2 DEF TypeOK
      <4>2. f + N <= N * v /\ g = f
        BY <2>4, <2>5, <3>2, <4>1
      <4> HIDE DEF f, g, v, w, H, N
      <4> QED
        BY <2>2, <2>4, <2>7, <4>2
    <3> QED
      BY <3>1, <3>2
  <2>10. g + Cardinality(I) <= N * w
    <3> HIDE DEF f, g, v, w, H, I, N
    <3> QED
      BY <2>2, <2>4, <2>5, <2>6, <2>7, <2>8
  <2> QED
    BY <2>9, <2>10 DEF WithinVisits
<1> QED
  BY <1>0, <1>4, <1>5 DEF RoomLeft

\* The powers of the number of drains.
LEMMA OverlapPowers ==
  ASSUME IsFiniteSet(Drains)
  PROVE  /\ Cardinality(Drains) \in Nat
         /\ Overlap[0] = 1
         /\ \A n \in Nat : Overlap[n + 1] = Cardinality(Drains) * Overlap[n]
         /\ \A n \in Nat : Overlap[n] \in Nat
<1> DEFINE N == Cardinality(Drains)
           V == Nat
           one == 1
           step == [n \in Nat |-> [v \in Nat |-> N * v]]
<1>0. N \in Nat
  BY FS_CardinalityType
<1> HIDE DEF N
<1>1. one \in V /\ step \in [Nat -> [V -> V]]
  BY <1>0
<1>2. \A n \in Nat, v \in Nat : step[n][v] = N * v
  OBVIOUS
<1> HIDE DEF step
<1>3. \E f \in [Nat -> V] : Iterates(f, one, step)
  <2> HIDE DEF V, one
  <2> QED
    BY <1>1, RecursionExists
<1>4. PICK f \in [Nat -> Nat] : f[0] = 1 /\ \A n \in Nat : f[n + 1] = step[n][f[n]]
  BY <1>3 DEF Iterates
<1>5. ASSUME NEW n \in Nat PROVE f[n] = IF n = 0 THEN 1 ELSE N * f[n - 1]
  <2>1. CASE n # 0
    <3>1. n - 1 \in Nat /\ (n - 1) + 1 = n /\ f[n - 1] \in Nat
      BY <2>1
    <3>2. f[(n - 1) + 1] = step[n - 1][f[n - 1]]
      BY <1>4, <3>1
    <3> QED
      BY <1>2, <2>1, <3>1, <3>2
  <2> QED
    BY <1>4, <2>1
<1>6. f = [n \in Nat |-> IF n = 0 THEN 1 ELSE N * f[n - 1]]
  BY <1>5
<1>7. Overlap = [n \in Nat |-> IF n = 0 THEN 1 ELSE N * Overlap[n - 1]]
  BY <1>6 DEF Overlap, N
<1>8. Overlap[0] = 1 /\ \A n \in Nat : Overlap[n + 1] = N * Overlap[n]
  BY <1>7
<1> DEFINE Numbers == {n \in Nat : Overlap[n] \in Nat}
<1>9. 0 \in Numbers /\ \A n \in Nat : n \in Numbers => n + 1 \in Numbers
  BY <1>0, <1>8
<1>10. Nat \subseteq Numbers
  <2> HIDE DEF Numbers
  <2> QED
    BY <1>9, Induction
<1> QED
  BY <1>0, <1>8, <1>10 DEF N

\* Each failure after n - 1 attempts allows one round of the drains after n: that makes,
\* by induction on n, the bound.
LEMMA RoomIsBound ==
  ASSUME IInv, RoomLeft, IsFiniteSet(Drains)
  PROVE  RetriesBounded
<1> DEFINE N == Cardinality(Drains)
<1>1. N \in Nat /\ Overlap[0] = 1 /\ (\A n \in Nat : Overlap[n + 1] = N * Overlap[n])
      /\ \A n \in Nat : Overlap[n] \in Nat
  BY OverlapPowers
<1>2. ASSUME NEW r \in Reports, NEW n \in Attempts
      PROVE  failures[r][n] \in Nat /\ failures[r][n] <= N * Visits(r, n)
  <2>1. failures[r][n] \in Nat /\ failures[r][n] + Cardinality(Holders(r, n)) <= N * Visits(r, n)
    BY DEF RoomLeft, WithinVisits, FailuresTyped
  <2>2. Cardinality(Holders(r, n)) \in Nat
    BY HoldersBounded DEF Holders
  <2>3. Visits(r, n) \in Nat
    <3>1. n # 0 => n - 1 \in Attempts
      BY NumbersAssumption DEF Attempts
    <3> QED
      BY <3>1 DEF RoomLeft, FailuresTyped, Visits
  <2>4. N * Visits(r, n) \in Nat
    BY <1>1, <2>3
  <2> QED
    BY <2>1, <2>2, <2>4
<1> HIDE DEF N
<1>3. ASSUME NEW r \in Reports
      PROVE  \A n \in Attempts : failures[r][n] <= Overlap[n + 1]
  <2> DEFINE S == {n \in Nat : n \in Attempts => failures[r][n] <= Overlap[n + 1]}
  <2>1. 0 \in S
    <3> SUFFICES ASSUME 0 \in Attempts PROVE failures[r][0] <= Overlap[0 + 1]
      OBVIOUS
    <3>1. failures[r][0] <= N * 1
      BY <1>2 DEF Visits
    <3>2. Overlap[0 + 1] = N * 1
      BY <1>1
    <3> QED
      BY <3>1, <3>2
  <2>2. ASSUME NEW n \in Nat, n \in S PROVE n + 1 \in S
    <3> SUFFICES ASSUME n + 1 \in Attempts PROVE failures[r][n + 1] <= Overlap[(n + 1) + 1]
      OBVIOUS
    <3>1. n \in Attempts
      BY NumbersAssumption DEF Attempts
    <3>2. failures[r][n] \in Nat /\ failures[r][n] <= Overlap[n + 1] /\ Overlap[n + 1] \in Nat
      BY <1>1, <1>2, <2>2, <3>1
    <3>3. N * failures[r][n] <= N * Overlap[n + 1]
      BY <1>1, <3>2
    <3>4. failures[r][n + 1] \in Nat /\ failures[r][n + 1] <= N * failures[r][n]
      <4>1. Visits(r, n + 1) = failures[r][n]
        BY DEF Visits
      <4> QED
        BY <1>2, <4>1
    <3>5. Overlap[(n + 1) + 1] = N * Overlap[n + 1]
      BY <1>1
    <3>6. N * failures[r][n] \in Nat /\ N * Overlap[n + 1] \in Nat
      BY <1>1, <3>2
    <3> QED
      BY <3>3, <3>4, <3>5, <3>6
  <2>3. Nat \subseteq S
    <3> HIDE DEF S
    <3> QED
      BY <2>1, <2>2, Induction
  <2> QED
    BY <2>3 DEF Attempts
<1> QED
  BY <1>3 DEF RetriesBounded

\* No record is tried for ever: with any finite number of drains at a time, the requests
\* for it fail a bounded number of times after each number of attempts, although a drain
\* that is behind sets its count back (_record_failure, _fetch_eligible_records).
THEOREM NotForEver == IsFiniteSet(Drains) => (HistorySpec => []RetriesBounded)
<1> SUFFICES ASSUME IsFiniteSet(Drains) PROVE HistorySpec => []RetriesBounded
  OBVIOUS
<1>1. HistoryInit => RoomLeft
  <2> SUFFICES ASSUME HistoryInit PROVE RoomLeft
    OBVIOUS
  <2>1. FailuresTyped /\ (\A r \in Reports, n \in Attempts : failures[r][n] = 0)
    BY DEF HistoryInit, FailuresTyped
  <2>2. ASSUME NEW r \in Reports, NEW n \in Attempts PROVE WithinVisits(r, n)
    <3>1. Holders(r, n) = {} /\ r \notin queue
      BY DEF HistoryInit, Init, Holders
    <3>2. Cardinality(Holders(r, n)) = 0
      BY <3>1, FS_EmptySet
    <3>3. Visits(r, n) \in Nat
      <4>1. n # 0 => n - 1 \in Attempts
        BY NumbersAssumption DEF Attempts
      <4> QED
        BY <2>1, <4>1 DEF Visits
    <3>4. Cardinality(Drains) * Visits(r, n) \in Nat
      BY <3>3, FS_CardinalityType
    <3> QED
      BY <2>1, <3>1, <3>2, <3>4 DEF WithinVisits
  <2>3. \A r \in Reports : attempts[r] = 0
    BY DEF HistoryInit, Init
  <2> QED
    BY <2>1, <2>2, <2>3 DEF RoomLeft
<1>2. IInv /\ RoomLeft /\ [HistoryNext]_allVars => RoomLeft'
  <2> SUFFICES ASSUME IInv, RoomLeft, [HistoryNext]_allVars PROVE RoomLeft'
    OBVIOUS
  <2>1. CASE UNCHANGED allVars
    BY <2>1 DEF RoomLeft, WithinVisits, Visits, Holders, FailuresTyped, Enqueued, allVars, vars, table, request
  <2>2. CASE HistoryNext
    BY <2>2, RoomQuiet, RoomFails
  <2> QED
    BY <2>1, <2>2
<1>3. IInv /\ RoomLeft => RetriesBounded
  BY RoomIsBound
<1> QED
  BY HistoryIsQueue, Invariance, <1>1, <1>2, <1>3, PTL DEF HistorySpec
==============================================================================
