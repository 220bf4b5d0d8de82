--------------------------- MODULE SyncQueueProofs ---------------------------
(***************************************************************************)
(* Theorems about SyncQueue, for every number of reports and of concurrent *)
(* drains, every limit of attempts, batch size and backoff, and any number *)
(* of crashes and storage errors.                                          *)
(***************************************************************************)
EXTENDS SyncQueue, FiniteSetTheorems, NatLemmas, TLAPS

(***************************************************************************)
(* The inductive invariant.  NoReportLost alone is not inductive: a row is *)
(* deleted on the strength of an answer, so the invariant has to say that  *)
(* an accepting answer is about a report the server has; and what a thread *)
(* works on has to be known to be an enqueued report.                      *)
(***************************************************************************)

\* A thread has a request under way exactly while it waits for the answer.
RequestOK ==
  \A t \in Drains :
    /\ pc[t] = "wait" => posting[t] \in batch[t]
    /\ pc[t] # "wait" => answer[t] = "none"

\* An accepting answer is given for what the server has stored.
AnswersOK == \A t \in Drains : answer[t] = "accepted" => posting[t] \in received

\* Rows, batches, requests and deliveries are of enqueued reports only.
OnlyEnqueued ==
  /\ queue \subseteq Enqueued
  /\ \A t \in Drains : batch[t] \subseteq Enqueued
  /\ received \subseteq Enqueued
  /\ late \subseteq Enqueued

IInv == TypeOK /\ RequestOK /\ AnswersOK /\ OnlyEnqueued /\ NoReportLost

------------------------------------------------------------------------------

\* Counting the rows, and the reports ever enqueued, yields a number.
LEMMA CountsAreNat ==
  ASSUME TypeOK
  PROVE  /\ Cardinality(queue) \in Nat
         /\ Cardinality(Enqueued) \in Nat
<1>1. IsFiniteSet(queue)
  BY ReportsAssumption, FS_Subset DEF TypeOK
<1>2. IsFiniteSet(Enqueued)
  BY ReportsAssumption, FS_Subset DEF Enqueued
<1> QED
  BY <1>1, <1>2, FS_CardinalityType

\* A drain reads only records it may still count an attempt for.
LEMMA EligibleBelowLimit ==
  ASSUME TypeOK
  PROVE  /\ Eligible \subseteq queue
         /\ \A r \in Eligible : attempts[r] \in 0..MaxAttempts - 1
<1>1. Eligible \subseteq Retryable
  BY DEF Eligible, FirstInLine
<1> QED
  BY <1>1, NumbersAssumption DEF Retryable, TypeOK

\* What the requests still under way are about.
LEMMA UnansweredEnqueued ==
  ASSUME TypeOK, RequestOK, OnlyEnqueued, NEW ts
  PROVE  Unanswered(ts) \subseteq Enqueued
  BY DEF TypeOK, RequestOK, OnlyEnqueued, Unanswered

\* The inductive invariant holds at the start.
LEMMA InitInv == Init => IInv
<1> SUFFICES ASSUME Init PROVE IInv
  OBVIOUS
<1>1. TypeOK
  BY NumbersAssumption DEF Init, TypeOK, ConnectivityStates
<1>2. RequestOK /\ AnswersOK /\ OnlyEnqueued /\ NoReportLost
  BY ThreadsAssumption DEF Init, RequestOK, AnswersOK, OnlyEnqueued, NoReportLost, Enqueued, Threads
<1> QED
  BY <1>1, <1>2 DEF IInv
\* Every step keeps the inductive invariant.
LEMMA NextInv == IInv /\ [Next]_vars => IInv'
<1> SUFFICES ASSUME IInv, [Next]_vars PROVE IInv'
  OBVIOUS
<1> TypeOK /\ RequestOK /\ AnswersOK /\ OnlyEnqueued /\ NoReportLost
  BY DEF IInv
<1> USE DEF table, request, server, Goto
<1>1. ASSUME NEW r \in Reports, Enqueue(r) PROVE IInv'
  <2>0. Cardinality(Enqueued) \in Nat
    BY CountsAreNat
  <2>1. Enqueued' = Enqueued \cup {r}
    <3>1. created_at' = [created_at EXCEPT ![r] = Cardinality(Enqueued) + 1]
      BY <1>1 DEF Enqueue
    <3>2. \A x \in Reports : created_at'[x] # 0 <=> created_at[x] # 0 \/ x = r
      BY <2>0, <3>1 DEF TypeOK
    <3> QED
      BY <3>2 DEF Enqueued
  <2>2. TypeOK'
    BY <1>1, <2>0, NumbersAssumption DEF TypeOK, Enqueue, Threads
  <2>3. RequestOK' /\ AnswersOK'
    BY <1>1, <2>1, ThreadsAssumption DEF TypeOK, RequestOK, AnswersOK, OnlyEnqueued, Enqueue
  <2>4. OnlyEnqueued' /\ NoReportLost'
    BY <1>1, <2>1 DEF OnlyEnqueued, NoReportLost, Enqueue
  <2> QED
    BY <2>2, <2>3, <2>4 DEF IInv
<1>2. ASSUME EnqueueFails PROVE IInv'
  <2>1. TypeOK'
    BY <1>2, NumbersAssumption DEF TypeOK, RequestOK, EnqueueFails, Fault
  <2>2. RequestOK' /\ AnswersOK'
    BY <1>2, ThreadsAssumption DEF TypeOK, RequestOK, AnswersOK, OnlyEnqueued, EnqueueFails, Fault
  <2>3. OnlyEnqueued' /\ NoReportLost'
    BY <1>2 DEF TypeOK, RequestOK, AnswersOK, OnlyEnqueued, NoReportLost, EnqueueFails, Fault, Enqueued
  <2> QED
    BY <2>1, <2>2, <2>3 DEF IInv
<1>3. ASSUME NEW t \in Drains, NEW f \in BOOLEAN, StartDrain(t, f) PROVE IInv'
  <2>1. TypeOK'
    BY <1>3, NumbersAssumption DEF TypeOK, RequestOK, StartDrain, Threads
  <2>2. RequestOK' /\ AnswersOK'
    BY <1>3, ThreadsAssumption DEF TypeOK, RequestOK, AnswersOK, OnlyEnqueued, StartDrain, Threads
  <2>3. OnlyEnqueued' /\ NoReportLost'
    BY <1>3 DEF TypeOK, RequestOK, AnswersOK, OnlyEnqueued, NoReportLost, StartDrain, Threads, Enqueued
  <2> QED
    BY <2>1, <2>2, <2>3 DEF IInv
<1>4. ASSUME NEW t \in Drains, Probe(t) PROVE IInv'
  <2>1. TypeOK'
    BY <1>4, NumbersAssumption DEF TypeOK, RequestOK, Probe, Threads
  <2>2. RequestOK' /\ AnswersOK'
    BY <1>4, ThreadsAssumption DEF TypeOK, RequestOK, AnswersOK, OnlyEnqueued, Probe, Threads
  <2>3. OnlyEnqueued' /\ NoReportLost'
    BY <1>4 DEF TypeOK, RequestOK, AnswersOK, OnlyEnqueued, NoReportLost, Probe, Threads, Enqueued
  <2> QED
    BY <2>1, <2>2, <2>3 DEF IInv
<1>5. ASSUME NEW t \in Drains, Fetch(t) PROVE IInv'
  <2>1. TypeOK'
    BY <1>5, EligibleBelowLimit, NumbersAssumption DEF TypeOK, RequestOK, Fetch, Threads
  <2>2. RequestOK' /\ AnswersOK'
    BY <1>5, ThreadsAssumption DEF TypeOK, RequestOK, AnswersOK, OnlyEnqueued, Fetch, Threads
  <2>3. OnlyEnqueued' /\ NoReportLost'
    BY <1>5, EligibleBelowLimit DEF TypeOK, RequestOK, AnswersOK, OnlyEnqueued, NoReportLost, Fetch, Threads, Enqueued
  <2> QED
    BY <2>1, <2>2, <2>3 DEF IInv
<1>6. ASSUME NEW t \in Drains, Send(t) PROVE IInv'
  <2>1. TypeOK'
    BY <1>6, NumbersAssumption DEF TypeOK, RequestOK, Send, Threads
  <2>2. RequestOK' /\ AnswersOK'
    BY <1>6, ThreadsAssumption DEF TypeOK, RequestOK, AnswersOK, OnlyEnqueued, Send, Threads
  <2>3. OnlyEnqueued' /\ NoReportLost'
    BY <1>6 DEF TypeOK, RequestOK, AnswersOK, OnlyEnqueued, NoReportLost, Send, Threads, Enqueued
  <2> QED
    BY <2>1, <2>2, <2>3 DEF IInv
<1>7. ASSUME NEW t \in Drains, Synced(t) PROVE IInv'
  <2>1. TypeOK'
    BY <1>7, NumbersAssumption DEF TypeOK, RequestOK, Synced, MarkSynced, NextRecord, Threads
  <2>2. RequestOK' /\ AnswersOK'
    BY <1>7, ThreadsAssumption DEF TypeOK, RequestOK, AnswersOK, OnlyEnqueued, Synced, MarkSynced, NextRecord, Threads
  <2>3. OnlyEnqueued' /\ NoReportLost'
    BY <1>7 DEF TypeOK, RequestOK, AnswersOK, OnlyEnqueued, NoReportLost, Synced, MarkSynced, NextRecord, Threads, Enqueued
  <2> QED
    BY <2>1, <2>2, <2>3 DEF IInv
<1>8. ASSUME NEW t \in Drains, Rejected(t) PROVE IInv'
  <2>1. TypeOK'
    BY <1>8, NumbersAssumption DEF TypeOK, RequestOK, Rejected, RecordFailure, NextRecord, Threads
  <2>2. RequestOK' /\ AnswersOK'
    BY <1>8, ThreadsAssumption DEF TypeOK, RequestOK, AnswersOK, OnlyEnqueued, Rejected, RecordFailure, NextRecord, Threads
  <2>3. OnlyEnqueued' /\ NoReportLost'
    BY <1>8 DEF TypeOK, RequestOK, AnswersOK, OnlyEnqueued, NoReportLost, Rejected, RecordFailure, NextRecord, Threads, Enqueued
  <2> QED
    BY <2>1, <2>2, <2>3 DEF IInv
<1>9. ASSUME NEW t \in Drains, NetworkError(t) PROVE IInv'
  <2>1. Unanswered({t}) \subseteq Enqueued /\ Enqueued \subseteq Reports
    BY UnansweredEnqueued DEF Enqueued
  <2>2. TypeOK'
    <3>1. late' \subseteq Reports
      BY <1>9, <2>1 DEF TypeOK, NetworkError
    <3>2. (pc \in [Threads -> {"idle", "probe", "fetch", "send", "wait", "depth", "gauge"}]
           /\ batch \in [Drains -> SUBSET Reports]
           /\ posting \in [Drains -> Reports \cup {NoReport}]
           /\ answer \in [Drains -> {"none", "accepted", "rejected"}])'
      BY <1>9 DEF TypeOK, RequestOK, NetworkError, RecordFailure, NextRecord, Threads
    <3>3. (seen \in [Drains -> [Reports -> 0..MaxAttempts - 1]])'
      BY <1>9, NumbersAssumption DEF TypeOK, RequestOK, NetworkError, RecordFailure, NextRecord, Threads
    <3>4. (queue \subseteq Reports
           /\ attempts \in [Reports -> 0..MaxAttempts]
           /\ waited \in [Reports -> Int]
           /\ created_at \in [Reports -> Nat]
           /\ last_state \in ConnectivityStates
           /\ gauge \in Nat
           /\ depth \in [Threads -> Nat]
           /\ received \subseteq Reports
           /\ faults \in Nat)'
      BY <1>9, NumbersAssumption DEF TypeOK, RequestOK, NetworkError, RecordFailure, NextRecord
    <3> QED
      BY <3>1, <3>2, <3>3, <3>4 DEF TypeOK
  <2>3. RequestOK' /\ AnswersOK'
    BY <1>9, <2>1, ThreadsAssumption DEF TypeOK, RequestOK, AnswersOK, OnlyEnqueued, NetworkError, RecordFailure, NextRecord, Threads
  <2>4. OnlyEnqueued' /\ NoReportLost'
    BY <1>9, <2>1 DEF TypeOK, RequestOK, AnswersOK, OnlyEnqueued, NoReportLost, NetworkError, RecordFailure, NextRecord, Threads, Enqueued
  <2> QED
    BY <2>2, <2>3, <2>4 DEF IInv
<1>10. ASSUME NEW t \in Threads, ReadDepth(t) PROVE IInv'
  <2>1. TypeOK'
    BY <1>10, CountsAreNat, NumbersAssumption DEF TypeOK, RequestOK, ReadDepth, Threads
  <2>2. RequestOK' /\ AnswersOK'
    BY <1>10, ThreadsAssumption DEF TypeOK, RequestOK, AnswersOK, OnlyEnqueued, ReadDepth, Threads
  <2>3. OnlyEnqueued' /\ NoReportLost'
    BY <1>10, CountsAreNat DEF TypeOK, RequestOK, AnswersOK, OnlyEnqueued, NoReportLost, ReadDepth, Threads, Enqueued
  <2> QED
    BY <2>1, <2>2, <2>3 DEF IInv
<1>11. ASSUME NEW t \in Threads, SetGauge(t) PROVE IInv'
  <2>1. TypeOK'
    BY <1>11, NumbersAssumption DEF TypeOK, RequestOK, SetGauge, Threads
  <2>2. RequestOK' /\ AnswersOK'
    BY <1>11, ThreadsAssumption DEF TypeOK, RequestOK, AnswersOK, OnlyEnqueued, SetGauge, Threads
  <2>3. OnlyEnqueued' /\ NoReportLost'
    BY <1>11 DEF TypeOK, RequestOK, AnswersOK, OnlyEnqueued, NoReportLost, SetGauge, Threads, Enqueued
  <2> QED
    BY <2>1, <2>2, <2>3 DEF IInv
<1>12. ASSUME NEW t \in Threads, StorageFails(t) PROVE IInv'
  <2>1. Unanswered({t}) \subseteq Enqueued /\ Enqueued \subseteq Reports
    BY UnansweredEnqueued DEF Enqueued
  <2>2. TypeOK'
    <3>1. late' \subseteq Reports
      BY <1>12, <2>1 DEF TypeOK, StorageFails
    <3>2. (pc \in [Threads -> {"idle", "probe", "fetch", "send", "wait", "depth", "gauge"}]
           /\ batch \in [Drains -> SUBSET Reports]
           /\ posting \in [Drains -> Reports \cup {NoReport}]
           /\ answer \in [Drains -> {"none", "accepted", "rejected"}])'
      BY <1>12 DEF TypeOK, RequestOK, StorageFails, Abort, Fault, Threads
    <3>3. (seen \in [Drains -> [Reports -> 0..MaxAttempts - 1]])'
      BY <1>12, NumbersAssumption DEF TypeOK, RequestOK, StorageFails, Abort, Fault, Threads
    <3>4. (queue \subseteq Reports
           /\ attempts \in [Reports -> 0..MaxAttempts]
           /\ waited \in [Reports -> Int]
           /\ created_at \in [Reports -> Nat]
           /\ last_state \in ConnectivityStates
           /\ gauge \in Nat
           /\ depth \in [Threads -> Nat]
           /\ received \subseteq Reports
           /\ faults \in Nat)'
      BY <1>12, NumbersAssumption DEF TypeOK, RequestOK, StorageFails, Abort, Fault
    <3> QED
      BY <3>1, <3>2, <3>3, <3>4 DEF TypeOK
  <2>3. RequestOK' /\ AnswersOK'
    BY <1>12, <2>1, ThreadsAssumption DEF TypeOK, RequestOK, AnswersOK, OnlyEnqueued, StorageFails, Abort, Fault, Threads
  <2>4. OnlyEnqueued' /\ NoReportLost'
    BY <1>12, <2>1 DEF TypeOK, RequestOK, AnswersOK, OnlyEnqueued, NoReportLost, StorageFails, Abort, Fault, Threads, Enqueued
  <2> QED
    BY <2>2, <2>3, <2>4 DEF IInv
<1>13. ASSUME Crash PROVE IInv'
  <2>1. Unanswered(Drains) \subseteq Enqueued /\ Enqueued \subseteq Reports
    BY UnansweredEnqueued DEF Enqueued
  <2>2. TypeOK'
    BY <1>13, <2>1, NumbersAssumption DEF TypeOK, RequestOK, Crash, Fault, Threads, ConnectivityStates
  <2>3. RequestOK' /\ AnswersOK'
    BY <1>13, <2>1, ThreadsAssumption DEF TypeOK, RequestOK, AnswersOK, OnlyEnqueued, Crash, Fault, Threads, ConnectivityStates
  <2>4. OnlyEnqueued' /\ NoReportLost'
    BY <1>13, <2>1 DEF TypeOK, RequestOK, AnswersOK, OnlyEnqueued, NoReportLost, Crash, Fault, Threads, ConnectivityStates, Enqueued
  <2> QED
    BY <2>2, <2>3, <2>4 DEF IInv
<1>14. ASSUME CheckConnectivity PROVE IInv'
  <2>1. TypeOK'
    BY <1>14, NumbersAssumption DEF TypeOK, RequestOK, CheckConnectivity
  <2>2. RequestOK' /\ AnswersOK'
    BY <1>14, ThreadsAssumption DEF TypeOK, RequestOK, AnswersOK, OnlyEnqueued, CheckConnectivity
  <2>3. OnlyEnqueued' /\ NoReportLost'
    BY <1>14 DEF TypeOK, RequestOK, AnswersOK, OnlyEnqueued, NoReportLost, CheckConnectivity, Enqueued
  <2> QED
    BY <2>1, <2>2, <2>3 DEF IInv
<1>15. ASSUME NEW t \in Drains, ServerAccepts(t) PROVE IInv'
  <2>1. TypeOK'
    BY <1>15, NumbersAssumption DEF TypeOK, RequestOK, ServerAccepts, Threads
  <2>2. RequestOK' /\ AnswersOK'
    BY <1>15, ThreadsAssumption DEF TypeOK, RequestOK, AnswersOK, OnlyEnqueued, ServerAccepts, Threads
  <2>3. OnlyEnqueued' /\ NoReportLost'
    BY <1>15 DEF TypeOK, RequestOK, AnswersOK, OnlyEnqueued, NoReportLost, ServerAccepts, Threads, Enqueued
  <2> QED
    BY <2>1, <2>2, <2>3 DEF IInv
<1>16. ASSUME NEW t \in Drains, NEW stored \in BOOLEAN, ServerRejects(t, stored) PROVE IInv'
  <2>1. TypeOK'
    BY <1>16, NumbersAssumption DEF TypeOK, RequestOK, ServerRejects, Threads
  <2>2. RequestOK' /\ AnswersOK'
    BY <1>16, ThreadsAssumption DEF TypeOK, RequestOK, AnswersOK, OnlyEnqueued, ServerRejects, Threads
  <2>3. OnlyEnqueued' /\ NoReportLost'
    BY <1>16 DEF TypeOK, RequestOK, AnswersOK, OnlyEnqueued, NoReportLost, ServerRejects, Threads, Enqueued
  <2> QED
    BY <2>1, <2>2, <2>3 DEF IInv
<1>17. ASSUME NEW r \in Reports, LateArrival(r) PROVE IInv'
  <2>1. TypeOK'
    BY <1>17, NumbersAssumption DEF TypeOK, RequestOK, LateArrival
  <2>2. RequestOK' /\ AnswersOK'
    BY <1>17, ThreadsAssumption DEF TypeOK, RequestOK, AnswersOK, OnlyEnqueued, LateArrival
  <2>3. OnlyEnqueued' /\ NoReportLost'
    BY <1>17 DEF TypeOK, RequestOK, AnswersOK, OnlyEnqueued, NoReportLost, LateArrival, Enqueued
  <2> QED
    BY <2>1, <2>2, <2>3 DEF IInv
<1>18. ASSUME Tick PROVE IInv'
  <2>1. TypeOK'
    BY <1>18, NumbersAssumption DEF TypeOK, RequestOK, Tick
  <2>2. RequestOK' /\ AnswersOK'
    BY <1>18, ThreadsAssumption DEF TypeOK, RequestOK, AnswersOK, OnlyEnqueued, Tick
  <2>3. OnlyEnqueued' /\ NoReportLost'
    BY <1>18 DEF TypeOK, RequestOK, AnswersOK, OnlyEnqueued, NoReportLost, Tick, Enqueued
  <2> QED
    BY <2>1, <2>2, <2>3 DEF IInv
<1>19. ASSUME SetClock PROVE IInv'
  <2>1. TypeOK'
    <3>1. waited' \in [Reports -> Int]
      BY <1>19 DEF TypeOK, SetClock
    <3> QED
      BY <1>19, <3>1 DEF TypeOK, SetClock, Fault
  <2>2. RequestOK' /\ AnswersOK'
    BY <1>19 DEF RequestOK, AnswersOK, SetClock
  <2>3. OnlyEnqueued' /\ NoReportLost'
    BY <1>19 DEF OnlyEnqueued, NoReportLost, SetClock, Enqueued
  <2> QED
    BY <2>1, <2>2, <2>3 DEF IInv
<1>20. CASE UNCHANGED vars
  BY <1>20 DEF IInv, TypeOK, RequestOK, AnswersOK, OnlyEnqueued, NoReportLost, Enqueued, vars
<1> QED
  BY <1>1, <1>2, <1>3, <1>4, <1>5, <1>6, <1>7, <1>8, <1>9, <1>10, <1>11, <1>12, <1>13, <1>14, <1>15, <1>16, <1>17, <1>18, <1>19, <1>20 DEF Next, DrainStep, RefreshStep, Server

\* The inductive invariant holds throughout.
THEOREM Invariance == Spec => []IInv
  BY InitInv, NextInv, PTL DEF Spec

\* Type correctness, with the bound on attempts it contains: no interleaving of
\* drains makes a row or a snapshot count more than MaxAttempts (_record_failure,
\* which writes a count read earlier).
THEOREM TypeCorrect == Spec => []TypeOK
<1>1. IInv => TypeOK
  BY DEF IInv
<1> QED
  BY Invariance, <1>1, PTL

\* An enqueued report is in the table or at the central server, through any
\* number of concurrent drains, lost answers, storage errors and crashes.
THEOREM NothingLost == Spec => []NoReportLost
<1>1. IInv => NoReportLost
  BY DEF IInv
<1> QED
  BY Invariance, <1>1, PTL
------------------------------------------------------------------------------
(* What a step may not do.                                                  *)

\* Only enqueue() adds a row, and only for a report it has never added.
LEMMA RowsAreNew ==
  ASSUME TypeOK, [Next]_vars
  PROVE  \A r \in Enqueued : r \notin queue => r \notin queue'
<1> USE DEF table
<1>1. ASSUME NEW r \in Reports, Enqueue(r)
      PROVE  queue' = queue \cup {r} /\ r \notin Enqueued
  BY <1>1 DEF Enqueue, Enqueued
<1>2. ASSUME NEW t \in Drains, DrainStep(t) PROVE queue' \subseteq queue
  BY <1>2 DEF DrainStep, Probe, Fetch, Send, Synced, MarkSynced, Rejected, NetworkError, RecordFailure
<1>3. ASSUME NEW t \in Threads, RefreshStep(t) \/ StorageFails(t) PROVE queue' = queue
  BY <1>3 DEF RefreshStep, ReadDepth, SetGauge, StorageFails
<1>4. ASSUME NEW t \in Drains, NEW f \in BOOLEAN, StartDrain(t, f) PROVE queue' = queue
  BY <1>4 DEF StartDrain
<1>5. ASSUME EnqueueFails \/ Crash \/ CheckConnectivity \/ Tick \/ SetClock \/ UNCHANGED vars
      PROVE  queue' = queue
  BY <1>5 DEF EnqueueFails, Crash, CheckConnectivity, Tick, SetClock, Fault, vars
<1>6. ASSUME Server PROVE queue' = queue
  BY <1>6 DEF Server, ServerAccepts, ServerRejects, LateArrival
<1> QED
  BY <1>1, <1>2, <1>3, <1>4, <1>5, <1>6 DEF Next

\* A record one drain got through does not come back when another records a
\* failure for it (the UPDATE of _record_failure, which inserts nothing).
THEOREM SyncedIsFinal == Spec => SyncedStaysSynced
<1>1. IInv /\ [Next]_vars => [\A r \in Enqueued : r \notin queue => r \notin queue']_vars
  BY RowsAreNew DEF IInv
<1> QED
  BY Invariance, <1>1, PTL DEF Spec, SyncedStaysSynced

------------------------------------------------------------------------------
(* The table and the server implement the outbox.                           *)

\* What a step does to the three abstract variables.
LEMMA OutboxStep ==
  ASSUME IInv, [Next]_vars
  PROVE  [AbstractOutbox!Next]_(AbstractOutbox!outboxVars)
<1> USE DEF table, server, AbstractOutbox!outboxVars
<1> DEFINE Stutter == UNCHANGED <<created_at, queue, received>>
<1>0. Stutter => UNCHANGED AbstractOutbox!outboxVars
  BY DEF Enqueued
<1>1. ASSUME NEW r \in Reports, Enqueue(r) PROVE AbstractOutbox!Accept(r)
  <2>0. Cardinality(Enqueued) \in Nat
    BY CountsAreNat DEF IInv
  <2>1. created_at' = [created_at EXCEPT ![r] = Cardinality(Enqueued) + 1]
    BY <1>1 DEF Enqueue
  <2>2. \A x \in Reports : created_at'[x] # 0 <=> created_at[x] # 0 \/ x = r
    BY <2>0, <2>1 DEF IInv, TypeOK
  <2>3. Enqueued' = Enqueued \cup {r}
    BY <2>2 DEF Enqueued
  <2>4. r \notin Enqueued
    BY <1>1 DEF Enqueue, Enqueued
  <2> QED
    BY <1>1, <2>3, <2>4 DEF Enqueue, AbstractOutbox!Accept
<1>2. ASSUME NEW t \in Drains, Synced(t)
      PROVE  Stutter \/ AbstractOutbox!Forget(posting[t])
  <2>1. posting[t] \in received
    BY <1>2 DEF Synced, IInv, AnswersOK
  <2>2. Enqueued' = Enqueued /\ received' = received /\ queue' = queue \ {posting[t]}
    BY <1>2 DEF Synced, MarkSynced, Enqueued
  <2>3. CASE posting[t] \in queue
    BY <2>1, <2>2, <2>3 DEF AbstractOutbox!Forget
  <2>4. CASE posting[t] \notin queue
    BY <1>2, <2>2, <2>4 DEF Synced
  <2> QED
    BY <2>3, <2>4
<1>3. ASSUME NEW t \in Drains, Probe(t) \/ Fetch(t) \/ Send(t) \/ Rejected(t) \/ NetworkError(t)
      PROVE  Stutter
  BY <1>3 DEF Probe, Fetch, Send, Rejected, NetworkError, RecordFailure
<1>4. ASSUME NEW t \in Threads, RefreshStep(t) \/ StorageFails(t) PROVE Stutter
  BY <1>4 DEF RefreshStep, ReadDepth, SetGauge, StorageFails
<1>5. ASSUME NEW t \in Drains, NEW f \in BOOLEAN, StartDrain(t, f) PROVE Stutter
  BY <1>5 DEF StartDrain
<1>6. ASSUME EnqueueFails \/ Crash \/ CheckConnectivity \/ Tick \/ SetClock \/ UNCHANGED vars PROVE Stutter
  BY <1>6 DEF EnqueueFails, Crash, CheckConnectivity, Tick, SetClock, Fault, vars
<1>7. ASSUME NEW t \in Drains, NEW stored \in BOOLEAN, ServerAccepts(t) \/ ServerRejects(t, stored)
      PROVE  Stutter \/ AbstractOutbox!Deliver(posting[t])
  <2>1. posting[t] \in Enqueued
    BY <1>7 DEF IInv, RequestOK, OnlyEnqueued, ServerAccepts, ServerRejects
  <2>2. created_at' = created_at /\ queue' = queue /\ Enqueued' = Enqueued
    BY <1>7 DEF ServerAccepts, ServerRejects, Enqueued
  <2>3. received' = received \/ received' = received \cup {posting[t]}
    BY <1>7 DEF ServerAccepts, ServerRejects
  <2> QED
    BY <2>1, <2>2, <2>3 DEF AbstractOutbox!Deliver
<1>8. ASSUME NEW r \in Reports, LateArrival(r) PROVE AbstractOutbox!Deliver(r)
  <2>1. r \in Enqueued
    BY <1>8 DEF IInv, OnlyEnqueued, LateArrival
  <2>2. Enqueued' = Enqueued
    BY <1>8 DEF LateArrival, Enqueued
  <2> QED
    BY <1>8, <2>1, <2>2 DEF LateArrival, AbstractOutbox!Deliver
<1>9. \A t \in Drains : posting[t] \in Reports \/ ~ (Synced(t) \/ ServerAccepts(t) \/ \E b \in BOOLEAN : ServerRejects(t, b))
  BY DEF IInv, TypeOK, RequestOK, Synced, ServerAccepts, ServerRejects
<1> HIDE DEF Stutter
<1> QED
  BY <1>0, <1>1, <1>2, <1>3, <1>4, <1>5, <1>6, <1>7, <1>8, <1>9
     DEF Next, DrainStep, Server, AbstractOutbox!Next

\* The sync queue implements the outbox of ADR-003 and ADR-007: at-least-once
\* delivery, and a report dropped only once the server has it.
THEOREM ImplementsOutbox == Spec => OutboxSpec
<1>1. Init => AbstractOutbox!Init
  BY DEF Init, AbstractOutbox!Init, Enqueued
<1>2. IInv /\ [Next]_vars => [AbstractOutbox!Next]_(AbstractOutbox!outboxVars)
  BY OutboxStep
<1> QED
  BY Invariance, <1>1, <1>2, PTL DEF Spec, OutboxSpec, AbstractOutbox!Spec
------------------------------------------------------------------------------
(* What concurrent drains cannot do to the count of attempts.               *)

\* A step leaves the count of a record where it is, or raises it, as far as
\* anyone counts who may still write it.
LEMMA CountStep ==
  ASSUME IInv, [Next]_vars,
         NEW r \in queue, r \in queue', NEW n \in 1..MaxAttempts, CountedFrom(r, n)
  PROVE  CountedFrom(r, n)'
<1> r \in Reports /\ TypeOK /\ RequestOK
  BY DEF IInv, TypeOK
<1> USE DEF table, request, Goto
<1> DEFINE Same == UNCHANGED <<attempts, batch, seen>>
<1>0. Same => CountedFrom(r, n)'
  BY DEF CountedFrom
<1>1. ASSUME NEW x \in Reports, Enqueue(x) PROVE Same
  BY <1>1 DEF Enqueue
<1>2. ASSUME NEW t \in Drains, Probe(t) \/ Send(t) PROVE Same
  BY <1>2 DEF Probe, Send
<1>3. ASSUME NEW t \in Drains, Fetch(t) PROVE CountedFrom(r, n)'
  <2>1. attempts' = attempts
    BY <1>3 DEF Fetch
  <2>2. ASSUME NEW u \in Drains, r \in batch'[u] PROVE seen'[u][r] >= n
    <3>1. CASE u = t
      BY <1>3, <2>2, <3>1 DEF Fetch, TypeOK, CountedFrom
    <3>2. CASE u # t
      BY <1>3, <2>2, <3>2 DEF Fetch, TypeOK, CountedFrom
    <3> QED
      BY <3>1, <3>2
  <2> QED
    BY <2>1, <2>2 DEF CountedFrom
<1>4. ASSUME NEW t \in Drains, Synced(t) \/ Rejected(t) \/ NetworkError(t)
      PROVE  CountedFrom(r, n)'
  <2>1. NextRecord(t) /\ posting[t] \in batch[t] /\ posting[t] \in Reports
    BY <1>4 DEF Synced, Rejected, NetworkError, TypeOK, RequestOK
  <2>2. attempts'[r] >= n
    <3>1. CASE Synced(t)
      BY <2>1, <3>1 DEF Synced, MarkSynced, CountedFrom, TypeOK
    <3>2. CASE Rejected(t) \/ NetworkError(t)
      <4>1. RecordFailure(posting[t], seen[t][posting[t]])
        BY <3>2 DEF Rejected, NetworkError
      <4>2. attempts[r] >= n /\ (posting[t] = r => seen[t][r] >= n /\ seen[t][r] \in Nat)
        BY <2>1 DEF CountedFrom, TypeOK
      <4>3. attempts'[r] = attempts[r] \/ (posting[t] = r /\ attempts'[r] = seen[t][r] + 1)
        BY <2>1, <4>1 DEF RecordFailure, TypeOK
      <4> QED
        BY <4>2, <4>3
    <3> QED
      BY <1>4, <3>1, <3>2
  <2>3. ASSUME NEW u \in Drains, r \in batch'[u] PROVE seen'[u][r] >= n
    BY <2>1, <2>3 DEF NextRecord, TypeOK, CountedFrom
  <2> QED
    BY <2>2, <2>3 DEF CountedFrom
<1>5. ASSUME NEW t \in Threads, RefreshStep(t) PROVE Same
  BY <1>5 DEF RefreshStep, ReadDepth, SetGauge
<1>6. ASSUME NEW t \in Threads, StorageFails(t) PROVE CountedFrom(r, n)'
  BY <1>6 DEF StorageFails, Abort, CountedFrom
<1>7. ASSUME Crash PROVE CountedFrom(r, n)'
  BY <1>7 DEF Crash, CountedFrom
<1>8. ASSUME NEW t \in Drains, NEW f \in BOOLEAN, StartDrain(t, f) PROVE Same
  BY <1>8 DEF StartDrain
<1>9. ASSUME EnqueueFails \/ CheckConnectivity \/ Tick \/ SetClock \/ UNCHANGED vars PROVE Same
  BY <1>9 DEF EnqueueFails, CheckConnectivity, Tick, SetClock, Fault, vars
<1>10. ASSUME Server PROVE Same
  BY <1>10 DEF Server, ServerAccepts, ServerRejects, LateArrival
<1> HIDE DEF Same
<1> QED
  BY <1>0, <1>1, <1>2, <1>3, <1>4, <1>5, <1>6, <1>7, <1>8, <1>9, <1>10 DEF Next, DrainStep

\* However many drains overlap, none sets a record back behind what somebody still
\* counts from, so that every held count is used up in the end (_record_failure).
THEOREM NeverSetBack == Spec => RetriesNeverSetBack
<1>1. IInv /\ [Next]_vars =>
        [\A r \in queue, n \in 1..MaxAttempts :
           r \in queue' /\ CountedFrom(r, n) => CountedFrom(r, n)']_vars
  BY CountStep
<1> QED
  BY Invariance, <1>1, PTL DEF Spec, RetriesNeverSetBack
------------------------------------------------------------------------------
(* What holds while drains do not overlap.                                  *)

\* There is never more than one drain under way.
OneDrainAtATime == \A s, t \in Drains : s = t

\* The batch of the only drain is up to date: nobody else touches its records.
BatchCurrent ==
  \A t \in Drains : \A r \in batch[t] : r \in queue /\ attempts[r] = seen[t][r]

\* Every step keeps the batch of the only drain up to date.
LEMMA BatchStep ==
  ASSUME OneDrainAtATime, IInv, BatchCurrent, [Next]_vars
  PROVE  BatchCurrent'
<1> TypeOK /\ RequestOK /\ OnlyEnqueued
  BY DEF IInv
<1> USE DEF table, request, Goto
<1> DEFINE Same == UNCHANGED <<queue, attempts, batch, seen>>
<1>0. Same => BatchCurrent'
  BY DEF BatchCurrent
<1>1. ASSUME NEW x \in Reports, Enqueue(x) PROVE BatchCurrent'
  BY <1>1 DEF Enqueue, BatchCurrent
<1>2. ASSUME NEW t \in Drains, Probe(t) \/ Send(t) PROVE Same
  BY <1>2 DEF Probe, Send
<1>3. ASSUME NEW t \in Drains, Fetch(t) PROVE BatchCurrent'
  <2>1. Eligible \subseteq queue /\ Eligible \subseteq Reports
    BY EligibleBelowLimit DEF TypeOK
  <2>2. batch'[t] = Eligible /\ \A r \in Eligible : seen'[t][r] = attempts[r]
    BY <1>3, <2>1 DEF Fetch, TypeOK
  <2>3. queue' = queue /\ attempts' = attempts
    BY <1>3 DEF Fetch
  <2> QED
    BY <2>1, <2>2, <2>3 DEF OneDrainAtATime, BatchCurrent
<1>4. ASSUME NEW t \in Drains, Synced(t) \/ Rejected(t) \/ NetworkError(t)
      PROVE  BatchCurrent'
  <2>1. NextRecord(t) /\ posting[t] \in batch[t] /\ posting[t] \in Reports
    BY <1>4 DEF Synced, Rejected, NetworkError, TypeOK, RequestOK
  <2>2. \A r \in Reports \ {posting[t]} :
          (r \in queue => r \in queue') /\ attempts'[r] = attempts[r]
    BY <1>4 DEF Synced, MarkSynced, Rejected, NetworkError, RecordFailure, TypeOK
  <2>3. batch'[t] = batch[t] \ {posting[t]}
        /\ \A r \in Reports \ {posting[t]} : seen'[t][r] = seen[t][r]
    BY <2>1 DEF NextRecord, TypeOK
  <2> QED
    BY <2>2, <2>3 DEF OneDrainAtATime, BatchCurrent, TypeOK
<1>5. ASSUME NEW t \in Threads, RefreshStep(t) PROVE Same
  BY <1>5 DEF RefreshStep, ReadDepth, SetGauge
<1>6. ASSUME NEW t \in Threads, StorageFails(t) PROVE BatchCurrent'
  BY <1>6 DEF StorageFails, Abort, BatchCurrent
<1>7. ASSUME Crash PROVE BatchCurrent'
  BY <1>7 DEF Crash, BatchCurrent
<1>8. ASSUME NEW t \in Drains, NEW f \in BOOLEAN, StartDrain(t, f) PROVE Same
  BY <1>8 DEF StartDrain
<1>9. ASSUME EnqueueFails \/ CheckConnectivity \/ Tick \/ SetClock \/ UNCHANGED vars PROVE Same
  BY <1>9 DEF EnqueueFails, CheckConnectivity, Tick, SetClock, Fault, vars
<1>10. ASSUME Server PROVE Same
  BY <1>10 DEF Server, ServerAccepts, ServerRejects, LateArrival
<1> HIDE DEF Same
<1> QED
  BY <1>0, <1>1, <1>2, <1>3, <1>4, <1>5, <1>6, <1>7, <1>8, <1>9, <1>10 DEF Next, DrainStep

\* What a step does to a dead letter, and what a failed request costs.
LEMMA SerialStep ==
  ASSUME IInv, BatchCurrent, [Next]_vars
  PROVE  /\ DeadLetters \subseteq DeadLetters'
         /\ \A t \in Drains : FailureRecorded(t) =>
              /\ attempts'[posting[t]] = attempts[posting[t]] + 1
              /\ waited'[posting[t]] = 0
<1> TypeOK /\ RequestOK
  BY DEF IInv
<1> USE DEF table, request, Goto
<1> DEFINE Same == UNCHANGED <<queue, attempts>>
           Fails(t) == FailureRecorded(t) => /\ attempts'[posting[t]] = attempts[posting[t]] + 1
                                             /\ waited'[posting[t]] = 0
           Kept == DeadLetters \subseteq DeadLetters'
<1>0. Same => Kept
  BY DEF DeadLetters
<1>1. ASSUME NEW x \in Reports, Enqueue(x) PROVE Kept /\ \A t \in Drains : Fails(t)
  BY <1>1, ThreadsAssumption DEF Enqueue, DeadLetters, FailureRecorded, TypeOK
<1>2. ASSUME NEW t \in Drains, Probe(t) \/ Send(t) \/ Fetch(t) \/ \E f \in BOOLEAN : StartDrain(t, f)
      PROVE  Same /\ \A u \in Drains : Fails(u)
  BY <1>2 DEF Probe, Send, Fetch, StartDrain, FailureRecorded, TypeOK, Threads
<1>3. ASSUME NEW t \in Drains, Synced(t) \/ Rejected(t) \/ NetworkError(t)
      PROVE  Kept /\ \A u \in Drains : Fails(u)
  <2>1. posting[t] \in batch[t] /\ posting[t] \in Reports /\ NextRecord(t) /\ pc[t] = "wait"
    BY <1>3 DEF Synced, Rejected, NetworkError, TypeOK, RequestOK
  <2>2. posting[t] \in queue /\ attempts[posting[t]] = seen[t][posting[t]]
    BY <2>1 DEF BatchCurrent
  <2>3. seen[t][posting[t]] \in 0..MaxAttempts - 1
    BY <2>1 DEF TypeOK
  <2>4. posting[t] \notin DeadLetters
    BY <2>2, <2>3, NumbersAssumption DEF DeadLetters
  <2>5. Kept
    BY <1>3, <2>4 DEF Synced, MarkSynced, Rejected, NetworkError, RecordFailure, DeadLetters, TypeOK
  <2>6. ASSUME NEW u \in Drains, u # t PROVE Fails(u)
    BY <2>1, <2>6 DEF NextRecord, FailureRecorded, TypeOK, Threads
  <2>7. Fails(t)
    BY <1>3, <2>1, <2>2 DEF Synced, MarkSynced, Rejected, NetworkError, RecordFailure,
                            FailureRecorded, TypeOK
  <2> QED
    BY <2>5, <2>6, <2>7
<1>4. ASSUME NEW t \in Threads, RefreshStep(t) \/ StorageFails(t)
      PROVE  Same /\ \A u \in Drains : Fails(u)
  BY <1>4 DEF RefreshStep, ReadDepth, SetGauge, StorageFails, Abort, FailureRecorded, TypeOK, Threads
<1>5. ASSUME EnqueueFails \/ Crash \/ CheckConnectivity \/ Tick \/ SetClock \/ Server \/ UNCHANGED vars
      PROVE  Same /\ \A u \in Drains : Fails(u)
  BY <1>5 DEF EnqueueFails, Crash, CheckConnectivity, Tick, SetClock, Fault, Server, ServerAccepts, ServerRejects,
              LateArrival, vars, FailureRecorded, Threads
<1>6. Kept /\ \A t \in Drains : Fails(t)
  <2> HIDE DEF Same, Kept, Fails
  <2> QED
    BY <1>0, <1>1, <1>2, <1>3, <1>4, <1>5 DEF Next, DrainStep
<1> QED
  BY <1>6

\* One drain at a time: the batch it works through is never out of date.
LEMMA SerialInvariance == OneDrainAtATime => (Spec => [](IInv /\ BatchCurrent))
<1> SUFFICES ASSUME OneDrainAtATime PROVE Spec => [](IInv /\ BatchCurrent)
  OBVIOUS
<1>1. Init => BatchCurrent
  BY DEF Init, BatchCurrent
<1>2. IInv /\ BatchCurrent /\ [Next]_vars => BatchCurrent'
  BY BatchStep
<1> QED
  BY Invariance, <1>1, <1>2, PTL DEF Spec

\* One drain at a time: a dead letter stays one (architecture.md: it "requires manual
\* intervention").  The runs show that two overlapping drains revive one.
THEOREM SerialDeadLetters == OneDrainAtATime => (Spec => DeadLetterIsFinal)
<1>1. IInv /\ BatchCurrent /\ [Next]_vars => [DeadLetters \subseteq DeadLetters']_vars
  BY SerialStep
<1> QED
  BY SerialInvariance, <1>1, PTL DEF Spec, DeadLetterIsFinal

\* One drain at a time: every failed request is counted once and restarts the backoff
\* (_record_failure).  The runs show that overlapping drains count two as one.
THEOREM SerialFailuresCount == OneDrainAtATime => (Spec => EachFailureCounts)
<1>1. IInv /\ BatchCurrent /\ [Next]_vars =>
        [\A t \in Drains : FailureRecorded(t) =>
           /\ attempts'[posting[t]] = attempts[posting[t]] + 1
           /\ waited'[posting[t]] = 0]_vars
  BY SerialStep
<1> QED
  BY SerialInvariance, <1>1, PTL DEF Spec, EachFailureCounts
------------------------------------------------------------------------------
(* The backoff, while drains do not overlap and the clock is not set back.  *)

\* The powers of two are numbers, and each is twice the one before.
LEMMA Powers == TwoTo \in [Nat -> Nat \ {0}]
<1> DEFINE V == Nat \ {0}
           one == 1
           step == [n \in Nat |-> [v \in Nat \ {0} |-> 2 * v]]
<1>1. one \in V /\ step \in [Nat -> [V -> V]]
  OBVIOUS
<1>2. \A n \in Nat, v \in Nat \ {0} : step[n][v] = 2 * v
  OBVIOUS
<1> HIDE DEF step
<1>3. \E f \in [Nat -> V] : Iterates(f, one, step)
  <2> HIDE DEF V, one
  <2> QED
    BY <1>1, RecursionExists
<1>4. PICK f \in [Nat -> Nat \ {0}] : f[0] = 1 /\ \A n \in Nat : f[n + 1] = step[n][f[n]]
  BY <1>3 DEF Iterates
<1>5. ASSUME NEW n \in Nat PROVE f[n] = IF n = 0 THEN 1 ELSE 2 * f[n - 1]
  <2>1. CASE n # 0
    <3>1. n - 1 \in Nat /\ (n - 1) + 1 = n /\ f[n - 1] \in Nat \ {0}
      BY <2>1
    <3>2. f[(n - 1) + 1] = step[n - 1][f[n - 1]]
      BY <1>4, <3>1
    <3> QED
      BY <1>2, <2>1, <3>1, <3>2
  <2> QED
    BY <1>4, <2>1
<1>6. f = [n \in Nat |-> IF n = 0 THEN 1 ELSE 2 * f[n - 1]]
  BY <1>5
<1>7. TwoTo = [n \in Nat |-> IF n = 0 THEN 1 ELSE 2 * TwoTo[n - 1]]
  BY <1>6 DEF TwoTo
<1>8. TwoTo[0] = 1 /\ \A n \in Nat : TwoTo[n + 1] = 2 * TwoTo[n]
  BY <1>7
<1> DEFINE Positive == {n \in Nat : TwoTo[n] \in Nat \ {0}}
<1>9. 0 \in Positive /\ \A n \in Nat : n \in Positive => n + 1 \in Positive
  BY <1>8
<1>10. Nat \subseteq Positive
  <2> HIDE DEF Positive
  <2> QED
    BY <1>9, Induction
<1> QED
  BY <1>7, <1>10

\* A record waits for a number of seconds, at most the limit.
LEMMA BackoffType ==
  ASSUME NEW n \in Nat
  PROVE  Backoff(n) \in Nat /\ Backoff(n) <= BackoffMax
<1> DEFINE d == BackoffBase * TwoTo[n]
<1>1. d \in Nat /\ BackoffMax \in Nat
  BY Powers, NumbersAssumption
<1> HIDE DEF d
<1>2. \E x \in {d, BackoffMax} : \A y \in {d, BackoffMax} : x =< y
  BY <1>1
<1>3. Min({d, BackoffMax}) \in {d, BackoffMax} /\ \A y \in {d, BackoffMax} : Min({d, BackoffMax}) =< y
  BY <1>2 DEF Min
<1> QED
  BY <1>1, <1>3 DEF Backoff, d

\* The clock is never set back.
ClockGoesOn == MaxSetback = 0

\* Every record of the batch is due, and not only when it was read.
BatchDue == \A t \in Drains : \A r \in batch[t] : Due(r)

\* Every step keeps the batch of the only drain due.
LEMMA DueStep ==
  ASSUME OneDrainAtATime, ClockGoesOn, IInv, BatchDue, [Next]_vars
  PROVE  BatchDue'
<1> TypeOK /\ RequestOK /\ OnlyEnqueued
  BY DEF IInv
<1> USE DEF table, request, Goto
<1> DEFINE Same == UNCHANGED <<attempts, waited, batch>>
<1>0. Same => BatchDue'
  BY DEF BatchDue, Due
<1>1. ASSUME NEW x \in Reports, Enqueue(x) PROVE BatchDue'
  <2>1. \A t \in Drains : x \notin batch[t]
    BY <1>1 DEF Enqueue, OnlyEnqueued, Enqueued
  <2>2. UNCHANGED <<attempts, batch>> /\ \A r \in Reports \ {x} : waited'[r] = waited[r]
    BY <1>1 DEF Enqueue, TypeOK
  <2> QED
    BY <2>1, <2>2 DEF BatchDue, Due, TypeOK
<1>2. ASSUME NEW t \in Drains, Probe(t) \/ Send(t) PROVE Same
  BY <1>2 DEF Probe, Send
<1>3. ASSUME NEW t \in Drains, Fetch(t) PROVE BatchDue'
  <2>1. batch'[t] = Eligible /\ attempts' = attempts /\ waited' = waited
    BY <1>3 DEF Fetch, TypeOK
  <2>2. \A r \in Eligible : Due(r)
    BY DEF Eligible
  <2> QED
    BY <2>1, <2>2 DEF OneDrainAtATime, BatchDue, Due
<1>4. ASSUME NEW t \in Drains, Synced(t) \/ Rejected(t) \/ NetworkError(t)
      PROVE  BatchDue'
  <2>1. NextRecord(t) /\ posting[t] \in batch[t] /\ posting[t] \in Reports
    BY <1>4 DEF Synced, Rejected, NetworkError, TypeOK, RequestOK
  <2>2. \A r \in Reports \ {posting[t]} : attempts'[r] = attempts[r] /\ waited'[r] = waited[r]
    BY <1>4 DEF Synced, MarkSynced, Rejected, NetworkError, RecordFailure, TypeOK
  <2>3. batch'[t] = batch[t] \ {posting[t]}
    BY <2>1 DEF NextRecord, TypeOK
  <2> QED
    BY <2>2, <2>3 DEF OneDrainAtATime, BatchDue, Due, TypeOK
<1>5. ASSUME NEW t \in Threads, RefreshStep(t) PROVE Same
  BY <1>5 DEF RefreshStep, ReadDepth, SetGauge
<1>6. ASSUME NEW t \in Threads, StorageFails(t) PROVE BatchDue'
  BY <1>6 DEF StorageFails, Abort, BatchDue, Due
<1>7. ASSUME Crash PROVE BatchDue'
  BY <1>7 DEF Crash, BatchDue
<1>8. ASSUME NEW t \in Drains, NEW f \in BOOLEAN, StartDrain(t, f) PROVE Same
  BY <1>8 DEF StartDrain
<1>9. ASSUME Tick PROVE BatchDue'
  <2>1. ASSUME NEW t \in Drains, NEW r \in batch[t] PROVE waited'[r] >= Backoff(attempts[r])
    <3>1. r \in Reports /\ attempts[r] \in Nat /\ waited[r] \in Int
      BY <2>1 DEF TypeOK
    <3>2. waited'[r] = waited[r] \/ waited'[r] = waited[r] + 1
      BY <1>9, <3>1 DEF Tick
    <3>3. waited[r] >= Backoff(attempts[r])
      BY <2>1 DEF BatchDue, Due
    <3> QED
      BY <3>1, <3>2, <3>3, BackoffType
  <2>2. UNCHANGED <<attempts, batch>>
    BY <1>9 DEF Tick
  <2> QED
    BY <2>1, <2>2 DEF BatchDue, Due
<1>10. ASSUME SetClock PROVE FALSE
  BY <1>10 DEF SetClock, ClockGoesOn
<1>11. ASSUME EnqueueFails \/ CheckConnectivity \/ UNCHANGED vars PROVE Same
  BY <1>11 DEF EnqueueFails, CheckConnectivity, Fault, vars
<1>12. ASSUME Server PROVE Same
  BY <1>12 DEF Server, ServerAccepts, ServerRejects, LateArrival
<1> HIDE DEF Same
<1> QED
  BY <1>0, <1>1, <1>2, <1>3, <1>4, <1>5, <1>6, <1>7, <1>8, <1>9, <1>10, <1>11, <1>12
     DEF Next, DrainStep

\* Only Send begins a request, and of a record of the batch.
LEMMA SendsDue ==
  ASSUME IInv, BatchDue, [Next]_vars, NEW t \in Drains, pc[t] = "send", pc'[t] = "wait"
  PROVE  Due(posting'[t])
<1> TypeOK /\ RequestOK
  BY DEF IInv
<1> USE DEF table, request, Goto
<1>1. CASE Send(t)
  BY <1>1 DEF Send, BatchDue, TypeOK
<1>2. ASSUME NEW u \in Drains, DrainStep(u), ~Send(t) PROVE FALSE
  BY <1>2 DEF DrainStep, Probe, Fetch, Send, Synced, Rejected, NetworkError, NextRecord, TypeOK, Threads
<1>3. ASSUME NEW u \in Threads, RefreshStep(u) \/ StorageFails(u) PROVE FALSE
  BY <1>3 DEF RefreshStep, ReadDepth, SetGauge, StorageFails, Abort, TypeOK, Threads
<1>4. ASSUME NEW x \in Reports, Enqueue(x) PROVE FALSE
  BY <1>4, ThreadsAssumption DEF Enqueue, TypeOK, Threads
<1>5. ASSUME NEW u \in Drains, NEW f \in BOOLEAN, StartDrain(u, f) PROVE FALSE
  BY <1>5 DEF StartDrain, TypeOK, Threads
<1>6. ASSUME EnqueueFails \/ Crash \/ CheckConnectivity \/ Tick \/ SetClock \/ Server \/ UNCHANGED vars
      PROVE  FALSE
  BY <1>6 DEF EnqueueFails, Crash, CheckConnectivity, Tick, SetClock, Fault, Server, ServerAccepts,
              ServerRejects, LateArrival, vars, Threads
<1> QED
  BY <1>1, <1>2, <1>3, <1>4, <1>5, <1>6 DEF Next

\* One drain at a time, and a clock that is not set back: the backoff has elapsed whenever
\* a request is sent, however long ago the batch was read (_fetch_eligible_records,
\* _backoff_elapsed).
THEOREM SerialBackoff == OneDrainAtATime /\ ClockGoesOn => (Spec => BackoffRespected)
<1> SUFFICES ASSUME OneDrainAtATime, ClockGoesOn PROVE Spec => BackoffRespected
  OBVIOUS
<1>1. Init => BatchDue
  BY DEF Init, BatchDue
<1>2. IInv /\ BatchDue /\ [Next]_vars => BatchDue'
  BY DueStep
<1>3. IInv /\ BatchDue /\ [Next]_vars =>
        [\A t \in Drains : pc[t] = "send" /\ pc'[t] = "wait" => Due(posting'[t])]_vars
  BY SendsDue
<1> QED
  BY Invariance, <1>1, <1>2, <1>3, PTL DEF Spec, BackoffRespected
==============================================================================
