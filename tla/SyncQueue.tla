------------------------------ MODULE SyncQueue ------------------------------
(***************************************************************************)
(* The outbound queue of a field device: SyncQueueWorker and the           *)
(* ConnectivityProbe it asks (src/src/services/sync).                      *)
(*                                                                         *)
(* The event loop thread runs the pipeline and calls enqueue().  Every     *)
(* POST /sync/drain runs drain_queue() in a thread of the server's pool,   *)
(* so several drains may be under way at once: they share the SQLite table *)
(* sync_queue, the probe's last state and the queue depth gauge, and each  *)
(* works through the batch of records it read at the start.  A step here   *)
(* is one SQLite transaction, one network event, or one assignment to      *)
(* shared memory.                                                          *)
(*                                                                         *)
(* Time is the time each row has waited since its last attempt, in units   *)
(* that only the backoff compares; it saturates at BackoffMax, from where  *)
(* every record is due.  It is measured with the system clock, and a clock *)
(* set back may make it negative.                                          *)
(***************************************************************************)
EXTENDS Integers, FiniteSets, FiniteSetsExt

CONSTANTS Reports,        \* the reports that may be enqueued
          Drains,         \* pool threads that may be inside drain_queue()
          EventLoop,      \* the thread that runs the pipeline
          NoReport,       \* a drain with no request under way
          MaxAttempts,    \* SYNC_MAX_ATTEMPTS
          BatchSize,      \* SYNC_BATCH_SIZE
          BackoffBase,    \* SYNC_BACKOFF_BASE_SECONDS
          BackoffMax,     \* SYNC_BACKOFF_MAX_SECONDS
          MaxSetback,     \* bound on how far the clock is set back at a time
          MaxFaults       \* bound on the crashes, storage errors and set clocks of a run

ASSUME ReportsAssumption == IsFiniteSet(Reports) /\ NoReport \notin Reports
ASSUME ThreadsAssumption == EventLoop \notin Drains
ASSUME NumbersAssumption ==
  /\ MaxAttempts \in Nat \ {0}
  /\ BatchSize \in Nat \ {0}
  /\ BackoffBase \in Nat \ {0}
  /\ BackoffMax \in Nat \ {0}
  /\ MaxSetback \in Nat
  /\ MaxFaults \in Nat

Threads == Drains \cup {EventLoop}

ConnectivityStates == {"ONLINE", "DEGRADED", "OFFLINE"}

VARIABLES
  queue,        \* reports with a row in the table sync_queue
  attempts,     \* column attempts (0 where there is no row)
  waited,       \* time since last_attempt_at; BackoffMax stands for NULL
  created_at,   \* order in which the rows were created, 0 for none ever
  last_state,   \* ConnectivityProbe._last_state
  gauge,        \* SYNC_QUEUE_DEPTH as /metrics shows it
  pc,           \* where each thread is
  batch,        \* records a drain has read and not yet dealt with
  seen,         \* the attempts it read for each of them
  posting,      \* the record of its request under way
  answer,       \* what the server has answered to that request
  depth,        \* the row count a thread is about to put in the gauge
  received,     \* reports the central server has stored
  late,         \* requests nobody waits for that may still reach it
  faults        \* crashes, storage errors and set clocks so far

table   == <<queue, attempts, waited, created_at>>
request == <<batch, seen, posting, answer>>
server  == <<received, late>>
vars == <<table, last_state, gauge, pc, request, depth, server, faults>>

------------------------------------------------------------------------------
(* The table, as drain_queue() reads and writes it.                         *)

Enqueued == {r \in Reports : created_at[r] # 0}

\* 2 ** attempts
TwoTo[n \in Nat] == IF n = 0 THEN 1 ELSE 2 * TwoTo[n - 1]

\* _backoff_elapsed
Backoff(n) == Min({BackoffBase * TwoTo[n], BackoffMax})

Due(r) == waited[r] >= Backoff(attempts[r])

\* Mutants of Retryable: the limit is off by one, either way, or there is none.
RetryableOneMore == {r \in queue : attempts[r] <= MaxAttempts}
RetryableOneLess == {r \in queue : attempts[r] < MaxAttempts - 1}
RetryableNoLimit == queue

\* The rows of the SELECT: under the limit of attempts, oldest first, one batch.
Retryable == {r \in queue : attempts[r] < MaxAttempts}

\* Mutant of FirstInLine: the LIMIT counts dead letters too.
FirstInLineWithDead ==
  {r \in Retryable :
    Cardinality({s \in queue : created_at[s] < created_at[r]}) < BatchSize}

FirstInLine ==
  {r \in Retryable :
    Cardinality({s \in Retryable : created_at[s] < created_at[r]}) < BatchSize}

\* Mutant of Eligible: no backoff.
EligibleAtOnce == FirstInLine

\* _fetch_eligible_records: the backoff filters what the LIMIT has let through.
Eligible == {r \in FirstInLine : Due(r)}

\* dead_letter_records
DeadLetters == {r \in queue : attempts[r] >= MaxAttempts}

\* _mark_synced
MarkSynced(r) ==
  /\ queue' = queue \ {r}
  /\ attempts' = [attempts EXCEPT ![r] = 0]
  /\ waited' = [waited EXCEPT ![r] = 0]

\* Mutants of RecordFailure: an upsert, as the writes of SQLiteStorageService are;
\* and one that does not count.
RecordFailureUpsert(r, n) ==
  /\ queue' = queue \cup {r}
  /\ attempts' = [attempts EXCEPT ![r] = n + 1]
  /\ waited' = [waited EXCEPT ![r] = 0]

RecordFailureUncounted(r, n) ==
  /\ UNCHANGED <<queue, attempts>>
  /\ waited' = IF r \in queue THEN [waited EXCEPT ![r] = 0] ELSE waited

\* _record_failure: the count written is the one the batch was read with, plus
\* one; the UPDATE finds nothing when another drain has deleted the row.
RecordFailure(r, n) ==
  /\ UNCHANGED queue
  /\ attempts' = IF r \in queue THEN [attempts EXCEPT ![r] = n + 1] ELSE attempts
  /\ waited' = IF r \in queue THEN [waited EXCEPT ![r] = 0] ELSE waited

------------------------------------------------------------------------------
(* A thread and its locals.                                                 *)

Goto(t, l) == pc' = [pc EXCEPT ![t] = l]

\* The loop of drain_queue() is done with its record.
NextRecord(t) ==
  LET r == posting[t] IN
  /\ batch' = [batch EXCEPT ![t] = @ \ {r}]
  /\ seen' = [seen EXCEPT ![t][r] = 0]
  /\ posting' = [posting EXCEPT ![t] = NoReport]
  /\ answer' = [answer EXCEPT ![t] = "none"]
  /\ Goto(t, IF batch[t] = {r} THEN "depth" ELSE "send")

\* An exception leaves drain_queue(), or enqueue(): the locals are gone.
Abort(t) ==
  /\ Goto(t, "idle")
  /\ batch' = [u \in Drains |-> IF u = t THEN {} ELSE batch[u]]
  /\ seen' = [u \in Drains |-> IF u = t THEN [r \in Reports |-> 0] ELSE seen[u]]
  /\ posting' = [u \in Drains |-> IF u = t THEN NoReport ELSE posting[u]]
  /\ answer' = [u \in Drains |-> IF u = t THEN "none" ELSE answer[u]]

Fault ==
  /\ faults < MaxFaults
  /\ faults' = faults + 1

\* Requests the given threads have sent and the server has not yet dealt with.
Unanswered(ts) ==
  {posting[t] : t \in {u \in ts \cap Drains : pc[u] = "wait" /\ answer[u] = "none"}}

Init ==
  /\ queue = {}
  /\ attempts = [r \in Reports |-> 0]
  /\ waited = [r \in Reports |-> 0]
  /\ created_at = [r \in Reports |-> 0]
  /\ last_state = "OFFLINE"
  /\ gauge = 0
  /\ pc = [t \in Threads |-> "idle"]
  /\ batch = [t \in Drains |-> {}]
  /\ seen = [t \in Drains |-> [r \in Reports |-> 0]]
  /\ posting = [t \in Drains |-> NoReport]
  /\ answer = [t \in Drains |-> "none"]
  /\ depth = [t \in Threads |-> 0]
  /\ received = {}
  /\ late = {}
  /\ faults = 0

------------------------------------------------------------------------------
(* enqueue()                                                                *)

Enqueue(r) ==
  /\ pc[EventLoop] = "idle"
  /\ created_at[r] = 0
  /\ queue' = queue \cup {r}
  /\ created_at' = [created_at EXCEPT ![r] = Cardinality(Enqueued) + 1]
  /\ waited' = [waited EXCEPT ![r] = BackoffMax]
  /\ Goto(EventLoop, "depth")
  /\ UNCHANGED <<attempts, last_state, gauge, request, depth, server, faults>>

\* The INSERT fails and rolls back; the caller gets a StorageError.
EnqueueFails ==
  /\ pc[EventLoop] = "idle"
  /\ Fault
  /\ UNCHANGED <<table, last_state, gauge, pc, request, depth, server>>

------------------------------------------------------------------------------
(* drain_queue()                                                            *)

\* With force_check the drain asks the probe, without it the cached state.
StartDrain(t, force_check) ==
  /\ pc[t] = "idle"
  /\ force_check \/ last_state # "OFFLINE"
  /\ Goto(t, IF force_check THEN "probe" ELSE "fetch")
  /\ UNCHANGED <<table, last_state, gauge, request, depth, server, faults>>

Probe(t) ==
  /\ pc[t] = "probe"
  /\ \E s \in ConnectivityStates :
       /\ last_state' = s
       /\ Goto(t, IF s = "OFFLINE" THEN "idle" ELSE "fetch")
  /\ UNCHANGED <<table, gauge, request, depth, server, faults>>

\* Mutant of Fetch: the SyncRecord is built without the row's attempts.
FetchUncounted(t) ==
  /\ pc[t] = "fetch"
  /\ batch' = [batch EXCEPT ![t] = Eligible]
  /\ Goto(t, IF Eligible = {} THEN "depth" ELSE "send")
  /\ UNCHANGED <<table, last_state, gauge, seen, posting, answer, depth, server, faults>>

Fetch(t) ==
  /\ pc[t] = "fetch"
  /\ batch' = [batch EXCEPT ![t] = Eligible]
  /\ seen' = [seen EXCEPT ![t] =
                [r \in Reports |-> IF r \in Eligible THEN attempts[r] ELSE 0]]
  /\ Goto(t, IF Eligible = {} THEN "depth" ELSE "send")
  /\ UNCHANGED <<table, last_state, gauge, posting, answer, depth, server, faults>>

\* Mutant of Send: the row is deleted when the request goes out.
SendAndDelete(t) ==
  /\ pc[t] = "send"
  /\ \E r \in batch[t] :
       /\ \A s \in batch[t] : created_at[r] <= created_at[s]
       /\ posting' = [posting EXCEPT ![t] = r]
       /\ MarkSynced(r)
  /\ Goto(t, "wait")
  /\ UNCHANGED <<created_at, last_state, gauge, batch, seen, answer, depth, server, faults>>

\* Mutant of Send: the attempt is counted when the request goes out.
SendAndCount(t) ==
  /\ pc[t] = "send"
  /\ \E r \in batch[t] :
       /\ \A s \in batch[t] : created_at[r] <= created_at[s]
       /\ posting' = [posting EXCEPT ![t] = r]
       /\ RecordFailure(r, seen[t][r])
  /\ Goto(t, "wait")
  /\ UNCHANGED <<created_at, last_state, gauge, batch, seen, answer, depth, server, faults>>

\* _attempt_sync posts the oldest record left in the batch.
Send(t) ==
  /\ pc[t] = "send"
  /\ \E r \in batch[t] :
       /\ \A s \in batch[t] : created_at[r] <= created_at[s]
       /\ posting' = [posting EXCEPT ![t] = r]
  /\ Goto(t, "wait")
  /\ UNCHANGED <<table, last_state, gauge, batch, seen, answer, depth, server, faults>>

\* Mutant of Synced: every answer of the server counts as success.
SyncedByAnyAnswer(t) ==
  /\ pc[t] = "wait"
  /\ answer[t] # "none"
  /\ MarkSynced(posting[t])
  /\ NextRecord(t)
  /\ UNCHANGED <<created_at, last_state, gauge, depth, server, faults>>

\* HTTP 2xx
Synced(t) ==
  /\ pc[t] = "wait"
  /\ answer[t] = "accepted"
  /\ MarkSynced(posting[t])
  /\ NextRecord(t)
  /\ UNCHANGED <<created_at, last_state, gauge, depth, server, faults>>

\* Any other status
Rejected(t) ==
  /\ pc[t] = "wait"
  /\ answer[t] = "rejected"
  /\ RecordFailure(posting[t], seen[t][posting[t]])
  /\ NextRecord(t)
  /\ UNCHANGED <<created_at, last_state, gauge, depth, server, faults>>

\* httpx.RequestError, at any time: the request may not have left the device,
\* or be on its way, or have been answered with the answer lost.
NetworkError(t) ==
  /\ pc[t] = "wait"
  /\ RecordFailure(posting[t], seen[t][posting[t]])
  /\ late' = late \cup Unanswered({t})
  /\ NextRecord(t)
  /\ UNCHANGED <<created_at, last_state, gauge, depth, received, faults>>

------------------------------------------------------------------------------
(* _refresh_queue_depth_metric(), at the end of enqueue() and drain_queue() *)

ReadDepth(t) ==
  /\ pc[t] = "depth"
  /\ depth' = [depth EXCEPT ![t] = Cardinality(queue)]
  /\ Goto(t, "gauge")
  /\ UNCHANGED <<table, last_state, gauge, request, server, faults>>

SetGauge(t) ==
  /\ pc[t] = "gauge"
  /\ gauge' = depth[t]
  /\ depth' = [depth EXCEPT ![t] = 0]
  /\ Goto(t, "idle")
  /\ UNCHANGED <<table, last_state, request, server, faults>>

------------------------------------------------------------------------------
(* Failures, and the world around the queue                                 *)

\* sqlite3.Error from any of a thread's transactions; a write fails only once
\* the request it follows has ended.
StorageFails(t) ==
  /\ pc[t] \in {"fetch", "wait", "depth"}
  /\ Fault
  /\ Abort(t)
  /\ late' = late \cup Unanswered({t})
  /\ UNCHANGED <<table, last_state, gauge, depth, received>>

\* The process is killed and started again: the table is all that survives.
Crash ==
  /\ Fault
  /\ last_state' = "OFFLINE"
  /\ gauge' = 0
  /\ pc' = [t \in Threads |-> "idle"]
  /\ batch' = [t \in Drains |-> {}]
  /\ seen' = [t \in Drains |-> [r \in Reports |-> 0]]
  /\ posting' = [t \in Drains |-> NoReport]
  /\ answer' = [t \in Drains |-> "none"]
  /\ depth' = [t \in Threads |-> 0]
  /\ late' = late \cup Unanswered(Drains)
  /\ UNCHANGED <<table, received>>

\* GET /sync/connectivity, in a thread of its own.
CheckConnectivity ==
  /\ last_state' \in ConnectivityStates
  /\ UNCHANGED <<table, gauge, pc, request, depth, server, faults>>

\* The central server stores the report and answers 2xx ...
ServerAccepts(t) ==
  /\ pc[t] = "wait"
  /\ answer[t] = "none"
  /\ answer' = [answer EXCEPT ![t] = "accepted"]
  /\ received' = received \cup {posting[t]}
  /\ UNCHANGED <<table, last_state, gauge, pc, batch, seen, posting, depth, late, faults>>

\* ... or answers something else, perhaps (a gateway's 5xx) after storing it.
ServerRejects(t, stored) ==
  /\ pc[t] = "wait"
  /\ answer[t] = "none"
  /\ answer' = [answer EXCEPT ![t] = "rejected"]
  /\ received' = IF stored THEN received \cup {posting[t]} ELSE received
  /\ UNCHANGED <<table, last_state, gauge, pc, batch, seen, posting, depth, late, faults>>

\* A request the device no longer waits for arrives after all.
LateArrival(r) ==
  /\ r \in late
  /\ late' = late \ {r}
  /\ received' = received \cup {r}
  /\ UNCHANGED <<table, last_state, gauge, pc, request, depth, faults>>

\* The clock is set back: the rows that have been tried have waited that much less.
SetClock ==
  /\ Fault
  /\ \E d \in 1..MaxSetback :
       waited' = [r \in Reports |->
                   IF r \in queue /\ attempts[r] > 0 THEN waited[r] - d ELSE waited[r]]
  /\ UNCHANGED <<queue, attempts, created_at, last_state, gauge, pc, request, depth, server>>

Tick ==
  /\ \E r \in queue : waited[r] < BackoffMax
  /\ waited' = [r \in Reports |->
                  IF r \in queue /\ waited[r] < BackoffMax THEN waited[r] + 1 ELSE waited[r]]
  /\ UNCHANGED <<queue, attempts, created_at, last_state, gauge, pc, request, depth, server, faults>>

------------------------------------------------------------------------------

\* What a drain does by itself once it has been started.
DrainStep(t) ==
  \/ Probe(t) \/ Fetch(t) \/ Send(t)
  \/ Synced(t) \/ Rejected(t) \/ NetworkError(t)

RefreshStep(t) == ReadDepth(t) \/ SetGauge(t)

Server ==
  \/ \E t \in Drains : ServerAccepts(t) \/ \E stored \in BOOLEAN : ServerRejects(t, stored)
  \/ \E r \in Reports : LateArrival(r)

Next ==
  \/ \E r \in Reports : Enqueue(r)
  \/ EnqueueFails
  \/ \E t \in Drains, force_check \in BOOLEAN : StartDrain(t, force_check)
  \/ \E t \in Drains : DrainStep(t)
  \/ \E t \in Threads : RefreshStep(t) \/ StorageFails(t)
  \/ Crash
  \/ CheckConnectivity
  \/ Server
  \/ Tick
  \/ SetClock

Spec == Init /\ [][Next]_vars

(***************************************************************************)
(* A running thread is scheduled, a request ends (httpx gives up after 30  *)
(* seconds) and time passes.  Nothing obliges anyone to start a drain, the *)
(* server to answer, or a late request to arrive.                          *)
(***************************************************************************)
Fairness ==
  /\ \A t \in Drains : WF_vars(DrainStep(t))
  /\ \A t \in Threads : WF_vars(RefreshStep(t))
  /\ WF_vars(Tick)

LiveSpec == Spec /\ Fairness
------------------------------------------------------------------------------
(* Properties                                                               *)

\* Every variable has its type; in particular no row and no snapshot ever counts
\* more attempts than the limit, whatever the drains do to each other.
TypeOK ==
  /\ queue \subseteq Reports
  /\ attempts \in [Reports -> 0..MaxAttempts]
  /\ waited \in [Reports -> Int]
  /\ created_at \in [Reports -> Nat]
  /\ last_state \in ConnectivityStates
  /\ gauge \in Nat
  /\ pc \in [Threads -> {"idle", "probe", "fetch", "send", "wait", "depth", "gauge"}]
  /\ batch \in [Drains -> SUBSET Reports]
  /\ seen \in [Drains -> [Reports -> 0..MaxAttempts - 1]]
  /\ posting \in [Drains -> Reports \cup {NoReport}]
  /\ answer \in [Drains -> {"none", "accepted", "rejected"}]
  /\ depth \in [Threads -> Nat]
  /\ received \subseteq Reports
  /\ late \subseteq Reports
  /\ faults \in Nat

\* Whatever is lost on the way - answers, requests, the process, a transaction -
\* a report once enqueued is in the table or at the central server.
NoReportLost == \A r \in Enqueued : r \in queue \/ r \in received

\* A record deleted because one drain got it through does not come back when
\* another drain, which read it before, records a failure for it.
SyncedStaysSynced == [][\A r \in Enqueued : r \notin queue => r \notin queue']_vars

\* Everyone counts the attempts for r from n at least: its row, and every drain
\* that will write the count it has read plus one.
CountedFrom(r, n) ==
  /\ attempts[r] >= n
  /\ \A t \in Drains : r \in batch[t] => seen[t][r] >= n

\* Concurrent drains overwrite each other's counts, but never set a record back
\* behind what somebody still counts from: no interleaving retries it for ever.
RetriesNeverSetBack ==
  [][\A r \in queue, n \in 1..MaxAttempts :
       r \in queue' /\ CountedFrom(r, n) => CountedFrom(r, n)']_vars

\* The request of a drain has failed, and it goes on to its next step.
FailureRecorded(t) ==
  /\ pc[t] = "wait"
  /\ pc'[t] \in {"send", "depth"}
  /\ posting[t] \in queue'

\* A failed request costs the record one attempt and restarts its backoff
\* (architecture.md: "attempts += 1, backoff applied").
EachFailureCounts ==
  [][\A t \in Drains : FailureRecorded(t) =>
       /\ attempts'[posting[t]] = attempts[posting[t]] + 1
       /\ waited'[posting[t]] = 0]_vars

\* A dead letter stays in the table untouched until somebody intervenes
\* (architecture.md: "requires manual intervention").
DeadLetterIsFinal == [][DeadLetters \subseteq DeadLetters']_vars

\* The backoff has elapsed, for the attempts the row counts, when a request is
\* sent: not only when the batch was read, as many requests ago as it holds.
BackoffRespected ==
  [][\A t \in Drains : pc[t] = "send" /\ pc'[t] = "wait" => Due(posting'[t])]_vars

\* Nothing is left to do for r: delivered, or a dead letter.
Settled(r) == r \notin queue \/ r \in DeadLetters

\* As long as somebody keeps draining and the probe keeps finding the server, every
\* record is settled in the end, for good: no bad record, no full batch and no
\* other drain keeps it waiting for ever.
QueueSettles ==
  []<>(\E t \in Drains : pc[t] = "fetch") => \A r \in Reports : <>[]Settled(r)

\* The table and the server implement the outbox of the design.
AbstractOutbox ==
  INSTANCE Outbox WITH accepted <- Enqueued, outstanding <- queue, delivered <- received

OutboxSpec == AbstractOutbox!Spec
=============================================================================
