# FieldOpsIQ: specifications and proofs

TLA+ specifications of FieldOpsIQ, the offline field-report device: a technician's
recording is transcribed and structured on the device, stored in SQLite, and synced to
a central server when there is a connection. TLC checks the specifications on small
instances; TLAPS proves the most important properties for every value of their constants.

Source paths below are relative to the repository (`src/services/...`, `docs/...`).

## 1. The system

One process (uvicorn, one worker, one replica) on the device. Its actors are

- **the event loop thread**, which runs `async` handlers: `submit_job` is one, and from
  the end of the upload on it awaits nothing, so a pipeline run holds the event loop;
- **the pool threads** in which Starlette runs the plain `def` handlers: every
  `POST /sync/drain` is a thread of its own, and nothing keeps two from overlapping;
- **the outside**: Ollama, the central server, the network, the technician's UI, and an
  operating system that may kill the process at any time.

| Component | State it keeps | Operations | What makes it correct |
|---|---|---|---|
| `services/sync/sync_queue.py` `SyncQueueWorker` | table `sync_queue` (one row per undelivered report: attempts, last attempt), gauge of its depth | `enqueue`, `drain_queue` (read a batch, post each record, delete it or count a failure), `dead_letter_records`, `queue_depth` | nothing accepted is lost; nothing synced comes back; retries are bounded, spaced by the backoff, and end; one bad record does not stop the others; dead letters wait for a human |
| `services/sync/connectivity.py` `ConnectivityProbe` | last known state, shared by all threads | `check`, `last_known_state` | a drain goes ahead on a state somebody observed |
| `services/pipeline.py` `FieldOpsPipeline` | none of its own; drives a job's status | `run` | stages in order; status never ahead of the data; every failure answered and marked |
| `services/storage/sqlite_service.py` `SQLiteStorageService` | tables `audio_jobs`, `transcripts`, `field_reports` | upserts and reads, a transaction each | atomic, repeatable writes |
| `services/stt/*`, `services/llm/structuring_service.py` | a loaded model; nothing | `validate`, `probe_duration_seconds`, `normalize`, `load_model`, `transcribe`, `structure` (asks the model up to three times) | ends with a result or a domain error; a transcript is flagged for a reason |
| `api/routes/jobs.py`, `sync.py`, `health.py` | the recording files | `submit_job`, drain, status, reads | the answer is true |
| `api/main.py` | the running process | `lifespan` (secrets checked, model loaded), the stack of middleware, the exception handlers | nothing is served before the model is loaded; every answer is audited |
| `api/dependencies.py` | `lru_cache` singletons; the token | constructors, `require_api_token` | one worker and one probe per process; only the token opens `/jobs` and `/sync` |
| `api/middleware/rate_limit.py` | a window of time stamps per client | `dispatch` | no more than the limit in any window |
| `api/middleware/audit.py`, `observability/*` | metrics | logging | a line per request; two gauges that claim to tell a current number |
| `config/settings.py`, `domain/*` | constants, limits, thresholds | validation | production secrets present |
| `ui/app.py` | what the technician sees | submit (gives up after 120 s), drain (60 s), status | what it says is true |

How they interact: `submit_job` calls `run`, which calls the services and the storage in
sequence and ends with `enqueue`; `drain_queue` shares only the table, the probe and the
gauge with it. The job's row and the queue's row for the same report are written by
different parts and nothing connects them once a drain has deleted the latter. The routes
take the services from `lru_cache` functions in pool threads, so that several first requests
may construct the same one at once; the tables exist once one of them has constructed the
storage service. The UI is another process, and knows of a run only what it was answered.

What is hard here: drains that overlap each other and `enqueue` (a drain works from a
snapshot of attempts read up to a batch of 30-second requests earlier); lost answers and
late requests; a crash or an SQLite error between any two transactions; errors in the
error handler and outside the exception classes that are caught; liveness of retries
under a LIMIT that is applied before the backoff filter; answers that nobody waits for any
more, and notes that are submitted again; services constructed twice, or used before
another has made their table. `PROJECT.json` lists these
hazards at their lines with the properties that cover each.

## 2. The modules

| Module | Contents |
|---|---|
| `Outbox` | abstract: what the offline-first design promises of the queue. Three variables: reports *accepted*, *outstanding* on the device, *delivered* |
| `SyncQueue` | `SyncQueueWorker` and `ConnectivityProbe` in detail, any number of drains; implements `Outbox` |
| `SyncHistory` | `SyncQueue` with a history: how often the requests for each report have failed |
| `Pipeline` | `submit_job`, `FieldOpsPipeline.run` and the storage writes, with the queue as an instance of `Outbox` |
| `FieldDevice` | the composition: UI, `Pipeline` and `SyncQueue` in one process; implements `Pipeline` and `SyncQueue` |
| `ApiServer` | the process around them: startup, middleware, token, exception handlers, shared services |
| `RateLimit` | `RateLimitMiddleware` |
| `Computations` | resampling factors, transcript confidence, health address |
| `MCSyncQueue`, `MCApiServer`, `MCFieldDevice`, `MCComputations` | symmetry, a view and input values for TLC |
| `PipelineClaims`, `ApiServerClaims` | what docs, comments and tests say and the code does not keep |
| `SyncQueueProofs`, `SyncHistoryProofs`, `PipelineProofs`, `FieldDeviceProofs`, `ApiServerProofs`, `RateLimitProofs`, `ComputationsProofs` | the theorems about the module they are named after |
| `NatLemmas` | lemmas about the natural numbers: induction, and functions defined by recursion |

### SyncQueue

A step is one SQLite transaction, one network event, or one assignment to shared memory.

| Code | Specification |
|---|---|
| rows of `sync_queue`; columns `attempts`, `last_attempt_at`, `created_at` | `queue`; `attempts`, `waited` (time since the last attempt, saturating at the backoff's cap, which also stands for NULL), `created_at` (as a rank) |
| `ConnectivityProbe._last_state`, the depth gauge | `last_state`, `gauge` |
| where a thread is; `records` and `record.attempts` in `drain_queue`; the request under way and its answer | `pc`; `batch`, `seen`; `posting`, `answer` |
| the value between `queue_depth()` and `SYNC_QUEUE_DEPTH.set` | `depth` |
| the central server's reports; requests nobody waits for | `received`, `late` |
| `enqueue` | `Enqueue`, `EnqueueFails`, then `ReadDepth`, `SetGauge` |
| `drain_queue` | `StartDrain`, `Probe`, `Fetch`, then per record `Send` and one of `Synced`, `Rejected`, `NetworkError`; `ReadDepth`, `SetGauge` |
| `_fetch_eligible_records`: WHERE, ORDER BY and LIMIT, backoff filter | `Retryable`, `FirstInLine`, `Eligible` |
| `_mark_synced`, `_record_failure`, `_backoff_elapsed` | `MarkSynced`, `RecordFailure`, `Due` |
| `sqlite3.Error` in a drain or in the refresh; killed process | `StorageFails`; `Crash` |
| `GET /sync/connectivity` | `CheckConnectivity` |
| the wall clock in `_record_failure` and `_backoff_elapsed`, set back | `SetClock` |

The server may store a report and still answer an error (a gateway's 5xx); a network
error may hit before the request left, on its way, or after the answer: `late` keeps the
requests that may still arrive. Reports are enqueued once each, as every run makes a
new job. Payloads, error texts, headers and counters are left out.

`SyncHistory` adds one variable, `failures`, that the code does not have: of each report, how
many requests have ended in `_record_failure`, by the attempts the drain had read. The column
`attempts` is not their number, because a drain writes the attempts it has read plus one: two
failures of overlapping drains may count as one, and one failure may raise the column by two.

### Pipeline

A step is one transaction, one call of a service or the write of the recording; `pc[j]`
is what the request of job `j` does next, and the steps of `RunSteps` hold the event
loop. `status` is the column of `audio_jobs` (`"none"`: no row); the sets `recordings`,
`durations`, `transcripts`, `reports` say what is stored for which job. A service either
succeeds or raises an error of the domain. `structure` may also ask the model again
(`Repair`, bounded by `LLM_MAX_RETRIES`), and raise another exception
(`StructureRaisesOther`: JSON that is not an object of the right types). Every
transaction may fail (`WriteFails` inside the `try` block of `run`,
`UnguardedWriteFails` outside it), and `Crash` may strike anywhere. The queue appears
as `Outbox`: `Enqueue` is its `Accept`, `Drain` its `Deliver` and `Forget`. That is what
`SyncQueue` is shown, and proved, to implement.

### FieldDevice

The variables of `SyncQueue` and of `Pipeline` (whose `pc` and `faults` are renamed `step`
and `run_faults`), and `ui`, what the UI has for each submission. A job is a pair of a voice
note and the number of its submission: `uuid4` gives every submission a job, and a report,
of its own. Every step is a step of the two modules, together where the code is one:

| Code | Specification |
|---|---|
| `enqueue()` called by `run()` | `Enqueue` = `Sync!Enqueue` and `Pipe!Enqueue`; `ReadDepth`; `SetGauge` = `Sync!SetGauge` and `Pipe!RefreshDepth`; `EnqueueFails` and `RefreshFails` |
| the other stages of `run()`, `submit_job()` | `Arrive`, `Run`, `RunFails`, which leave the queue alone |
| `POST /sync/drain`: the route on a free event loop, the drain in a thread | `StartDrain`, `Drain`, `DrainFails` |
| the server, the network, time; a killed process | `World`; `Crash` of both |
| `submit_recording()`: a press of the button with its post, the answer, `httpx.RequestError` | `SubmitRecording`, `ShowAnswer`, `GiveUp` |

The form keeps the voice note and the button stays active, so `SubmitRecording` may follow
anything: an error, a timeout, a success, or a press that is still waiting.

`Pipe` sees of the queue what `Outbox` has: the reports ever enqueued, the rows, and what
the server has received. The UI's request may still arrive after it has given up. The
liveness probe that a long run keeps waiting until the process is killed is a `Crash`.

### ApiServer

A step is the startup's reading of its settings, one dependency of a request resolved, one
constructor, the body of a route, or one layer of the stack on the way out.

| Code | Specification |
|---|---|
| `Settings.validate_production_secrets`; `lifespan` | `MissingSecrets`, `Start`; `LoadModel`, `LoadModelFails` |
| the calls of `add_middleware`, in their order; the stack that Starlette builds of them | `Added`; `Stack`, and `inside`, the layers a request is inside of |
| the way in: past the rate limiter, or answered by it from its place in the stack | `Arrive`, `Throttle` |
| the way out: the exception handlers, `call_next` of each middleware, Starlette's 500 | `HandleException`, `PassOn`, `Audit`, `AnswerError`; `Depart` |
| what `AuditLoggingMiddleware` logs | `log`: of each request, its lines, with the status or the exception |
| `require_api_token`, a dependency of both routers | `TokenResult`, `CheckToken` |
| what `Depends` of each route asks for | `Needs`, `todo` |
| the functions under `@lru_cache` | `Lookup` (a hit, or a call that misses), `Make` (the constructor, then the cache), `Cached`, `MakeFails` |
| `SQLiteStorageService.__init__` creating the schema | `SchemaExists`, `table` |
| the exception handlers, found by class | `Handled`, `HandlerOf`, `Handle` |
| the routes | `AnswerHealth`, `ReadTable`, `Submit`, `CheckConnectivity`, `Drain` |

`Submit` and `Drain` are one step here; what happens inside is in `Pipeline` and
`SyncQueue`. An instance of a service is named after the request that constructed it. The
order of the middleware is data: nothing but `Added` says that the audit log is outside the
rate limiter. The reads of `job` stand for the four GET routes of `/jobs`, those of `status`
also for `GET /sync/dead-letter`, which asks for the same worker and table.

### Computations

Three computations, each on one input chosen at the start. `Divide` is one turn of the loop
of `_gcd`; `up` and `down` are what `normalize` passes to `resample_poly`. `AddSegment` adds
a segment to a transcript, for which `LowConfidence` and `LowSegment` are
`Transcript.low_confidence` and `is_segment_low_confidence` (log probabilities in tenths).
`AddPart` lengthens the configured URL, as its parts between slashes; `HealthUrl` is
`_derive_health_url`.

### RateLimit

`requests` is the deque of each client, `served` the history of what it was let through
for; `Pops(w, n)` says that the loop pops exactly `n` entries. Nothing is awaited between
the clock and the decision, so a request is one step. A restart forgets the deques, and
with them the history the properties speak of; it is not modelled. The number of clients
remembered has no bound in the code.

## 3. What TLC checks

Runs that pass (two workers; each within two and a half minutes):

| Run | Instance | Properties |
|---|---|---|
| `SyncRace` | 2 reports, 2 drains, 2 attempts, batches of 2, 1 fault, among them a clock set back; 1.5 million states | `SyncedStaysSynced`, `RetriesNeverSetBack`, `OutboxSpec` |
| `SyncCrash` | `SyncHistory`: 1 report, 2 drains, 3 attempts, 1 fault; 0.7 million | `TypeOK`, `NoReportLost`, `DeadLettersTried`, `RetriesBounded`, `QueueSettles` |
| `SyncSerial` | 2 reports, 1 drain, 3 attempts, batches of 1, 2 faults; 0.4 million | `EachFailureCounts`, `DeadLetterIsFinal`, `BackoffRespected`, `QueueSettles` |
| `PipelineRun` | 2 jobs, 3 requests to the model, 2 faults; 56 thousand | `TypeOK`, `StatusBacked`, `QueuedIsComplete`, `ReplyTruthful`, `StagesInOrder`, `ReviewsAreStored`, `EveryRequestEnds` |
| `DeviceRun` | 1 voice note, 2 submissions, 1 drain, 1 attempt, 1 fault; 0.6 million | `TypeOK`, `AcknowledgedIsKept`, `ErrorQueuedNothing`, `PipelineSpec`, `AcknowledgedArrives` |
| `ApiRun` | 2 overlapping requests to any routes, 2 probe states, every environment, any restarts; 0.7 million | `TypeOK`, `OnlyTokenOpens`, `ProductionConfigured`, `ModelLoadedBefore`, `TableWhenNeeded`, `AnswersAudited` |
| `RateLimitWindow` | 2 clients, limit 2, window 2, 8 times; 0.1 million | `TypeOK`, `LimitKept`, `RejectedForCause` |
| `ComputationsRun` | sample rates 1 to 300, about 16000, and those in use; up to 4 segments; URLs of up to 7 parts; 5547 states | `ResampleExact`, `ReviewHasCause`, `HealthUrlIsSibling` |

What they show:

- `OutboxSpec`: the table and the server implement at-least-once delivery. A report is
  dropped only once the server has it, whatever drains, faults and late requests do.
- `SyncedStaysSynced`: a drain that records a failure for a record another drain has just
  delivered does not bring it back (`_record_failure` is an UPDATE; an upsert would).
- `RetriesNeverSetBack`: drains overwrite each other's counts, since each writes the
  attempts of its snapshot plus one, but never below a count that the row and every drain
  holding the record start from. This is why retries end even with overlapping drains.
- `DeadLettersTried`: and they do not end early. A record is given up only after a request has
  really failed after each number of attempts below the limit, although the column may jump,
  and although the process may be killed between a request and its result.
- `RetriesBounded`: nor late without limit. With `d` drains at a time, at most `d^(n+1)` requests
  fail of those that drains send having read `n` attempts; with one drain that is one for each,
  the documented retries. With two that overlap, TLC finds that at most `n + 2` do.
- `QueueSettles`: as long as somebody keeps draining and the probe keeps finding the
  server, every record is delivered or dead in the end, and stays so.
- `EachFailureCounts`, `DeadLetterIsFinal`, `BackoffRespected`: the sync queue state
  machine of `docs/diagrams/architecture.md`, true of one drain at a time only.
- `StatusBacked`: a status, read after a crash or error, can be relied on: what it says is
  stored is stored.
- `QueuedIsComplete`: a report that is queued or delivered can be looked up on the device
  with its recording and transcript, even when its job is marked FAILED.
- `ReplyTruthful`: 201 means queued or delivered, 422 means marked FAILED, for good.
- `StagesInOrder`: no stage is skipped or repeated, although `save_job` rewrites QUEUED.
- `ReviewsAreStored`: the review gauge never sends anybody looking for a flagged report that
  is not on the device, whatever write fails and however often the process is killed. It may
  well announce fewer: a restart sets it to 0.
- `EveryRequestEnds`: a request behind others that hold the event loop gets its turn, and
  the repair loop gives up.
- `PipelineSpec`: with the detailed queue and its drains in the place of `Outbox`, the device
  is still what `Pipeline` says. A drain may deliver and delete a report while the run that
  has enqueued it is still to refresh the gauge and mark its job.
- `AcknowledgedIsKept`: once the UI has shown "Report created and queued for sync", the report
  is queued or delivered, its job PENDING_SYNC and its sources on the device, whatever drains,
  crashes and further submissions do.
- `ErrorQueuedNothing`: after an error it is safe to press the button again. Unless the process
  has been killed or a write has failed, nothing of that submission is queued, or has been sent
  by a drain under way. After a timeout or a success it is not: another press is another report.
- `AcknowledgedArrives`: as long as somebody keeps draining, and the probe keeps finding the
  server, what was acknowledged reaches the server or ends as a dead letter.
- `OnlyTokenOpens`, `ProductionConfigured`: outside development, a request without the token
  gets no service and no 500, however the token or the header is missing; and in production
  it is always the header's fault, because the startup has checked the setting.
- `ModelLoadedBefore`: no request loads the model, or waits for it.
- `TableWhenNeeded`: a job finds its tables, and after the first one so does every request,
  although the worker that uses them does not create them.
- `AnswersAudited`: who is answered has exactly one line in the audit log, also when the rate
  limiter has answered, or nobody has handled the exception; and the line tells the status of
  the answer, or the exception behind a 500. It rests on the order of `add_middleware`.
- `ResampleExact`: `up` and `down` are whole, exact and in lowest terms for every rate.
- `ReviewHasCause`: the mean over a transcript and the check of a segment, which treat a
  missing log probability differently, do not contradict each other.
- `HealthUrlIsSibling`: the probe asks the endpoint beside the configured one.
- `LimitKept`, `RejectedForCause`: the limit holds in every window wherever it is laid,
  and only a client's own served requests, none older than the window, use it up.

Each property has a mutant in `PROJECT.json`: a plausible bug (an upsert, a LIMIT that
counts dead letters, an error that is swallowed), stated as an operator next to the
definition it changes, which makes TLC report the property violated.

### Bounds

`MaxFaults` bounds crashes, storage errors and set clocks; nothing else in the queue
is cut off by a constraint, and the other variables are bounded by the constants.
Two drains are enough for a pair of snapshots to conflict, and the proofs of section
4 cover any number. `MaxAttempts` of 2 or 3 gives a first attempt, a retry and the
last one; batches of 1 and 2 with two reports give a LIMIT that cuts and one that
does not. The backoff base is 1 unit and the cap 1, 2 or 3, below and at
`BackoffBase * 2^attempts`, so that both branches of the minimum occur. `SyncRace`
uses symmetry of reports and of drains, and a `VIEW` without the gauge and the depth
on its way there, which no guard and none of its properties depends on; it has safety
properties only.
`DeviceRun` takes at most one fault in total: it asks how the parts fit together,
and their behaviour under more of them is in the other runs. Two submissions are enough for
one that follows, or overlaps, another with any result. Its `VIEW` leaves out the
probe's cached state and the values of the gauge, which are only written, or copied
to one another, and how long a row has waited that is not to be tried again: no guard
and no property beside the types depends on them. With one attempt, no row is.
In `ApiRun` a request that has ended may be followed by another in its place, so two
places give any number of requests, two at a time; two first requests at once are
what it takes to construct a service twice. Its two probe states are a server that is there
and one that is not. Its `VIEW` leaves out what the probes remember, which no guard and no
property but the types reads, and has of a header only whether it is the right one, and of a
request on its way out only whether its route is protected; the runs of the claims, which
stop at a violation, have no view. `ComputationsRun` has sample rates that are coprime to the target,
multiples and divisors of it and next to it, log probabilities on both sides of the
threshold, and URLs with a path, without, and with slashes anywhere; `ResampleExact`
is proved for all rates. Deadlock is checked for the queue and the API process, and
off where the system may stop: all requests answered, all computations done.

### Fairness

`SyncQueue`: a thread inside `drain_queue` or the refresh goes on (`DrainStep`,
`RefreshStep`), which includes that a request ends, since httpx gives up after 30 seconds
(`httpx.Client(timeout=30)`), and time passes (`Tick`). Nothing makes anybody start a
drain, the server answer or a late request arrive: `QueueSettles` takes "a drain reads a
batch again and again" as its hypothesis, because the code has no scheduler. `Pipeline`:
the upload is read once the loop is free (`WriteRecording`), and a run goes on
(`RunStep`), since decoding a bounded recording ends and requests to Ollama time out.
`FieldDevice`: a drain goes on and time passes, nothing else: `AcknowledgedArrives` does not
depend on the runs, the uploads or the technician. `ApiServer`, `RateLimit` and `Computations`
have safety properties only. Crashes and write errors are never fair.

### What the code does not keep

The runs named `Claim...` check what a doc, a comment or a test says, and TLC finds it
violated; `PROJECT.json` quotes the line under "findings".

- `ClaimDeadLetterFinal`: overlapping drains revive or delete a dead letter
  (`architecture.md:94`, "requires manual intervention").
- `ClaimFailureMarked`: a TypeError from the model's output escapes `run`, and the job
  keeps STRUCTURING (`ADR-008:16-17`).
- `ClaimStaleProbe`: when two first requests construct a probe each, the worker keeps one and
  `GET /sync/status` shows the other for the life of the process (`ADR-007:55-56`).
- `ClaimUiToken`: the UI sends no token, and production, which the quick start of
  `README.md:75-80` brings up, refuses it.

Other disagreements seen in the code, not made into runs:

- of the queue: the LIMIT is applied before the backoff filter (`sync_queue.py:141`), so that
  records in backoff can hide one that is due, though not for ever (`QueueSettles`;
  `sync_queue.py:8-9` says that a bad record does not block the rest); the depth
  gauge may stay on an older count, since `sync_queue.py:262` reads it in one step and sets it
  in another (`metrics.py:56` calls it the current number); `SYNC_MAX_ATTEMPTS` is a
  constant, and `settings.sync_max_attempts` (`settings.py:63`), which
  `tests/unit/test_sync_queue.py:114` sets to 3, is not read, nor is `sync_enabled` when
  enqueueing; the queue is drained when DEGRADED (`architecture.md:88` says ONLINE); drains are
  manual, though `README.md:10`, `ui/app.py:119` and `sync_queue.py:6-7` speak of automatic
  sync (ADR-007:51-54 admits it); a dead letter may have been delivered, its answers lost
  (ADR-003:36);
- of jobs: nothing resumes an interrupted one (`pipeline.py:34-36`); none ever becomes SYNCED
  (`architecture.md:107`); FAILED is reached from TRANSCRIBED and STRUCTURED too
  (`architecture.md:108-110`); flagged reports are synced (`schemas.py:168` says otherwise,
  ADR-004:57 agrees with the code), but the warnings that ADR-004:58 says "travel with it" stay
  in the answer to the UI: a queued record has the report only; the review gauge forgets at a
  restart (`metrics.py:76`); `preprocessor.py` says that every file is normalized, and
  nothing calls `normalize`; `jobs.py` tells clients to poll a job whose id they learn with
  the final answer;
- of the process: on a new device `GET /sync/status` and an online drain answer 500 until the
  first job has made the tables; the quick start exports `API_AUTH_TOKEN` only, and a production
  process with the sync enabled refuses to start without `CENTRAL_SERVER_API_KEY`; the health
  address of a URL without a path, `https://host`, is `https://health`;
- of the UI: nothing keeps a technician from pressing the button again after a timeout, while
  the run goes on, or after a success: each press makes a job and a report of its own, and
  neither the device nor the central server is told that they are of one voice note
  (`app.py:139-143`); an answer of 4xx or 5xx to a drain or a status request raises an
  `httpx.HTTPStatusError` that no handler expects; "(offline, or queue empty)" is also shown when
  every record is in backoff or dead.

## 4. What TLAPS proves

`SyncQueueProofs`, for any finite set of reports, any set of drains and any limits:

| Theorem | Property |
|---|---|
| `TypeCorrect`, `NothingLost` | `TypeOK`, `NoReportLost` |
| `SyncedIsFinal`, `NeverSetBack` | `SyncedStaysSynced`, `RetriesNeverSetBack` |
| `ImplementsOutbox` | `OutboxSpec`, the refinement |
| `SerialDeadLetters`, `SerialFailuresCount` | `DeadLetterIsFinal`, `EachFailureCounts`, provided there is one drain at a time |
| `SerialBackoff` | `BackoffRespected`, provided there is one drain at a time and the clock is not set back |

Assumptions: the three named in `SyncQueue` (finitely many reports, distinct
threads, positive limits). Crashes, storage errors and clocks that are set back are
covered. The inductive invariant `IInv` adds to `TypeOK` and `NoReportLost` that a
drain's request is for a record of its batch, that batches, requests and late
requests hold enqueued reports only, and that an answer "accepted" means the server
has the report: without the last, `_mark_synced` could not be shown to delete only
delivered reports. `TypeOK` is where the limit is proved: a batch is read with
attempts below the limit, so snapshot plus one never passes it, however stale. The
serial theorems need one more conjunct, `BatchCurrent`: with a single drain, its
snapshot equals the row. `SerialBackoff` needs another, `BatchDue`: what the drain has still
to send stays due while it works, since time only passes and only the drain itself touches its
rows. Both hypotheses are needed: another drain may try a record that waits in this one's
batch, and a clock that is set back takes back what the record has waited. `Powers` and
`BackoffType` say, by induction, that the backoff is a number for every count of attempts.

`SyncHistoryProofs`, with the same assumptions, any number of overlapping drains and any faults:

| Theorem | Property |
|---|---|
| `GivenUpLate` | `DeadLettersTried` |
| `NotForEver` | `RetriesBounded`, provided there are finitely many drains (the server has so many threads) |

The invariant of the first, `CountsEarned`, says that neither the row nor the snapshot of any
drain counts an attempt without a failure to show for it; that is what makes "snapshot plus
one" harmless, since the drain that writes it has just seen one more request fail. The invariant
of the second, `RoomLeft`, counts the visits of a row to a number of attempts: while the row is
at `n` no request for it fails, and at most all the drains read the `n`; and it comes to `n`
by a failure after `n - 1`. So a failure after `n - 1` is good for at most as many after `n` as
there are drains, and the bound follows by induction on `n`. It is the part of `QueueSettles`
that can be stated as an invariant. `HistoryIsQueue` shows that the history does not change what
the queue may do.

`PipelineProofs`, for any finite set of jobs: `TypeCorrect`, `StatusIsBacked`,
`QueuedComplete`, `RepliesTruthful`, `InOrder` and `ReviewsStored`, for the properties of those
names. Its invariant says for every step of a run what is stored when it is reached, and which
statuses the job may have then; `InOrder` follows from the latter. `ReviewsStored` takes one
more: the gauge is at most the number of the reports `Announced`, those that are flagged and
stored and whose run is past `MarkStructured`, and each step of the gauge adds one of them.

Two more facts are proved there for the composition: runs exclude each other, and only a
fault keeps a run that has queued its report from answering 201.

`FieldDeviceProofs`, for any number of notes, submissions and drains:

| Theorem | Property |
|---|---|
| `ImplementsQueue` | every behaviour of the device is one of `SyncQueue` |
| `ImplementsPipeline` | `PipelineSpec` |
| `DeliversAtLeastOnce` | the device implements `Outbox`: `Sync!OutboxSpec` |
| `PromisesKept` | `StatusBacked`, `QueuedIsComplete` and `ReplyTruthful` of `Pipeline`, with the detailed queue |
| `TypeCorrect`, `Acknowledged`, `SafeToRetry` | `TypeOK`, `AcknowledgedIsKept`, `ErrorQueuedNothing` |

The argument is by composition. Each step of the device is a step of `SyncQueue` or leaves
its variables alone, so the invariant of `SyncQueueProofs` holds of the device. With it, and
its refinement lemma, a step of a drain or of the server is `Deliver`, `Forget` or nothing to
the pipeline, so each step is a step of `Pipeline` and the invariant of `PipelineProofs` holds
too. The device adds the interfaces: the event loop is refreshing the gauge exactly while a
run is at that step, and the UI is behind the answers. Assumptions: those of the two modules,
of the device's constants.

`ApiServerProofs`, for any set of overlapping requests and any restarts: `TypeCorrect`,
`TokenRequired`, `TokenConfigured`, `LoadedBefore`, `TableExists` and `Audited`, for all the
properties of `ApiRun`. None of them is inductive by itself, because what a request
has been given depends on what it had still to ask for. `Pending` says so: without the right
token its next task is the check of the token and it has no service yet; a submission asks for
the storage service as long as there is no table; a worker is constructed after the request
has a probe. `OnItsWay` says where a request is in the stack and in the log: `StackFacts`
works out of the order of `add_middleware` that the audit middleware is the second layer, so a
request that is inside of it has no line yet, and one that is outside has its line, which only
the outermost layer may then answer differently, with a 500. TLC has checked the invariant on the instance of `ApiRun` as well.

`RateLimitProofs`, for any limit and window: `TypeCorrect`, `WithinLimit` and `Justified`. The
invariant says that a deque is the end of the client's history and that the rest of it has
expired; so when the deque has room, the request `Limit` places back has left the window.

`ComputationsProofs`:

| Theorem | Property | For |
|---|---|---|
| `AlwaysExact` | `ResampleExact` | any sample rate and target rate |
| `FlaggedForCause` | `ReviewHasCause` | transcripts of any length, with any log probabilities |
| `AsksSibling` | `HealthUrlIsSibling` | any path, with any number of slashes behind it |

The invariant of the loop of `_gcd` is that `a` and `b` have the common divisors of the two
rates; at the end, `b` is 0 and `a` is the greatest of them. `FlaggedForCause` rests on
`MeanBounds`: a sum of terms that are all on one side of the threshold is on that side of the
threshold times their number, by induction on the number. `AsksSibling` rests on the place
where `rstrip` ends, which exists (`EndExists`) and is the only one (`EndUnique`); the path
always contains the host, so that it never ends before that. The URL of the model starts with
a scheme and a host, as the code expects of its setting; for one without a path, `https://host`,
the theorem says only that a second derivation changes nothing.

`NatLemmas` carries the inductions. The library's induction theorems take the property as
an operator parameter, which the provers cannot instantiate; stated of a set, that one which
contains 0 and with each number the next contains all, induction follows from the
theorem that the numbers are well-founded, and can be cited. `RecursionExists` says in the same
way that a function defined by recursion on the numbers satisfies its equation.

Only model-checked: the liveness properties `QueueSettles`, `EveryRequestEnds` and
`AcknowledgedArrives`, which take fairness and ENABLED and are out of the prover's reach. The
runs named `Claim...` are counterexamples, for TLC to find.

## 5. What is not modelled

- Contents: audio, text, reports, prompts, JSON, error messages, and the validation of
  fields. What they lead to - a flag, an error, another request to the model - is a choice.
- faster-whisper, Ollama, the central server, FastAPI and SQLite, which are present by what
  they may answer; transactions are atomic and durable. The signal processing of `normalize`,
  which nothing calls, beyond its factors.
- The rows the GET routes return, pagination, counters, histograms and logs. A number that is
  off for one answer, such as `GET /sync/status` reading depth and dead letters in two
  transactions, has no property.
- The order of creation under a clock that is set back: it only decides which record goes first.
- The number of clients the rate limiter remembers, which has no bound in the code; its history
  across restarts, which forget the deques.
- What CORS adds to an answer (it is a layer that passes everything on; a preflight request is
  left out), `GET /metrics`, `close()` of the services, deployment files. They fix one replica with
  one server process, which the modules assume.
- A queued report is always a valid one, so `_fetch_eligible_records` never fails to parse it.

Hazards that no property covers are listed in `PROJECT.json` with a note: the gauge that shows
an older count and the status answer above, where the code promises nothing; and that nobody
but a user starts a drain, which `QueueSettles` and `AcknowledgedArrives` have as a hypothesis.

## 6. Plan

Done, in this order: `Outbox`, `SyncQueue`, `Pipeline` and `RateLimit`, each with its runs and
proofs; then `ApiServer`, `FieldDevice` and `Computations` with theirs, the clock that is set
back, and the history of failures. Every safety and action property of the passing runs is
proved, under the hypotheses of section 4. What remains could be added without changing the
modules: the JSON repair loop with the kinds of invalid answers told apart; the rate limiter
inside `ApiServer` instead of its outcome; a tight bound in `RetriesBounded`; and two devices
that report to one central server, should the code come to deduplicate deliveries.
