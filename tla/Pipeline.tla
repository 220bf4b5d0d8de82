------------------------------- MODULE Pipeline -------------------------------
(***************************************************************************)
(* POST /jobs: submit_job() of the API, FieldOpsPipeline.run() and the     *)
(* writes of SQLiteStorageService, from the uploaded recording to the row  *)
(* in the sync queue.                                                      *)
(*                                                                         *)
(* submit_job() is a coroutine and run() is not: requests overlap while    *)
(* their uploads are read, and from there to its end a run holds the event *)
(* loop.  A step is one transaction, one call of a service, or the file    *)
(* write.  Every transaction may fail, and the process may be killed       *)
(* between any two steps.                                                  *)
(*                                                                         *)
(* The sync queue is present as the outbox that SyncQueue implements:      *)
(* enqueue() accepts a report, and drains deliver and drop it meanwhile.   *)
(***************************************************************************)
EXTENDS Naturals, FiniteSets

CONSTANTS Jobs,           \* the recordings technicians submit
          MaxRetries,     \* LLM_MAX_RETRIES
          MaxFaults       \* bound on crashes and failed writes of a run

ASSUME JobsAssumption == IsFiniteSet(Jobs)
ASSUME MaxRetriesAssumption == MaxRetries \in Nat \ {0}
ASSUME MaxFaultsAssumption == MaxFaults \in Nat

\* JobStatus; "none" stands for no row in audio_jobs.
Statuses == {"none", "QUEUED", "TRANSCRIBING", "TRANSCRIBED", "STRUCTURING", "STRUCTURED",
             "PENDING_SYNC", "SYNCED", "FAILED"}

\* What a request does next.  Those of the first line hold the event loop.
RunSteps == {"save_job", "validate", "save_duration", "mark_transcribing", "transcribe",
             "save_transcript", "mark_transcribed", "mark_structuring", "structure",
             "save_report", "mark_structured", "enqueue", "depth", "mark_pending", "mark_failed"}
Steps == RunSteps \cup {"new", "reading", "done"}

\* The steps inside the try block of run() that run a transaction.
GuardedWrites == {"save_duration", "mark_transcribing", "save_transcript", "mark_transcribed",
                  "mark_structuring", "save_report", "mark_structured", "enqueue", "depth",
                  "mark_pending"}

Replies == {"none", "created", "unprocessable", "error", "lost"}

VARIABLES
  recordings,     \* files in audio_inbox_dir
  status,         \* audio_jobs.status
  durations,      \* jobs whose row has duration_seconds
  transcripts,    \* rows of transcripts
  reports,        \* rows of field_reports
  flagged,        \* jobs whose report, as its columns say, needs_human_review
  enqueued,       \* reports ever put in the sync queue
  sync_queue,     \* rows of sync_queue
  central,        \* reports the central server has
  review_gauge,   \* HUMAN_REVIEW_QUEUE_DEPTH
  attempt,        \* how often structure() has asked the model, this time included
  pc,             \* what the request of each job does next
  reply,          \* what the technician's UI was answered
  faults          \* crashes and failed writes so far

outbox == <<enqueued, sync_queue, central>>
disk   == <<recordings, status, durations, transcripts, reports, flagged>>
memory == <<review_gauge, attempt>>
vars   == <<disk, outbox, memory, pc, reply, faults>>

Outbox == INSTANCE Outbox
            WITH Reports <- Jobs, accepted <- enqueued, outstanding <- sync_queue, delivered <- central

------------------------------------------------------------------------------

Goto(j, l) == pc' = [pc EXCEPT ![j] = l]

At(j, l) == pc[j] = l

\* The request ends, and the UI gets its answer.
Answer(j, r) ==
  /\ Goto(j, "done")
  /\ reply' = [reply EXCEPT ![j] = r]

Running == {j \in Jobs : pc[j] \in RunSteps}

Fault ==
  /\ faults < MaxFaults
  /\ faults' = faults + 1

\* update_job_status, which changes nothing when there is no row.
SetStatus(j, s) ==
  status' = IF status[j] = "none" THEN status ELSE [status EXCEPT ![j] = s]

Init ==
  /\ recordings = {}
  /\ status = [j \in Jobs |-> "none"]
  /\ durations = {}
  /\ transcripts = {}
  /\ reports = {}
  /\ flagged = {}
  /\ Outbox!Init
  /\ review_gauge = 0
  /\ attempt = [j \in Jobs |-> 1]
  /\ pc = [j \in Jobs |-> "new"]
  /\ reply = [j \in Jobs |-> "none"]
  /\ faults = 0

------------------------------------------------------------------------------
(* submit_job()                                                             *)

Submit(j) ==
  /\ At(j, "new")
  /\ Goto(j, "reading")
  /\ UNCHANGED <<disk, outbox, memory, reply, faults>>

\* AudioJob() raises for a file of another type: a 500, and there never is a job.
SubmitFails(j) ==
  /\ At(j, "new")
  /\ Answer(j, "error")
  /\ UNCHANGED <<disk, outbox, memory, faults>>

\* The upload is read: the file is written and the run begins, on a free event loop.
WriteRecording(j) ==
  /\ At(j, "reading")
  /\ Running = {}
  /\ recordings' = recordings \cup {j}
  /\ Goto(j, "save_job")
  /\ UNCHANGED <<status, durations, transcripts, reports, flagged, outbox, memory, reply, faults>>

------------------------------------------------------------------------------
(* FieldOpsPipeline.run()                                                   *)

\* save_job() upserts the status the job object has, which run() never changes.
SaveJob(j) ==
  /\ At(j, "save_job")
  /\ status' = [status EXCEPT ![j] = "QUEUED"]
  /\ Goto(j, "validate")
  /\ UNCHANGED <<recordings, durations, transcripts, reports, flagged, outbox, memory, reply, faults>>

\* validate() and probe_duration_seconds(): every error is an AudioValidationError.
Validate(j) ==
  /\ At(j, "validate")
  /\ Goto(j, "save_duration") \/ Goto(j, "mark_failed")
  /\ UNCHANGED <<disk, outbox, memory, reply, faults>>

SaveDuration(j) ==
  /\ At(j, "save_duration")
  /\ status' = [status EXCEPT ![j] = "QUEUED"]
  /\ durations' = durations \cup {j}
  /\ Goto(j, "mark_transcribing")
  /\ UNCHANGED <<recordings, transcripts, reports, flagged, outbox, memory, reply, faults>>

\* The status updates between the stages.
Mark(j, l, s, next) ==
  /\ At(j, l)
  /\ SetStatus(j, s)
  /\ Goto(j, next)
  /\ UNCHANGED <<recordings, durations, transcripts, reports, flagged, outbox, reply, faults>>

MarkTranscribing(j) ==
  Mark(j, "mark_transcribing", "TRANSCRIBING", "transcribe") /\ UNCHANGED memory

MarkTranscribed(j) ==
  Mark(j, "mark_transcribed", "TRANSCRIBED", "mark_structuring") /\ UNCHANGED memory

MarkStructuring(j) ==
  Mark(j, "mark_structuring", "STRUCTURING", "structure") /\ UNCHANGED memory

\* A report that needs review is announced on the gauge, and goes on.
MarkStructured(j) ==
  /\ Mark(j, "mark_structured", "STRUCTURED", "enqueue")
  /\ review_gauge' = IF j \in flagged THEN review_gauge + 1 ELSE review_gauge
  /\ UNCHANGED attempt

\* transcribe(): whatever goes wrong is a TranscriptionError.
Transcribe(j) ==
  /\ At(j, "transcribe")
  /\ Goto(j, "save_transcript") \/ Goto(j, "mark_failed")
  /\ UNCHANGED <<disk, outbox, memory, reply, faults>>

\* Mutant of SaveTranscript: the job is saved with it, in the status it was made with.
SaveTranscriptAndJob(j) ==
  /\ At(j, "save_transcript")
  /\ transcripts' = transcripts \cup {j}
  /\ status' = [status EXCEPT ![j] = "QUEUED"]
  /\ Goto(j, "mark_transcribed")
  /\ UNCHANGED <<recordings, durations, reports, flagged, outbox, memory, reply, faults>>

SaveTranscript(j) ==
  /\ At(j, "save_transcript")
  /\ transcripts' = transcripts \cup {j}
  /\ Goto(j, "mark_transcribed")
  /\ UNCHANGED <<recordings, status, durations, reports, flagged, outbox, memory, reply, faults>>

\* Mutant of Structure: the report is queued at once, and not saved.
StructureAndQueue(j) ==
  /\ At(j, "structure")
  /\ flagged' \in {flagged, flagged \cup {j}}
  /\ Goto(j, "enqueue")
  /\ UNCHANGED <<recordings, status, durations, transcripts, reports, outbox, memory, reply, faults>>

\* Mutant of Structure: a report that needs review is announced before it is saved.
StructureAndAnnounce(j) ==
  /\ At(j, "structure")
  /\ flagged' \in {flagged, flagged \cup {j}}
  /\ review_gauge' = review_gauge + Cardinality(flagged' \ flagged)
  /\ Goto(j, "save_report")
  /\ UNCHANGED <<recordings, status, durations, transcripts, reports, outbox, attempt, reply, faults>>

\* structure() returns a valid report ...
Structure(j) ==
  /\ At(j, "structure")
  /\ flagged' \in {flagged, flagged \cup {j}}
  /\ Goto(j, "save_report")
  /\ UNCHANGED <<recordings, status, durations, transcripts, reports, outbox, memory, reply, faults>>

\* ... or raises a StructuringError: Ollama cannot be reached or answers an error, or
\* this was the last time to ask ...
StructureFails(j) ==
  /\ At(j, "structure")
  /\ Goto(j, "mark_failed")
  /\ UNCHANGED <<disk, outbox, memory, reply, faults>>

\* Mutant of Repair: the number of requests has no limit.
RepairForEver(j) ==
  /\ At(j, "structure")
  /\ attempt' = [attempt EXCEPT ![j] = IF @ < MaxRetries THEN @ + 1 ELSE 1]
  /\ UNCHANGED <<disk, outbox, review_gauge, pc, reply, faults>>

\* ... or asks again, telling the model what was wrong with its JSON ...
Repair(j) ==
  /\ At(j, "structure")
  /\ attempt[j] < MaxRetries
  /\ attempt' = [attempt EXCEPT ![j] = @ + 1]
  /\ UNCHANGED <<disk, outbox, review_gauge, pc, reply, faults>>

\* ... or a TypeError or AttributeError that no handler expects, for JSON of another
\* shape than an object of the right types: it leaves run() past its except clause.
StructureRaisesOther(j) ==
  /\ At(j, "structure")
  /\ Answer(j, "error")
  /\ UNCHANGED <<disk, outbox, memory, faults>>

SaveReport(j) ==
  /\ At(j, "save_report")
  /\ reports' = reports \cup {j}
  /\ Goto(j, "mark_structured")
  /\ UNCHANGED <<recordings, status, durations, transcripts, flagged, outbox, memory, reply, faults>>

\* SyncQueueWorker.enqueue(): the INSERT, then the refresh of the queue depth gauge,
\* which reads the table and may fail after the INSERT has been committed.
Enqueue(j) ==
  /\ At(j, "enqueue")
  /\ Outbox!Accept(j)
  /\ Goto(j, "depth")
  /\ UNCHANGED <<disk, memory, reply, faults>>

\* Mutant of RefreshDepth: the refresh can fail by itself, with the row committed.
RefreshDepthRaises(j) ==
  /\ At(j, "depth")
  /\ Goto(j, "mark_pending") \/ Goto(j, "mark_failed")
  /\ UNCHANGED <<disk, outbox, memory, reply, faults>>

RefreshDepth(j) ==
  /\ At(j, "depth")
  /\ Goto(j, "mark_pending")
  /\ UNCHANGED <<disk, outbox, memory, reply, faults>>

MarkPending(j) ==
  /\ At(j, "mark_pending")
  /\ SetStatus(j, "PENDING_SYNC")
  /\ Answer(j, "created")
  /\ UNCHANGED <<recordings, durations, transcripts, reports, flagged, outbox, memory, faults>>

\* The except clause of run(): submit_job() turns the result into a 422.
MarkFailed(j) ==
  /\ At(j, "mark_failed")
  /\ SetStatus(j, "FAILED")
  /\ Answer(j, "unprocessable")
  /\ UNCHANGED <<recordings, durations, transcripts, reports, flagged, outbox, memory, faults>>

------------------------------------------------------------------------------
(* Failures, and the drains                                                 *)

\* Mutants of WriteFails: the error of a write is logged, and the run goes on.
WriteFailsUnnoticed(j) ==
  /\ pc[j] \in GuardedWrites
  /\ Fault
  /\ Goto(j, IF At(j, "save_transcript") THEN "mark_transcribed" ELSE "mark_failed")
  /\ UNCHANGED <<disk, outbox, memory, reply>>

EnqueueFailsUnnoticed(j) ==
  /\ pc[j] \in GuardedWrites
  /\ Fault
  /\ Goto(j, IF At(j, "enqueue") THEN "mark_pending" ELSE "mark_failed")
  /\ UNCHANGED <<disk, outbox, memory, reply>>

\* A transaction in the try block fails and rolls back.
WriteFails(j) ==
  /\ pc[j] \in GuardedWrites
  /\ Fault
  /\ Goto(j, "mark_failed")
  /\ UNCHANGED <<disk, outbox, memory, reply>>

\* So does one outside it, or the write of the file: a 500.
UnguardedWriteFails(j) ==
  /\ \/ At(j, "reading") /\ Running = {}
     \/ At(j, "save_job")
     \/ At(j, "mark_failed")
  /\ Fault
  /\ Answer(j, "error")
  /\ UNCHANGED <<disk, outbox, memory>>

\* The process is killed; after the restart nothing looks for unfinished jobs.
Crash ==
  /\ Fault
  /\ pc' = [j \in Jobs |-> IF pc[j] = "new" THEN "new" ELSE "done"]
  /\ reply' = [j \in Jobs |-> IF pc[j] \in {"new", "done"} THEN reply[j] ELSE "lost"]
  /\ review_gauge' = 0
  /\ attempt' = [j \in Jobs |-> 1]
  /\ UNCHANGED <<disk, outbox>>

\* Mutant of Drain: a delivered report leaves the review gauge, which a restart resets.
DrainReviewed(j) ==
  /\ Outbox!Deliver(j) \/ Outbox!Forget(j)
  /\ review_gauge' = IF j \in flagged /\ j \notin sync_queue' THEN review_gauge - 1 ELSE review_gauge
  /\ UNCHANGED <<disk, attempt, pc, reply, faults>>

\* drain_queue() in other threads
Drain(j) ==
  /\ Outbox!Deliver(j) \/ Outbox!Forget(j)
  /\ UNCHANGED <<disk, memory, pc, reply, faults>>

------------------------------------------------------------------------------

RunStep(j) ==
  \/ SaveJob(j) \/ Validate(j) \/ SaveDuration(j)
  \/ MarkTranscribing(j) \/ Transcribe(j) \/ SaveTranscript(j) \/ MarkTranscribed(j)
  \/ MarkStructuring(j) \/ Structure(j) \/ StructureFails(j) \/ Repair(j) \/ StructureRaisesOther(j)
  \/ SaveReport(j) \/ MarkStructured(j)
  \/ Enqueue(j) \/ RefreshDepth(j) \/ MarkPending(j) \/ MarkFailed(j)

Next ==
  \/ \E j \in Jobs :
       \/ Submit(j) \/ SubmitFails(j) \/ WriteRecording(j) \/ RunStep(j)
       \/ WriteFails(j) \/ UnguardedWriteFails(j) \/ Drain(j)
  \/ Crash

Spec == Init /\ [][Next]_vars

(***************************************************************************)
(* An upload is read and a run goes on: decoding a recording of bounded    *)
(* length ends, and a request to Ollama ends after 60 seconds.  Uploads    *)
(* wait for the event loop, which serves them in turn.                     *)
(***************************************************************************)
Fairness ==
  \A j \in Jobs : WF_vars(WriteRecording(j)) /\ WF_vars(RunStep(j))

LiveSpec == Spec /\ Fairness
------------------------------------------------------------------------------
(* Properties                                                               *)

\* Every variable has its type.
TypeOK ==
  /\ recordings \subseteq Jobs
  /\ status \in [Jobs -> Statuses]
  /\ durations \subseteq Jobs
  /\ transcripts \subseteq Jobs
  /\ reports \subseteq Jobs
  /\ flagged \subseteq Jobs
  /\ enqueued \subseteq Jobs
  /\ sync_queue \subseteq Jobs
  /\ central \subseteq Jobs
  /\ review_gauge \in Nat
  /\ attempt \in [Jobs -> 1..MaxRetries]
  /\ pc \in [Jobs -> Steps]
  /\ reply \in [Jobs -> Replies]
  /\ faults \in Nat

HasTranscript == {"TRANSCRIBED", "STRUCTURING", "STRUCTURED", "PENDING_SYNC"}
HasReport == {"STRUCTURED", "PENDING_SYNC"}

\* The status of a job never runs ahead of what has been saved for it, so that after
\* a crash or an error the stage it names can be relied on: a row has its recording,
\* a transcribed job its transcript, a structured one its report, and a pending one
\* has been put in the sync queue.
StatusBacked ==
  \A j \in Jobs :
    /\ status[j] # "none" => j \in recordings
    /\ status[j] \in HasTranscript => j \in transcripts
    /\ status[j] \in HasReport => j \in reports
    /\ status[j] = "PENDING_SYNC" => j \in enqueued

\* Nothing is queued for, or delivered to, the central server that is not complete on
\* the device: the recording, the duration, the transcript and the report it came from
\* are there to look it up, whatever failed on the way.
QueuedIsComplete ==
  sync_queue \cup central \subseteq recordings \cap durations \cap transcripts \cap reports

\* What the technician is told is true and stays true: 201 means that the report is
\* in the queue or at the central server, 422 that the job is marked FAILED.
ReplyTruthful ==
  \A j \in Jobs :
    /\ reply[j] = "created" =>
         status[j] = "PENDING_SYNC" /\ j \in reports /\ j \in sync_queue \cup central
    /\ reply[j] = "unprocessable" => status[j] = "FAILED"

\* HUMAN_REVIEW_QUEUE_DEPTH never sends anybody looking for a report that is not there:
\* whichever write failed and however often the process was killed, it announces no more
\* reports than are stored with their need for review.
ReviewsAreStored == review_gauge <= Cardinality(flagged \cap reports)

\* The stages a run goes through, and the steps of the lifecycle: a stage follows the
\* one before it, or FAILED does.  FAILED is final, and so is what a finished run leaves.
InProgress == {"QUEUED", "TRANSCRIBING", "TRANSCRIBED", "STRUCTURING", "STRUCTURED"}

Lifecycle ==
  {<<"none", "QUEUED">>, <<"QUEUED", "TRANSCRIBING">>, <<"TRANSCRIBING", "TRANSCRIBED">>,
   <<"TRANSCRIBED", "STRUCTURING">>, <<"STRUCTURING", "STRUCTURED">>,
   <<"STRUCTURED", "PENDING_SYNC">>} \cup (InProgress \X {"FAILED"})

\* A job goes through the stages in their order, skips none and never goes back,
\* although save_job() writes the status the job object was made with.
StagesInOrder ==
  [][\A j \in Jobs : status'[j] # status[j] => <<status[j], status'[j]>> \in Lifecycle]_vars

\* Every request whose upload arrives comes to an end, behind any other that holds the
\* event loop, and unless the process is killed it has an answer.
EveryRequestEnds == \A j \in Jobs : pc[j] = "reading" ~> pc[j] = "done" /\ reply[j] # "none"
=============================================================================
