--------------------------- MODULE FieldDeviceProofs ---------------------------
(***************************************************************************)
(* Theorems about FieldDevice, for every number of voice notes, submissions *)
(* and concurrent drains, and any number of crashes and failed writes.     *)
(*                                                                         *)
(* The argument is by composition: every step of the device is a step of   *)
(* SyncQueue or leaves its variables alone, so the theorems of             *)
(* SyncQueueProofs hold of the device; with them, every step is a step of  *)
(* Pipeline, whose theorems hold of it too; and what they say makes the    *)
(* invariant of the interfaces inductive.                                  *)
(***************************************************************************)
EXTENDS FieldDevice, FiniteSetTheorems, TLAPS

\* The two theories, about the parts of the device.  They bring definitions of their own,
\* which the first lemmas show to agree with those of Sync and Pipe.
SyncThm == INSTANCE SyncQueueProofs WITH Reports <- Jobs
PipeThm == INSTANCE PipelineProofs
             WITH pc <- step, faults <- run_faults,
                  enqueued <- Enqueued, sync_queue <- queue, central <- received

\* There are finitely many submissions.
LEMMA JobsFinite == SyncThm!IsFiniteSet(Jobs) /\ PipeThm!IsFiniteSet(Jobs)
<1>1. IsFiniteSet(1..MaxSubmissions)
  BY FS_Interval, MaxSubmissionsAssumption
<1>2. IsFiniteSet(Jobs)
  BY <1>1, NotesAssumption, FS_Product DEF Jobs
<1> QED
  BY <1>2 DEF IsFiniteSet, SyncThm!IsFiniteSet, PipeThm!IsFiniteSet

\* The library's operators, as each instance names them.
LEMMA SameCount ==
  /\ \A S : Sync!Cardinality(S) = SyncThm!Cardinality(S)
  /\ \A S : Sync!Min(S) = SyncThm!Min(S)
  BY DEF Sync!Cardinality, SyncThm!Cardinality, Sync!Min, SyncThm!Min

\* Sync and SyncThm start in the same states ...
LEMMA SameInit == Sync!Init => SyncThm!Init
  BY DEF Sync!Init, SyncThm!Init, Sync!Threads, SyncThm!Threads

\* ... read the same batches ...
LEMMA SameEligible == Sync!Eligible = SyncThm!Eligible
<1>1. Sync!TwoTo = SyncThm!TwoTo
  BY DEF Sync!TwoTo, SyncThm!TwoTo
<1> QED
  BY <1>1, SameCount DEF Sync!Eligible, SyncThm!Eligible, Sync!FirstInLine, SyncThm!FirstInLine,
     Sync!Retryable, SyncThm!Retryable, Sync!Due, SyncThm!Due, Sync!Backoff, SyncThm!Backoff

\* ... and take the same steps.
LEMMA SameNext == [Sync!Next]_(Sync!vars) => [SyncThm!Next]_(SyncThm!vars)
<1> USE DEF Sync!table, SyncThm!table, Sync!request, SyncThm!request, Sync!server, SyncThm!server,
            Sync!Goto, SyncThm!Goto, Sync!Fault, SyncThm!Fault
<1>1. ASSUME NEW r \in Jobs, Sync!Enqueue(r) PROVE SyncThm!Next
  <2>1. SyncThm!Enqueue(r)
    BY <1>1, SameCount DEF Sync!Enqueue, SyncThm!Enqueue, Sync!Enqueued, SyncThm!Enqueued
  <2> QED
    BY <2>1 DEF SyncThm!Next
<1>2. ASSUME Sync!EnqueueFails PROVE SyncThm!Next
  BY <1>2 DEF Sync!EnqueueFails, SyncThm!EnqueueFails, SyncThm!Next
<1>3. ASSUME NEW t \in Drains, NEW f \in BOOLEAN, Sync!StartDrain(t, f) PROVE SyncThm!Next
  <2>1. SyncThm!StartDrain(t, f)
    BY <1>3 DEF Sync!StartDrain, SyncThm!StartDrain
  <2> QED
    BY <2>1 DEF SyncThm!Next
<1>4. ASSUME NEW t \in Drains, Sync!DrainStep(t) PROVE SyncThm!Next
  <2> USE DEF Sync!NextRecord, SyncThm!NextRecord
  <2>1. CASE Sync!Probe(t)
    BY <2>1 DEF Sync!Probe, SyncThm!Probe, Sync!ConnectivityStates, SyncThm!ConnectivityStates,
       SyncThm!DrainStep, SyncThm!Next
  <2>2. CASE Sync!Fetch(t)
    BY <2>2, SameEligible DEF Sync!Fetch, SyncThm!Fetch, SyncThm!DrainStep, SyncThm!Next
  <2>3. CASE Sync!Send(t)
    BY <2>3 DEF Sync!Send, SyncThm!Send, SyncThm!DrainStep, SyncThm!Next
  <2>4. CASE Sync!Synced(t)
    BY <2>4 DEF Sync!Synced, SyncThm!Synced, Sync!MarkSynced, SyncThm!MarkSynced,
       SyncThm!DrainStep, SyncThm!Next
  <2>5. CASE Sync!Rejected(t)
    BY <2>5 DEF Sync!Rejected, SyncThm!Rejected, Sync!RecordFailure, SyncThm!RecordFailure,
       SyncThm!DrainStep, SyncThm!Next
  <2>6. CASE Sync!NetworkError(t)
    BY <2>6 DEF Sync!NetworkError, SyncThm!NetworkError, Sync!RecordFailure,
       SyncThm!RecordFailure,
       Sync!Unanswered, SyncThm!Unanswered, SyncThm!DrainStep, SyncThm!Next
  <2> QED
    BY <1>4, <2>1, <2>2, <2>3, <2>4, <2>5, <2>6 DEF Sync!DrainStep
<1>5. ASSUME NEW t \in Sync!Threads, Sync!RefreshStep(t) \/ Sync!StorageFails(t) PROVE SyncThm!Next
  <2>0. t \in SyncThm!Threads
    BY DEF Sync!Threads, SyncThm!Threads
  <2>1. CASE Sync!ReadDepth(t)
    BY <2>0, <2>1, SameCount DEF Sync!ReadDepth, SyncThm!ReadDepth, SyncThm!RefreshStep,
       SyncThm!Next
  <2>2. CASE Sync!SetGauge(t)
    BY <2>0, <2>2 DEF Sync!SetGauge, SyncThm!SetGauge, SyncThm!RefreshStep, SyncThm!Next
  <2>3. CASE Sync!StorageFails(t)
    BY <2>0, <2>3 DEF Sync!StorageFails, SyncThm!StorageFails, Sync!Abort, SyncThm!Abort,
       Sync!Unanswered, SyncThm!Unanswered, SyncThm!Next
  <2> QED
    BY <1>5, <2>1, <2>2, <2>3 DEF Sync!RefreshStep
<1>6. ASSUME Sync!Crash PROVE SyncThm!Next
  BY <1>6 DEF Sync!Crash, SyncThm!Crash, Sync!Unanswered, SyncThm!Unanswered, Sync!Threads,
     SyncThm!Threads, SyncThm!Next
<1>7. ASSUME Sync!CheckConnectivity PROVE SyncThm!Next
  BY <1>7 DEF Sync!CheckConnectivity, SyncThm!CheckConnectivity, Sync!ConnectivityStates,
     SyncThm!ConnectivityStates, SyncThm!Next
<1>8. ASSUME Sync!Server PROVE SyncThm!Next
  BY <1>8 DEF Sync!Server, SyncThm!Server, Sync!ServerAccepts, SyncThm!ServerAccepts,
     Sync!ServerRejects, SyncThm!ServerRejects,
     Sync!LateArrival, SyncThm!LateArrival, SyncThm!Next
<1>9. ASSUME Sync!Tick PROVE SyncThm!Next
  BY <1>9 DEF Sync!Tick, SyncThm!Tick, SyncThm!Next
<1>10. ASSUME Sync!SetClock PROVE SyncThm!Next
  BY <1>10 DEF Sync!SetClock, SyncThm!SetClock, SyncThm!Next
<1>11. ASSUME UNCHANGED Sync!vars PROVE UNCHANGED SyncThm!vars
  BY <1>11 DEF Sync!vars, SyncThm!vars
<1> QED
  BY <1>1, <1>2, <1>3, <1>4, <1>5, <1>6, <1>7, <1>8, <1>9, <1>10, <1>11 DEF Sync!Next

\* What SyncQueueProofs has proved of every behaviour of the queue.
LEMMA SyncInvariance == Sync!Spec => []SyncThm!IInv
<1>1. Sync!Spec => SyncThm!Spec
  BY SameInit, SameNext, PTL DEF Sync!Spec, SyncThm!Spec
<1>2. SyncThm!Spec => []SyncThm!IInv
  BY SyncThm!Invariance, JobsFinite, ThreadsAssumption, NumbersAssumption
<1> QED
  BY <1>1, <1>2

\* Pipe and PipeThm use the same outbox ...
LEMMA SameOutbox ==
  ASSUME NEW r
  PROVE  /\ Pipe!Outbox!Accept(r) => PipeThm!Outbox!Accept(r)
         /\ Pipe!Outbox!Deliver(r) => PipeThm!Outbox!Deliver(r)
         /\ Pipe!Outbox!Forget(r) => PipeThm!Outbox!Forget(r)
  BY DEF Pipe!Outbox!Accept, PipeThm!Outbox!Accept, Pipe!Outbox!Deliver, PipeThm!Outbox!Deliver,
         Pipe!Outbox!Forget, PipeThm!Outbox!Forget

\* ... start in the same states ...
LEMMA SamePipeInit == Pipe!Init => PipeThm!Init
  BY DEF Pipe!Init, PipeThm!Init, Pipe!Outbox!Init, PipeThm!Outbox!Init

\* ... and take the same steps, those of a run ...
LEMMA SameRunStep ==
  ASSUME NEW j \in Jobs
  PROVE  /\ Pipe!RunStep(j) => PipeThm!RunStep(j)
         /\ Pipe!WriteRecording(j) => PipeThm!WriteRecording(j)
         /\ Pipe!WriteFails(j) => PipeThm!WriteFails(j)
         /\ Pipe!UnguardedWriteFails(j) => PipeThm!UnguardedWriteFails(j)
<1> USE DEF Pipe!At, PipeThm!At, Pipe!Goto, PipeThm!Goto, Pipe!Answer, PipeThm!Answer,
            Pipe!disk, PipeThm!disk, Pipe!outbox, PipeThm!outbox, Pipe!memory, PipeThm!memory
<1>1. ASSUME Pipe!WriteRecording(j) PROVE PipeThm!WriteRecording(j)
  BY <1>1 DEF Pipe!WriteRecording, PipeThm!WriteRecording, Pipe!Running, PipeThm!Running,
              Pipe!RunSteps, PipeThm!RunSteps
<1>2. ASSUME Pipe!WriteFails(j) PROVE PipeThm!WriteFails(j)
  BY <1>2 DEF Pipe!WriteFails, PipeThm!WriteFails, Pipe!GuardedWrites, PipeThm!GuardedWrites,
              Pipe!Fault, PipeThm!Fault
<1>3. ASSUME Pipe!UnguardedWriteFails(j) PROVE PipeThm!UnguardedWriteFails(j)
  BY <1>3 DEF Pipe!UnguardedWriteFails, PipeThm!UnguardedWriteFails, Pipe!Running,
     PipeThm!Running,
              Pipe!RunSteps, PipeThm!RunSteps, Pipe!Fault, PipeThm!Fault
<1>4. ASSUME Pipe!RunStep(j) PROVE PipeThm!RunStep(j)
  <2>1. CASE Pipe!SaveJob(j) \/ Pipe!Validate(j) \/ Pipe!SaveDuration(j)
    BY <2>1 DEF PipeThm!RunStep, Pipe!SaveJob, PipeThm!SaveJob, Pipe!Validate, PipeThm!Validate,
                Pipe!SaveDuration, PipeThm!SaveDuration
  <2>2. CASE \/ Pipe!MarkTranscribing(j) \/ Pipe!MarkTranscribed(j)
             \/ Pipe!MarkStructuring(j) \/ Pipe!MarkStructured(j)
    BY <2>2 DEF PipeThm!RunStep, Pipe!Mark, PipeThm!Mark, Pipe!SetStatus, PipeThm!SetStatus,
                Pipe!MarkTranscribing, PipeThm!MarkTranscribing,
                Pipe!MarkTranscribed, PipeThm!MarkTranscribed,
                Pipe!MarkStructuring, PipeThm!MarkStructuring,
                Pipe!MarkStructured, PipeThm!MarkStructured
  <2>3. CASE Pipe!Transcribe(j) \/ Pipe!SaveTranscript(j) \/ Pipe!SaveReport(j)
    BY <2>3 DEF PipeThm!RunStep, Pipe!Transcribe, PipeThm!Transcribe,
                Pipe!SaveTranscript, PipeThm!SaveTranscript, Pipe!SaveReport, PipeThm!SaveReport
  <2>4. CASE \/ Pipe!Structure(j) \/ Pipe!StructureFails(j)
             \/ Pipe!Repair(j) \/ Pipe!StructureRaisesOther(j)
    BY <2>4 DEF PipeThm!RunStep, Pipe!Structure, PipeThm!Structure,
                Pipe!StructureFails, PipeThm!StructureFails, Pipe!Repair, PipeThm!Repair,
                Pipe!StructureRaisesOther, PipeThm!StructureRaisesOther
  <2>5. CASE Pipe!Enqueue(j)
    BY <2>5, SameOutbox DEF PipeThm!RunStep, Pipe!Enqueue, PipeThm!Enqueue
  <2>6. CASE Pipe!RefreshDepth(j) \/ Pipe!MarkPending(j) \/ Pipe!MarkFailed(j)
    BY <2>6 DEF PipeThm!RunStep, Pipe!SetStatus, PipeThm!SetStatus,
                Pipe!RefreshDepth, PipeThm!RefreshDepth, Pipe!MarkPending, PipeThm!MarkPending,
                Pipe!MarkFailed, PipeThm!MarkFailed
  <2> QED
    BY <1>4, <2>1, <2>2, <2>3, <2>4, <2>5, <2>6 DEF Pipe!RunStep
<1> QED
  BY <1>1, <1>2, <1>3, <1>4

\* ... and the others.
LEMMA SamePipeNext == [Pipe!Next]_(Pipe!vars) => [PipeThm!Next]_(PipeThm!vars)
<1>1. ASSUME NEW j \in Jobs, Pipe!Submit(j) \/ Pipe!SubmitFails(j) PROVE PipeThm!Next
  <2>1. PipeThm!Submit(j) \/ PipeThm!SubmitFails(j)
    BY <1>1 DEF Pipe!Submit, PipeThm!Submit, Pipe!SubmitFails, PipeThm!SubmitFails,
                Pipe!At, PipeThm!At, Pipe!Goto, PipeThm!Goto, Pipe!Answer, PipeThm!Answer,
                Pipe!disk, PipeThm!disk, Pipe!outbox, PipeThm!outbox, Pipe!memory, PipeThm!memory
  <2> QED
    BY <2>1 DEF PipeThm!Next
<1>2. ASSUME NEW j \in Jobs,
             Pipe!WriteRecording(j) \/ Pipe!RunStep(j) \/ Pipe!WriteFails(j) \/ Pipe!UnguardedWriteFails(j)
      PROVE  PipeThm!Next
  BY <1>2, SameRunStep DEF PipeThm!Next
<1>3. ASSUME NEW j \in Jobs, Pipe!Drain(j) PROVE PipeThm!Next
  <2>1. PipeThm!Drain(j)
    BY <1>3, SameOutbox DEF Pipe!Drain, PipeThm!Drain, Pipe!disk, PipeThm!disk, Pipe!memory,
       PipeThm!memory
  <2> QED
    BY <2>1 DEF PipeThm!Next
<1>4. ASSUME Pipe!Crash PROVE PipeThm!Next
  BY <1>4 DEF Pipe!Crash, PipeThm!Crash, Pipe!Fault, PipeThm!Fault, Pipe!disk, PipeThm!disk,
              Pipe!outbox, PipeThm!outbox, PipeThm!Next
<1>5. ASSUME UNCHANGED Pipe!vars PROVE UNCHANGED PipeThm!vars
  BY <1>5 DEF Pipe!vars, PipeThm!vars, Pipe!disk, PipeThm!disk, Pipe!outbox, PipeThm!outbox,
              Pipe!memory, PipeThm!memory
<1> QED
  BY <1>1, <1>2, <1>3, <1>4, <1>5 DEF Pipe!Next

\* What PipelineProofs has proved of every behaviour of the pipeline.
LEMMA PipeInvariance == PipelineSpec => [](PipeThm!IInv /\ PipeThm!OneRun /\ PipeThm!QueuedGoesOn)
<1>1. PipelineSpec => PipeThm!Spec
  BY SamePipeInit, SamePipeNext, PTL DEF PipelineSpec, Pipe!Spec, PipeThm!Spec
<1>2. PipeThm!Spec => [](PipeThm!IInv /\ PipeThm!OneRun /\ PipeThm!QueuedGoesOn)
  BY PipeThm!RunsInvariance, JobsFinite, NumbersAssumption
<1> QED
  BY <1>1, <1>2

------------------------------------------------------------------------------
(* Every step of the device is a step of each of its parts.                 *)

\* A step of the UI or of a run is no step of the queue; each of the others is one.
LEMMA QueueStep == [Next]_vars => [Sync!Next]_(Sync!vars)
<1> SUFFICES ASSUME [Next]_vars PROVE [Sync!Next]_(Sync!vars)
  OBVIOUS
<1> USE DEF syncVars, Sync!vars, Sync!table, Sync!request, Sync!server
<1>1. ASSUME NEW j \in Jobs,
             \/ SubmitRecording(j) \/ ShowAnswer(j) \/ GiveUp(j)
             \/ Arrive(j) \/ Run(j) \/ RunFails(j)
      PROVE  UNCHANGED Sync!vars
  BY <1>1 DEF SubmitRecording, ShowAnswer, GiveUp, Arrive, Run, RunFails
<1>2. ASSUME NEW j \in Jobs, Enqueue(j) \/ EnqueueFails(j) PROVE Sync!Next
  BY <1>2 DEF Enqueue, EnqueueFails, Sync!Next
<1>3. ASSUME NEW j \in Jobs, ReadDepth(j) \/ SetGauge(j) \/ RefreshFails(j) PROVE Sync!Next
  BY <1>3 DEF ReadDepth, SetGauge, RefreshFails, Sync!Next, Sync!RefreshStep, Sync!Threads
<1>4. ASSUME NEW t \in Drains, StartDrain(t) \/ Drain(t) \/ DrainFails(t) PROVE Sync!Next
  BY <1>4 DEF StartDrain, Drain, DrainFails, Sync!Next, Sync!Threads
<1>5. ASSUME World \/ Crash PROVE Sync!Next
  BY <1>5 DEF World, Crash, Sync!Next
<1>6. CASE UNCHANGED vars
  BY <1>6 DEF vars
<1> QED
  BY <1>1, <1>2, <1>3, <1>4, <1>5, <1>6 DEF Next

\* The pipeline, the routes and the UI use the queue as SyncQueue says it may be used, so
\* that every theorem about SyncQueueWorker holds in the device.
THEOREM ImplementsQueue == Spec => Sync!Spec
<1>1. Init => Sync!Init
  BY DEF Init
<1> QED
  BY <1>1, QueueStep, PTL DEF Spec, Sync!Spec

\* So what holds of the queue by itself holds of the queue in the device.
LEMMA QueueInvariance == Spec => []SyncThm!IInv
  BY ImplementsQueue, SyncInvariance

\* A step of the queue that is no step of a run delivers a queued report, or drops a
\* delivered one, or is of no concern to the pipeline: SyncQueue implements Outbox.
LEMMA DrainsDeliver ==
  ASSUME SyncThm!IInv, [Sync!Next]_(Sync!vars), UNCHANGED <<runVars, created_at>>
  PROVE  [Pipe!Next]_(Pipe!vars)
<1>1. [SyncThm!AbstractOutbox!Next]_(SyncThm!AbstractOutbox!outboxVars)
  BY SameNext, SyncThm!OutboxStep, JobsFinite, ThreadsAssumption, NumbersAssumption
<1>2. Enqueued' = Enqueued /\ SyncThm!Enqueued' = SyncThm!Enqueued /\ SyncThm!Enqueued = Enqueued
  BY DEF Enqueued, SyncThm!Enqueued
<1>3. UNCHANGED <<Pipe!disk, Pipe!memory, step, reply, run_faults>>
  BY DEF runVars, Pipe!disk, Pipe!memory
<1>4. ASSUME NEW j \in Jobs, SyncThm!AbstractOutbox!Accept(j) PROVE FALSE
  BY <1>2, <1>4 DEF SyncThm!AbstractOutbox!Accept
<1>5. ASSUME NEW j \in Jobs, SyncThm!AbstractOutbox!Deliver(j) \/ SyncThm!AbstractOutbox!Forget(j)
      PROVE  Pipe!Next
  <2>1. Pipe!Drain(j)
    BY <1>2, <1>3, <1>5 DEF SyncThm!AbstractOutbox!Deliver, SyncThm!AbstractOutbox!Forget,
       Pipe!Drain,
       Pipe!Outbox!Deliver, Pipe!Outbox!Forget
  <2> QED
    BY <2>1 DEF Pipe!Next
<1>6. ASSUME UNCHANGED SyncThm!AbstractOutbox!outboxVars PROVE UNCHANGED Pipe!vars
  BY <1>2, <1>3, <1>6 DEF SyncThm!AbstractOutbox!outboxVars, Pipe!vars, Pipe!outbox
<1> QED
  BY <1>1, <1>4, <1>5, <1>6 DEF SyncThm!AbstractOutbox!Next

\* Every step of the device is a step of the pipeline.
LEMMA PipelineStep == SyncThm!IInv /\ [Next]_vars => [Pipe!Next]_(Pipe!vars)
<1> SUFFICES ASSUME SyncThm!IInv, [Next]_vars PROVE [Pipe!Next]_(Pipe!vars)
  OBVIOUS
<1> DEFINE Same == UNCHANGED <<runVars, syncVars>>
<1>0. Same => UNCHANGED Pipe!vars
  BY DEF runVars, syncVars, Pipe!vars, Pipe!disk, Pipe!memory, Pipe!outbox, Enqueued
<1>1. ASSUME NEW j \in Jobs, SubmitRecording(j) \/ ShowAnswer(j) \/ GiveUp(j) PROVE UNCHANGED Pipe!vars
  BY <1>0, <1>1 DEF SubmitRecording, ShowAnswer, GiveUp
<1>2. ASSUME NEW j \in Jobs, Arrive(j) \/ Run(j) \/ RunFails(j) PROVE Pipe!Next
  BY <1>2 DEF Arrive, Run, RunFails, Pipe!Next
<1>3. ASSUME NEW j \in Jobs, Enqueue(j) \/ EnqueueFails(j) \/ SetGauge(j) \/ RefreshFails(j)
      PROVE  Pipe!Next
  BY <1>3 DEF Enqueue, EnqueueFails, SetGauge, RefreshFails, Pipe!Next, Pipe!RunStep
<1>4. ASSUME NEW j \in Jobs, ReadDepth(j) PROVE UNCHANGED Pipe!vars
  BY <1>4 DEF ReadDepth, Sync!ReadDepth, Sync!table, Sync!server, runVars, Pipe!vars, Pipe!disk,
     Pipe!memory,
              Pipe!outbox, Enqueued
<1>5. ASSUME NEW t \in Drains, StartDrain(t) \/ Drain(t) \/ DrainFails(t) PROVE [Pipe!Next]_(Pipe!vars)
  <2>1. UNCHANGED <<runVars, created_at>>
    BY <1>5 DEF StartDrain, Drain, DrainFails, Sync!StartDrain, Sync!DrainStep, Sync!RefreshStep,
       Sync!StorageFails,
       Sync!Probe, Sync!Fetch, Sync!Send, Sync!Synced, Sync!Rejected, Sync!NetworkError,
       Sync!ReadDepth, Sync!SetGauge,
       Sync!table
  <2> QED
    BY <2>1, QueueStep, DrainsDeliver
<1>6. ASSUME World PROVE [Pipe!Next]_(Pipe!vars)
  <2>1. UNCHANGED <<runVars, created_at>>
    BY <1>6 DEF World, Sync!Server, Sync!Tick, Sync!ServerAccepts, Sync!ServerRejects,
       Sync!LateArrival, Sync!table
  <2> QED
    BY <2>1, QueueStep, DrainsDeliver
<1>7. ASSUME Crash PROVE Pipe!Next
  BY <1>7 DEF Crash, Pipe!Next
<1>8. CASE UNCHANGED vars
  BY <1>0, <1>8 DEF vars
<1> QED
  BY <1>1, <1>2, <1>3, <1>4, <1>5, <1>6, <1>7, <1>8 DEF Next

\* With the real queue in the place of its outbox, overlapping drains included, the
\* device does what Pipeline says (PipelineSpec; run() and drain_queue() together).
THEOREM ImplementsPipeline == Spec => PipelineSpec
<1>1. Init => Pipe!Init
  BY DEF Init
<1> QED
  BY <1>1, PipelineStep, QueueInvariance, PTL DEF Spec, PipelineSpec, Pipe!Spec

\* From the run that enqueues a report to the server that receives it, the device is the
\* outbox its design promises: each report is kept until it has been delivered, through
\* overlapping drains, failing runs, crashes and timeouts (SyncQueueWorker, called by run()).
THEOREM DeliversAtLeastOnce == Spec => Sync!OutboxSpec
<1>1. Init => Sync!AbstractOutbox!Init
  BY DEF Init, Sync!Init, Sync!AbstractOutbox!Init, Sync!Enqueued
<1>2. SyncThm!IInv /\ [Next]_vars => [Sync!AbstractOutbox!Next]_(Sync!AbstractOutbox!outboxVars)
  <2> SUFFICES ASSUME SyncThm!IInv, [Next]_vars
               PROVE  [Sync!AbstractOutbox!Next]_(Sync!AbstractOutbox!outboxVars)
    OBVIOUS
  <2>1. [SyncThm!AbstractOutbox!Next]_(SyncThm!AbstractOutbox!outboxVars)
    BY QueueStep, SameNext, SyncThm!OutboxStep, JobsFinite, ThreadsAssumption, NumbersAssumption
  <2> QED
    BY <2>1 DEF Sync!AbstractOutbox!Next, SyncThm!AbstractOutbox!Next,
       Sync!AbstractOutbox!outboxVars, SyncThm!AbstractOutbox!outboxVars,
       Sync!Enqueued, SyncThm!Enqueued,
       Sync!AbstractOutbox!Accept, SyncThm!AbstractOutbox!Accept,
       Sync!AbstractOutbox!Deliver, SyncThm!AbstractOutbox!Deliver,
       Sync!AbstractOutbox!Forget, SyncThm!AbstractOutbox!Forget
<1> QED
  BY QueueInvariance, <1>1, <1>2, PTL DEF Spec, Sync!OutboxSpec, Sync!AbstractOutbox!Spec

\* The invariants of both parts, together.
LEMMA PartsInvariance ==
  Spec => [](SyncThm!IInv /\ PipeThm!IInv /\ PipeThm!OneRun /\ PipeThm!QueuedGoesOn)
  BY QueueInvariance, ImplementsPipeline, PipeInvariance, PTL

\* With the real queue and its overlapping drains, what is stored, queued and answered
\* still agrees: no status runs ahead of its data, every report the drains post is complete
\* on the device, and a 201 or a 422 stays true (run(), submit_job(), drain_queue()).
THEOREM PromisesKept ==
  Spec => [](Pipe!StatusBacked /\ Pipe!QueuedIsComplete /\ Pipe!ReplyTruthful)
<1>1. PipeThm!IInv => Pipe!StatusBacked
  BY DEF PipeThm!IInv, PipeThm!StatusBacked, Pipe!StatusBacked, Pipe!HasTranscript,
     PipeThm!HasTranscript, Pipe!HasReport, PipeThm!HasReport
<1>2. PipeThm!IInv => Pipe!QueuedIsComplete
  BY DEF PipeThm!IInv, PipeThm!OutboxOK, Pipe!QueuedIsComplete
<1>3. PipeThm!IInv => Pipe!ReplyTruthful
  BY DEF PipeThm!IInv, PipeThm!OutboxOK, PipeThm!RepliesOK, Pipe!ReplyTruthful
<1> QED
  BY PartsInvariance, <1>1, <1>2, <1>3, PTL

------------------------------------------------------------------------------
(* The interfaces between the parts.                                        *)

\* The event loop thread is in the refresh of the gauge exactly while a run is.
LoopOK == (pc[EventLoop] # "idle") <=> \E j \in Jobs : step[j] = "depth"

UiTyped == ui \in [Jobs -> {"none", "waiting", "created", "unreachable", "error"}]

\* What the UI shows is behind what the API has done.
UiBehind ==
  \A j \in Jobs :
    /\ ui[j] = "none" => step[j] = "new"
    /\ ui[j] = "created" => reply[j] = "created"
    /\ ui[j] = "error" => reply[j] \in {"unprocessable", "error"}

\* The interfaces are in order at the start.
LEMMA InitInterfaces == Init => LoopOK /\ UiTyped /\ UiBehind
  BY DEF Init, Sync!Init, Pipe!Init, Sync!Threads, LoopOK, UiTyped, UiBehind

\* Run and queue enter and leave the refresh of the gauge together.
LEMMA LoopStep ==
  ASSUME SyncThm!IInv, PipeThm!IInv, PipeThm!OneRun, LoopOK, [Next]_vars
  PROVE  LoopOK'
<1> pc \in [Sync!Threads -> {"idle", "probe", "fetch", "send", "wait", "depth", "gauge"}]
  BY DEF SyncThm!IInv, SyncThm!TypeOK, SyncThm!Threads, Sync!Threads
<1> step \in [Jobs -> PipeThm!Steps]
  BY DEF PipeThm!IInv, PipeThm!TypeOK
<1> EventLoop \in Sync!Threads /\ EventLoop \notin Drains
  BY ThreadsAssumption DEF Sync!Threads
<1>0. ASSUME NEW i \in Jobs, NEW j \in Jobs, step[i] = "depth", step[j] = "depth" PROVE i = j
  BY <1>0 DEF PipeThm!OneRun, PipeThm!Running, PipeThm!RunSteps
<1> USE DEF LoopOK, Sync!Goto, Pipe!Goto, Pipe!At, Pipe!Answer
<1>1. ASSUME NEW j \in Jobs, SubmitRecording(j) \/ ShowAnswer(j) \/ GiveUp(j) PROVE LoopOK'
  BY <1>1 DEF SubmitRecording, ShowAnswer, GiveUp, syncVars, runVars
<1>2. ASSUME NEW j \in Jobs, Arrive(j) PROVE LoopOK'
  BY <1>2 DEF Arrive, syncVars, Pipe!Submit, Pipe!SubmitFails
<1>3. ASSUME NEW j \in Jobs, Run(j) PROVE LoopOK'
  <2> UNCHANGED pc /\ step[j] \notin {"enqueue", "depth"}
    BY <1>3 DEF Run, syncVars
  <2>1. CASE Pipe!WriteRecording(j) \/ Pipe!SaveJob(j) \/ Pipe!Validate(j) \/ Pipe!SaveDuration(j)
    BY <2>1 DEF Pipe!WriteRecording, Pipe!SaveJob, Pipe!Validate, Pipe!SaveDuration
  <2>2. CASE \/ Pipe!MarkTranscribing(j) \/ Pipe!MarkTranscribed(j)
             \/ Pipe!MarkStructuring(j) \/ Pipe!MarkStructured(j)
    BY <2>2 DEF Pipe!MarkTranscribing, Pipe!MarkTranscribed, Pipe!MarkStructuring,
       Pipe!MarkStructured, Pipe!Mark
  <2>3. CASE Pipe!Transcribe(j) \/ Pipe!SaveTranscript(j) \/ Pipe!SaveReport(j)
    BY <2>3 DEF Pipe!Transcribe, Pipe!SaveTranscript, Pipe!SaveReport
  <2>4. CASE \/ Pipe!Structure(j) \/ Pipe!StructureFails(j)
             \/ Pipe!Repair(j) \/ Pipe!StructureRaisesOther(j)
    BY <2>4 DEF Pipe!Structure, Pipe!StructureFails, Pipe!Repair, Pipe!StructureRaisesOther
  <2>5. CASE Pipe!MarkPending(j) \/ Pipe!MarkFailed(j)
    BY <2>5 DEF Pipe!MarkPending, Pipe!MarkFailed
  <2>6. ~Pipe!Enqueue(j) /\ ~Pipe!RefreshDepth(j)
    BY DEF Pipe!Enqueue, Pipe!RefreshDepth
  <2> QED
    BY <1>3, <2>1, <2>2, <2>3, <2>4, <2>5, <2>6 DEF Run, Pipe!RunStep
<1>4. ASSUME NEW j \in Jobs, RunFails(j) PROVE LoopOK'
  BY <1>4 DEF RunFails, syncVars, Pipe!WriteFails, Pipe!UnguardedWriteFails
<1>5. ASSUME NEW j \in Jobs, Enqueue(j) PROVE LoopOK'
  BY <1>5 DEF Enqueue, Sync!Enqueue, Pipe!Enqueue
<1>6. ASSUME NEW j \in Jobs, EnqueueFails(j) PROVE LoopOK'
  BY <1>6 DEF EnqueueFails, Sync!EnqueueFails, Pipe!WriteFails
<1>7. ASSUME NEW j \in Jobs, ReadDepth(j) PROVE LoopOK'
  BY <1>7 DEF ReadDepth, Sync!ReadDepth, runVars
<1>8. ASSUME NEW j \in Jobs, SetGauge(j) PROVE LoopOK'
  BY <1>0, <1>8 DEF SetGauge, Sync!SetGauge, Pipe!RefreshDepth
<1>9. ASSUME NEW j \in Jobs, RefreshFails(j) PROVE LoopOK'
  BY <1>0, <1>9 DEF RefreshFails, Sync!StorageFails, Sync!Abort, Pipe!WriteFails
<1>10. ASSUME NEW t \in Drains, StartDrain(t) \/ Drain(t) \/ DrainFails(t) PROVE LoopOK'
  <2>1. pc'[EventLoop] = pc[EventLoop]
    BY <1>10 DEF StartDrain, Drain, DrainFails, Sync!StartDrain, Sync!DrainStep, Sync!RefreshStep,
       Sync!StorageFails, Sync!Abort, Sync!Probe, Sync!Fetch, Sync!Send, Sync!Synced,
       Sync!Rejected,
       Sync!NetworkError, Sync!NextRecord, Sync!ReadDepth, Sync!SetGauge
  <2>2. step' = step
    BY <1>10 DEF StartDrain, Drain, DrainFails, runVars
  <2> QED
    BY <2>1, <2>2
<1>11. ASSUME World PROVE LoopOK'
  BY <1>11 DEF World, Sync!Server, Sync!Tick, Sync!ServerAccepts, Sync!ServerRejects,
     Sync!LateArrival, runVars
<1>12. ASSUME Crash PROVE LoopOK'
  BY <1>12 DEF Crash, Sync!Crash, Pipe!Crash
<1>13. ASSUME UNCHANGED vars PROVE LoopOK'
  BY <1>13 DEF vars, syncVars, runVars
<1> HIDE DEF LoopOK
<1> QED
  BY <1>1, <1>2, <1>3, <1>4, <1>5, <1>6, <1>7, <1>8, <1>9, <1>10, <1>11, <1>12, <1>13 DEF Next

\* The UI stays behind the API: answers are final, and so is what the UI has made of them.
LEMMA UiStep ==
  ASSUME SyncThm!IInv, PipeThm!IInv, PipeThm!OneRun, PipeThm!QueuedGoesOn,
         UiTyped, UiBehind, [Next]_vars
  PROVE  UiTyped' /\ UiBehind'
<1> DEFINE OK == UiTyped' /\ UiBehind'
<1>a. \A j \in Jobs : reply[j] # "none" => reply'[j] = reply[j]
  BY PipelineStep, SamePipeNext, PipeThm!RunsStep, JobsFinite, NumbersAssumption
<1>b. PipeThm!TypeOK /\ PipeThm!AnsweredAtEnd
  BY DEF PipeThm!IInv
<1>c. step \in [Jobs -> PipeThm!Steps] /\ reply \in [Jobs -> PipeThm!Replies]
  BY <1>b DEF PipeThm!TypeOK
<1>e. ASSUME UNCHANGED ui, \A i \in Jobs : ui[i] = "none" /\ step[i] = "new" => step'[i] = "new"
      PROVE  OK
  BY <1>a, <1>e DEF UiTyped, UiBehind
<1>1. ASSUME NEW j \in Jobs, SubmitRecording(j) PROVE OK
  <2>1. UNCHANGED <<step, reply>>
    BY <1>1 DEF SubmitRecording, runVars
  <2> QED
    BY <1>1, <2>1 DEF SubmitRecording, UiTyped, UiBehind
<1>2. ASSUME NEW j \in Jobs, ShowAnswer(j) \/ GiveUp(j) PROVE OK
  <2>1. UNCHANGED <<step, reply>>
    BY <1>2 DEF ShowAnswer, GiveUp, runVars
  <2> QED
    BY <1>2, <1>c, <2>1 DEF ShowAnswer, GiveUp, UiTyped, UiBehind, PipeThm!Replies
<1>3. ASSUME NEW j \in Jobs, Arrive(j) PROVE OK
  BY <1>e, <1>3, <1>c DEF Arrive, Pipe!Submit, Pipe!SubmitFails, Pipe!Goto, Pipe!Answer
<1>4. ASSUME NEW j \in Jobs, Run(j) \/ RunFails(j) PROVE OK
  <2>1. \/ PipeThm!WriteRecording(j) \/ PipeThm!RunStep(j)
        \/ PipeThm!WriteFails(j) \/ PipeThm!UnguardedWriteFails(j)
    BY <1>4, SameRunStep DEF Run, RunFails
  <2>2. \A i \in Jobs : step[i] = "new" => step'[i] = "new"
    BY <1>b, <2>1, PipeThm!NewStays, JobsFinite, NumbersAssumption
  <2> QED
    BY <1>e, <1>4, <2>2 DEF Run, RunFails
<1>5. ASSUME NEW j \in Jobs, Enqueue(j) \/ EnqueueFails(j) \/ SetGauge(j) \/ RefreshFails(j) PROVE OK
  BY <1>e, <1>5, <1>c DEF Enqueue, EnqueueFails, SetGauge, RefreshFails, Pipe!Enqueue,
     Pipe!WriteFails,
     Pipe!RefreshDepth, Pipe!At, Pipe!Goto
<1>6. ASSUME NEW j \in Jobs, ReadDepth(j) PROVE OK
  BY <1>e, <1>6 DEF ReadDepth, runVars
<1>7. ASSUME NEW t \in Drains, StartDrain(t) \/ Drain(t) \/ DrainFails(t) PROVE OK
  BY <1>e, <1>7 DEF StartDrain, Drain, DrainFails, runVars
<1>8. ASSUME World PROVE OK
  BY <1>e, <1>8 DEF World, runVars
<1>9. ASSUME Crash PROVE OK
  BY <1>e, <1>9 DEF Crash, Pipe!Crash
<1>10. ASSUME UNCHANGED vars PROVE OK
  BY <1>e, <1>10 DEF vars, runVars
<1> HIDE DEF OK
<1>11. OK
  BY <1>1, <1>2, <1>3, <1>4, <1>5, <1>6, <1>7, <1>8, <1>9, <1>10 DEF Next
<1> QED
  BY <1>11 DEF OK

------------------------------------------------------------------------------

\* The inductive invariant: those of the parts, and the interfaces.
IInv ==
  /\ SyncThm!IInv
  /\ PipeThm!IInv /\ PipeThm!OneRun /\ PipeThm!QueuedGoesOn
  /\ LoopOK /\ UiTyped /\ UiBehind

\* The invariant of the device.
THEOREM Invariance == Spec => []IInv
<1>1. SyncThm!IInv /\ PipeThm!IInv /\ PipeThm!OneRun /\ PipeThm!QueuedGoesOn
      /\ LoopOK /\ UiTyped /\ UiBehind /\ [Next]_vars
      => LoopOK' /\ UiTyped' /\ UiBehind'
  BY LoopStep, UiStep
<1> QED
  BY InitInterfaces, PartsInvariance, <1>1, PTL DEF Spec, IInv

\* Type correctness, and the agreement of run and queue on where the event loop is.
THEOREM TypeCorrect == Spec => []TypeOK
<1>1. IInv => TypeOK
  <2> SUFFICES ASSUME IInv PROVE TypeOK
    OBVIOUS
  <2>1. Sync!TypeOK
    BY DEF IInv, SyncThm!IInv, SyncThm!TypeOK, Sync!TypeOK, SyncThm!Threads, Sync!Threads,
           SyncThm!ConnectivityStates, Sync!ConnectivityStates
  <2>2. Pipe!TypeOK
    BY DEF IInv, PipeThm!IInv, PipeThm!TypeOK, Pipe!TypeOK, PipeThm!Statuses, Pipe!Statuses,
           PipeThm!Steps, Pipe!Steps, PipeThm!RunSteps, Pipe!RunSteps, PipeThm!Replies, Pipe!Replies
  <2> QED
    BY <2>1, <2>2 DEF IInv, LoopOK, UiTyped, TypeOK
<1> QED
  BY Invariance, <1>1, PTL

\* "Report created and queued for sync" stays true (submit_recording of the UI, run() and
\* drain_queue()): the report is queued or delivered, and all it came from is on the device.
THEOREM Acknowledged == Spec => []AcknowledgedIsKept
<1>1. IInv => AcknowledgedIsKept
  BY DEF IInv, UiBehind, PipeThm!IInv, PipeThm!RepliesOK, PipeThm!OutboxOK, AcknowledgedIsKept
<1> QED
  BY Invariance, <1>1, PTL

\* A submission that was answered with an error has put nothing in the queue, nor has any
\* drain sent it, unless there was a fault (the answers of submit_job, the except clause of
\* run()): to submit the note again makes no second report.
THEOREM SafeToRetry == Spec => []ErrorQueuedNothing
<1>1. ASSUME IInv, run_faults = 0, NEW j \in Jobs, ui[j] = "error"
      PROVE  j \notin Enqueued \cup received
  <2>1. reply[j] \in {"unprocessable", "error"} /\ step[j] = "done"
    BY <1>1 DEF IInv, UiBehind, PipeThm!IInv, PipeThm!AnsweredAtEnd
  <2>2. j \notin Enqueued
    BY <1>1, <2>1 DEF IInv, PipeThm!QueuedGoesOn, PipeThm!WithQueueRow
  <2>3. received \subseteq Enqueued
    BY <1>1 DEF IInv, PipeThm!IInv, PipeThm!OutboxOK
  <2> QED
    BY <2>2, <2>3
<1>2. IInv => ErrorQueuedNothing
  BY <1>1 DEF ErrorQueuedNothing
<1> QED
  BY Invariance, <1>2, PTL
===============================================================================
