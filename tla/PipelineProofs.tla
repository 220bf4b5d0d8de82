---------------------------- MODULE PipelineProofs ----------------------------
(***************************************************************************)
(* Theorems about Pipeline, for any number of submissions, crashes and     *)
(* failed writes.                                                          *)
(***************************************************************************)
EXTENDS Pipeline, FiniteSetTheorems, TLAPS

(***************************************************************************)
(* The inductive invariant says, for every step a request can be at, what  *)
(* the run has stored by then and which status the row shows.              *)
(***************************************************************************)

\* The steps still to come once each piece of data has been stored.
WithQueueRow == {"depth", "mark_pending"}
WithReport == {"mark_structured", "enqueue"} \cup WithQueueRow
WithTranscript == {"mark_transcribed", "mark_structuring", "structure", "save_report"} \cup WithReport
WithDuration == {"mark_transcribing", "transcribe", "save_transcript"} \cup WithTranscript

StoredBefore ==
  \A j \in Jobs :
    /\ pc[j] \in RunSteps => j \in recordings
    /\ pc[j] \in WithDuration => j \in durations
    /\ pc[j] \in WithTranscript => j \in transcripts
    /\ pc[j] \in WithReport => j \in reports
    /\ pc[j] \in WithQueueRow => j \in enqueued

\* The status the row shows at each step.
StatusAtStep ==
  \A j \in Jobs :
    /\ pc[j] \in {"new", "reading", "save_job"} => status[j] = "none"
    /\ pc[j] \in {"validate", "save_duration", "mark_transcribing"} => status[j] = "QUEUED"
    /\ pc[j] \in {"transcribe", "save_transcript", "mark_transcribed"} => status[j] = "TRANSCRIBING"
    /\ pc[j] = "mark_structuring" => status[j] = "TRANSCRIBED"
    /\ pc[j] \in {"structure", "save_report", "mark_structured"} => status[j] = "STRUCTURING"
    /\ pc[j] \in {"enqueue", "depth", "mark_pending"} => status[j] = "STRUCTURED"
    /\ pc[j] = "mark_failed" => status[j] \in InProgress

\* A request is answered when it ends, not before.
AnsweredAtEnd == \A j \in Jobs : pc[j] # "done" => reply[j] = "none"

\* The outbox keeps what it has accepted until it is delivered, and holds nothing else;
\* what it has accepted is complete.
OutboxOK ==
  /\ enqueued \subseteq sync_queue \cup central
  /\ sync_queue \cup central \subseteq enqueued
  /\ enqueued \subseteq recordings \cap durations \cap transcripts \cap reports

\* What ReplyTruthful says of 201 in terms of what can no longer change.
RepliesOK ==
  \A j \in Jobs :
    /\ reply[j] = "created" => status[j] = "PENDING_SYNC" /\ j \in enqueued
    /\ reply[j] = "unprocessable" => status[j] = "FAILED"

IInv ==
  /\ TypeOK
  /\ StoredBefore
  /\ StatusAtStep
  /\ StatusBacked
  /\ AnsweredAtEnd
  /\ OutboxOK
  /\ RepliesOK

------------------------------------------------------------------------------

\* The invariant holds before the first submission.
LEMMA InitInv == Init => IInv
  BY MaxRetriesAssumption DEF Init, Outbox!Init, IInv, TypeOK, Statuses, Steps, Replies, RunSteps, StoredBefore,
         WithDuration, WithTranscript, WithReport, WithQueueRow, StatusAtStep, StatusBacked,
         HasTranscript, HasReport, AnsweredAtEnd, OutboxOK, RepliesOK

\* Every step of a request, of the world around it and of a drain keeps the invariant.
LEMMA NextInv == IInv /\ [Next]_vars => IInv'
<1> SUFFICES ASSUME IInv, [Next]_vars PROVE IInv'
  OBVIOUS
<1>1. ASSUME NEW j \in Jobs, Submit(j) \/ SubmitFails(j) \/ WriteRecording(j) PROVE IInv'
  <2>1. TypeOK'
    BY <1>1 DEF Submit, SubmitFails, WriteRecording, Answer, At, Goto, disk, outbox, memory,
           Running, IInv, TypeOK, Statuses, Steps, RunSteps, Replies
  <2>2. StoredBefore' /\ AnsweredAtEnd'
    BY <1>1 DEF Submit, SubmitFails, WriteRecording, Answer, At, Goto, disk, outbox, memory,
           Running, IInv, TypeOK, StoredBefore, AnsweredAtEnd, RunSteps, WithDuration,
           WithTranscript, WithReport, WithQueueRow
  <2>3. StatusAtStep' /\ StatusBacked'
    BY <1>1 DEF Submit, SubmitFails, WriteRecording, Answer, At, Goto, disk, outbox, memory,
           Running, IInv, TypeOK, StoredBefore, RunSteps, WithTranscript, WithReport,
           WithQueueRow, StatusAtStep, InProgress, StatusBacked, HasTranscript, HasReport
  <2>4. OutboxOK' /\ RepliesOK'
    BY <1>1 DEF Submit, SubmitFails, WriteRecording, Answer, At, Goto, disk, outbox, memory,
           Running, IInv, TypeOK, StoredBefore, RunSteps, WithDuration, WithTranscript,
           WithReport, WithQueueRow, StatusAtStep, InProgress, AnsweredAtEnd, OutboxOK,
           RepliesOK
  <2> QED
    BY <2>1, <2>2, <2>3, <2>4 DEF IInv
<1>2. ASSUME NEW j \in Jobs, SaveJob(j) \/ Validate(j) \/ SaveDuration(j) PROVE IInv'
  <2>1. TypeOK'
    BY <1>2 DEF SaveJob, Validate, SaveDuration, At, Goto, disk, outbox, memory, IInv, TypeOK,
           Statuses, Steps, RunSteps, Replies
  <2>2. StoredBefore' /\ AnsweredAtEnd'
    BY <1>2 DEF SaveJob, Validate, SaveDuration, At, Goto, disk, outbox, memory, IInv, TypeOK,
           StoredBefore, AnsweredAtEnd, RunSteps, WithDuration, WithTranscript, WithReport,
           WithQueueRow
  <2>3. StatusAtStep' /\ StatusBacked'
    BY <1>2 DEF SaveJob, Validate, SaveDuration, At, Goto, disk, outbox, memory, IInv, TypeOK,
           StoredBefore, RunSteps, WithTranscript, WithReport, WithQueueRow, StatusAtStep,
           InProgress, StatusBacked, HasTranscript, HasReport
  <2>4. OutboxOK' /\ RepliesOK'
    BY <1>2 DEF SaveJob, Validate, SaveDuration, At, Goto, disk, outbox, memory, IInv, TypeOK,
           StoredBefore, RunSteps, WithDuration, WithTranscript, WithReport, WithQueueRow,
           StatusAtStep, InProgress, AnsweredAtEnd, OutboxOK, RepliesOK
  <2> QED
    BY <2>1, <2>2, <2>3, <2>4 DEF IInv
<1>3. ASSUME NEW j \in Jobs, MarkTranscribing(j) \/ MarkTranscribed(j) PROVE IInv'
  <2>1. TypeOK'
    BY <1>3 DEF MarkTranscribing, MarkTranscribed, Mark, SetStatus, At, Goto, disk, outbox,
           memory, IInv, TypeOK, Statuses, Steps, RunSteps, Replies
  <2>2. StoredBefore' /\ AnsweredAtEnd'
    BY <1>3 DEF MarkTranscribing, MarkTranscribed, Mark, SetStatus, At, Goto, disk, outbox,
           memory, IInv, TypeOK, StoredBefore, AnsweredAtEnd, RunSteps, WithDuration,
           WithTranscript, WithReport, WithQueueRow
  <2>3. StatusAtStep' /\ StatusBacked'
    BY <1>3 DEF MarkTranscribing, MarkTranscribed, Mark, SetStatus, At, Goto, disk, outbox,
           memory, IInv, TypeOK, StoredBefore, RunSteps, WithTranscript, WithReport,
           WithQueueRow, StatusAtStep, InProgress, StatusBacked, HasTranscript, HasReport
  <2>4. OutboxOK' /\ RepliesOK'
    BY <1>3 DEF MarkTranscribing, MarkTranscribed, Mark, SetStatus, At, Goto, disk, outbox,
           memory, IInv, TypeOK, StoredBefore, RunSteps, WithDuration, WithTranscript,
           WithReport, WithQueueRow, StatusAtStep, InProgress, AnsweredAtEnd, OutboxOK,
           RepliesOK
  <2> QED
    BY <2>1, <2>2, <2>3, <2>4 DEF IInv
<1>4. ASSUME NEW j \in Jobs, MarkStructuring(j) \/ MarkStructured(j) PROVE IInv'
  <2>1. TypeOK'
    BY <1>4 DEF MarkStructuring, MarkStructured, Mark, SetStatus, At, Goto, disk, outbox,
           memory, IInv, TypeOK, Statuses, Steps, RunSteps, Replies
  <2>2. StoredBefore' /\ AnsweredAtEnd'
    BY <1>4 DEF MarkStructuring, MarkStructured, Mark, SetStatus, At, Goto, disk, outbox,
           memory, IInv, TypeOK, StoredBefore, AnsweredAtEnd, RunSteps, WithDuration,
           WithTranscript, WithReport, WithQueueRow
  <2>3. StatusAtStep' /\ StatusBacked'
    BY <1>4 DEF MarkStructuring, MarkStructured, Mark, SetStatus, At, Goto, disk, outbox,
           memory, IInv, TypeOK, StoredBefore, RunSteps, WithTranscript, WithReport,
           WithQueueRow, StatusAtStep, InProgress, StatusBacked, HasTranscript, HasReport
  <2>4. OutboxOK' /\ RepliesOK'
    BY <1>4 DEF MarkStructuring, MarkStructured, Mark, SetStatus, At, Goto, disk, outbox,
           memory, IInv, TypeOK, StoredBefore, RunSteps, WithDuration, WithTranscript,
           WithReport, WithQueueRow, StatusAtStep, InProgress, AnsweredAtEnd, OutboxOK,
           RepliesOK
  <2> QED
    BY <2>1, <2>2, <2>3, <2>4 DEF IInv
<1>5. ASSUME NEW j \in Jobs, Transcribe(j) \/ SaveTranscript(j) PROVE IInv'
  <2>1. TypeOK'
    BY <1>5 DEF Transcribe, SaveTranscript, At, Goto, disk, outbox, memory, IInv, TypeOK,
           Statuses, Steps, RunSteps, Replies
  <2>2. StoredBefore' /\ AnsweredAtEnd'
    BY <1>5 DEF Transcribe, SaveTranscript, At, Goto, disk, outbox, memory, IInv, TypeOK,
           StoredBefore, AnsweredAtEnd, RunSteps, WithDuration, WithTranscript, WithReport,
           WithQueueRow
  <2>3. StatusAtStep' /\ StatusBacked'
    BY <1>5 DEF Transcribe, SaveTranscript, At, Goto, disk, outbox, memory, IInv, TypeOK,
           StoredBefore, RunSteps, WithTranscript, WithReport, WithQueueRow, StatusAtStep,
           InProgress, StatusBacked, HasTranscript, HasReport
  <2>4. OutboxOK' /\ RepliesOK'
    BY <1>5 DEF Transcribe, SaveTranscript, At, Goto, disk, outbox, memory, IInv, TypeOK,
           StoredBefore, RunSteps, WithDuration, WithTranscript, WithReport, WithQueueRow,
           StatusAtStep, InProgress, AnsweredAtEnd, OutboxOK, RepliesOK
  <2> QED
    BY <2>1, <2>2, <2>3, <2>4 DEF IInv
<1>6. ASSUME NEW j \in Jobs, Structure(j) \/ StructureFails(j) \/ Repair(j) \/ StructureRaisesOther(j) PROVE IInv'
  <2>1. TypeOK'
    BY <1>6, MaxRetriesAssumption DEF Structure, StructureFails, Repair, StructureRaisesOther,
           Answer, At, Goto, disk, outbox, memory, IInv, TypeOK, Statuses, Steps, RunSteps,
           Replies
  <2>2. StoredBefore' /\ AnsweredAtEnd'
    BY <1>6 DEF Structure, StructureFails, Repair, StructureRaisesOther, Answer, At, Goto, disk,
           outbox, memory, IInv, TypeOK, StoredBefore, AnsweredAtEnd, RunSteps, WithDuration,
           WithTranscript, WithReport, WithQueueRow
  <2>3. StatusAtStep' /\ StatusBacked'
    BY <1>6 DEF Structure, StructureFails, Repair, StructureRaisesOther, Answer, At, Goto, disk,
           outbox, memory, IInv, TypeOK, StoredBefore, RunSteps, WithTranscript, WithReport,
           WithQueueRow, StatusAtStep, InProgress, StatusBacked, HasTranscript, HasReport
  <2>4. OutboxOK' /\ RepliesOK'
    BY <1>6 DEF Structure, StructureFails, Repair, StructureRaisesOther, Answer, At, Goto, disk,
           outbox, memory, IInv, TypeOK, StoredBefore, RunSteps, WithDuration, WithTranscript,
           WithReport, WithQueueRow, StatusAtStep, InProgress, AnsweredAtEnd, OutboxOK,
           RepliesOK
  <2> QED
    BY <2>1, <2>2, <2>3, <2>4 DEF IInv
<1>7. ASSUME NEW j \in Jobs, SaveReport(j) PROVE IInv'
  <2>1. TypeOK'
    BY <1>7 DEF SaveReport, At, Goto, disk, outbox, memory, IInv, TypeOK, Statuses, Steps,
           RunSteps, Replies
  <2>2. StoredBefore' /\ AnsweredAtEnd'
    BY <1>7 DEF SaveReport, At, Goto, disk, outbox, memory, IInv, TypeOK, StoredBefore,
           AnsweredAtEnd, RunSteps, WithDuration, WithTranscript, WithReport, WithQueueRow
  <2>3. StatusAtStep' /\ StatusBacked'
    BY <1>7 DEF SaveReport, At, Goto, disk, outbox, memory, IInv, TypeOK, StoredBefore,
           RunSteps, WithTranscript, WithReport, WithQueueRow, StatusAtStep, InProgress,
           StatusBacked, HasTranscript, HasReport
  <2>4. OutboxOK' /\ RepliesOK'
    BY <1>7 DEF SaveReport, At, Goto, disk, outbox, memory, IInv, TypeOK, StoredBefore,
           RunSteps, WithDuration, WithTranscript, WithReport, WithQueueRow, StatusAtStep,
           InProgress, AnsweredAtEnd, OutboxOK, RepliesOK
  <2> QED
    BY <2>1, <2>2, <2>3, <2>4 DEF IInv
<1>8. ASSUME NEW j \in Jobs, Enqueue(j) \/ RefreshDepth(j) PROVE IInv'
  <2>1. TypeOK'
    BY <1>8 DEF Enqueue, RefreshDepth, Outbox!Accept, At, Goto, disk, outbox, memory, IInv,
           TypeOK, Statuses, Steps, RunSteps, Replies
  <2>2. StoredBefore' /\ AnsweredAtEnd'
    BY <1>8 DEF Enqueue, RefreshDepth, Outbox!Accept, At, Goto, disk, outbox, memory, IInv,
           TypeOK, StoredBefore, AnsweredAtEnd, RunSteps, WithDuration, WithTranscript,
           WithReport, WithQueueRow
  <2>3. StatusAtStep' /\ StatusBacked'
    BY <1>8 DEF Enqueue, RefreshDepth, Outbox!Accept, At, Goto, disk, outbox, memory, IInv,
           TypeOK, StoredBefore, RunSteps, WithTranscript, WithReport, WithQueueRow,
           StatusAtStep, InProgress, StatusBacked, HasTranscript, HasReport
  <2>4. OutboxOK' /\ RepliesOK'
    BY <1>8 DEF Enqueue, RefreshDepth, Outbox!Accept, At, Goto, disk, outbox, memory, IInv,
           TypeOK, StoredBefore, RunSteps, WithDuration, WithTranscript, WithReport,
           WithQueueRow, StatusAtStep, InProgress, AnsweredAtEnd, OutboxOK, RepliesOK
  <2> QED
    BY <2>1, <2>2, <2>3, <2>4 DEF IInv
<1>9. ASSUME NEW j \in Jobs, MarkPending(j) PROVE IInv'
  <2>1. TypeOK'
    BY <1>9 DEF MarkPending, SetStatus, Answer, At, Goto, disk, outbox, memory, IInv, TypeOK,
           Statuses, Steps, RunSteps, Replies
  <2>2. StoredBefore' /\ AnsweredAtEnd'
    BY <1>9 DEF MarkPending, SetStatus, Answer, At, Goto, disk, outbox, memory, IInv, TypeOK,
           StoredBefore, AnsweredAtEnd, RunSteps, WithDuration, WithTranscript, WithReport,
           WithQueueRow
  <2>3. StatusAtStep' /\ StatusBacked'
    BY <1>9 DEF MarkPending, SetStatus, Answer, At, Goto, disk, outbox, memory, IInv, TypeOK,
           StoredBefore, RunSteps, WithTranscript, WithReport, WithQueueRow, StatusAtStep,
           InProgress, StatusBacked, HasTranscript, HasReport
  <2>4. OutboxOK' /\ RepliesOK'
    BY <1>9 DEF MarkPending, SetStatus, Answer, At, Goto, disk, outbox, memory, IInv, TypeOK,
           StoredBefore, RunSteps, WithDuration, WithTranscript, WithReport, WithQueueRow,
           StatusAtStep, InProgress, AnsweredAtEnd, OutboxOK, RepliesOK
  <2> QED
    BY <2>1, <2>2, <2>3, <2>4 DEF IInv
<1>10. ASSUME NEW j \in Jobs, MarkFailed(j) PROVE IInv'
  <2>1. TypeOK'
    BY <1>10 DEF MarkFailed, SetStatus, Answer, At, Goto, disk, outbox, memory, IInv, TypeOK,
           Statuses, Steps, RunSteps, Replies
  <2>2. StoredBefore' /\ AnsweredAtEnd'
    BY <1>10 DEF MarkFailed, SetStatus, Answer, At, Goto, disk, outbox, memory, IInv, TypeOK,
           StoredBefore, AnsweredAtEnd, RunSteps, WithDuration, WithTranscript, WithReport,
           WithQueueRow
  <2>3. StatusAtStep' /\ StatusBacked'
    BY <1>10 DEF MarkFailed, SetStatus, Answer, At, Goto, disk, outbox, memory, IInv, TypeOK,
           StoredBefore, RunSteps, WithTranscript, WithReport, WithQueueRow, StatusAtStep,
           InProgress, StatusBacked, HasTranscript, HasReport
  <2>4. OutboxOK' /\ RepliesOK'
    BY <1>10 DEF MarkFailed, SetStatus, Answer, At, Goto, disk, outbox, memory, IInv, TypeOK,
           StoredBefore, RunSteps, WithDuration, WithTranscript, WithReport, WithQueueRow,
           StatusAtStep, InProgress, AnsweredAtEnd, OutboxOK, RepliesOK
  <2> QED
    BY <2>1, <2>2, <2>3, <2>4 DEF IInv
<1>11. ASSUME NEW j \in Jobs, WriteFails(j) PROVE IInv'
  <2>1. TypeOK'
    BY <1>11 DEF WriteFails, GuardedWrites, Fault, Goto, At, disk, outbox, memory, IInv, TypeOK,
           Statuses, Steps, RunSteps, Replies
  <2>2. StoredBefore' /\ AnsweredAtEnd'
    BY <1>11 DEF WriteFails, GuardedWrites, Fault, Goto, At, disk, outbox, memory, IInv, TypeOK,
           StoredBefore, AnsweredAtEnd, RunSteps, WithDuration, WithTranscript, WithReport,
           WithQueueRow
  <2>3. StatusAtStep' /\ StatusBacked'
    BY <1>11 DEF WriteFails, GuardedWrites, Fault, Goto, At, disk, outbox, memory, IInv, TypeOK,
           StoredBefore, RunSteps, WithTranscript, WithReport, WithQueueRow, StatusAtStep,
           InProgress, StatusBacked, HasTranscript, HasReport
  <2>4. OutboxOK' /\ RepliesOK'
    BY <1>11 DEF WriteFails, GuardedWrites, Fault, Goto, At, disk, outbox, memory, IInv, TypeOK,
           StoredBefore, RunSteps, WithDuration, WithTranscript, WithReport, WithQueueRow,
           StatusAtStep, InProgress, AnsweredAtEnd, OutboxOK, RepliesOK
  <2> QED
    BY <2>1, <2>2, <2>3, <2>4 DEF IInv
<1>12. ASSUME NEW j \in Jobs, UnguardedWriteFails(j) PROVE IInv'
  <2>1. TypeOK'
    BY <1>12 DEF UnguardedWriteFails, Fault, Answer, Goto, At, disk, outbox, memory, IInv,
           TypeOK, Statuses, Steps, RunSteps, Replies
  <2>2. StoredBefore' /\ AnsweredAtEnd'
    BY <1>12 DEF UnguardedWriteFails, Fault, Answer, Goto, At, disk, outbox, memory, IInv,
           TypeOK, StoredBefore, AnsweredAtEnd, RunSteps, WithDuration, WithTranscript,
           WithReport, WithQueueRow
  <2>3. StatusAtStep' /\ StatusBacked'
    BY <1>12 DEF UnguardedWriteFails, Fault, Answer, Goto, At, disk, outbox, memory, IInv,
           TypeOK, StoredBefore, RunSteps, WithTranscript, WithReport, WithQueueRow,
           StatusAtStep, InProgress, StatusBacked, HasTranscript, HasReport
  <2>4. OutboxOK' /\ RepliesOK'
    BY <1>12 DEF UnguardedWriteFails, Fault, Answer, Goto, At, disk, outbox, memory, IInv,
           TypeOK, StoredBefore, RunSteps, WithDuration, WithTranscript, WithReport,
           WithQueueRow, StatusAtStep, InProgress, AnsweredAtEnd, OutboxOK, RepliesOK
  <2> QED
    BY <2>1, <2>2, <2>3, <2>4 DEF IInv
<1>13. ASSUME NEW j \in Jobs, Drain(j) PROVE IInv'
  <2>1. TypeOK'
    BY <1>13 DEF Drain, Outbox!Deliver, Outbox!Forget, disk, memory, IInv, TypeOK, Statuses,
           Steps, RunSteps, Replies
  <2>2. StoredBefore' /\ AnsweredAtEnd'
    BY <1>13 DEF Drain, Outbox!Deliver, Outbox!Forget, disk, memory, IInv, TypeOK, StoredBefore,
           AnsweredAtEnd, RunSteps, WithDuration, WithTranscript, WithReport, WithQueueRow
  <2>3. StatusAtStep' /\ StatusBacked'
    BY <1>13 DEF Drain, Outbox!Deliver, Outbox!Forget, disk, memory, IInv, TypeOK, StoredBefore,
           RunSteps, WithTranscript, WithReport, WithQueueRow, StatusAtStep, InProgress,
           StatusBacked, HasTranscript, HasReport
  <2>4. OutboxOK' /\ RepliesOK'
    BY <1>13 DEF Drain, Outbox!Deliver, Outbox!Forget, disk, memory, IInv, TypeOK, StoredBefore,
           RunSteps, WithDuration, WithTranscript, WithReport, WithQueueRow, StatusAtStep,
           InProgress, AnsweredAtEnd, OutboxOK, RepliesOK
  <2> QED
    BY <2>1, <2>2, <2>3, <2>4 DEF IInv
<1>14. ASSUME Crash PROVE IInv'
  <2>1. TypeOK'
    BY <1>14, MaxRetriesAssumption DEF Crash, Fault, disk, outbox, memory, IInv, TypeOK,
           Statuses, Steps, RunSteps, Replies
  <2>2. StoredBefore' /\ AnsweredAtEnd'
    BY <1>14 DEF Crash, Fault, disk, outbox, memory, IInv, TypeOK, StoredBefore, AnsweredAtEnd,
           RunSteps, WithDuration, WithTranscript, WithReport, WithQueueRow
  <2>3. StatusAtStep' /\ StatusBacked'
    BY <1>14 DEF Crash, Fault, disk, outbox, memory, IInv, TypeOK, StoredBefore, RunSteps,
           WithTranscript, WithReport, WithQueueRow, StatusAtStep, InProgress, StatusBacked,
           HasTranscript, HasReport
  <2>4. OutboxOK' /\ RepliesOK'
    BY <1>14 DEF Crash, Fault, disk, outbox, memory, IInv, TypeOK, StoredBefore, RunSteps,
           WithDuration, WithTranscript, WithReport, WithQueueRow, StatusAtStep, InProgress,
           AnsweredAtEnd, OutboxOK, RepliesOK
  <2> QED
    BY <2>1, <2>2, <2>3, <2>4 DEF IInv
<1>15. CASE UNCHANGED vars
  BY <1>15 DEF IInv, TypeOK, StoredBefore, StatusAtStep, StatusBacked, AnsweredAtEnd, OutboxOK, RepliesOK,
         vars, disk, outbox, memory
<1> QED
  BY <1>1, <1>2, <1>3, <1>4, <1>5, <1>6, <1>7, <1>8, <1>9, <1>10, <1>11, <1>12, <1>13, <1>14, <1>15 DEF Next, RunStep

\* The invariant holds throughout.
THEOREM Invariance == Spec => []IInv
  BY InitInv, NextInv, PTL DEF Spec

\* Type correctness of the pipeline's state.
THEOREM TypeCorrect == Spec => []TypeOK
<1>1. IInv => TypeOK
  BY DEF IInv
<1> QED
  BY Invariance, <1>1, PTL

\* The status of a job never runs ahead of what has been saved for it, whichever write
\* fails and wherever the process is killed (FieldOpsPipeline.run).
THEOREM StatusIsBacked == Spec => []StatusBacked
<1>1. IInv => StatusBacked
  BY DEF IInv
<1> QED
  BY Invariance, <1>1, PTL

\* What is queued or delivered is complete on the device (ADR-003: validate, and save,
\* before the queue).
THEOREM QueuedComplete == Spec => []QueuedIsComplete
<1>1. IInv => QueuedIsComplete
  BY DEF IInv, OutboxOK, QueuedIsComplete
<1> QED
  BY Invariance, <1>1, PTL

\* The technician's 201 and 422 are true, and stay so (submit_job).
THEOREM RepliesTruthful == Spec => []ReplyTruthful
<1>1. IInv => ReplyTruthful
  BY DEF IInv, OutboxOK, RepliesOK, ReplyTruthful
<1> QED
  BY Invariance, <1>1, PTL

\* A step of a request, or of anything else, moves each job by one step of the lifecycle.
LEMMA StatusStep ==
  ASSUME IInv, [Next]_vars, NEW k \in Jobs, status'[k] # status[k]
  PROVE  <<status[k], status'[k]>> \in Lifecycle
<1> DEFINE OK == <<status[k], status'[k]>> \in Lifecycle
<1> TypeOK /\ StatusAtStep
  BY DEF IInv
<1>1. ASSUME NEW j \in Jobs, SaveJob(j) \/ SaveDuration(j) PROVE OK
  BY <1>1 DEF SaveJob, SaveDuration, At, TypeOK, StatusAtStep, Lifecycle
<1>2. ASSUME NEW j \in Jobs, MarkTranscribing(j) \/ MarkTranscribed(j) \/ MarkStructuring(j) \/ MarkStructured(j)
      PROVE  OK
  BY <1>2 DEF MarkTranscribing, MarkTranscribed, MarkStructuring, MarkStructured, Mark, SetStatus, At,
              TypeOK, StatusAtStep, Lifecycle
<1>3. ASSUME NEW j \in Jobs, MarkPending(j) PROVE OK
  BY <1>3 DEF MarkPending, SetStatus, At, TypeOK, StatusAtStep, Lifecycle
<1>4. ASSUME NEW j \in Jobs, MarkFailed(j) PROVE OK
  BY <1>4 DEF MarkFailed, SetStatus, At, TypeOK, StatusAtStep, Lifecycle, InProgress
<1>5. ASSUME NEW j \in Jobs,
             \/ Submit(j) \/ SubmitFails(j) \/ WriteRecording(j) \/ Validate(j) \/ Transcribe(j) \/ SaveTranscript(j)
             \/ Structure(j) \/ StructureFails(j) \/ Repair(j) \/ StructureRaisesOther(j) \/ SaveReport(j)
             \/ Enqueue(j) \/ RefreshDepth(j) \/ WriteFails(j) \/ UnguardedWriteFails(j) \/ Drain(j)
      PROVE  status' = status
  BY <1>5 DEF Submit, SubmitFails, Answer, WriteRecording, Validate, Transcribe, SaveTranscript, Structure, StructureFails,
              Repair, StructureRaisesOther, SaveReport, Enqueue, RefreshDepth, WriteFails, UnguardedWriteFails,
              Drain, disk
<1>6. ASSUME Crash \/ UNCHANGED vars PROVE status' = status
  BY <1>6 DEF Crash, vars, disk
<1> HIDE DEF OK
<1>7. OK
  BY <1>1, <1>2, <1>3, <1>4, <1>5, <1>6 DEF Next, RunStep
<1> QED
  BY <1>7 DEF OK

\* Jobs go through the stages in their order, with FAILED and PENDING_SYNC final.
THEOREM InOrder == Spec => StagesInOrder
<1>1. IInv /\ [Next]_vars =>
        [\A j \in Jobs : status'[j] # status[j] => <<status[j], status'[j]>> \in Lifecycle]_vars
  BY StatusStep
<1> QED
  BY Invariance, <1>1, PTL DEF Spec, StagesInOrder

------------------------------------------------------------------------------
(* The review gauge.                                                        *)

\* The reports a run has announced on the gauge, since the restart or before it.
Announced ==
  {j \in flagged \cap reports :
     pc[j] \in {"enqueue", "depth", "mark_pending", "mark_failed", "done"}}

\* A step keeps what has been announced, and announces a report for each step of the gauge.
LEMMA AnnounceStep ==
  ASSUME TypeOK, StoredBefore, [Next]_vars
  PROVE  \/ Announced \subseteq Announced' /\ review_gauge' \in {0, review_gauge}
         \/ \E j \in Jobs \ Announced :
              Announced \cup {j} \subseteq Announced' /\ review_gauge' = review_gauge + 1
<1> DEFINE Kept == Announced \subseteq Announced' /\ review_gauge' \in {0, review_gauge}
           Added == \E j \in Jobs \ Announced :
                      Announced \cup {j} \subseteq Announced' /\ review_gauge' = review_gauge + 1
<1> USE DEF TypeOK, Announced, At, Goto, Answer, disk, memory
<1>1. ASSUME NEW j \in Jobs, Submit(j) \/ SubmitFails(j) \/ WriteRecording(j) PROVE Kept
  BY <1>1 DEF Submit, SubmitFails, WriteRecording
<1>2. ASSUME NEW j \in Jobs, SaveJob(j) \/ Validate(j) \/ SaveDuration(j) PROVE Kept
  BY <1>2 DEF SaveJob, Validate, SaveDuration
<1>3. ASSUME NEW j \in Jobs, MarkTranscribing(j) \/ MarkTranscribed(j) \/ MarkStructuring(j)
      PROVE  Kept
  BY <1>3 DEF MarkTranscribing, MarkTranscribed, MarkStructuring, Mark
<1>4. ASSUME NEW j \in Jobs, MarkStructured(j) PROVE Kept \/ Added
  <2>1. CASE j \in flagged
    <3>1. j \in reports /\ j \notin Announced /\ review_gauge' = review_gauge + 1
      BY <1>4, <2>1 DEF MarkStructured, Mark, StoredBefore, WithReport
    <3>2. Announced \cup {j} \subseteq Announced'
      BY <1>4, <2>1, <3>1 DEF MarkStructured, Mark
    <3> QED
      BY <3>1, <3>2
  <2>2. CASE j \notin flagged
    BY <1>4, <2>2 DEF MarkStructured, Mark
  <2> QED
    BY <2>1, <2>2
<1>5. ASSUME NEW j \in Jobs, Transcribe(j) \/ SaveTranscript(j) \/ SaveReport(j) PROVE Kept
  BY <1>5 DEF Transcribe, SaveTranscript, SaveReport
<1>6. ASSUME NEW j \in Jobs,
             Structure(j) \/ StructureFails(j) \/ Repair(j) \/ StructureRaisesOther(j)
      PROVE  Kept
  BY <1>6 DEF Structure, StructureFails, Repair, StructureRaisesOther
<1>7. ASSUME NEW j \in Jobs, Enqueue(j) \/ RefreshDepth(j) \/ MarkPending(j) \/ MarkFailed(j)
      PROVE  Kept
  BY <1>7 DEF Enqueue, RefreshDepth, MarkPending, MarkFailed
<1>8. ASSUME NEW j \in Jobs, WriteFails(j) \/ UnguardedWriteFails(j) \/ Drain(j) PROVE Kept
  BY <1>8 DEF WriteFails, UnguardedWriteFails, GuardedWrites, Drain
<1>9. ASSUME Crash PROVE Kept
  BY <1>9 DEF Crash
<1>10. ASSUME UNCHANGED vars PROVE Kept
  BY <1>10 DEF vars
<1> HIDE DEF Kept, Added
<1>11. Kept \/ Added
  BY <1>1, <1>2, <1>3, <1>4, <1>5, <1>6, <1>7, <1>8, <1>9, <1>10 DEF Next, RunStep
<1> QED
  BY <1>11 DEF Kept, Added

\* The gauge counts no report twice, and none that has not been announced.
GaugeOK == review_gauge <= Cardinality(Announced)

\* The review gauge never announces more reports than are stored with their need for
\* review (run(), save_report(), HUMAN_REVIEW_QUEUE_DEPTH).
THEOREM ReviewsStored == Spec => []ReviewsAreStored
<1>1. ASSUME TypeOK PROVE IsFiniteSet(Jobs) /\ flagged \cap reports \subseteq Jobs
  BY <1>1, JobsAssumption DEF TypeOK
<1>2. Init => GaugeOK
  <2> SUFFICES ASSUME Init PROVE GaugeOK
    OBVIOUS
  <2>1. Announced = {} /\ review_gauge = 0
    BY DEF Init, Announced
  <2> QED
    BY <2>1, FS_EmptySet DEF GaugeOK
<1>3. ASSUME IInv, IInv', GaugeOK, [Next]_vars PROVE GaugeOK'
  <2>1. Announced' \subseteq Jobs /\ Announced \subseteq Announced' /\ review_gauge \in Nat
    BY <1>3, AnnounceStep DEF IInv, TypeOK, Announced
  <2>2. IsFiniteSet(Announced') /\ IsFiniteSet(Announced)
    BY <2>1, JobsAssumption, FS_Subset
  <2>3. Cardinality(Announced) \in Nat /\ Cardinality(Announced') \in Nat
    BY <2>2, FS_CardinalityType
  <2>4. CASE review_gauge' \in {0, review_gauge}
    <3>1. Cardinality(Announced) <= Cardinality(Announced')
      BY <2>1, <2>2, FS_Subset
    <3> QED
      BY <1>3, <2>1, <2>3, <2>4, <3>1 DEF GaugeOK
  <2>5. CASE \E j \in Jobs \ Announced :
               Announced \cup {j} \subseteq Announced' /\ review_gauge' = review_gauge + 1
    <3>1. PICK j \in Jobs \ Announced :
            Announced \cup {j} \subseteq Announced' /\ review_gauge' = review_gauge + 1
      BY <2>5
    <3>2. Cardinality(Announced \cup {j}) = Cardinality(Announced) + 1
      BY <2>2, <3>1, FS_AddElement
    <3>3. Cardinality(Announced \cup {j}) <= Cardinality(Announced')
      BY <2>2, <3>1, FS_Subset
    <3> QED
      BY <1>3, <2>1, <2>3, <3>1, <3>2, <3>3 DEF GaugeOK
  <2> QED
    BY <1>3, <2>4, <2>5, AnnounceStep DEF IInv
<1>4. ASSUME IInv, GaugeOK PROVE ReviewsAreStored
  <2>1. Announced \subseteq flagged \cap reports /\ review_gauge \in Nat
    BY <1>4 DEF IInv, TypeOK, Announced
  <2>2. IsFiniteSet(flagged \cap reports)
    BY <1>1, <1>4, FS_Subset DEF IInv
  <2>3. /\ Cardinality(Announced) <= Cardinality(flagged \cap reports)
        /\ Cardinality(Announced) \in Nat /\ Cardinality(flagged \cap reports) \in Nat
    BY <2>1, <2>2, FS_Subset, FS_CardinalityType
  <2> QED
    BY <1>4, <2>1, <2>3 DEF GaugeOK, ReviewsAreStored
<1> QED
  BY Invariance, <1>2, <1>3, <1>4, PTL DEF Spec

------------------------------------------------------------------------------
(* What a composition with other components relies on.                      *)

\* A run holds the event loop to itself.
OneRun == \A i, j \in Running : i = j

\* Only a fault keeps a run that has queued its report from answering 201.
QueuedGoesOn == faults = 0 => \A j \in enqueued : pc[j] \in WithQueueRow \/ reply[j] = "created"

\* Both are kept by every step, and an answer is given once.
LEMMA RunsStep ==
  ASSUME IInv, OneRun, QueuedGoesOn, [Next]_vars
  PROVE  /\ OneRun' /\ QueuedGoesOn'
         /\ \A j \in Jobs : reply[j] # "none" => reply'[j] = reply[j]
<1> DEFINE Kept == /\ OneRun' /\ QueuedGoesOn'
                   /\ \A j \in Jobs : reply[j] # "none" => reply'[j] = reply[j]
<1> TypeOK /\ AnsweredAtEnd
  BY DEF IInv
<1> USE DEF At, Goto, Answer, outbox, disk, memory, Running, OneRun, QueuedGoesOn, AnsweredAtEnd,
            RunSteps, WithQueueRow, TypeOK
<1>1. ASSUME NEW j \in Jobs, Submit(j) \/ SubmitFails(j) \/ WriteRecording(j) PROVE Kept
  BY <1>1 DEF Submit, SubmitFails, WriteRecording
<1>2. ASSUME NEW j \in Jobs, SaveJob(j) \/ Validate(j) \/ SaveDuration(j) PROVE Kept
  BY <1>2 DEF SaveJob, Validate, SaveDuration
<1>3. ASSUME NEW j \in Jobs,
             MarkTranscribing(j) \/ MarkTranscribed(j) \/ MarkStructuring(j) \/ MarkStructured(j)
      PROVE  Kept
  BY <1>3 DEF MarkTranscribing, MarkTranscribed, MarkStructuring, MarkStructured, Mark
<1>4. ASSUME NEW j \in Jobs, Transcribe(j) \/ SaveTranscript(j) \/ SaveReport(j) PROVE Kept
  BY <1>4 DEF Transcribe, SaveTranscript, SaveReport
<1>5. ASSUME NEW j \in Jobs,
             Structure(j) \/ StructureFails(j) \/ Repair(j) \/ StructureRaisesOther(j)
      PROVE  Kept
  BY <1>5 DEF Structure, StructureFails, Repair, StructureRaisesOther
<1>6. ASSUME NEW j \in Jobs, Enqueue(j) \/ RefreshDepth(j) PROVE Kept
  BY <1>6 DEF Enqueue, RefreshDepth, Outbox!Accept
<1>7. ASSUME NEW j \in Jobs, MarkPending(j) \/ MarkFailed(j) PROVE Kept
  BY <1>7 DEF MarkPending, MarkFailed
<1>8. ASSUME NEW j \in Jobs, WriteFails(j) \/ UnguardedWriteFails(j) PROVE Kept
  BY <1>8 DEF WriteFails, UnguardedWriteFails, GuardedWrites, Fault
<1>9. ASSUME NEW j \in Jobs, Drain(j) PROVE Kept
  BY <1>9 DEF Drain, Outbox!Deliver, Outbox!Forget
<1>10. ASSUME Crash PROVE Kept
  BY <1>10 DEF Crash, Fault
<1>11. ASSUME UNCHANGED vars PROVE Kept
  BY <1>11 DEF vars
<1> HIDE DEF Kept, At, Goto, Answer, outbox, disk, memory, Running, OneRun, QueuedGoesOn, AnsweredAtEnd,
            RunSteps, WithQueueRow, TypeOK
<1>12. Kept
  BY <1>1, <1>2, <1>3, <1>4, <1>5, <1>6, <1>7, <1>8, <1>9, <1>10, <1>11 DEF Next, RunStep
<1> QED
  BY <1>12 DEF Kept

\* The two hold throughout.
LEMMA RunsInvariance == Spec => [](IInv /\ OneRun /\ QueuedGoesOn)
<1>1. Init => OneRun /\ QueuedGoesOn
  BY DEF Init, Outbox!Init, OneRun, QueuedGoesOn, Running, RunSteps
<1>2. IInv /\ OneRun /\ QueuedGoesOn /\ [Next]_vars => OneRun' /\ QueuedGoesOn'
  BY RunsStep
<1> QED
  BY InitInv, NextInv, <1>1, <1>2, PTL DEF Spec

\* Only Submit and SubmitFails begin a request.
LEMMA NewStays ==
  ASSUME TypeOK, NEW i \in Jobs, pc[i] = "new", NEW j \in Jobs,
         WriteRecording(j) \/ RunStep(j) \/ WriteFails(j) \/ UnguardedWriteFails(j)
  PROVE  pc'[i] = "new"
<1> USE DEF TypeOK, At, Goto, Answer
<1>1. CASE WriteRecording(j) \/ WriteFails(j) \/ UnguardedWriteFails(j)
  BY <1>1 DEF WriteRecording, WriteFails, UnguardedWriteFails, GuardedWrites
<1>2. CASE RunStep(j)
  <2>1. CASE SaveJob(j) \/ Validate(j) \/ SaveDuration(j)
    BY <2>1 DEF SaveJob, Validate, SaveDuration
  <2>2. CASE MarkTranscribing(j) \/ MarkTranscribed(j) \/ MarkStructuring(j) \/ MarkStructured(j)
    BY <2>2 DEF MarkTranscribing, MarkTranscribed, MarkStructuring, MarkStructured, Mark
  <2>3. CASE Transcribe(j) \/ SaveTranscript(j) \/ SaveReport(j)
    BY <2>3 DEF Transcribe, SaveTranscript, SaveReport
  <2>4. CASE Structure(j) \/ StructureFails(j) \/ Repair(j) \/ StructureRaisesOther(j)
    BY <2>4 DEF Structure, StructureFails, Repair, StructureRaisesOther
  <2>5. CASE Enqueue(j) \/ RefreshDepth(j) \/ MarkPending(j) \/ MarkFailed(j)
    BY <2>5 DEF Enqueue, RefreshDepth, MarkPending, MarkFailed
  <2> QED
    BY <1>2, <2>1, <2>2, <2>3, <2>4, <2>5 DEF RunStep
<1> QED
  BY <1>1, <1>2
===============================================================================
