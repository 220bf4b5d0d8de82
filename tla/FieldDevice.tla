------------------------------ MODULE FieldDevice ------------------------------
(***************************************************************************)
(* A field device as a whole: the technician's UI (src/src/ui/app.py), the *)
(* pipeline of Pipeline and the sync queue of SyncQueue in one API         *)
(* process, with the interfaces between them.                              *)
(*                                                                         *)
(* The event loop thread of SyncQueue is the one a run of Pipeline holds:  *)
(* enqueue() is a step of both.  A drain starts on a free event loop and   *)
(* goes on in a thread of its own while the next recording is processed.   *)
(* The UI waits 120 seconds for an answer, and the run it has given up     *)
(* goes on.  The voice note stays in the form, and whatever the last press *)
(* of the button led to, another one submits it again.                     *)
(***************************************************************************)
EXTENDS Integers, FiniteSets

CONSTANTS Notes,             \* voice notes that technicians record
          MaxSubmissions,    \* bound on how often a note is submitted
          Drains, EventLoop, NoReport, MaxAttempts, BatchSize, BackoffBase, BackoffMax, MaxSetback,
          MaxRetries, MaxFaults    \* as in SyncQueue and Pipeline

ASSUME NotesAssumption == IsFiniteSet(Notes)
ASSUME MaxSubmissionsAssumption == MaxSubmissions \in Nat \ {0}

\* Each submission of a note is a job of its own, and makes a report of its own.
Jobs == Notes \X (1..MaxSubmissions)

ASSUME ThreadsAssumption == EventLoop \notin Drains /\ NoReport \notin Jobs
ASSUME NumbersAssumption ==
  /\ MaxAttempts \in Nat \ {0}
  /\ BatchSize \in Nat \ {0}
  /\ BackoffBase \in Nat \ {0}
  /\ BackoffMax \in Nat \ {0}
  /\ MaxSetback \in Nat
  /\ MaxRetries \in Nat \ {0}
  /\ MaxFaults \in Nat

VARIABLES
  queue, attempts, waited, created_at, last_state, gauge, pc, batch, seen,
  posting, answer, depth, received, late, faults,        \* those of SyncQueue
  recordings, status, durations, transcripts, reports, flagged, review_gauge,
  attempt, reply,                                        \* those of Pipeline
  step,             \* its pc: what the request of each job does next
  run_faults,       \* its faults: crashes, and failed writes of a run
  ui                \* what the UI has for each submission

Sync == INSTANCE SyncQueue WITH Reports <- Jobs

Enqueued == {j \in Jobs : created_at[j] # 0}

Pipe == INSTANCE Pipeline
          WITH pc <- step, faults <- run_faults,
               enqueued <- Enqueued, sync_queue <- queue, central <- received

syncVars == <<queue, attempts, waited, created_at, last_state, gauge, pc, batch, seen, posting,
              answer, depth, received, late, faults>>
runVars  == <<recordings, status, durations, transcripts, reports, flagged, review_gauge,
              attempt, step, reply, run_faults>>
vars     == <<syncVars, runVars, ui>>

Init ==
  /\ Sync!Init
  /\ Pipe!Init
  /\ ui = [j \in Jobs |-> "none"]

------------------------------------------------------------------------------
(* The UI: submit_recording()                                               *)

\* The technician presses the button, for the first time or again: after an error, a
\* timeout or a success, or while an earlier answer is still awaited.  The submissions of
\* a note are numbered in the order of the presses.
SubmitRecording(j) ==
  /\ ui[j] = "none"
  /\ \A k \in 1..(j[2] - 1) : ui[<<j[1], k>>] # "none"
  /\ ui' = [ui EXCEPT ![j] = "waiting"]
  /\ UNCHANGED <<syncVars, runVars>>

\* Mutant of ShowAnswer: the status code is not looked at.
ShowAnyAnswer(j) ==
  /\ ui[j] = "waiting"
  /\ reply[j] \notin {"none", "lost"}
  /\ ui' = [ui EXCEPT ![j] = "created"]
  /\ UNCHANGED <<syncVars, runVars>>

\* An answer that is not 200 or 201 is shown as an error of the pipeline.
ShowAnswer(j) ==
  /\ ui[j] = "waiting"
  /\ reply[j] \notin {"none", "lost"}
  /\ ui' = [ui EXCEPT ![j] = IF reply[j] = "created" THEN "created" ELSE "error"]
  /\ UNCHANGED <<syncVars, runVars>>

\* httpx.RequestError: the 120 seconds are over, or the connection is gone - before
\* the request has arrived, or while it is worked on, or with the answer on its way.
GiveUp(j) ==
  /\ ui[j] = "waiting"
  /\ ui' = [ui EXCEPT ![j] = "unreachable"]
  /\ UNCHANGED <<syncVars, runVars>>

------------------------------------------------------------------------------
(* The API: a step of a run that leaves the sync queue alone, and those that *)
(* do not.                                                                   *)

\* The upload has arrived, even if the UI has given it up in the meantime.
Arrive(j) ==
  /\ ui[j] # "none"
  /\ UNCHANGED <<syncVars, ui>>
  /\ Pipe!Submit(j) \/ Pipe!SubmitFails(j)

Run(j) ==
  /\ step[j] \notin {"enqueue", "depth"}
  /\ UNCHANGED <<syncVars, ui>>
  /\ Pipe!WriteRecording(j) \/ Pipe!RunStep(j)

RunFails(j) ==
  /\ faults < MaxFaults
  /\ step[j] \notin {"enqueue", "depth"}
  /\ UNCHANGED <<syncVars, ui>>
  /\ Pipe!WriteFails(j) \/ Pipe!UnguardedWriteFails(j)

\* run() calls SyncQueueWorker.enqueue(), which inserts the row ...
Enqueue(j) ==
  /\ step[j] = "enqueue"
  /\ Sync!Enqueue(j)
  /\ Pipe!Enqueue(j)
  /\ UNCHANGED ui

EnqueueFails(j) ==
  /\ step[j] = "enqueue"
  /\ Sync!EnqueueFails
  /\ Pipe!WriteFails(j)
  /\ UNCHANGED ui

\* Mutant of ReadDepth: enqueue() leaves the refresh to a thread and returns.
ReadDepthAndReturn(j) ==
  /\ step[j] = "depth"
  /\ Sync!ReadDepth(EventLoop)
  /\ Pipe!RefreshDepth(j)
  /\ UNCHANGED ui

\* ... and refreshes the gauge before it returns.
ReadDepth(j) ==
  /\ step[j] = "depth"
  /\ Sync!ReadDepth(EventLoop)
  /\ UNCHANGED <<runVars, ui>>

SetGauge(j) ==
  /\ step[j] = "depth"
  /\ Sync!SetGauge(EventLoop)
  /\ Pipe!RefreshDepth(j)
  /\ UNCHANGED ui

RefreshFails(j) ==
  /\ step[j] = "depth"
  /\ Sync!StorageFails(EventLoop)
  /\ Pipe!WriteFails(j)
  /\ UNCHANGED ui

\* POST /sync/drain reaches a free event loop; the route asks for a fresh check.
StartDrain(t) ==
  /\ Pipe!Running = {}
  /\ Sync!StartDrain(t, TRUE)
  /\ UNCHANGED <<runVars, ui>>

\* The drain itself, the requests it sends, and time, whatever the event loop does.
Drain(t) ==
  /\ Sync!DrainStep(t) \/ Sync!RefreshStep(t)
  /\ UNCHANGED <<runVars, ui>>

DrainFails(t) ==
  /\ run_faults < MaxFaults
  /\ Sync!StorageFails(t)
  /\ UNCHANGED <<runVars, ui>>

World ==
  /\ Sync!Server \/ Sync!Tick
  /\ UNCHANGED <<runVars, ui>>

\* The process is killed, perhaps by the liveness probe that a long run keeps waiting,
\* and started again.  The UI is another process.
Crash ==
  /\ Sync!Crash
  /\ Pipe!Crash
  /\ UNCHANGED ui

------------------------------------------------------------------------------

Next ==
  \/ \E j \in Jobs :
       \/ SubmitRecording(j) \/ ShowAnswer(j) \/ GiveUp(j)
       \/ Arrive(j) \/ Run(j) \/ RunFails(j)
       \/ Enqueue(j) \/ EnqueueFails(j) \/ ReadDepth(j) \/ SetGauge(j) \/ RefreshFails(j)
  \/ \E t \in Drains : StartDrain(t) \/ Drain(t) \/ DrainFails(t)
  \/ World
  \/ Crash

Spec == Init /\ [][Next]_vars

(***************************************************************************)
(* As in SyncQueue: a running drain is scheduled, its requests end, and    *)
(* time passes.  Nothing is assumed of the technician, of the uploads or   *)
(* of the runs, not even that they let a drain start.                      *)
(***************************************************************************)
Fairness ==
  /\ \A t \in Drains : WF_vars(Drain(t))
  /\ WF_vars(Sync!Tick /\ UNCHANGED <<runVars, ui>>)

LiveSpec == Spec /\ Fairness
------------------------------------------------------------------------------
(* Properties                                                               *)

\* Every variable has its type, and the two components agree where the event loop is:
\* it refreshes the gauge exactly while a run is at that step.
TypeOK ==
  /\ Sync!TypeOK
  /\ Pipe!TypeOK
  /\ ui \in [Jobs -> {"none", "waiting", "created", "unreachable", "error"}]
  /\ (pc[EventLoop] # "idle") <=> \E j \in Jobs : step[j] = "depth"

\* "Report created and queued for sync": from then on, through drains, crashes and
\* further submissions, the report is in the queue or at the central server, its job
\* PENDING_SYNC, and what it was made from on the device.
AcknowledgedIsKept ==
  \A j \in Jobs : ui[j] = "created" =>
    /\ j \in queue \cup received
    /\ status[j] = "PENDING_SYNC"
    /\ j \in recordings \cap transcripts \cap reports

\* To submit a voice note again after an error makes no second report of it.  Each press
\* that ends well makes a report, and so may one that the UI has given up; but unless the
\* process has been killed or a write has failed, nothing of a submission that was answered
\* with an error is queued, or has been sent by a drain that was under way.
ErrorQueuedNothing ==
  run_faults = 0 => \A j \in Jobs : ui[j] = "error" => j \notin Enqueued \cup received

\* With the real queue in the place of its outbox, the pipeline still does what
\* Pipeline says: whatever overlapping drains do to the table is delivering a queued
\* report or dropping a delivered one.
PipelineSpec == Pipe!Spec

\* As long as somebody keeps draining and the server can be reached, every report a
\* technician has been told of gets there in the end, or is left as a dead letter.
AcknowledgedArrives ==
  []<>(\E t \in Drains : pc[t] = "fetch") =>
    <>[](\A j \in Jobs : ui[j] = "created" => j \in received \cup Sync!DeadLetters)
=============================================================================
