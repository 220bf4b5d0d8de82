---------------------------- MODULE MCFieldDevice ----------------------------
(* A view for model-checking FieldDevice.                                   *)
EXTENDS FieldDevice

\* How long the rows have waited that will be tried again: Due asks no other row, since an
\* untried one has waited long enough and a dead letter is not read.
Waiting == [j \in Jobs |-> IF attempts[j] \in 1..(MaxAttempts - 1) THEN waited[j] ELSE 0]

\* All that a guard, or a property beside the types, reads.  What is left out - the
\* probe's cached state, which a drain started by the route never reads, and the three
\* gauge values - is only ever written, or copied to another of them.
Observed ==
  <<queue, attempts, Waiting, created_at, pc, batch, seen, posting, answer, received, late, faults,
    recordings, status, durations, transcripts, reports, flagged, attempt, step, reply, run_faults,
    ui>>
=============================================================================
