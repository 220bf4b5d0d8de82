---------------------------- MODULE PipelineClaims ----------------------------
(***************************************************************************)
(* What the documentation says of a job and the code does not keep,        *)
(* checked by a run of its own, and violated.                              *)
(***************************************************************************)
EXTENDS Pipeline

\* "Each stage either succeeds and moves to the next, or fails and the whole job is
\* marked FAILED" (ADR-008), at least as long as the database works.
FailureIsMarked ==
  \A j \in Jobs : reply[j] = "error" /\ status[j] # "none" => status[j] = "FAILED"
=============================================================================
