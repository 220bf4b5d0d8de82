----------------------------- MODULE MCSyncQueue -----------------------------
(* Symmetry and a view for model-checking SyncQueue.                        *)
EXTENDS SyncQueue, TLC

Symmetry == Permutations(Reports) \cup Permutations(Drains)

\* Without the gauge and the value on its way there, which no guard depends on.
Observed == <<table, last_state, pc, request, server, faults>>
=============================================================================
