------------------------------- MODULE Outbox -------------------------------
(***************************************************************************)
(* What the offline-first design promises of the sync queue (ADR-003,      *)
(* ADR-007): a report the device has accepted stays on the device until    *)
(* the central server has it.  Delivery is at least once: a report may be  *)
(* delivered while it is still outstanding, again when it is sent again,   *)
(* and even after the device has dropped it (a request the device gave up  *)
(* waiting for).                                                           *)
(*                                                                         *)
(* SyncQueue implements this specification: outstanding is the set of rows *)
(* of the table sync_queue, delivered what the server has received.        *)
(***************************************************************************)
CONSTANT Reports          \* every FieldReport that is ever produced

VARIABLES accepted,       \* reports handed to the outbox so far
          outstanding,    \* reports the device still keeps
          delivered       \* reports the central server has

outboxVars == <<accepted, outstanding, delivered>>

Init ==
  /\ accepted = {}
  /\ outstanding = {}
  /\ delivered = {}

\* A report is accepted once, and kept from then on.
Accept(r) ==
  /\ r \notin accepted
  /\ accepted' = accepted \cup {r}
  /\ outstanding' = outstanding \cup {r}
  /\ UNCHANGED delivered

\* The server gets a report the device has accepted, for the first time or again.
Deliver(r) ==
  /\ r \in accepted
  /\ delivered' = delivered \cup {r}
  /\ UNCHANGED <<accepted, outstanding>>

\* The device drops a report: only one the server has, and for good.
Forget(r) ==
  /\ r \in outstanding \cap delivered
  /\ outstanding' = outstanding \ {r}
  /\ UNCHANGED <<accepted, delivered>>

Next == \E r \in Reports : Accept(r) \/ Deliver(r) \/ Forget(r)

Spec == Init /\ [][Next]_outboxVars
=============================================================================
