--------------------------- MODULE ApiServerClaims ---------------------------
(***************************************************************************)
(* What the documentation and the comments of the repository say of the    *)
(* API process and the code does not keep.  Each property is checked by a  *)
(* run of its own, and violated.                                           *)
(***************************************************************************)
EXTENDS ApiServer

\* "Connectivity state itself is cached (`last_known_state`) so routes like
\* `GET /sync/status` can report current state" (ADR-007): what that route shows is what
\* the drains of the worker that everybody shares have found, or a later check.
StatusTellsDrains ==
  cache["probe"] # None /\ cache["worker"] # None =>
    last_state[cache["probe"]] = last_state[probe_of[cache["worker"]]]

\* "open http://localhost:7860 and record a voice note" (README.md), with the token set
\* as the line before says, in the production environment of docker-compose.yml: the UI,
\* which sends no Authorization header, is not refused.
UiIsServed ==
  \A q \in Requests :
    environment = "production" /\ header[q] = None => outcome[q] # "401"
=============================================================================
