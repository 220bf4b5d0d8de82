----------------------------- MODULE MCApiServer -----------------------------
(* Symmetry and a view for model-checking ApiServer.                        *)
EXTENDS ApiServer, TLC

Symmetry == Permutations(Requests)

\* What a request on its way out has asked for: all that is still asked of it.
Asked(q) == IF at[q] = "leaving" THEN route[q] \in Protected ELSE route[q]

\* All that a guard, or a property beside the types, reads: of a header, whether it is the
\* right one; and nothing of the state that the probes remember.
Observed ==
  <<phase, settings, cache, probe_of, database, at, todo, use, outcome, inside, log,
    [q \in Requests |-> Authorized(q)], [q \in Requests |-> Asked(q)]>>
=============================================================================
