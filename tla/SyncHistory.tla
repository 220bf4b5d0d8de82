----------------------------- MODULE SyncHistory -----------------------------
(***************************************************************************)
(* SyncQueue with a history: how often the requests for a report have      *)
(* failed, by the number of attempts that the drain had read.  The code    *)
(* keeps no such count; it writes the attempts a drain has read plus one,  *)
(* so that two failures may count as one, and one failure may raise the    *)
(* column by two.                                                          *)
(***************************************************************************)
EXTENDS SyncQueue

VARIABLE failures   \* of each report, after so many attempts

allVars == <<vars, failures>>

Attempts == 0..MaxAttempts - 1

HistoryInit ==
  /\ Init
  /\ failures = [r \in Reports |-> [n \in Attempts |-> 0]]

\* A drain that has read n attempts ends its request for r without success.
FailsAt(r, n) ==
  \E t \in Drains :
    /\ posting[t] = r /\ seen[t][r] = n
    /\ Rejected(t) \/ NetworkError(t)

HistoryNext ==
  /\ Next
  /\ failures' = [r \in Reports |-> [n \in Attempts |->
                    IF FailsAt(r, n) THEN failures[r][n] + 1 ELSE failures[r][n]]]

HistorySpec == HistoryInit /\ [][HistoryNext]_allVars

HistoryLiveSpec == HistorySpec /\ Fairness
------------------------------------------------------------------------------

\* No record is given up early: whatever overlapping drains do to each other's counts,
\* a dead letter has been tried, and has failed, after each number of attempts.
DeadLettersTried == \A r \in DeadLetters : \A n \in Attempts : failures[r][n] > 0

\* Cardinality(Drains) ^ n
Overlap[n \in Nat] == IF n = 0 THEN 1 ELSE Cardinality(Drains) * Overlap[n - 1]

\* And none is tried for ever, although a drain may set the count back that others have
\* written: the failures are bounded by the drains that run at a time.
RetriesBounded == \A r \in Reports : \A n \in Attempts : failures[r][n] <= Overlap[n + 1]
==============================================================================
