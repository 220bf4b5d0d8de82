------------------------------ MODULE RateLimit ------------------------------
(***************************************************************************)
(* RateLimitMiddleware: a sliding window of time stamps for every client,  *)
(* in the memory of the process (src/src/api/middleware/rate_limit.py).    *)
(*                                                                         *)
(* dispatch() reads the clock, pops what has left the window, and decides, *)
(* without an await in between: a request is one step.  The clock is       *)
(* monotonic; any number of requests may come at the same time.            *)
(***************************************************************************)
EXTENDS Integers, Sequences

CONSTANTS Clients,        \* client addresses
          Limit,          \* settings.rate_limit_per_minute
          Window,         \* _WINDOW_SECONDS
          MaxTime         \* bound on the clock

ASSUME LimitAssumption == Limit \in Nat
ASSUME WindowAssumption == Window \in Nat
ASSUME MaxTimeAssumption == MaxTime \in Nat

VARIABLES
  now,            \* time.monotonic()
  requests,       \* the deque of each client
  served          \* the times of all its requests that were let through

vars == <<now, requests, served>>

------------------------------------------------------------------------------

\* Mutant of Expired: a request leaves the window when it is as old as the window.
ExpiredAtEdge(t) == now - t >= Window

Expired(t) == now - t > Window

\* The loop of dispatch() pops the first n entries of the deque w.
Pops(w, n) ==
  /\ n \in 0..Len(w)
  /\ \A i \in 1..n : Expired(w[i])
  /\ n < Len(w) => ~ Expired(w[n + 1])

After(w, n) == SubSeq(w, n + 1, Len(w))

Init ==
  /\ now = 0
  /\ requests = [c \in Clients |-> <<>>]
  /\ served = [c \in Clients |-> <<>>]

\* Mutant of Serve: one request more than the limit.
ServeOneMore(c) ==
  \E n \in 0..Len(requests[c]) :
    /\ Pops(requests[c], n)
    /\ Len(requests[c]) - n <= Limit
    /\ requests' = [requests EXCEPT ![c] = Append(After(@, n), now)]
    /\ served' = [served EXCEPT ![c] = Append(@, now)]
    /\ UNCHANGED now

\* The request is let through.
Serve(c) ==
  \E n \in 0..Len(requests[c]) :
    /\ Pops(requests[c], n)
    /\ Len(requests[c]) - n < Limit
    /\ requests' = [requests EXCEPT ![c] = Append(After(@, n), now)]
    /\ served' = [served EXCEPT ![c] = Append(@, now)]
    /\ UNCHANGED now

\* Mutant of Reject: rejected requests count too.
RejectAndCount(c) ==
  \E n \in 0..Len(requests[c]) :
    /\ Pops(requests[c], n)
    /\ Len(requests[c]) - n >= Limit
    /\ requests' = [requests EXCEPT ![c] = Tail(Append(After(@, n), now))]
    /\ UNCHANGED <<now, served>>

\* The request is answered 429, and leaves no trace but the pops.
Reject(c) ==
  \E n \in 0..Len(requests[c]) :
    /\ Pops(requests[c], n)
    /\ Len(requests[c]) - n >= Limit
    /\ requests' = [requests EXCEPT ![c] = After(@, n)]
    /\ UNCHANGED <<now, served>>

Tick ==
  /\ now < MaxTime
  /\ now' = now + 1
  /\ UNCHANGED <<requests, served>>

Next ==
  \/ \E c \in Clients : Serve(c) \/ Reject(c)
  \/ Tick

Spec == Init /\ [][Next]_vars
------------------------------------------------------------------------------
(* Properties                                                               *)

\* Every variable has its type, and a deque never grows beyond the limit.
TypeOK ==
  /\ now \in Nat
  /\ requests \in [Clients -> Seq(Nat)]
  /\ \A c \in Clients : Len(requests[c]) <= Limit
  /\ served \in [Clients -> Seq(Nat)]

\* "N requests per rolling 60-second window": of Limit + 1 requests of a client let
\* through in a row, the last comes more than a window after the first, wherever the
\* window is laid and however requests fall on its edges.
LimitKept ==
  \A c \in Clients : \A i \in 1..Len(served[c]) - Limit :
    served[c][i + Limit] - served[c][i] > Window

\* A client is turned away only if Limit requests of its own were let through within
\* the last window: neither its rejected requests nor other clients use up its limit.
RejectedForCause ==
  \A c \in Clients, n \in 0..Limit :
    Pops(requests[c], n) /\ Len(requests[c]) - n >= Limit =>
      /\ Len(served[c]) >= Limit
      /\ \A i \in Len(served[c]) - Limit + 1..Len(served[c]) : now - served[c][i] <= Window
=============================================================================
