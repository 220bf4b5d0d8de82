--------------------------- MODULE RateLimitProofs ---------------------------
(***************************************************************************)
(* Theorems about RateLimit, for any clients, limit and window.            *)
(***************************************************************************)
EXTENDS RateLimit, TLAPS

(***************************************************************************)
(* The inductive invariant: a deque holds the latest requests its client   *)
(* was served, in order, and those it no longer holds have expired.        *)
(***************************************************************************)

\* The deque w is the end of the history s, and the rest of s has expired.
Tracks(w, s) ==
  /\ Len(w) <= Len(s)
  /\ \A i \in 1..Len(w) : w[i] = s[Len(s) - Len(w) + i]
  /\ \A i \in 1..Len(s) - Len(w) : Expired(s[i])

\* The history s is in the order of time.
InOrder(s) ==
  \A i \in 1..Len(s) : s[i] <= now /\ \A j \in i..Len(s) : s[i] <= s[j]

IInv ==
  /\ TypeOK
  /\ LimitKept
  /\ \A c \in Clients : Tracks(requests[c], served[c]) /\ InOrder(served[c])

------------------------------------------------------------------------------

\* What is left of a deque after n pops.
LEMMA AfterFacts ==
  ASSUME NEW w \in Seq(Nat), NEW n \in 0..Len(w)
  PROVE  /\ After(w, n) \in Seq(Nat)
         /\ Len(After(w, n)) = Len(w) - n
         /\ \A i \in 1..Len(w) - n : After(w, n)[i] = w[n + i]
  BY DEF After

\* Popping expired entries leaves a deque that still tracks the history.
LEMMA PopsTrack ==
  ASSUME NEW w \in Seq(Nat), NEW s \in Seq(Nat), Tracks(w, s),
         NEW n \in 0..Len(w), Pops(w, n)
  PROVE  Tracks(After(w, n), s)
<1> DEFINE v == After(w, n)
<1>1. v \in Seq(Nat) /\ Len(v) = Len(w) - n /\ \A i \in 1..Len(w) - n : v[i] = w[n + i]
  BY AfterFacts
<1>2. Len(v) <= Len(s)
  BY <1>1 DEF Tracks
<1>3. ASSUME NEW i \in 1..Len(v) PROVE v[i] = s[Len(s) - Len(v) + i]
  <2>1. v[i] = w[n + i] /\ n + i \in 1..Len(w)
    BY <1>1
  <2>2. w[n + i] = s[Len(s) - Len(w) + (n + i)]
    BY <2>1 DEF Tracks
  <2> QED
    BY <1>1, <2>1, <2>2
<1>4. ASSUME NEW i \in 1..Len(s) - Len(v) PROVE Expired(s[i])
  <2>1. CASE i <= Len(s) - Len(w)
    BY <2>1 DEF Tracks
  <2>2. CASE i > Len(s) - Len(w)
    <3> DEFINE k == i - (Len(s) - Len(w))
    <3>1. k \in 1..n /\ k \in 1..Len(w) /\ i = Len(s) - Len(w) + k
      BY <1>1, <2>2 DEF Tracks
    <3>2. Expired(w[k])
      BY <3>1 DEF Pops
    <3>3. w[k] = s[i]
      BY <3>1 DEF Tracks
    <3> QED
      BY <3>2, <3>3
  <2> QED
    BY <2>1, <2>2
<1> HIDE DEF v
<1>5. Tracks(v, s)
  BY <1>2, <1>3, <1>4 DEF Tracks
<1> QED
  BY <1>5 DEF v

\* A request served is the latest of both.
LEMMA AppendTracks ==
  ASSUME NEW w \in Seq(Nat), NEW s \in Seq(Nat), Tracks(w, s), NEW t \in Nat
  PROVE  Tracks(Append(w, t), Append(s, t))
<1> DEFINE v == Append(w, t)
           r == Append(s, t)
<1>1. /\ Len(w) \in Nat /\ Len(s) \in Nat /\ Len(w) <= Len(s)
      /\ Len(v) = Len(w) + 1 /\ Len(r) = Len(s) + 1
  BY DEF Tracks
<1>2. /\ v[Len(w) + 1] = t /\ \A i \in 1..Len(w) : v[i] = w[i]
      /\ r[Len(s) + 1] = t /\ \A i \in 1..Len(s) : r[i] = s[i]
  OBVIOUS
<1> HIDE DEF v, r
<1>3. ASSUME NEW i \in 1..Len(w) PROVE v[i] = r[Len(r) - Len(v) + i]
  <2>1. Len(s) - Len(w) + i \in 1..Len(s) /\ Len(r) - Len(v) + i = Len(s) - Len(w) + i
    BY <1>1
  <2> QED
    BY <1>2, <2>1 DEF Tracks
<1>4. ASSUME NEW i \in 1..Len(v) PROVE v[i] = r[Len(r) - Len(v) + i]
  <2>1. CASE i \in 1..Len(w)
    BY <1>3, <2>1
  <2>2. CASE i = Len(w) + 1
    <3>1. Len(r) - Len(v) + i = Len(s) + 1
      BY <1>1, <2>2
    <3> QED
      BY <1>2, <2>2, <3>1
  <2> QED
    BY <1>1, <2>1, <2>2
<1>5. ASSUME NEW i \in 1..Len(r) - Len(v) PROVE Expired(r[i])
  <2>1. i \in 1..Len(s) - Len(w) /\ i \in 1..Len(s)
    BY <1>1
  <2> QED
    BY <1>2, <2>1 DEF Tracks
<1>6. Tracks(v, r)
  BY <1>1, <1>4, <1>5 DEF Tracks
<1> QED
  BY <1>6 DEF v, r

\* The invariant holds at the start.
LEMMA InitInv == Init => IInv
  BY LimitAssumption DEF Init, IInv, TypeOK, LimitKept, Tracks, InOrder

\* Serving a request keeps the invariant: it is where the limit could be broken.
LEMMA ServeInv ==
  ASSUME IInv, NEW c \in Clients, Serve(c)
  PROVE  IInv'
<1> DEFINE w == requests[c]
           s == served[c]
<1>1. PICK n \in 0..Len(w) :
        /\ Pops(w, n)
        /\ Len(w) - n < Limit
        /\ requests' = [requests EXCEPT ![c] = Append(After(w, n), now)]
        /\ served' = [served EXCEPT ![c] = Append(s, now)]
        /\ now' = now
  BY DEF Serve
<1>2. w \in Seq(Nat) /\ s \in Seq(Nat) /\ now \in Nat /\ Tracks(w, s) /\ InOrder(s)
  BY DEF IInv, TypeOK
<1>3. After(w, n) \in Seq(Nat) /\ Len(After(w, n)) = Len(w) - n
  BY <1>2, AfterFacts
<1>4. Tracks(After(w, n), s)
  BY <1>1, <1>2, PopsTrack
<1>5. requests'[c] = Append(After(w, n), now) /\ served'[c] = Append(s, now)
  BY <1>1 DEF IInv, TypeOK
<1>6. ASSUME NEW d \in Clients, d # c PROVE requests'[d] = requests[d] /\ served'[d] = served[d]
  BY <1>1, <1>6 DEF IInv, TypeOK
<1>7. /\ Len(served'[c]) = Len(s) + 1 /\ served'[c][Len(s) + 1] = now
      /\ \A i \in 1..Len(s) : served'[c][i] = s[i]
  BY <1>2, <1>5
<1>8. TypeOK'
  BY <1>1, <1>2, <1>3, <1>5, <1>6, LimitAssumption DEF IInv, TypeOK
<1>9. ASSUME NEW i \in 1..Len(served'[c]) - Limit
      PROVE  served'[c][i + Limit] - served'[c][i] > Window
  <2>1. Len(s) \in Nat /\ Limit \in Nat /\ i \in 1..Len(s) + 1 - Limit
    BY <1>2, <1>7, LimitAssumption
  <2>2. CASE i + Limit <= Len(s)
    <3>1. i \in 1..Len(s) - Limit /\ i \in 1..Len(s) /\ i + Limit \in 1..Len(s)
      BY <2>1, <2>2
    <3>2. s[i + Limit] - s[i] > Window
      BY <3>1 DEF IInv, LimitKept
    <3> QED
      BY <3>1, <3>2, <1>7
  <2>3. CASE i + Limit = Len(s) + 1
    <3>1. Len(After(w, n)) \in Nat /\ Len(After(w, n)) < Limit /\ Len(After(w, n)) <= Len(s)
      BY <1>1, <1>2, <1>3, <1>4 DEF Tracks
    <3>2. i \in 1..Len(s) - Len(After(w, n)) /\ i \in 1..Len(s)
      BY <2>1, <2>3, <3>1
    <3>3. now - s[i] > Window
      BY <3>2, <1>4 DEF Tracks, Expired
    <3> QED
      BY <2>3, <3>2, <3>3, <1>7
  <2> QED
    BY <2>1, <2>2, <2>3
<1>10. LimitKept'
  BY <1>6, <1>9 DEF IInv, LimitKept
<1>11. Tracks(requests'[c], served'[c])
  BY <1>2, <1>3, <1>4, <1>5, AppendTracks
<1>12. InOrder(served'[c])
  <2>1. Len(s) \in Nat /\ \A i \in 1..Len(s) : s[i] <= now /\ \A j \in i..Len(s) : s[i] <= s[j]
    BY <1>2 DEF InOrder
  <2>2. ASSUME NEW i \in 1..Len(s) + 1
        PROVE  served'[c][i] <= now /\ \A j \in i..Len(s) + 1 : served'[c][i] <= served'[c][j]
    <3>1. CASE i \in 1..Len(s)
      <4>1. \A j \in i..Len(s) : j \in 1..Len(s)
        BY <2>1, <3>1
      <4> QED
        BY <2>1, <3>1, <4>1, <1>7
    <3>2. CASE i = Len(s) + 1
      BY <2>1, <3>2, <1>2, <1>7
    <3> QED
      BY <2>1, <3>1, <3>2
  <2> QED
    BY <2>2, <1>7 DEF InOrder
<1>13. ASSUME NEW d \in Clients PROVE Tracks(requests[d], served[d])' /\ InOrder(served[d])'
  <2>1. Tracks(requests'[d], served'[d]) /\ InOrder(served'[d])
    BY <1>6, <1>11, <1>12 DEF IInv
  <2> QED
    BY <2>1, <1>1 DEF Tracks, InOrder, Expired
<1> QED
  BY <1>8, <1>10, <1>13 DEF IInv

\* Rejecting one keeps it too.
LEMMA RejectInv ==
  ASSUME IInv, NEW c \in Clients, Reject(c)
  PROVE  IInv'
<1> DEFINE w == requests[c]
<1>1. PICK n \in 0..Len(w) :
        /\ Pops(w, n)
        /\ requests' = [requests EXCEPT ![c] = After(w, n)]
        /\ UNCHANGED <<now, served>>
  BY DEF Reject
<1>2. w \in Seq(Nat) /\ served[c] \in Seq(Nat) /\ Tracks(w, served[c]) /\ Len(w) <= Limit
  BY DEF IInv, TypeOK
<1>3. After(w, n) \in Seq(Nat) /\ Len(After(w, n)) <= Limit
  BY <1>2, AfterFacts, LimitAssumption
<1>4. Tracks(After(w, n), served[c])
  BY <1>1, <1>2, PopsTrack
<1>5. TypeOK' /\ LimitKept'
  BY <1>1, <1>3 DEF IInv, TypeOK, LimitKept
<1>6. ASSUME NEW d \in Clients PROVE Tracks(requests[d], served[d])' /\ InOrder(served[d])'
  BY <1>1, <1>4 DEF IInv, TypeOK, Tracks, InOrder, Expired
<1> QED
  BY <1>5, <1>6 DEF IInv

\* What has expired stays so while time passes.
LEMMA TickInv == IInv /\ Tick => IInv'
<1> SUFFICES ASSUME IInv, Tick PROVE IInv'
  OBVIOUS
<1>1. TypeOK' /\ LimitKept'
  BY DEF Tick, IInv, TypeOK, LimitKept
<1>2. ASSUME NEW c \in Clients PROVE Tracks(requests[c], served[c])' /\ InOrder(served[c])'
  <2> DEFINE w == requests[c]
             s == served[c]
  <2>1. /\ w \in Seq(Nat) /\ s \in Seq(Nat) /\ now \in Nat /\ Tracks(w, s) /\ InOrder(s)
        /\ w' = w /\ s' = s /\ now' = now + 1
    BY DEF IInv, TypeOK, Tick
  <2>2. ASSUME NEW i \in 1..Len(s) PROVE s[i] \in Nat /\ s[i] <= now' /\ (Expired(s[i]) => now' - s[i] > Window)
    BY <2>1, WindowAssumption DEF InOrder, Expired
  <2>3. \A i \in 1..Len(s) - Len(w) : i \in 1..Len(s)
    BY <2>1
  <2> HIDE DEF w, s
  <2>4. Tracks(w, s)' /\ InOrder(s)'
    BY <2>1, <2>2, <2>3 DEF Tracks, InOrder, Expired
  <2> QED
    BY <2>4 DEF w, s
<1> QED
  BY <1>1, <1>2 DEF IInv

\* The invariant holds throughout.
THEOREM Invariance == Spec => []IInv
<1>1. IInv /\ UNCHANGED vars => IInv'
  BY DEF IInv, vars, TypeOK, LimitKept, Tracks, InOrder, Expired
<1>2. IInv /\ [Next]_vars => IInv'
  BY <1>1, ServeInv, RejectInv, TickInv DEF Next
<1> QED
  BY InitInv, <1>2, PTL DEF Spec

\* Type correctness, with the deque of every client within the limit.
THEOREM TypeCorrect == Spec => []TypeOK
<1>1. IInv => TypeOK
  BY DEF IInv
<1> QED
  BY Invariance, <1>1, PTL

\* No window of any client, wherever it is laid, holds more requests than the limit
\* (RateLimitMiddleware.dispatch).
THEOREM WithinLimit == Spec => []LimitKept
<1>1. IInv => LimitKept
  BY DEF IInv
<1> QED
  BY Invariance, <1>1, PTL

\* A client is turned away only for what it was itself served within the window.
THEOREM Justified == Spec => []RejectedForCause
<1>1. ASSUME IInv PROVE RejectedForCause
  <2> SUFFICES ASSUME NEW c \in Clients, NEW n \in 0..Limit,
                      Pops(requests[c], n), Len(requests[c]) - n >= Limit
               PROVE  /\ Len(served[c]) >= Limit
                      /\ \A i \in Len(served[c]) - Limit + 1..Len(served[c]) :
                           now - served[c][i] <= Window
    BY DEF RejectedForCause
  <2> DEFINE w == requests[c]
             s == served[c]
  <2>1. /\ w \in Seq(Nat) /\ s \in Seq(Nat) /\ now \in Nat /\ Len(w) <= Limit
        /\ Tracks(w, s) /\ InOrder(s)
    BY <1>1 DEF IInv, TypeOK
  <2>2. n = 0 /\ Len(w) = Limit /\ Len(s) >= Limit
    BY <2>1, LimitAssumption DEF Tracks
  <2>3. ASSUME NEW i \in Len(s) - Limit + 1..Len(s) PROVE now - s[i] <= Window
    <3>1. Limit > 0 /\ Len(s) - Limit + 1 \in 1..Len(s) /\ i \in (Len(s) - Limit + 1)..Len(s)
      BY <2>1, <2>2, LimitAssumption
    <3>2. w[1] = s[Len(s) - Limit + 1]
      BY <2>1, <2>2, <3>1 DEF Tracks
    <3>3. ~ Expired(w[1])
      BY <2>2, <3>1 DEF Pops
    <3>4. s[Len(s) - Limit + 1] <= s[i]
      BY <2>1, <3>1 DEF InOrder
    <3>5. i \in 1..Len(s) /\ 1 \in 1..Len(w)
      BY <2>1, <2>2, <3>1, LimitAssumption
    <3>6. ASSUME NEW u \in Seq(Nat), NEW k \in 1..Len(u) PROVE u[k] \in Nat
      OBVIOUS
    <3>7. s[i] \in Nat /\ w[1] \in Nat
      BY <2>1, <3>5, <3>6
    <3> QED
      BY <2>1, <3>2, <3>3, <3>4, <3>7, WindowAssumption DEF Expired
  <2> QED
    BY <2>2, <2>3
<1> QED
  BY Invariance, <1>1, PTL
=============================================================================
