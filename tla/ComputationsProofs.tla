-------------------------- MODULE ComputationsProofs --------------------------
(***************************************************************************)
(* Theorems about the computations: the factors a recording is resampled   *)
(* with, for every sample rate and every target rate; the confidence of a  *)
(* transcript with any segments; the probe's address, for every path.      *)
(*                                                                         *)
(* The provers know little of \div and %: the lemmas turn both into        *)
(* products, and the invariant of the loop of _gcd() speaks of multiples.  *)
(* The sum over the segments goes by induction on their number.            *)
(***************************************************************************)
EXTENDS Computations, NatLemmas, TLAPS

Multiple(n, d) == \E k \in Nat : n = d * k

\* Division with remainder.
LEMMA Division ==
  ASSUME NEW n \in Nat, NEW d \in Nat \ {0}
  PROVE  \E q \in Nat, r \in 0..d-1 : q = n \div d /\ r = n % d /\ n = d * q + r
<1>1. PICK q \in Nat : q = n \div d
  OBVIOUS
<1>2. PICK r \in 0..d-1 : r = n % d
  OBVIOUS
<1>3. n = d * q + r
  BY <1>1, <1>2
<1> QED
  BY <1>1, <1>2, <1>3

\* A multiple of d has no remainder, and one quotient.
LEMMA QuotientUnique ==
  ASSUME NEW d \in Nat \ {0}, NEW k \in Nat, NEW q \in Nat, NEW r \in 0..d-1, d * k = d * q + r
  PROVE  r = 0 /\ q = k
<1>1. r = d * (k - q)
  OBVIOUS
<1>2. k - q = 0
  <2>1. ASSUME k - q >= 1 PROVE FALSE
    <3>1. d * (k - q) >= d
      BY <2>1
    <3> QED
      BY <3>1, <1>1
  <2>2. ASSUME k - q <= -1 PROVE FALSE
    <3>1. d * (k - q) <= -d
      BY <2>2
    <3> QED
      BY <3>1, <1>1
  <2> QED
    BY <2>1, <2>2
<1> QED
  BY <1>1, <1>2

\* The remainder tells the multiples, and \div is exact for them.
LEMMA Remainder ==
  ASSUME NEW n \in Nat, NEW d \in Nat \ {0}
  PROVE  n % d = 0 <=> Multiple(n, d)
<1>1. PICK q \in Nat, r \in 0..d-1 : q = n \div d /\ r = n % d /\ n = d * q + r
  BY Division
<1>2. ASSUME r = 0 PROVE Multiple(n, d)
  <2>1. n = d * q
    BY <1>1, <1>2
  <2> QED
    BY <1>1, <2>1 DEF Multiple
<1>3. ASSUME Multiple(n, d) PROVE r = 0
  <2>1. PICK k \in Nat : n = d * k
    BY <1>3 DEF Multiple
  <2> QED
    BY <1>1, <2>1, QuotientUnique
<1> QED
  BY <1>1, <1>2, <1>3

LEMMA ExactQuotient ==
  ASSUME NEW d \in Nat \ {0}, NEW k \in Nat
  PROVE  (d * k) \div d = k
<1>1. d * k \in Nat
  OBVIOUS
<1>2. PICK q \in Nat, r \in 0..d-1 : q = (d * k) \div d /\ r = (d * k) % d /\ d * k = d * q + r
  BY <1>1, Division
<1> QED
  BY <1>2, QuotientUnique

LEMMA Distribute ==
  ASSUME NEW d \in Int, NEW k \in Int, NEW q \in Int, NEW m \in Int
  PROVE  /\ (d * k) * q + d * m = d * (k * q + m)
         /\ d * m = (d * k) * q + d * (m - k * q)
  OBVIOUS

\* One turn of the loop keeps the common divisors.
LEMMA CommonDivisors ==
  ASSUME NEW x \in Nat, NEW y \in Nat \ {0}, NEW d \in Nat \ {0}
  PROVE  (Multiple(x, d) /\ Multiple(y, d)) <=> (Multiple(y, d) /\ Multiple(x % y, d))
<1>1. PICK q \in Nat, r \in 0..y-1 : q = x \div y /\ r = x % y /\ x = y * q + r
  BY Division
<1>2. ASSUME NEW k \in Nat, y = d * k, NEW m \in Nat, r = d * m
      PROVE  Multiple(x, d)
  <2>1. x = (d * k) * q + d * m
    BY <1>1, <1>2
  <2>2. x = d * (k * q + m)
    BY <2>1, Distribute
  <2>3. k * q + m \in Nat
    BY <1>1
  <2> QED
    BY <2>2, <2>3 DEF Multiple
<1>3. ASSUME NEW k \in Nat, y = d * k, NEW m \in Nat, x = d * m
      PROVE  Multiple(r, d)
  <2>1. d * m = (d * k) * q + r
    BY <1>1, <1>3
  <2>2. d * m = (d * k) * q + d * (m - k * q)
    <3>1. d \in Int /\ k \in Int /\ q \in Int /\ m \in Int
      BY <1>1
    <3> QED
      BY <3>1, Distribute
  <2>3. r = d * (m - k * q)
    BY <1>1, <2>1, <2>2
  <2>4. ASSUME m - k * q <= -1 PROVE FALSE
    <3>1. d * (m - k * q) <= -d
      BY <2>4
    <3> QED
      BY <3>1, <2>3
  <2>5. m - k * q \in Nat
    BY <2>4
  <2> QED
    BY <2>3, <2>5 DEF Multiple
<1>4. Multiple(y, d) /\ Multiple(r, d) => Multiple(x, d)
  BY <1>2 DEF Multiple
<1>5. Multiple(y, d) /\ Multiple(x, d) => Multiple(r, d)
  BY <1>3 DEF Multiple
<1> QED
  BY <1>1, <1>4, <1>5
------------------------------------------------------------------------------

\* The invariant of the loop: a and b have the common divisors of the two rates.
LoopInv ==
  /\ rate \in Nat \ {0}
  /\ a \in Nat \ {0}
  /\ b \in Nat
  /\ \A d \in Nat \ {0} :
       (Multiple(a, d) /\ Multiple(b, d)) <=> (Multiple(rate, d) /\ Multiple(TargetRate, d))

LEMMA InitLoop == Init => LoopInv
  BY RatesAssumption DEF Init, LoopInv

LEMMA NextLoop == LoopInv /\ [Next]_vars => LoopInv'
<1> SUFFICES ASSUME LoopInv, [Next]_vars PROVE LoopInv'
  OBVIOUS
<1>1. ASSUME Divide PROVE LoopInv'
  <2>1. b \in Nat \ {0} /\ a' = b /\ b' = a % b /\ rate' = rate
    BY <1>1 DEF Divide, LoopInv
  <2>2. b' \in Nat
    BY <2>1 DEF LoopInv
  <2>3. ASSUME NEW d \in Nat \ {0}
        PROVE  (Multiple(a', d) /\ Multiple(b', d)) <=> (Multiple(rate, d) /\ Multiple(TargetRate, d))
    <3>1. (Multiple(a, d) /\ Multiple(b, d)) <=> (Multiple(b, d) /\ Multiple(a % b, d))
      BY <2>1, CommonDivisors DEF LoopInv
    <3> QED
      BY <2>1, <3>1 DEF LoopInv
  <2> QED
    BY <2>1, <2>2, <2>3 DEF LoopInv
<1>2. ASSUME AddSegment \/ AddPart \/ UNCHANGED vars PROVE LoopInv'
  BY <1>2 DEF AddSegment, AddPart, vars, LoopInv
<1> QED
  BY <1>1, <1>2 DEF Next

\* When the loop has ended, a is the greatest common divisor, and what is left of the
\* rates is what resample_poly is called with.
LEMMA LoopEnds ==
  ASSUME LoopInv, b = 0
  PROVE  ResampleExact
<1> a \in Nat \ {0} /\ TargetRate \in Nat \ {0} /\ rate \in Nat \ {0}
  BY RatesAssumption DEF LoopInv
<1>1. Multiple(a, a) /\ Multiple(0, a)
  <2>1. a = a * 1 /\ 0 = a * 0
    OBVIOUS
  <2> QED
    BY <2>1 DEF Multiple
<1>2. Multiple(rate, a) /\ Multiple(TargetRate, a)
  BY <1>1 DEF LoopInv
<1>3. PICK p \in Nat : rate = a * p
  BY <1>2 DEF Multiple
<1>4. PICK t \in Nat : TargetRate = a * t
  BY <1>2 DEF Multiple
<1>5. down = p /\ up = t
  BY <1>3, <1>4, ExactQuotient DEF down, up
<1>6. rate * up = TargetRate * down
  <2>1. (a * p) * t = (a * t) * p
    OBVIOUS
  <2> QED
    BY <2>1, <1>3, <1>4, <1>5
<1>7. ASSUME NEW d \in 2..up, Divides(d, up), Divides(d, down) PROVE FALSE
  <2>1. d \in Nat \ {0} /\ d >= 2
    BY <1>5
  <2>2. Multiple(t, d) /\ Multiple(p, d)
    BY <1>5, <1>7, <2>1, Remainder DEF Divides
  <2>3. PICK i \in Nat : t = d * i
    BY <2>2 DEF Multiple
  <2>4. PICK j \in Nat : p = d * j
    BY <2>2 DEF Multiple
  <2>5. Multiple(rate, a * d) /\ Multiple(TargetRate, a * d)
    <3>1. a * (d * i) = (a * d) * i /\ a * (d * j) = (a * d) * j
      BY <2>1
    <3> QED
      BY <3>1, <2>3, <2>4, <1>3, <1>4 DEF Multiple
  <2>6. a * d \in Nat /\ a * d >= 2 * a
    BY <2>1
  <2>7. Multiple(a, a * d)
    BY <2>5, <2>6 DEF LoopInv
  <2>8. PICK m \in Nat : a = (a * d) * m
    BY <2>7 DEF Multiple
  <2>9. m >= 1
    BY <2>8, <2>6
  <2>10. (a * d) * m >= a * d
    BY <2>6, <2>9
  <2> QED
    BY <2>6, <2>8, <2>10
<1> QED
  BY <1>6, <1>7 DEF ResampleExact

\* Whatever rate a recording has, it is resampled to the target rate exactly, by the
\* smallest factors (normalize, _gcd).
THEOREM AlwaysExact == Spec => []ResampleExact
<1>1. LoopInv => ResampleExact
  BY LoopEnds DEF ResampleExact, Resampled
<1> QED
  BY InitLoop, NextLoop, <1>1, PTL DEF Spec
------------------------------------------------------------------------------
(* The confidence of a transcript                                           *)

\* Each segment has a log probability, or none.
SegmentsOK == segments \in Seq(Logprobs \cup {NoLogprob})

LEMMA CountedIsInt ==
  ASSUME NEW l \in Logprobs \cup {NoLogprob}
  PROVE  Counted(l) \in Int
  BY LogprobsAssumption DEF Counted

\* Sum adds up the segments one by one.
LEMMA SumStep ==
  ASSUME SegmentsOK
  PROVE  /\ Sum[0] = 0
         /\ \A n \in 1..Len(segments) : Sum[n] = Sum[n - 1] + Counted(segments[n])
         /\ \A n \in 0..Len(segments) : Sum[n] \in Int
<1> DEFINE N == Len(segments)
           c(n) == IF n \in 1..N THEN Counted(segments[n]) ELSE 0
           zero == 0
           step == [n \in Nat |-> [v \in Int |-> v + c(n + 1)]]
<1>1. N \in Nat
  BY DEF SegmentsOK
<1>2. \A n \in Nat : c(n) \in Int
  BY <1>1, CountedIsInt DEF SegmentsOK
<1> HIDE DEF N
<1>3. \A n \in 1..N : c(n) = Counted(segments[n])
  OBVIOUS
<1> HIDE DEF c
<1>4. zero \in Int /\ step \in [Nat -> [Int -> Int]]
  BY <1>2
<1>5. \A n \in Nat, v \in Int : step[n][v] = v + c(n + 1)
  OBVIOUS
<1> HIDE DEF step
<1>6. \E f \in [Nat -> Int] : Iterates(f, zero, step)
  <2> HIDE DEF zero
  <2> QED
    BY <1>4, RecursionExists
<1>7. PICK f \in [Nat -> Int] : f[0] = 0 /\ \A n \in Nat : f[n + 1] = step[n][f[n]]
  BY <1>6 DEF Iterates
<1> DEFINE g == [n \in 0..N |-> f[n]]
<1>8. ASSUME NEW n \in 1..N PROVE g[n] = g[n - 1] + c(n)
  <2>1. n - 1 \in Nat /\ (n - 1) + 1 = n /\ f[n - 1] \in Int /\ n - 1 \in 0..N /\ n \in 0..N
    BY <1>1, <1>7
  <2>2. f[(n - 1) + 1] = step[n - 1][f[n - 1]]
    BY <1>7, <2>1
  <2>3. f[n] = f[n - 1] + c(n)
    BY <1>5, <2>1, <2>2
  <2> QED
    BY <2>1, <2>3
<1>9. g[0] = 0
  BY <1>1, <1>7
<1>10. ASSUME NEW n \in 0..N PROVE g[n] = IF n = 0 THEN 0 ELSE g[n - 1] + Counted(segments[n])
  <2> HIDE DEF g
  <2>1. CASE n = 0
    BY <1>9, <2>1
  <2>2. CASE n # 0
    <3>1. n \in 1..N
      BY <1>1, <2>2
    <3> QED
      BY <1>3, <1>8, <2>2, <3>1
  <2> QED
    BY <2>1, <2>2
<1>11. g = [n \in 0..N |-> IF n = 0 THEN 0 ELSE g[n - 1] + Counted(segments[n])]
  <2>1. g = [n \in 0..N |-> g[n]]
    OBVIOUS
  <2> HIDE DEF g
  <2> QED
    BY <1>10, <2>1
<1>12. Sum = [n \in 0..N |-> IF n = 0 THEN 0 ELSE Sum[n - 1] + Counted(segments[n])]
  <2> HIDE DEF g
  <2> QED
    BY <1>11 DEF Sum, N
<1>13. Sum[0] = 0 /\ \A n \in 1..N : Sum[n] = Sum[n - 1] + Counted(segments[n])
  BY <1>1, <1>12
<1> DEFINE T == {n \in Nat : n <= N => Sum[n] \in Int}
<1>14. 0 \in T
  BY <1>13
<1>15. ASSUME NEW n \in Nat, n \in T PROVE n + 1 \in T
  <2> SUFFICES ASSUME n + 1 <= N PROVE Sum[n + 1] \in Int
    OBVIOUS
  <2>1. n + 1 \in 1..N /\ (n + 1) - 1 = n
    BY <1>1
  <2>2. Sum[n + 1] = Sum[n] + c(n + 1)
    BY <1>3, <1>13, <2>1
  <2>3. Sum[n] \in Int
    BY <1>1, <1>15
  <2> QED
    BY <1>2, <2>2, <2>3
<1>16. Nat \subseteq T
  <2> HIDE DEF T
  <2> QED
    BY <1>14, <1>15, Induction
<1> QED
  BY <1>1, <1>13, <1>16 DEF N

\* With every segment at the threshold at least, the mean is; with every segment below
\* it, so is the mean.
LEMMA MeanBounds ==
  ASSUME SegmentsOK
  PROVE  /\ (\A i \in DOMAIN segments : Counted(segments[i]) >= -10) => Total >= -10 * Len(segments)
         /\ (\A i \in DOMAIN segments : Counted(segments[i]) < -10) /\ segments # <<>>
              => Total < -10 * Len(segments)
<1> DEFINE N == Len(segments)
           Above == {n \in Nat : n <= N => Sum[n] >= -10 * n}
           Below == {n \in Nat : n <= N => Sum[n] <= -11 * n}
<1>1. N \in Nat /\ DOMAIN segments = 1..N
  BY DEF SegmentsOK
<1>2. Sum[0] = 0 /\ 0 \in Above /\ 0 \in Below
  BY SumStep
<1>3. ASSUME NEW n \in Nat, n + 1 <= N
      PROVE  /\ Sum[n] \in Int /\ Counted(segments[n + 1]) \in Int
             /\ Sum[n + 1] = Sum[n] + Counted(segments[n + 1])
  <2>1. n + 1 \in 1..N /\ (n + 1) - 1 = n /\ n \in 0..N
    BY <1>1, <1>3
  <2> QED
    BY <1>1, <2>1, SumStep, CountedIsInt DEF SegmentsOK
<1>4. ASSUME \A i \in DOMAIN segments : Counted(segments[i]) >= -10 PROVE Total >= -10 * N
  <2>1. ASSUME NEW n \in Nat, n \in Above PROVE n + 1 \in Above
    <3> SUFFICES ASSUME n + 1 <= N PROVE Sum[n + 1] >= -10 * (n + 1)
      OBVIOUS
    <3>1. Sum[n] >= -10 * n /\ n + 1 \in DOMAIN segments
      BY <1>1, <2>1
    <3> QED
      BY <1>3, <1>4, <3>1
  <2>2. Nat \subseteq Above
    <3> HIDE DEF Above
    <3> QED
      BY <1>2, <2>1, Induction
  <2> QED
    BY <1>1, <2>2 DEF Total
<1>5. ASSUME \A i \in DOMAIN segments : Counted(segments[i]) < -10, segments # <<>>
      PROVE  Total < -10 * N
  <2>1. ASSUME NEW n \in Nat, n \in Below PROVE n + 1 \in Below
    <3> SUFFICES ASSUME n + 1 <= N PROVE Sum[n + 1] <= -11 * (n + 1)
      OBVIOUS
    <3>1. Sum[n] <= -11 * n /\ n + 1 \in DOMAIN segments
      BY <1>1, <2>1
    <3>2. Counted(segments[n + 1]) < -10
      BY <1>5, <3>1
    <3> QED
      BY <1>3, <3>1, <3>2
  <2>2. Nat \subseteq Below
    <3> HIDE DEF Below
    <3> QED
      BY <1>2, <2>1, Induction
  <2>3. N >= 1
    BY <1>1, <1>5 DEF SegmentsOK
  <2>4. Sum[N] <= -11 * N /\ Sum[N] \in Int
    BY <1>1, <2>2, SumStep
  <2> QED
    BY <1>1, <2>3, <2>4 DEF Total
<1> QED
  BY <1>4, <1>5

\* transcribe() keeps the type of the segments.
LEMMA SegmentsInvariance == Spec => []SegmentsOK
<1>1. Init => SegmentsOK
  <2>1. Init => segments = <<>>
    BY DEF Init
  <2> QED
    BY <2>1 DEF SegmentsOK
<1>2. SegmentsOK /\ [Next]_vars => SegmentsOK'
  BY DEF Next, Divide, AddSegment, AddPart, vars, SegmentsOK
<1> QED
  BY <1>1, <1>2, PTL DEF Spec

\* A transcript is flagged for its language or a segment that would be flagged itself, and
\* is when every segment would be, for any number of segments (Transcript.low_confidence,
\* is_segment_low_confidence).
THEOREM FlaggedForCause == Spec => []ReviewHasCause
<1>1. ASSUME SegmentsOK, LowConfidence, sure
      PROVE  \E i \in DOMAIN segments : LowSegment(segments[i])
  <2> SUFFICES ASSUME \A i \in DOMAIN segments : ~LowSegment(segments[i]) PROVE FALSE
    OBVIOUS
  <2>1. ASSUME NEW i \in DOMAIN segments PROVE Counted(segments[i]) >= -10
    <3>1. CASE segments[i] = NoLogprob
      BY <3>1 DEF Counted
    <3>2. CASE segments[i] # NoLogprob
      <4>1. segments[i] \in Int
        <5>1. segments[i] \in Logprobs \cup {NoLogprob}
          BY <1>1, <2>1 DEF SegmentsOK
        <5> QED
          BY <3>2, <5>1, LogprobsAssumption
      <4>2. ~(segments[i] < -10)
        BY <1>1, <3>2 DEF LowSegment
      <4> QED
        BY <3>2, <4>1, <4>2 DEF Counted
    <3> QED
      BY <3>1, <3>2
  <2>2. Total >= -10 * Len(segments)
    BY <1>1, <2>1, MeanBounds
  <2>3. Total < -10 * Len(segments)
    BY <1>1 DEF LowConfidence
  <2>4. Total \in Int /\ Len(segments) \in Nat
    BY <1>1, SumStep DEF Total, SegmentsOK
  <2> QED
    BY <2>2, <2>3, <2>4
<1>2. ASSUME SegmentsOK, segments # <<>>, \A i \in DOMAIN segments : LowSegment(segments[i])
      PROVE  LowConfidence
  <2>1. CASE sure
    <3>1. \A i \in DOMAIN segments : Counted(segments[i]) < -10
      BY <1>2, <2>1, LogprobsAssumption DEF Counted, LowSegment
    <3> QED
      BY <1>2, <3>1, MeanBounds DEF LowConfidence
  <2> QED
    BY <2>1 DEF LowConfidence
<1>3. SegmentsOK => ReviewHasCause
  BY <1>1, <1>2 DEF ReviewHasCause
<1> QED
  BY SegmentsInvariance, <1>3, PTL
------------------------------------------------------------------------------
(* The address of the probe                                                 *)

Words == {"https:", Nothing, "host", "health"} \cup Parts

LEMMA Something == "host" # Nothing /\ "health" # Nothing
  BY DEF Nothing

\* The configured URL names a host.
UrlOK ==
  /\ url \in Seq(Words)
  /\ Len(url) >= 3
  /\ url[3] = "host"

\* n is where rstrip("/") ends: everything behind is empty.
EndsAt(u, n) ==
  /\ n \in 1..Len(u)
  /\ u[n] # Nothing \/ n = 1
  /\ \A k \in (n + 1)..Len(u) : u[k] = Nothing

\* There is such a place, the last that is not empty ...
LEMMA EndExists ==
  ASSUME NEW u \in Seq(Words), u # <<>>
  PROVE  \E n \in 1..Len(u) : EndsAt(u, n)
<1> DEFINE L == Len(u)
           Filled == {i \in 1..L : u[i] # Nothing \/ i = 1}
           Distance == {k \in 0..L : \E i \in Filled : k = L - i}
<1>1. L \in Nat \ {0}
  OBVIOUS
<1> HIDE DEF L
<1>2. Distance \subseteq Nat /\ L - 1 \in Distance
  BY <1>1
<1>3. PICK d \in Distance : \A k \in Distance : d <= k
  <2> HIDE DEF Distance
  <2> QED
    BY <1>2, LeastElement
<1>4. PICK n \in Filled : d = L - n
  BY <1>3
<1>5. ASSUME NEW k \in (n + 1)..L PROVE u[k] = Nothing
  <2> SUFFICES ASSUME u[k] # Nothing PROVE FALSE
    OBVIOUS
  <2>1. k \in Filled /\ L - k \in Distance
    BY <1>1, <1>4
  <2>2. d <= L - k
    BY <1>3, <2>1
  <2> QED
    BY <1>1, <1>4, <1>5, <2>2
<1> QED
  BY <1>4, <1>5 DEF EndsAt, L

\* ... and only one.
LEMMA EndUnique ==
  ASSUME NEW u \in Seq(Words), NEW n, EndsAt(u, n), NEW m, EndsAt(u, m)
  PROVE  n = m
<1>1. n \in 1..Len(u) /\ m \in 1..Len(u) /\ Len(u) \in Nat
  BY DEF EndsAt
<1>2. ASSUME n < m PROVE FALSE
  <2>1. m \in (n + 1)..Len(u)
    BY <1>1, <1>2
  <2>2. u[m] = Nothing
    BY <2>1 DEF EndsAt
  <2> QED
    BY <1>1, <1>2, <2>2 DEF EndsAt
<1>3. ASSUME m < n PROVE FALSE
  <2>1. n \in (m + 1)..Len(u)
    BY <1>1, <1>3
  <2>2. u[n] = Nothing
    BY <2>1 DEF EndsAt
  <2> QED
    BY <1>1, <1>3, <2>2 DEF EndsAt
<1> QED
  BY <1>1, <1>2, <1>3

LEMMA StrippedAt ==
  ASSUME NEW u \in Seq(Words), NEW n, EndsAt(u, n)
  PROVE  Stripped(u) = SubSeq(u, 1, n)
<1> DEFINE P(i) == /\ u[i] # Nothing \/ i = 1
                   /\ \A k \in (i + 1)..Len(u) : u[k] = Nothing
           e == CHOOSE i \in 1..Len(u) : P(i)
<1>1. n \in 1..Len(u) /\ P(n)
  BY DEF EndsAt
<1>2. e \in 1..Len(u) /\ P(e)
  <2> HIDE DEF P
  <2> QED
    BY <1>1
<1>3. EndsAt(u, e)
  BY <1>2 DEF EndsAt
<1>4. e = n
  <2> HIDE DEF e
  <2> QED
    BY <1>3, EndUnique
<1>5. Stripped(u) = SubSeq(u, 1, e)
  BY DEF Stripped
<1> QED
  BY <1>4, <1>5

\* What is left of a URL that names a host still does, and does not end with a slash.
LEMMA StrippedFacts ==
  ASSUME UrlOK
  PROVE  /\ Stripped(url) \in Seq(Words)
         /\ Len(Stripped(url)) >= 3
         /\ EndsAt(Stripped(url), Len(Stripped(url)))
<1>1. PICK n \in 1..Len(url) : EndsAt(url, n)
  BY EndExists DEF UrlOK
<1>2. n >= 3
  <2> SUFFICES ASSUME n < 3 PROVE FALSE
    OBVIOUS
  <2>1. 3 \in (n + 1)..Len(url)
    BY DEF UrlOK
  <2>2. url[3] = Nothing
    BY <1>1, <2>1 DEF EndsAt
  <2> QED
    BY <2>2, Something DEF UrlOK
<1>3. Stripped(url) = SubSeq(url, 1, n)
  BY <1>1, StrippedAt DEF UrlOK
<1> DEFINE s == SubSeq(url, 1, n)
<1>4. s \in Seq(Words) /\ Len(s) = n /\ s[n] = url[n]
  BY <1>2 DEF UrlOK
<1> HIDE DEF s
<1>5. s[n] # Nothing
  BY <1>1, <1>2, <1>4 DEF EndsAt
<1>6. EndsAt(s, n)
  BY <1>4, <1>5 DEF EndsAt
<1> QED
  BY <1>2, <1>3, <1>4, <1>6 DEF s

\* A URL that ends with health is the answer.
LEMMA HealthItself ==
  ASSUME NEW u \in Seq(Words), Len(u) >= 2, EndsAt(u, Len(u)), Last(u) = "health"
  PROVE  Stripped(u) = u /\ HealthUrl(u) = u
<1>1. Stripped(u) = SubSeq(u, 1, Len(u))
  BY StrippedAt
<1>2. SubSeq(u, 1, Len(u)) = u
  OBVIOUS
<1>3. Stripped(u) = u
  BY <1>1, <1>2
<1> QED
  BY <1>3 DEF HealthUrl

\* The sibling replaces the last part.
LEMMA SiblingFacts ==
  ASSUME NEW s \in Seq(Words), Len(s) >= 3
  PROVE  LET h == Front(s) \o <<"health">> IN
         /\ h \in Seq(Words)
         /\ Len(h) = Len(s)
         /\ Last(h) = "health"
         /\ EndsAt(h, Len(h))
<1> DEFINE f == SubSeq(s, 1, Len(s) - 1)
           h == f \o <<"health">>
<1>1. Front(s) = f
  BY DEF Front
<1>2. f \in Seq(Words) /\ Len(f) = Len(s) - 1
  OBVIOUS
<1> HIDE DEF f
<1>3. "health" \in Words
  BY DEF Words
<1>4. h \in Seq(Words) /\ Len(h) = Len(s) /\ h[Len(s)] = "health"
  BY <1>2, <1>3
<1> HIDE DEF h
<1>5. Last(h) = "health" /\ h[Len(h)] # Nothing
  BY <1>4, Something DEF Last
<1>6. EndsAt(h, Len(h))
  BY <1>4, <1>5 DEF EndsAt
<1> QED
  BY <1>1, <1>4, <1>5, <1>6 DEF h

\* The configured URL only grows.
LEMMA UrlInvariance == Spec => []UrlOK
<1>1. Init => UrlOK
  <2>1. Init => url = <<"https:", Nothing, "host">>
    BY DEF Init
  <2> QED
    BY <2>1 DEF UrlOK, Words
<1>2. UrlOK /\ [Next]_vars => UrlOK'
  <2> SUFFICES ASSUME UrlOK, [Next]_vars PROVE UrlOK'
    OBVIOUS
  <2>1. CASE AddPart
    BY <2>1 DEF AddPart, UrlOK, Words
  <2>2. CASE Divide \/ AddSegment \/ UNCHANGED vars
    BY <2>2 DEF Divide, AddSegment, vars, UrlOK
  <2> QED
    BY <2>1, <2>2 DEF Next
<1> QED
  BY <1>1, <1>2, PTL DEF Spec

\* Whatever path is configured, and with any number of slashes behind it, the probe asks
\* the sibling called health, or the URL itself if it is that (_derive_health_url).
THEOREM AsksSibling == Spec => []HealthUrlIsSibling
<1>1. ASSUME UrlOK
      PROVE  /\ HealthUrl(HealthUrl(url)) = HealthUrl(url)
             /\ Stripped(HealthUrl(url)) = Front(Stripped(url)) \o <<"health">>
  <2> DEFINE s == Stripped(url)
             h == Front(s) \o <<"health">>
  <2>0. s \in Seq(Words) /\ Len(s) >= 3 /\ EndsAt(s, Len(s))
    BY <1>1, StrippedFacts
  <2> HIDE DEF s
  <2>1. CASE Last(s) = "health"
    <3>1. HealthUrl(url) = url
      BY <2>0, <2>1 DEF HealthUrl, s
    <3>2. s = h
      <4>1. s[Len(s)] = "health"
        BY <2>1 DEF Last
      <4> QED
        BY <2>0, <4>1 DEF Front
    <3> QED
      BY <3>1, <3>2 DEF s
  <2>2. CASE Last(s) # "health"
    <3>1. HealthUrl(url) = h
      BY <2>0, <2>2 DEF HealthUrl, Sibling, s
    <3>2. h \in Seq(Words) /\ Len(h) >= 2 /\ Last(h) = "health" /\ EndsAt(h, Len(h))
      BY <2>0, SiblingFacts
    <3> HIDE DEF h
    <3>3. Stripped(h) = h /\ HealthUrl(h) = h
      BY <3>2, HealthItself
    <3> QED
      BY <3>1, <3>3 DEF h, s
  <2> QED
    BY <2>1, <2>2
<1>2. UrlOK => HealthUrlIsSibling
  BY <1>1 DEF HealthUrlIsSibling
<1> QED
  BY UrlInvariance, <1>2, PTL
=============================================================================
