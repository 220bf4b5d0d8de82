------------------------------ MODULE NatLemmas ------------------------------
(***************************************************************************)
(* Induction and recursion over the natural numbers, from the fact that    *)
(* they are well ordered.  What is proved by induction is stated as a set  *)
(* that contains every number, and a step of a recursion as a function, so *)
(* that each lemma can be cited for any set, or any function, at hand.     *)
(***************************************************************************)
EXTENDS Integers, WellFoundedInduction, TLAPS

\* A set of naturals has a least element.
LEMMA LeastElement ==
  ASSUME NEW S, S \subseteq Nat, S # {}
  PROVE  \E m \in S : \A k \in S : m <= k
<1> DEFINE R == OpToRel(<, Nat)
<1>1. IsWellFoundedOn(R, Nat)
  BY NatLessThanWellFounded
<1>2. \A x, y \in Nat : x < y => <<x, y>> \in R
  BY DEF OpToRel
<1> HIDE DEF R
<1>3. PICK m \in S : \A k \in S : <<k, m>> \notin R
  BY <1>1, WFMin
<1>4. ASSUME NEW k \in S PROVE m <= k
  <2>1. m \in Nat /\ k \in Nat /\ ~(k < m)
    BY <1>2, <1>3
  <2> QED
    BY <2>1
<1> QED
  BY <1>4

\* A set that contains 0, and with every number the next, contains them all.
LEMMA Induction ==
  ASSUME NEW S, 0 \in S, \A n \in Nat : n \in S => n + 1 \in S
  PROVE  Nat \subseteq S
<1> SUFFICES ASSUME ~(Nat \subseteq S) PROVE FALSE
  OBVIOUS
<1> DEFINE T == {n \in Nat : n \notin S}
<1>1. PICK m \in T : \A k \in T : m <= k
  <2>1. T \subseteq Nat /\ T # {}
    OBVIOUS
  <2> HIDE DEF T
  <2> QED
    BY <2>1, LeastElement
<1>2. m \in Nat \ {0} /\ m - 1 \in Nat
  BY <1>1
<1>3. m - 1 \in S
  BY <1>1, <1>2
<1> QED
  BY <1>1, <1>2, <1>3


\* The first values, up to n, of the function that starts with base and goes on by step.
Begins(n, g, base, step) ==
  /\ g[0] = base
  /\ \A i \in 0..n - 1 : g[i + 1] = step[i][g[i]]

\* They can be computed ...
LEMMA BeginsExists ==
  ASSUME NEW V, NEW base \in V, NEW step \in [Nat -> [V -> V]], NEW n \in Nat
  PROVE  \E g \in [0..n -> V] : Begins(n, g, base, step)
<1> DEFINE S == {k \in Nat : \E g \in [0..k -> V] : Begins(k, g, base, step)}
<1>1. 0 \in S
  <2>1. [i \in 0..0 |-> base] \in [0..0 -> V] /\ Begins(0, [i \in 0..0 |-> base], base, step)
    BY DEF Begins
  <2> QED
    BY <2>1
<1>2. ASSUME NEW k \in Nat, k \in S PROVE k + 1 \in S
  <2>1. PICK g \in [0..k -> V] : Begins(k, g, base, step)
    BY <1>2
  <2> DEFINE h == [i \in 0..k + 1 |-> IF i <= k THEN g[i] ELSE step[k][g[k]]]
  <2>2. h \in [0..k + 1 -> V]
    OBVIOUS
  <2>3. \A i \in 0..k : h[i] = g[i]
    OBVIOUS
  <2>4. h[k + 1] = step[k][g[k]]
    OBVIOUS
  <2> HIDE DEF h
  <2>5. h[0] = base
    BY <2>1, <2>3 DEF Begins
  <2>6. ASSUME NEW i \in 0..k PROVE h[i + 1] = step[i][h[i]]
    <3>1. CASE i = k
      BY <2>3, <2>4, <3>1
    <3>2. CASE i # k
      <4>1. i \in 0..k - 1 /\ i + 1 \in 0..k
        BY <3>2
      <4>2. g[i + 1] = step[i][g[i]]
        BY <2>1, <4>1 DEF Begins
      <4> QED
        BY <2>3, <4>1, <4>2
    <3> QED
      BY <3>1, <3>2
  <2>7. Begins(k + 1, h, base, step)
    BY <2>5, <2>6 DEF Begins
  <2> QED
    BY <2>2, <2>7
<1> HIDE DEF S
<1>3. n \in S
  BY <1>1, <1>2, Induction
<1> QED
  BY <1>3 DEF S

\* ... and in one way only.
LEMMA BeginsUnique ==
  ASSUME NEW base, NEW step, NEW n \in Nat, NEW g, Begins(n, g, base, step),
         NEW m \in Nat, NEW h, Begins(m, h, base, step), n <= m
  PROVE  \A i \in 0..n : g[i] = h[i]
<1> DEFINE S == {i \in Nat : i <= n => g[i] = h[i]}
<1>1. 0 \in S
  BY DEF Begins
<1>2. ASSUME NEW i \in Nat, i \in S PROVE i + 1 \in S
  <2> SUFFICES ASSUME i + 1 <= n PROVE g[i + 1] = h[i + 1]
    OBVIOUS
  <2>1. i \in 0..n - 1 /\ i \in 0..m - 1
    OBVIOUS
  <2>2. g[i + 1] = step[i][g[i]] /\ h[i + 1] = step[i][h[i]]
    BY <2>1 DEF Begins
  <2>3. g[i] = h[i]
    BY <1>2
  <2> QED
    BY <2>2, <2>3
<1> HIDE DEF S
<1>3. Nat \subseteq S
  BY <1>1, <1>2, Induction
<1> QED
  BY <1>3 DEF S

\* The function that starts with base and goes on by step.
Iterates(f, base, step) ==
  /\ f[0] = base
  /\ \A n \in Nat : f[n + 1] = step[n][f[n]]

\* A function on the naturals may be defined by its value at 0 and the step from one
\* value to the next.
LEMMA RecursionExists ==
  ASSUME NEW V, NEW base \in V, NEW step \in [Nat -> [V -> V]]
  PROVE  \E f \in [Nat -> V] : Iterates(f, base, step)
<1> DEFINE Pre(n) == CHOOSE g \in [0..n -> V] : Begins(n, g, base, step)
           f == [n \in Nat |-> Pre(n)[n]]
<1>1. ASSUME NEW n \in Nat PROVE Pre(n) \in [0..n -> V] /\ Begins(n, Pre(n), base, step)
  BY BeginsExists
<1> HIDE DEF Pre
<1>2. ASSUME NEW n \in Nat PROVE f[n] \in V
  BY <1>1
<1>3. f[0] = base
  BY <1>1 DEF Begins
<1>4. ASSUME NEW n \in Nat PROVE f[n + 1] = step[n][f[n]]
  <2>1. n + 1 \in Nat /\ n <= n + 1 /\ n \in 0..(n + 1) - 1 /\ n \in 0..n
    OBVIOUS
  <2>2. Begins(n, Pre(n), base, step) /\ Begins(n + 1, Pre(n + 1), base, step)
    BY <1>1, <2>1
  <2>3. Pre(n)[n] = Pre(n + 1)[n]
    BY <2>1, <2>2, BeginsUnique
  <2>4. Pre(n + 1)[n + 1] = step[n][Pre(n + 1)[n]]
    BY <2>1, <2>2 DEF Begins
  <2> QED
    BY <2>1, <2>3, <2>4
<1>5. f \in [Nat -> V]
  BY <1>2
<1> HIDE DEF f
<1> QED
  BY <1>3, <1>4, <1>5 DEF Iterates
=============================================================================
