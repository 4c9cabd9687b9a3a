----------------------------- MODULE DataProofs -----------------------------
(***************************************************************************)
(* What the proofs about the parts of the manager share: what removing     *)
(* elements from a list leaves of it (the workers that fit a task, the     *)
(* events that are not of a task being deleted), induction over the        *)
(* naturals, and what recursive functions compute.                         *)
(***************************************************************************)
EXTENDS Data, Integers, FiniteSetTheorems, WellFoundedInduction, TLAPS

\* Kept leaves every element at the positions given, once.
LEMMA KeptIs ==
    ASSUME NEW q, NEW S \in SUBSET Int, IsFiniteSet(S), NEW r \in Kept(q, S)
    PROVE  /\ Cardinality(S) \in Nat /\ DOMAIN r = 1 .. Cardinality(S)
           /\ \E f \in [DOMAIN r -> S] :
                  /\ r = [k \in DOMAIN r |-> q[f[k]]]
                  /\ \A i, j \in DOMAIN r : f[i] = f[j] => i = j
                  /\ \A x \in S : \E i \in DOMAIN r : f[i] = x
<1>1. Cardinality(S) \in Nat
  BY FS_CardinalityType
<1>2. PICK f \in [1 .. Cardinality(S) -> S] :
          /\ \A i, j \in DOMAIN f : i < j => f[i] < f[j]
          /\ \A x \in S : \E i \in DOMAIN f : f[i] = x
          /\ r = [k \in DOMAIN f |-> q[f[k]]]
  BY DEF Kept
<1>3. DOMAIN r = 1 .. Cardinality(S) /\ DOMAIN f = DOMAIN r
  BY <1>2
<1>4. ASSUME NEW i \in DOMAIN r, NEW j \in DOMAIN r, f[i] = f[j]
      PROVE  i = j
  <2>1. i \in Int /\ j \in Int
    BY <1>1, <1>3
  <2>2. ~(i < j) /\ ~(j < i)
    <3>1. i < j => f[i] < f[j]
      BY <1>2, <1>3
    <3>2. j < i => f[j] < f[i]
      BY <1>2, <1>3
    <3>3. f[i] \in Int /\ f[j] \in Int
      BY <1>3
    <3> QED  BY <3>1, <3>2, <3>3, <1>4
  <2> QED  BY <2>1, <2>2
<1> QED  BY <1>1, <1>2, <1>3, <1>4

-----------------------------------------------------------------------------
(* Induction over the naturals, on sets of numbers, and what a recursive   *)
(* definition over them computes.                                          *)

\* A set of naturals that is not empty has a smallest element.
LEMMA Smallest ==
    ASSUME NEW S \in SUBSET Nat, S # {}
    PROVE  \E n \in S : \A m \in S : n <= m
<1> DEFINE R == OpToRel(<, Nat)
<1>1. \E x \in S : \A y \in S : ~ (<<y, x>> \in R)
  BY WFMin, NatLessThanWellFounded, Zenon
<1>2. \A x, y \in Nat : x < y => <<x, y>> \in R
  BY DEF OpToRel
<1> HIDE DEF R
<1>3. PICK x \in S : \A y \in S : ~ (<<y, x>> \in R)
  BY <1>1
<1>4. ASSUME NEW y \in S
      PROVE  x <= y
  <2>1. x \in Nat /\ y \in Nat
    OBVIOUS
  <2>2. ~(y < x)
    BY <2>1, <1>2, <1>3
  <2> QED  BY <2>1, <2>2
<1> QED  BY <1>4

\* Induction: what holds of 0 and of every successor holds of every number.
LEMMA Induction ==
    ASSUME NEW S, 0 \in S, \A n \in Nat : n \in S => n + 1 \in S
    PROVE  Nat \subseteq S
<1> SUFFICES ASSUME Nat \ S # {} PROVE FALSE
  OBVIOUS
<1>1. PICK n \in Nat \ S : \A m \in Nat \ S : n <= m
  BY Smallest
<1>2. n # 0 /\ n - 1 \in Nat /\ n - 1 \in S
  BY <1>1
<1> QED  BY <1>1, <1>2

\* A function that starts with a and continues with h.
Continues(f, a, h) == f = [n \in Nat |-> IF n = 0 THEN a ELSE h[n][f[n - 1]]]

\* There is one.
LEMMA RecursionExists ==
    ASSUME NEW V, NEW a \in V, NEW h \in [Nat -> [V -> V]]
    PROVE  \E f \in [Nat -> V] : Continues(f, a, h)
<1> DEFINE Upto(g, n) == g[0] = a /\ \A k \in 1 .. n : g[k] = h[k][g[k - 1]]
           S == {n \in Nat : \E g \in [0 .. n -> V] : Upto(g, n)}
           f == [n \in Nat |-> (CHOOSE g \in [0 .. n -> V] : Upto(g, n))[n]]
<1>1. Nat \subseteq S
  <2>1. 0 \in S
    <3>1. [k \in 0 .. 0 |-> a] \in [0 .. 0 -> V] /\ Upto([k \in 0 .. 0 |-> a], 0)
      OBVIOUS
    <3> QED  BY <3>1
  <2>2. ASSUME NEW n \in Nat, n \in S
        PROVE  n + 1 \in S
    <3>1. PICK g \in [0 .. n -> V] : Upto(g, n)
      BY <2>2
    <3> DEFINE g1 == [k \in 0 .. n + 1 |-> IF k = n + 1 THEN h[n + 1][g[n]] ELSE g[k]]
    <3>2. h[n + 1][g[n]] \in V
      OBVIOUS
    <3>3. g1 \in [0 .. n + 1 -> V]
      BY <3>2
    <3>4. g1[0] = a
      BY <3>1
    <3>5. ASSUME NEW k \in 1 .. n + 1
          PROVE  g1[k] = h[k][g1[k - 1]]
      BY <3>1
    <3> HIDE DEF g1
    <3> QED  BY <3>3, <3>4, <3>5
  <2> HIDE DEF S
  <2> QED  BY <2>1, <2>2, Induction
<1>2. ASSUME NEW n \in Nat, NEW g1 \in [0 .. n -> V], NEW g2 \in [0 .. n + 1 -> V],
             Upto(g1, n), Upto(g2, n + 1)
      PROVE  g1[n] = g2[n]
  <2> DEFINE Same == {k \in Nat : k <= n => g1[k] = g2[k]}
  <2>1. 0 \in Same
    BY <1>2
  <2>2. ASSUME NEW k \in Nat, k \in Same
        PROVE  k + 1 \in Same
    <3>1. CASE k + 1 <= n
      <4>1. g1[k] = g2[k]
        BY <2>2, <3>1
      <4>2. k + 1 \in 1 .. n /\ k + 1 \in 1 .. n + 1 /\ (k + 1) - 1 = k
        BY <3>1
      <4>3. g1[k + 1] = h[k + 1][g1[k]] /\ g2[k + 1] = h[k + 1][g2[k]]
        BY <4>2, <1>2
      <4> QED  BY <4>1, <4>3
    <3> QED  BY <3>1
  <2>3. Nat \subseteq Same
    <3> HIDE DEF Same
    <3> QED  BY <2>1, <2>2, Induction
  <2> QED  BY <2>3
<1>3. ASSUME NEW n \in Nat
      PROVE  \E g \in [0 .. n -> V] : Upto(g, n) /\ f[n] = g[n]
  <2>1. \E g \in [0 .. n -> V] : Upto(g, n)
    BY <1>1
  <2> DEFINE c == CHOOSE g \in [0 .. n -> V] : Upto(g, n)
  <2>2. c \in [0 .. n -> V] /\ Upto(c, n)
    BY <2>1
  <2>3. f[n] = c[n]
    OBVIOUS
  <2> QED  BY <2>2, <2>3
<1>4. f \in [Nat -> V]
  <2>1. \A n \in Nat : f[n] \in V
    BY <1>3
  <2> QED  BY <2>1
<1>5. f[0] = a
  BY <1>3
<1>6. ASSUME NEW n \in Nat
      PROVE  f[n + 1] = h[n + 1][f[n]]
  <2>1. PICK g1 \in [0 .. n -> V] : Upto(g1, n) /\ f[n] = g1[n]
    <3> HIDE DEF f, Upto
    <3> QED  BY <1>3
  <2>2. PICK g2 \in [0 .. n + 1 -> V] : Upto(g2, n + 1) /\ f[n + 1] = g2[n + 1]
    <3> HIDE DEF f, Upto
    <3>1. n + 1 \in Nat
      OBVIOUS
    <3> QED  BY <3>1, <1>3
  <2>3. g1[n] = g2[n]
    BY <2>1, <2>2, <1>2
  <2>4. n + 1 \in 1 .. n + 1 /\ (n + 1) - 1 = n
    OBVIOUS
  <2>5. g2[n + 1] = h[n + 1][g2[n]]
    BY <2>2, <2>4
  <2> QED  BY <2>1, <2>2, <2>3, <2>5
<1> HIDE DEF f
<1>7. ASSUME NEW n \in Nat
      PROVE  f[n] = IF n = 0 THEN a ELSE h[n][f[n - 1]]
  <2>1. CASE n = 0
    BY <2>1, <1>5
  <2>2. CASE n # 0
    <3>1. n - 1 \in Nat /\ (n - 1) + 1 = n
      BY <2>2
    <3> QED  BY <3>1, <1>6, <2>2
  <2> QED  BY <2>1, <2>2
<1>8. Continues(f, a, h)
  BY <1>4, <1>7 DEF Continues
<1> QED  BY <1>4, <1>8

\* Power2 is positive and doubles.
LEMMA Powers ==
    /\ Power2 \in [Nat -> Nat] /\ Power2[0] = 1
    /\ \A k \in Nat : Power2[k + 1] = 2 * Power2[k]
    /\ \A k \in Nat : Power2[k] > 0
<1> DEFINE h == [n \in Nat |-> [v \in Nat |-> 2 * v]]
           Is(f) == f = [k \in Nat |-> IF k = 0 THEN 1 ELSE 2 * f[k - 1]]
<1>1. h \in [Nat -> [Nat -> Nat]]
  OBVIOUS
<1>2. PICK f \in [Nat -> Nat] : Continues(f, 1, h)
  BY <1>1, RecursionExists
<1>3. ASSUME NEW n \in Nat, n # 0
      PROVE  h[n][f[n - 1]] = 2 * f[n - 1]
  <2>1. n - 1 \in Nat
    BY <1>3
  <2>2. f[n - 1] \in Nat
    BY <2>1
  <2> QED  BY <2>2
<1> HIDE DEF h
<1>4. Is(f)
  BY <1>2, <1>3 DEF Continues
<1> HIDE DEF Is
<1>5. Is(CHOOSE g : Is(g))
  BY <1>4
<1>6. Power2 = CHOOSE g : Is(g)
  BY DEF Power2, Is
<1>7. Is(Power2)
  BY <1>5, <1>6
<1>8. DOMAIN Power2 = Nat /\ \A k \in Nat : Power2[k] = IF k = 0 THEN 1 ELSE 2 * Power2[k - 1]
  BY <1>7 DEF Is
<1>9. Power2[0] = 1
  BY <1>8
<1>10. ASSUME NEW k \in Nat
       PROVE  Power2[k + 1] = 2 * Power2[k]
  <2>1. k + 1 \in Nat /\ k + 1 # 0 /\ (k + 1) - 1 = k
    OBVIOUS
  <2> QED  BY <1>8, <2>1
<1> DEFINE S == {k \in Nat : Power2[k] \in Nat /\ Power2[k] > 0}
<1>11. 0 \in S
  BY <1>9
<1>12. \A k \in Nat : k \in S => k + 1 \in S
  BY <1>10
<1>13. Nat \subseteq S
  <2> HIDE DEF S
  <2> QED  BY <1>11, <1>12, Induction
<1>14. Power2 \in [Nat -> Nat]
  <2>1. Power2 = [k \in Nat |-> IF k = 0 THEN 1 ELSE 2 * Power2[k - 1]]
    BY <1>7 DEF Is
  <2> QED  BY <2>1, <1>13, <1>8
<1> QED  BY <1>9, <1>10, <1>13, <1>14
=============================================================================
