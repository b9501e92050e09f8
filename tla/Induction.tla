------------------------------ MODULE Induction ------------------------------
(***************************************************************************)
(* Induction over the natural numbers in a form without operator           *)
(* parameters: as a fact about sets of numbers, from the well-foundedness  *)
(* of <.  The proofs about queries and texts rest on it.                   *)
(***************************************************************************)
EXTENDS Integers, WellFoundedInduction, TLAPS

\* Every non-empty set of numbers has a least element.
LEMMA Smallest ==
  ASSUME NEW T \in SUBSET Nat, T # {}
  PROVE  \E x \in T : \A y \in T : x <= y
<1> DEFINE Less == {ss \in Nat \X Nat : ss[1] < ss[2]}
<1>1. IsWellFoundedOn(Less, Nat)
  BY NatLessThanWellFounded DEF OpToRel
<1>2. \A x, y \in Nat : <<y, x>> \in Less <=> y < x
  OBVIOUS
<1> HIDE DEF Less
<1>3. PICK x \in T : \A y \in T : ~ (<<y, x>> \in Less)
  BY <1>1, WFMin
<1>4. ASSUME NEW y \in T PROVE x <= y
  <2>1. x \in Nat /\ y \in Nat /\ ~ (<<y, x>> \in Less)
    BY <1>3
  <2>2. ~ (y < x)
    BY <1>2, <2>1
  <2> QED
    BY <2>1, <2>2
<1> QED
  BY <1>4

\* Every non-empty bounded set of numbers has a greatest element.
LEMMA Greatest ==
  ASSUME NEW n \in Nat, NEW T \in SUBSET (0 .. n), T # {}
  PROVE  \E x \in T : \A y \in T : y <= x
<1> DEFINE gap == {n - x : x \in T}
<1>1. gap \in SUBSET Nat /\ gap # {}
  <2>1. \A x \in T : n - x \in Nat
    OBVIOUS
  <2>2. PICK x \in T : TRUE
    OBVIOUS
  <2>3. n - x \in gap
    OBVIOUS
  <2> QED
    BY <2>1, <2>3
<1>2. PICK g \in gap : \A h \in gap : g <= h
  BY <1>1, Smallest
<1>3. PICK x \in T : g = n - x
  BY <1>2
<1>4. ASSUME NEW y \in T PROVE y <= x
  <2>1. n - x <= n - y
    BY <1>2, <1>3
  <2> QED
    BY <2>1
<1> QED
  BY <1>4

\* A set of numbers that has 0 and every successor has all of them.
LEMMA Induct ==
  ASSUME NEW S \in SUBSET Nat, 0 \in S, \A n \in S : n + 1 \in S
  PROVE  S = Nat
<1>1. CASE Nat \ S # {}
  <2>1. PICK x \in Nat \ S : \A y \in Nat \ S : x <= y
    BY <1>1, Smallest
  <2>2. x - 1 \in Nat /\ x - 1 \in S
    BY <2>1
  <2> QED
    BY <2>1, <2>2
<1> QED
  BY <1>1

\* The same from a number downwards.
LEMMA InductDown ==
  ASSUME NEW m \in Nat, NEW S,
         \A i \in 1 .. m : (\A j \in 1 .. m : j > i => j \in S) => i \in S
  PROVE  \A i \in 1 .. m : i \in S
<1> DEFINE T == {i \in 1 .. m : i \notin S}
<1>1. CASE T # {}
  <2>1. T \in SUBSET (0 .. m)
    OBVIOUS
  <2>2. PICK i \in T : \A j \in T : j <= i
    BY <1>1, <2>1, Greatest
  <2>3. \A j \in 1 .. m : j > i => j \in S
    BY <2>2
  <2> QED
    BY <2>2, <2>3
<1>2. CASE T = {}
  BY <1>2
<1> QED
  BY <1>1, <1>2

\* G[i] gives a value at i for a function on 1 .. m, in terms of that function's
\* values at greater numbers.
LooksDown(G, m, R) ==
    /\ G \in [1 .. m -> [[1 .. m -> R] -> R]]
    /\ \A i \in 1 .. m : \A f, g \in [1 .. m -> R] :
         (\A j \in 1 .. m : j > i => f[j] = g[j]) => G[i][f] = G[i][g]

\* There is a function whose values are given in this way.
Defines(G, m, R) == \E f \in [1 .. m -> R] : \A i \in 1 .. m : f[i] = G[i][f]

\* By induction on how far down it is defined.
LEMMA RecursionDown ==
  ASSUME NEW m \in Nat, NEW R, R # {}, NEW G, LooksDown(G, m, R)
  PROVE  Defines(G, m, R)
<1> USE DEF LooksDown, Defines
<1> DEFINE P(k) == \E f \in [1 .. m -> R] : \A i \in 1 .. m : i > m - k => f[i] = G[i][f]
           E == {k \in Nat : P(k)}
<1>1. P(0)
  <2>1. PICK r \in R : TRUE
    OBVIOUS
  <2>2. [i \in 1 .. m |-> r] \in [1 .. m -> R]
    OBVIOUS
  <2>3. \A i \in 1 .. m : ~ (i > m - 0)
    OBVIOUS
  <2> QED
    BY <2>2, <2>3
<1>2. ASSUME NEW k \in Nat, P(k) PROVE P(k + 1)
  <2>1. PICK f \in [1 .. m -> R] : \A i \in 1 .. m : i > m - k => f[i] = G[i][f]
    BY <1>2
  <2>2. CASE m - k \notin 1 .. m
    <3>1. \A i \in 1 .. m : i > m - (k + 1) => i > m - k
      BY <2>2
    <3> QED
      BY <2>1, <3>1
  <2>3. CASE m - k \in 1 .. m
    <3> DEFINE n == m - k
               g == [f EXCEPT ![n] = G[n][f]]
    <3>1. G[n][f] \in R
      BY <2>3
    <3>2. g \in [1 .. m -> R] /\ g[n] = G[n][f] /\ \A j \in 1 .. m : j # n => g[j] = f[j]
      BY <2>3, <3>1
    <3> HIDE DEF g
    <3>3. ASSUME NEW i \in 1 .. m, i > m - (k + 1)
          PROVE  g[i] = G[i][g]
      <4>1. \A j \in 1 .. m : j > i => g[j] = f[j]
        BY <3>2, <3>3
      <4>2. G[i][g] = G[i][f]
        BY <3>2, <4>1
      <4>3. g[i] = G[i][f]
        <5>1. CASE i = n
          BY <3>2, <5>1
        <5>2. CASE i # n
          <6>1. i > m - k
            BY <3>3, <5>2
          <6> QED
            BY <2>1, <3>2, <5>2, <6>1
        <5> QED
          BY <5>1, <5>2
      <4> QED
        BY <4>2, <4>3
    <3> QED
      BY <3>2, <3>3
  <2> QED
    BY <2>2, <2>3
<1> HIDE DEF P
<1>3. E = Nat
  <2>1. E \in SUBSET Nat /\ 0 \in E /\ \A k \in E : k + 1 \in E
    BY <1>1, <1>2
  <2> HIDE DEF E
  <2> QED
    BY <2>1, Induct
<1>4. P(m)
  BY <1>3
<1>5. \A i \in 1 .. m : i > m - m
  OBVIOUS
<1> QED
  BY <1>4, <1>5 DEF P
=============================================================================
