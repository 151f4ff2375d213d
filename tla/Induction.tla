------------------------------ MODULE Induction ------------------------------
(***************************************************************************)
(* Induction over the natural numbers for the other proof modules, stated  *)
(* with sets: the set of the numbers that have a property takes the place  *)
(* of the property.  It rests on the fact that the order of the numbers is *)
(* well founded.                                                           *)
(***************************************************************************)
EXTENDS WellFoundedInduction, TLAPS

\* Every non-empty set of natural numbers has a least element.
LEMMA LeastNatural ==
    ASSUME NEW S \in SUBSET Nat, S # {}
    PROVE  \E m \in S : \A n \in S : m <= n
<1> DEFINE R == OpToRel(<, Nat)
<1>1. IsWellFoundedOn(R, Nat)
  BY NatLessThanWellFounded
<1>2. \A m, n \in Nat : n < m => <<n, m>> \in R
  BY DEF OpToRel
<1> HIDE DEF R
<1>3. PICK m \in S : \A n \in S : <<n, m>> \notin R
  BY <1>1, WFMin
<1>4. \A n \in S : ~(n < m)
  BY <1>2, <1>3
<1> QED BY <1>4

\* Induction on the numbers up to n.
LEMMA InductionUpTo ==
    ASSUME NEW n \in Nat, NEW S, 0 \in S,
           \A i \in 0..(n - 1) : i \in S => i + 1 \in S
    PROVE  \A i \in 0..n : i \in S
<1>1. ASSUME NEW k \in 0..n, k \notin S PROVE FALSE
  <2> DEFINE T == (0..n) \ S
  <2>1. T \in SUBSET Nat /\ T # {}
    BY <1>1
  <2>2. PICK m \in T : \A i \in T : m <= i
    BY <2>1, LeastNatural
  <2>3. m # 0 /\ m - 1 \in 0..(n - 1) /\ m - 1 \in S
    BY <2>2
  <2> QED BY <2>2, <2>3
<1> QED BY <1>1

\* f has the values that x takes when step changes it n times.
Iterates(f, n, X, x, step) ==
    /\ f \in [0..n -> X]
    /\ f[0] = x
    /\ \A i \in 1..n : f[i] = step[i][f[i - 1]]

\* There is always such an f: what a function defined by recursion needs.
LEMMA Iteration ==
    ASSUME NEW n \in Nat, NEW X, NEW x \in X, NEW step \in [1..n -> [X -> X]]
    PROVE  \E f : Iterates(f, n, X, x, step)
<1> DEFINE Goes(f, k) == f[0] = x /\ \A i \in 1..k : f[i] = step[i][f[i - 1]]
           S == {k \in 0..n : \E f \in [0..k -> X] : Goes(f, k)}
<1>1. 0 \in S
  <2> DEFINE f == [i \in 0..0 |-> x]
  <2>1. f \in [0..0 -> X] /\ Goes(f, 0)
    OBVIOUS
  <2> HIDE DEF f
  <2>2. \E g \in [0..0 -> X] : Goes(g, 0)
    BY <2>1
  <2> QED BY <2>2
<1>2. ASSUME NEW k \in 0..(n - 1), k \in S PROVE k + 1 \in S
  <2>1. PICK f \in [0..k -> X] : Goes(f, k)
    BY <1>2
  <2> DEFINE g == [i \in 0..(k + 1) |-> IF i = k + 1 THEN step[k + 1][f[k]] ELSE f[i]]
  <2>2. g \in [0..(k + 1) -> X]
    OBVIOUS
  <2>3. ASSUME NEW i \in 1..(k + 1) PROVE g[i] = step[i][g[i - 1]]
    <3>1. CASE i = k + 1
      BY <3>1
    <3>2. CASE i # k + 1
      BY <2>1, <3>2
    <3> QED BY <3>1, <3>2
  <2>4. g[0] = x
    BY <2>1
  <2> HIDE DEF g
  <2>5. Goes(g, k + 1)
    BY <2>3, <2>4
  <2>6. \E h \in [0..(k + 1) -> X] : Goes(h, k + 1)
    BY <2>2, <2>5
  <2> QED BY <2>6
<1> HIDE DEF S
<1>3. \A k \in 0..n : k \in S
  BY <1>1, <1>2, InductionUpTo
<1>4. \E f \in [0..n -> X] : Goes(f, n)
  <2>1. n \in S
    BY <1>3
  <2> QED BY <2>1 DEF S
<1> QED BY <1>4 DEF Iterates
=============================================================================
