------------------------------- MODULE Induction -------------------------------
(***************************************************************************)
(* Induction and recursion on the natural numbers, for sets: a set that    *)
(* has 0 and the successor of each of its members has every number, and a  *)
(* step function iterated from a base is a function.  Stated for sets and  *)
(* functions, and not for predicates, these can be cited for any property  *)
(* P by way of the set {k \in Nat : P(k)}.                                 *)
(***************************************************************************)
EXTENDS Integers, WellFoundedInduction, TLAPS

(* A set of natural numbers that has a member has a least one.             *)
LEMMA NatLeast ==
  ASSUME NEW S \in SUBSET Nat, S # {}
  PROVE  \E m \in S : \A k \in S : m <= k
<1> DEFINE R == OpToRel(<, Nat)
<1>1. IsWellFoundedOn(R, Nat)
  BY NatLessThanWellFounded
<1>2. \E m \in S : \A k \in S : ~(<<k, m>> \in R)
  BY <1>1, WFMin
<1>3. \A x, y \in Nat : y < x => <<y, x>> \in R
  BY DEF OpToRel
<1> HIDE DEF R
<1>4. PICK m \in S : \A k \in S : ~(<<k, m>> \in R)
  BY <1>2
<1>5. ASSUME NEW k \in S PROVE m <= k
  <2>1. m \in Nat /\ k \in Nat
    OBVIOUS
  <2>2. ~(k < m)
    BY <1>3, <1>4, <2>1
  <2>. QED BY <2>1, <2>2
<1>. QED BY <1>5

LEMMA SetInduction ==
  ASSUME NEW S, 0 \in S, \A k \in Nat : k \in S => k + 1 \in S
  PROVE  Nat \subseteq S
<1> DEFINE T == {k \in Nat : k \notin S}
<1> SUFFICES ASSUME T # {} PROVE FALSE
  OBVIOUS
<1>1. T \in SUBSET Nat
  OBVIOUS
<1> HIDE DEF T
<1>2. PICK m \in T : \A k \in T : m <= k
  BY <1>1, NatLeast
<1>3. m \in Nat \ {0} /\ m \notin S
  BY <1>2 DEF T
<1>4. m - 1 \in Nat /\ (m - 1) + 1 = m
  BY <1>3
<1>5. m - 1 \in S
  BY <1>2, <1>4 DEF T
<1>. QED BY <1>3, <1>4, <1>5

(* g is the beginning, up to n, of the iteration of step from base.        *)
Iterates(g, base, step, n) ==
  g[0] = base /\ \A k \in 0..(n - 1) : g[k + 1] = step[g[k]]

LEMMA IterationExists ==
  ASSUME NEW T, NEW base \in T, NEW step \in [T -> T], NEW n \in Nat
  PROVE  \E g \in [Nat -> T] : Iterates(g, base, step, n)
<1> DEFINE S == {k \in Nat : \E g \in [Nat -> T] : Iterates(g, base, step, k)}
<1>1. 0 \in S
  <2> DEFINE g == [k \in Nat |-> base]
  <2>1. g \in [Nat -> T] /\ Iterates(g, base, step, 0)
    BY DEF Iterates
  <2>. QED BY <2>1
<1>2. ASSUME NEW k \in Nat, k \in S PROVE k + 1 \in S
  <2>1. PICK g \in [Nat -> T] : Iterates(g, base, step, k)
    BY <1>2
  <2> DEFINE h == [i \in Nat |-> IF i <= k THEN g[i] ELSE step[g[k]]]
  <2>2. h \in [Nat -> T]
    OBVIOUS
  <2>3. h[0] = base
    BY <2>1 DEF Iterates
  <2>4. ASSUME NEW i \in 0..k PROVE h[i + 1] = step[h[i]]
    <3>1. CASE i < k
      <4>1. i \in 0..(k - 1) /\ i + 1 <= k /\ i <= k /\ i \in Nat /\ i + 1 \in Nat
        BY <3>1
      <4>. QED BY <2>1, <4>1 DEF Iterates
    <3>2. CASE i = k
      BY <3>2
    <3>. QED BY <3>1, <3>2
  <2>5. 0..((k + 1) - 1) = 0..k
    OBVIOUS
  <2> HIDE DEF h
  <2>6. Iterates(h, base, step, k + 1)
    BY <2>3, <2>4, <2>5 DEF Iterates
  <2>. QED BY <2>2, <2>6
<1> HIDE DEF S
<1>3. Nat \subseteq S
  BY <1>1, <1>2, SetInduction
<1>. QED BY <1>3 DEF S

LEMMA IterationUnique ==
  ASSUME NEW g, NEW h, NEW base, NEW step, NEW n \in Nat, NEW m \in Nat, n <= m,
         Iterates(g, base, step, n), Iterates(h, base, step, m)
  PROVE  \A k \in 0..n : g[k] = h[k]
<1> DEFINE S == {k \in Nat : k <= n => g[k] = h[k]}
<1>1. 0 \in S
  BY DEF Iterates
<1>2. ASSUME NEW k \in Nat, k \in S PROVE k + 1 \in S
  <2> SUFFICES ASSUME k + 1 <= n PROVE g[k + 1] = h[k + 1]
    OBVIOUS
  <2>1. k \in 0..(n - 1) /\ k \in 0..(m - 1)
    OBVIOUS
  <2>. QED BY <1>2, <2>1 DEF Iterates
<1> HIDE DEF S
<1>3. Nat \subseteq S
  BY <1>1, <1>2, SetInduction
<1>. QED BY <1>3 DEF S

(* A step function iterated from a base is a function on Nat.              *)
LEMMA PrimitiveRecursion ==
  ASSUME NEW T, NEW base \in T, NEW step \in [T -> T]
  PROVE  \E f \in [Nat -> T] :
           f[0] = base /\ \A k \in Nat : f[k + 1] = step[f[k]]
<1> DEFINE Up(n) == CHOOSE g \in [Nat -> T] : Iterates(g, base, step, n)
           f == [k \in Nat |-> Up(k)[k]]
<1>1. ASSUME NEW n \in Nat PROVE Up(n) \in [Nat -> T] /\ Iterates(Up(n), base, step, n)
  BY IterationExists
<1> HIDE DEF Up
<1>2. f \in [Nat -> T]
  BY <1>1
<1>3. f[0] = base
  BY <1>1 DEF Iterates
<1>4. ASSUME NEW k \in Nat PROVE f[k + 1] = step[f[k]]
  <2>1. Iterates(Up(k), base, step, k) /\ Iterates(Up(k + 1), base, step, k + 1)
    BY <1>1
  <2>2. Up(k)[k] = Up(k + 1)[k]
    <3>1. k \in 0..k /\ k <= k + 1 /\ k + 1 \in Nat
      OBVIOUS
    <3>. QED BY <2>1, <3>1, IterationUnique
  <2>3. k \in 0..((k + 1) - 1)
    OBVIOUS
  <2>4. Up(k + 1)[k + 1] = step[Up(k + 1)[k]]
    BY <2>1, <2>3 DEF Iterates
  <2>. QED BY <2>2, <2>4
<1>. QED BY <1>2, <1>3, <1>4
===============================================================================
