----------------------------- MODULE SumTheorems -----------------------------
(***************************************************************************)
(* Induction over the natural numbers in the form of sets, and what it     *)
(* gives for a sum that a recursive function builds up.  The library's     *)
(* induction theorems take the property as an operator; the existence of a *)
(* minimal element (WFMin) takes it as a set, and that is enough.          *)
(***************************************************************************)
EXTENDS Integers, Sequences, WellFoundedInduction, TLAPS

\* Every nonempty set of natural numbers has a least element.
LEMMA LeastElement ==
  ASSUME NEW S \in SUBSET Nat, S # {}
  PROVE  \E n \in S : \A m \in S : n <= m
<1> DEFINE R == OpToRel(<, Nat)
<1>1. IsWellFoundedOn(R, Nat)
  BY NatLessThanWellFounded, Zenon
<1>2. PICK n \in S : \A m \in S : <<m, n>> \notin R
  <2> HIDE DEF R
  <2> QED BY <1>1, WFMin
<1>3. \A m \in S : ~(m < n)
  BY <1>2, Zenon DEF OpToRel
<1> QED BY <1>3

\* A set with 0 that is closed under successors has every natural number.
LEMMA SetInduction ==
  ASSUME NEW S, 0 \in S, \A n \in Nat : n \in S => n + 1 \in S
  PROVE  Nat \subseteq S
<1> SUFFICES ASSUME Nat \ S # {}
             PROVE  FALSE
  OBVIOUS
<1>1. PICK n \in Nat \ S : \A m \in Nat \ S : n <= m
  BY LeastElement
<1>2. n - 1 \in S
  BY <1>1
<1> QED BY <1>1, <1>2

-----------------------------------------------------------------------------
\* s is the function of the partial sums of the numbers w[1], ..., w[n].
PartialSums(s, w, n) ==
  /\ s \in [0..n -> Nat]
  /\ s[0] = 0
  /\ \A i \in 1..n : s[i] = s[i - 1] + w[i]

\* There is one.
LEMMA PartialSumsExist ==
  ASSUME NEW n \in Nat, NEW w \in [1..n -> Nat]
  PROVE  \E s : PartialSums(s, w, n)
<1> DEFINE Good == {k \in Nat : k <= n => \E s : PartialSums(s, w, k)}
<1>1. 0 \in Good
  <2>1. PartialSums([i \in 0..0 |-> 0], w, 0)
    BY DEF PartialSums
  <2> QED BY <2>1
<1>2. ASSUME NEW k \in Nat, k \in Good
      PROVE  k + 1 \in Good
  <2> SUFFICES ASSUME k + 1 <= n
               PROVE  \E s : PartialSums(s, w, k + 1)
    OBVIOUS
  <2>1. PICK s : PartialSums(s, w, k)
    BY <1>2
  <2> DEFINE t == [i \in 0..(k + 1) |-> IF i = k + 1 THEN s[k] + w[k + 1] ELSE s[i]]
  <2>2. t \in [0..(k + 1) -> Nat] /\ t[0] = 0
    BY <2>1 DEF PartialSums
  <2>3. ASSUME NEW i \in 1..(k + 1)
        PROVE  t[i] = t[i - 1] + w[i]
    <3>1. CASE i = k + 1
      BY <3>1
    <3>2. CASE i # k + 1
      <4>1. i \in 1..k /\ i - 1 # k + 1 /\ i - 1 \in 0..(k + 1)
        BY <3>2
      <4>2. s[i] = s[i - 1] + w[i]
        BY <2>1, <4>1 DEF PartialSums
      <4> QED BY <3>2, <4>1, <4>2
    <3> QED BY <3>1, <3>2
  <2> QED BY <2>2, <2>3 DEF PartialSums
<1>3. Nat \subseteq Good
  <2> HIDE DEF Good
  <2> QED BY <1>1, <1>2, SetInduction
<1> QED BY <1>3

\* There is no other.
LEMMA PartialSumsUnique ==
  ASSUME NEW n \in Nat, NEW w, NEW s, NEW t, PartialSums(s, w, n), PartialSums(t, w, n)
  PROVE  s = t
<1> DEFINE Good == {k \in Nat : k <= n => s[k] = t[k]}
<1>1. 0 \in Good
  BY DEF PartialSums
<1>2. ASSUME NEW k \in Nat, k \in Good
      PROVE  k + 1 \in Good
  BY <1>2 DEF PartialSums
<1>3. Nat \subseteq Good
  <2> HIDE DEF Good
  <2> QED BY <1>1, <1>2, SetInduction
<1>4. \A k \in 0..n : s[k] = t[k]
  BY <1>3
<1> QED BY <1>4 DEF PartialSums
=============================================================================
