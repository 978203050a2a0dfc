----------------------------- MODULE NatInduction -----------------------------
(* Induction on the natural numbers, for proofs about queues and sequences of *)
(* replies. The library's induction theorems take an operator as a parameter, *)
(* which the provers here cannot instantiate: this one takes a set.           *)
EXTENDS TLAPS, WellFoundedInduction

\* A set that has zero, and the successor of each number it has, has them all: a
\* smallest number outside it would be zero, or follow one that is in it.
LEMMA Induction ==
    ASSUME NEW S, 0 \in S, \A n \in Nat : n \in S => n + 1 \in S
    PROVE  Nat \subseteq S
  <1> DEFINE Below == {p \in Nat \X Nat : p[1] < p[2]}
  <1>1. IsWellFoundedOn(Below, Nat)
    BY NatLessThanWellFounded, Zenon DEF OpToRel
  <1> SUFFICES ASSUME Nat \ S # {} PROVE FALSE
    OBVIOUS
  <1>2. PICK n \in Nat \ S : \A k \in Nat \ S : ~(<<k, n>> \in Below)
    <2> HIDE DEF Below
    <2> QED BY <1>1, WFMin
  <1>3. n - 1 \in Nat /\ <<n - 1, n>> \in Below /\ (n - 1) + 1 = n
    <2>1. n # 0
      OBVIOUS
    <2> QED BY <2>1
  <1>4. n - 1 \in S
    BY <1>2, <1>3
  <1> QED BY <1>3, <1>4
=============================================================================
