----------------------------- MODULE Induction -----------------------------
(***************************************************************************)
(* Induction over the natural numbers, about sets of them: the library     *)
(* proves that < is well founded, and a set of numbers can be given where  *)
(* its other theorems want a predicate.                                    *)
(***************************************************************************)
EXTENDS FiniteSetTheorems, TLAPS

(* A set of numbers has a least member.                                    *)
LEMMA Least ==
  ASSUME NEW T \in SUBSET Nat, T # {} PROVE \E n \in T : \A m \in T : n =< m
<1> DEFINE R == OpToRel(<, Nat)
<1>1. IsWellFoundedOn(R, Nat)  BY NatLessThanWellFounded
<1>2. \A m, n \in Nat : <<m, n>> \in R <=> m < n  BY DEF OpToRel
<1> HIDE DEF R
<1>3. PICK n \in T : \A m \in T : ~(<<m, n>> \in R)  BY <1>1, WFMin
<1>4. \A m \in T : ~(m < n)  BY <1>2, <1>3
<1> QED  BY <1>4

(* A set of numbers below some bound has a greatest member.                *)
LEMMA Greatest ==
  ASSUME NEW T \in SUBSET Nat, T # {}, NEW b \in Nat, \A n \in T : n =< b
  PROVE  \E n \in T : \A m \in T : m =< n
<1> DEFINE Bounds == {n \in Nat : \A m \in T : m =< n}
<1>1. PICK n \in Bounds : \A m \in Bounds : n =< m  BY Least
<1>2. n \in Nat /\ \A m \in T : m =< n  BY <1>1
<1>3. CASE n \in T  BY <1>2, <1>3
<1>4. CASE n \notin T
  <2>1. \A m \in T : m =< n - 1  BY <1>2, <1>4
  <2>2. n - 1 \in Nat
    <3>1. PICK m \in T : TRUE  OBVIOUS
    <3> QED  BY <1>2, <2>1, <3>1
  <2>3. n - 1 \in Bounds  BY <2>1, <2>2
  <2> QED  BY <1>1, <1>2, <2>3
<1> QED  BY <1>3, <1>4

(* A set that 0 is in, and with every number the next, has all numbers.    *)
LEMMA Induct ==
  ASSUME NEW T, 0 \in T, \A n \in Nat : n \in T => n + 1 \in T
  PROVE  Nat \subseteq T
<1>1. SUFFICES ASSUME Nat \ T # {} PROVE FALSE  OBVIOUS
<1>2. PICK n \in Nat \ T : \A m \in Nat \ T : n =< m  BY <1>1, Least
<1>3. n # 0 /\ n - 1 \in Nat /\ ~(n =< n - 1) /\ n - 1 + 1 = n  BY <1>2
<1>4. n - 1 \in T  BY <1>2, <1>3
<1> QED  BY <1>2, <1>3, <1>4
=============================================================================
