--------------------------- MODULE NaturalLemmas ---------------------------
(***************************************************************************)
(* Induction over the natural numbers, and what follows from it, stated    *)
(* with sets: the induction theorems of the library take an operator,      *)
(* which the provers cannot instantiate.  Everything here comes from the   *)
(* one theorem that takes none, that < on Nat is well founded.             *)
(***************************************************************************)
EXTENDS Integers, WellFoundedInduction, TLAPS

(* A set of natural numbers has a least element. *)
LEMMA LeastOf ==
    ASSUME NEW R, R \subseteq Nat, R # {}
    PROVE  \E m \in R : \A r \in R : m <= r
<1> DEFINE Below == OpToRel(<, Nat)
<1>1. IsWellFoundedOn(Below, Nat)
  BY NatLessThanWellFounded
<1>2. \A x \in Nat, y \in Nat : x < y => <<x, y>> \in Below
  BY DEF OpToRel
<1> HIDE DEF Below
<1>3. PICK m \in R : \A r \in R : ~ (<<r, m>> \in Below)
  BY <1>1, WFMin
<1>4. ASSUME NEW r \in R PROVE m <= r
  <2>1. ~ (r < m)
    BY <1>2, <1>3
  <2> QED BY <2>1
<1> QED BY <1>4

(* A set that holds 0 and the successor of what it holds has every number. *)
LEMMA SetInduction ==
    ASSUME NEW S, 0 \in S, \A n \in S \cap Nat : n + 1 \in S
    PROVE  Nat \subseteq S
<1> SUFFICES ASSUME Nat \ S # {} PROVE FALSE
  OBVIOUS
<1>1. PICK m \in Nat \ S : \A r \in Nat \ S : m <= r
  BY LeastOf
<1>2. m - 1 \in Nat /\ m - 1 \in S
  BY <1>1
<1> QED BY <1>1, <1>2

(* A set of positions has a last one. *)
LEMMA LastOf ==
    ASSUME NEW n \in Nat, NEW S, S \subseteq 1..n, S # {}
    PROVE  \E i \in S : \A j \in S : j <= i
<1> DEFINE R == {n - i : i \in S}
<1>1. R \subseteq Nat
  OBVIOUS
<1>2. R # {}
  OBVIOUS
<1> HIDE DEF R
<1>3. PICK m \in R : \A r \in R : m <= r
  BY <1>1, <1>2, LeastOf
<1> USE DEF R
<1>4. PICK i \in S : m = n - i
  BY <1>3
<1>5. ASSUME NEW j \in S PROVE j <= i
  <2>1. n - j \in R
    OBVIOUS
  <2>2. m <= n - j
    BY <1>3, <2>1
  <2>3. i \in 1..n /\ j \in 1..n
    OBVIOUS
  <2> QED BY <1>4, <2>2, <2>3
<1> QED BY <1>5
=============================================================================
