----------------------------- MODULE Induction ------------------------------
(***************************************************************************)
(* Induction without a predicate as a parameter: what has no least         *)
(* counterexample has none.                                                *)
(***************************************************************************)
EXTENDS WellFoundedInduction, TLAPS

\* Most steps are first-order and go to Zenon; SMT is named where a step needs arithmetic,
\* sequences or records.
USE Zenon, SMTT(30)

\* A set of naturals has a least element.
LEMMA LeastElement ==
  ASSUME NEW S \in SUBSET Nat, S # {}
  PROVE  \E n \in S : \A m \in S : n <= m
<1> DEFINE R == OpToRel(<, Nat)
<1>1. IsWellFoundedOn(R, Nat)
  BY NatLessThanWellFounded
<1>2. \A x, y \in Nat : x < y => <<x, y>> \in R
  BY DEF OpToRel
<1> HIDE DEF R
<1>3. PICK n \in S : \A y \in S : ~ (<<y, n>> \in R)
  BY <1>1, WFMin
<1>4. ASSUME NEW m \in S PROVE n <= m
  <2>1. n \in Nat /\ m \in Nat
    OBVIOUS
  <2>2. ~ (m < n)
    BY <1>2, <1>3, <2>1
  <2> QED
    BY <2>1, <2>2, SMTT(30)
<1> QED
  BY <1>4

\* A set of naturals that holds 0, and with each of them the next, up to N.
LEMMA NatSteps ==
  ASSUME NEW N \in Nat, NEW S, 0 \in S, \A n \in 0 .. N - 1 : n \in S => n + 1 \in S
  PROVE  0 .. N \subseteq S
<1> DEFINE B == (0 .. N) \ S
<1> SUFFICES ASSUME B # {} PROVE FALSE
  OBVIOUS
<1>1. B \in SUBSET Nat
  BY SMTT(30)
<1>2. PICK n \in B : \A m \in B : n <= m
  <2> HIDE DEF B
  <2> QED BY <1>1, LeastElement
<1>3. n - 1 \in 0 .. N - 1 /\ n = (n - 1) + 1
  BY <1>2, SMTT(30)
<1>4. n - 1 \in S
  BY <1>2, <1>3, SMTT(30)
<1> QED BY <1>2, <1>3, <1>4
=============================================================================
