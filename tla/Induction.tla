----------------------------- MODULE Induction ------------------------------
(***************************************************************************)
(* Induction over numbers, for a set instead of a predicate.               *)
(***************************************************************************)
EXTENDS Naturals, WellFoundedInduction, TLAPS

LEMMA SmallestNumber ==
  ASSUME NEW T, T \subseteq Nat, T # {}
  PROVE  \E x \in T : \A y \in T : x <= y
<1>. DEFINE R == OpToRel(<, Nat)
<1>1. IsWellFoundedOn(R, Nat)
  BY NatLessThanWellFounded
<1>2. \A x, y \in Nat : y < x => <<y, x>> \in R
  BY DEF OpToRel
<1>. HIDE DEF R
<1>3. PICK x \in T : \A y \in T : ~(<<y, x>> \in R)
  BY <1>1, WFMin
<1>4. \A y \in T : ~(y < x)
  BY <1>2, <1>3
<1>5. \A y \in T : x <= y
  BY <1>4
<1>. QED
  BY <1>5

(* What holds of 0 and is handed on holds up to N. *)
LEMMA StepByStep ==
  ASSUME NEW N \in Nat, NEW S, 0 \in S, \A n \in 1 .. N : n - 1 \in S => n \in S
  PROVE  0 .. N \subseteq S
<1>. SUFFICES ASSUME 0 .. N \ S # {} PROVE FALSE
  OBVIOUS
<1>0. 0 .. N \ S \subseteq Nat
  OBVIOUS
<1>1. PICK n \in 0 .. N \ S : \A m \in 0 .. N \ S : n <= m
  BY <1>0, SmallestNumber
<1>2. n \in 1 .. N /\ n - 1 \in 0 .. N /\ ~(n <= n - 1)
  BY <1>1
<1>. QED
  BY <1>1, <1>2

=============================================================================
