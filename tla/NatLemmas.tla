----------------------------- MODULE NatLemmas ------------------------------
(***************************************************************************)
(* Induction for the proofs about recursive definitions.  A claim about    *)
(* every natural number is shown from its least counterexample: the set of *)
(* the numbers it fails for has a least element, for which the step of the *)
(* induction gives a contradiction.                                        *)
(***************************************************************************)
EXTENDS Naturals, WellFoundedInduction, TLAPS

\* Every set of naturals with an element has a least one.
LEMMA LeastNatural ==
    ASSUME NEW T, T \subseteq Nat, T # {}
    PROVE  \E x \in T : \A y \in T : x <= y
<1> DEFINE R == OpToRel(<, Nat)
<1>1. IsWellFoundedOn(R, Nat)
  BY NatLessThanWellFounded
<1>2. PICK x \in T : \A y \in T : ~(<<y, x>> \in R)
  <2> HIDE DEF R
  <2> QED BY <1>1, WFMin
<1>3. \A y \in T : ~(y < x)
  BY <1>2 DEF OpToRel
<1> QED BY <1>3
=============================================================================
