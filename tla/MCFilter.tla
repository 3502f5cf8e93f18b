------------------------------ MODULE MCFilter ------------------------------
(***************************************************************************)
(* Filter on one chosen and one other stock.                                *)
(***************************************************************************)
EXTENDS Filter

CONSTANTS l1, l2, r1, r2, r3

ChosenLocate == {l1}
TwoLocates == {l1, l2}
TwoRefs == {r1, r2}
ThreeRefs == {r1, r2, r3}

RefSymmetry == Permutations(Refs)

\* No step and no property of the filter reads the outcome or the arming.
WithoutArming == <<bookVars, phaseVars, filterVars>>

=============================================================================
