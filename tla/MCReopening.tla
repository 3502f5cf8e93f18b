----------------------------- MODULE MCReopening -----------------------------
(***************************************************************************)
(* Market with its phases, and Reopening, on small instances.               *)
(***************************************************************************)
EXTENDS Reopening

CONSTANTS l1, l2, r1, r2, r3

OneLocate == {l1}
TwoLocates == {l1, l2}
ThreeRefs == {r1, r2, r3}

\* No step reads the outcome of the last one.
WithoutEffect == <<bookVars, phaseVars, armed, waiting>>

RefSymmetry == Permutations(Refs)
Symmetry == Permutations(Refs) \cup Permutations(Locates)

=============================================================================
