------------------------------ MODULE MCMarket ------------------------------
(***************************************************************************)
(* Market on small instances.                                               *)
(***************************************************************************)
EXTENDS Market

CONSTANTS l1, r1, r2, r3

OneLocate == {l1}
ThreeRefs == {r1, r2, r3}

RefSymmetry == Permutations(Refs)

=============================================================================
