------------------------- MODULE MCCollectionPoints -------------------------
(* Instances of CollectionPoints for TLC.                                    *)
EXTENDS CollectionPoints, TLC

CONSTANTS r1, r2, r3, r4, i1

Symmetric == Permutations(Requests)
=============================================================================
