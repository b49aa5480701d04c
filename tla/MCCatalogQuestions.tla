------------------------- MODULE MCCatalogQuestions -------------------------
(* Instances of CatalogQuestions for TLC.                                    *)
EXTENDS CatalogQuestions, TLC

CONSTANTS s1, s2, s3

Symmetric == Permutations(Saves)
=============================================================================
