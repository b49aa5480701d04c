------------------------- MODULE MCCompanyQuestions -------------------------
(* Instances of CompanyQuestions for TLC.                                    *)
EXTENDS CompanyQuestions, TLC

CONSTANTS s1, s2, s3, j1, j2, w1, w2

Symmetric == Permutations(Sessions) \cup Permutations(Jobs) \cup Permutations(Workers)
=============================================================================
