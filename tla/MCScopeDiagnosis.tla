-------------------------- MODULE MCScopeDiagnosis --------------------------
(* Instances of ScopeDiagnosis for TLC.                                      *)
EXTENDS ScopeDiagnosis, TLC

CONSTANTS r1, r2, r3, w1, w2, w3

Symmetric == Permutations(Requests) \cup Permutations(Workers)
=============================================================================
