---------------------------- MODULE MCInsightsJob ----------------------------
(* Instances of InsightsJob for TLC.                                         *)
EXTENDS InsightsJob, TLC

CONSTANTS j1, j2, j3, w1, w2, p1, p2

Symmetric == Permutations(Jobs) \cup Permutations(Workers) \cup Permutations(Reports)
=============================================================================
