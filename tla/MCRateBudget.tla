---------------------------- MODULE MCRateBudget ----------------------------
(* Instances of RateBudget for TLC: two days of two minutes.                 *)
EXTENDS RateBudget

CONSTANTS p1, p2, p3
=============================================================================
