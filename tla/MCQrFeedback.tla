---------------------------- MODULE MCQrFeedback ----------------------------
(* Instances of QrFeedback for TLC.                                          *)
EXTENDS QrFeedback, TLC

CONSTANTS r1, r2, r3, d1, p1, p2, e1

Symmetric == Permutations(Requests)
=============================================================================
