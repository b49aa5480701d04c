---------------------------- MODULE MCIaJobQueue ----------------------------
(* Instances of IaJobQueue for TLC: one company with two keys.               *)
EXTENDS IaJobQueue, TLC

CONSTANTS j1, j2, w1, w2, r1, r2, k1, k2, e1

OneCompany == [k \in Keys |-> e1]
TwoStepsOrOne == k1 :> 2 @@ k2 :> 1
TwoStepsEach == [k \in Keys |-> 2]

SafetySymmetry == Permutations(Jobs) \cup Permutations(Workers) \cup Permutations(Requests)
=============================================================================
