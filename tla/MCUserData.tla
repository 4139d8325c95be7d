----------------------------- MODULE MCUserData -----------------------------
(* UserData on two targets and a few records.                              *)
EXTENDS UserDataInvariant, TLC

CONSTANTS t1, t2

OneTarget == {t1}
TwoTargets == {t1, t2}
Symmetry == Permutations(TwoTargets)
=============================================================================
