---------------------------- MODULE MCEventSets ----------------------------
(* Instances of CRMEventSetManager for TLC: three event sets, one of which  *)
(* may be the environment's.                                                *)
EXTENDS CRMEventSetManager, TLC

CONSTANTS o1, o2, o3, s1, s2, s3

MCSymmetry == Permutations(Ops) \cup Permutations(Values \ {EnvSet})

=============================================================================
