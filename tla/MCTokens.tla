------------------------------ MODULE MCTokens ------------------------------
(* Instances of TokenStore for TLC: three operations in flight, two OAuth states. *)
EXTENDS TokenStore, TLC

CONSTANTS o1, o2, o3, s1, s2

MCValues   == 1 .. MaxIssued
MCSymmetry == Permutations(Ops) \cup Permutations(OAuthStates)

=============================================================================
