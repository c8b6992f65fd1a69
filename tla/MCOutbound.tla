---------------------------- MODULE MCOutbound ----------------------------
(* Instances of OutboundPipeline for TLC: one event delivered several times *)
(* next to events that are filtered, unroutable or cannot be built.         *)
EXTENDS OutboundPipeline, TLC

CONSTANTS x1, x2, x3, x4, x5, e1, e2, e3, e4

MCEventOf == (x1 :> e1) @@ (x2 :> e1)
MCEventOf5 == (x1 :> e1) @@ (x2 :> e1) @@ (x3 :> e2) @@ (x4 :> e3) @@ (x5 :> e4)

MCSymmetry == Permutations({x1, x2})

=============================================================================
