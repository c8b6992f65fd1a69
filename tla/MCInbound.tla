----------------------------- MODULE MCInbound -----------------------------
(* Instance of InboundPipeline for TLC: two leads, each delivered twice.    *)
EXTENDS InboundPipeline, TLC

CONSTANTS d1, d2, d3, d4, l1, l2

MCLeadOf == (d1 :> l1) @@ (d2 :> l1) @@ (d3 :> l2) @@ (d4 :> l2)

=============================================================================
