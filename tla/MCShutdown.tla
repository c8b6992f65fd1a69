----------------------------- MODULE MCShutdown -----------------------------
(* Instances of GracefulShutdown for TLC: one lead delivered twice. *)
EXTENDS GracefulShutdown, TLC

CONSTANTS d1, d2, l1

MCLeadOf == (d1 :> l1) @@ (d2 :> l1)

=============================================================================
