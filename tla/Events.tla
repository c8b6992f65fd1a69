------------------------------- MODULE Events -------------------------------
(***************************************************************************)
(* The identities of canonical events: the event_id column of the log,     *)
(* BullMQ's jobId and the id that is sent to the destination.              *)
(***************************************************************************)
EXTENDS Surroundings

CONSTANT EventIds

=============================================================================
