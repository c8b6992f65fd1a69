---------------------------- MODULE Destination ----------------------------
(***************************************************************************)
(* The API an event is sent to, seen through its client: a call either     *)
(* resolves, and the service has the event, or rejects once the client's   *)
(* own HTTP retries are over.  A rejection does not say whether the service *)
(* took the event.  The service knows events by the id they carry          *)
(* (unique_id, event_id), so what it holds is a set of ids.                *)
(***************************************************************************)
EXTENDS Events

VARIABLE accepted     \* the ids of the events the service has taken

DestinationTypeOK == accepted \subseteq EventIds

DestinationInit == accepted = {}

\* The client's promise resolves.
Resolves(id) == accepted' = accepted \cup {id}

\* The client's promise rejects: the event was refused, or taken unheard.
Rejects(id) ==
    \/ "api" \in Faults /\ UNCHANGED accepted
    \/ "reply" \in Faults /\ accepted' = accepted \cup {id}

=============================================================================
