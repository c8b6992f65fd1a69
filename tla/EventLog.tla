----------------------------- MODULE EventLog -----------------------------
(***************************************************************************)
(* The crm_event_log table behind the EventLog class: at most one row per  *)
(* event id, a status that the pipelines and the queue workers overwrite,  *)
(* and a counter of worker attempts.  Only insert reports a failure of the *)
(* pool to its caller; updateStatus and incrementAttempt swallow it.       *)
(***************************************************************************)
EXTENDS Events, Naturals

VARIABLE log     \* log[id]: the row of event id

EventStatus == {"pending", "sent", "failed", "duplicate"}
Payloads    == {"built", "empty"}     \* of the column destination_payload

NoRow == [status |-> "absent", attempts |-> 0, payload |-> "none"]

Rows == [status   : EventStatus \cup {"absent"},
         attempts : Nat,
         payload  : Payloads \cup {"none"}]

LogTypeOK == log \in [EventIds -> Rows]

LogInit == log = [id \in EventIds |-> NoRow]

Logged(id) == log[id].status # "absent"

-----------------------------------------------------------------------------

\* Mutant: ON CONFLICT (event_id) DO UPDATE.
InsertOverwrites(id, status, payload) ==
    log' = [log EXCEPT ![id] = [@ EXCEPT !.status = status, !.payload = payload]]

\* INSERT ... ON CONFLICT (event_id) DO NOTHING: the first row stays.
Insert(id, status, payload) ==
    log' = [log EXCEPT ![id] =
              IF Logged(id) THEN @
              ELSE [status |-> status, attempts |-> 0, payload |-> payload]]

\* The query failed, with or without the row committed, and insert rethrows.
InsertFails(id, status, payload) ==
    /\ "postgres" \in Faults
    /\ \/ Insert(id, status, payload)
       \/ UNCHANGED log

\* UPDATE ... WHERE event_id: overwrites whatever status is there; a failed
\* query is only logged, so the caller goes on in both cases.
UpdateStatus(id, status) ==
    \/ log' = [log EXCEPT ![id].status = IF Logged(id) THEN status ELSE @]
    \/ "update" \in Faults /\ UNCHANGED log

\* Mutant: the counter runs down.
DecrementAttempt(id) == log' = [log EXCEPT ![id].attempts = @ - 1]

\* attempt_count + 1, a failed query swallowed in the same way.
IncrementAttempt(id) ==
    \/ log' = [log EXCEPT ![id].attempts = IF Logged(id) THEN @ + 1 ELSE @]
    \/ "update" \in Faults /\ UNCHANGED log

=============================================================================
