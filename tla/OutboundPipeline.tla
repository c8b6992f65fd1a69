------------------------- MODULE OutboundPipeline -------------------------
(***************************************************************************)
(* Klaviyo metric event -> TikTok: OutboundPipeline.process, one instance  *)
(* per delivery of an event, interleaved at its awaits with the others and *)
(* with the worker of the queue 'tiktok-events'.  Unlike the inbound id,   *)
(* the event id is a hash of the event itself: redeliveries share one id,  *)
(* and with it one deduplication key, one row and one jobId.               *)
(***************************************************************************)
EXTENDS RetryQueue, RedisDeduplicator

CONSTANTS Deliveries,     \* webhook deliveries of events
          EventOf,        \* the event id generateEventId gives for a delivery
          Unmapped,       \* events whose metric maps to no TikTok event
          NoAdvertiser,   \* events that name no advertiser, with no default set
          NoValue,        \* Purchase events without a value: the builder throws
          MaxCrashes      \* bound on the number of crashes

ASSUME OutboundAssumption ==
    /\ Keys = EventIds
    /\ EventOf \in [Deliveries -> EventIds]
    /\ MaxCrashes \in Nat

VARIABLES
    call,        \* call[x]: the await at which process() is for delivery x
    eventSet,    \* "known" once an event set is stored or configured
    crashes

vars == <<log, accepted, job, worker, claimed, lapsed, call, eventSet, crashes>>

Admitted == {"resolve", "insert", "send", "markSent", "markFailed", "enqueue"}
Running  == Admitted \cup {"dedup", "logDuplicate"}

\* process() resolved: sent or handed to the queue, a duplicate, filtered out,
\* without advertiser or event set, or in the outer catch.
Resolved == {"done", "duplicate", "filtered", "unroutable", "dropped"}

CallStages == {"unborn", "crashed"} \cup Running \cup Resolved

TypeOK ==
    /\ LogTypeOK /\ DestinationTypeOK /\ QueueTypeOK /\ DedupTypeOK
    /\ call \in [Deliveries -> CallStages]
    /\ eventSet \in {"none", "known"}
    /\ crashes \in 0 .. MaxCrashes

Init ==
    /\ LogInit /\ DestinationInit /\ QueueInit /\ DedupInit
    /\ call = [x \in Deliveries |-> "unborn"]
    /\ eventSet \in {"none", "known"}
    /\ crashes = 0

Awaits(x, stage) == call[x] = stage
Resume(x, stage) == call' = [call EXCEPT ![x] = stage]

\* filterOutboundEvent maps the metric; buildTikTokPayload returns.
ShouldProcess(x) == EventOf[x] \notin Unmapped
Buildable(x)     == EventOf[x] \notin NoValue

DeliveriesOf(id) == {x \in Deliveries : EventOf[x] = id}

-----------------------------------------------------------------------------

\* From the handler's 200 to the deduplicator's SET: filter, enrich, hash.
Receive(x) ==
    /\ Awaits(x, "unborn")
    /\ \/ ~ShouldProcess(x) /\ Resume(x, "filtered")
       \/ ShouldProcess(x)  /\ Resume(x, "dedup")
    /\ UNCHANGED <<log, accepted, job, worker, claimed, lapsed, eventSet, crashes>>

\* Mutant: the return on a duplicate is missing.
DeduplicateWithoutReturn(x) ==
    /\ Awaits(x, "dedup")
    /\ IsDuplicate(EventOf[x]) \/ IsNew(EventOf[x])
    /\ Resume(x, "resolve")
    /\ UNCHANGED <<log, accepted, job, worker, eventSet, crashes>>

\* The answer of isDuplicate, and the choice of the advertiser on a new event.
Deduplicate(x) ==
    LET id == EventOf[x] IN
    /\ Awaits(x, "dedup")
    /\ \/ IsDuplicate(id) /\ Resume(x, "logDuplicate")
       \/ /\ IsNew(id)
          /\ \/ id \in NoAdvertiser /\ Resume(x, "unroutable")
             \/ id \notin NoAdvertiser /\ Resume(x, "resolve")
    /\ UNCHANGED <<log, accepted, job, worker, eventSet, crashes>>

\* Mutants: a status the table does not know; an update in place of the insert.
LogSkipped(x) ==
    /\ Awaits(x, "logDuplicate")
    /\ Insert(EventOf[x], "skipped", "empty")
    /\ Resume(x, "duplicate")
    /\ UNCHANGED <<accepted, job, worker, claimed, lapsed, eventSet, crashes>>

MarkDuplicate(x) ==
    /\ Awaits(x, "logDuplicate")
    /\ UpdateStatus(EventOf[x], "duplicate")
    /\ Resume(x, "duplicate")
    /\ UNCHANGED <<accepted, job, worker, claimed, lapsed, eventSet, crashes>>

\* The row of a duplicate: it stays only if the event has no row yet.
LogDuplicate(x) ==
    LET id == EventOf[x] IN
    /\ Awaits(x, "logDuplicate")
    /\ \/ Insert(id, "duplicate", "empty") /\ Resume(x, "duplicate")
       \/ InsertFails(id, "duplicate", "empty") /\ Resume(x, "dropped")
    /\ UNCHANGED <<accepted, job, worker, claimed, lapsed, eventSet, crashes>>

\* The event set, and the payload built on it, which may throw.  resolve gives
\* null as well when its lookup in Postgres fails and nothing is cached.
ResolveEventSet(x) ==
    /\ Awaits(x, "resolve")
    /\ \/ /\ eventSet = "none" \/ "postgres" \in Faults
          /\ Resume(x, "unroutable")
       \/ /\ eventSet = "known"
          /\ \/ ~Buildable(x) /\ Resume(x, "dropped")
             \/ Buildable(x)  /\ Resume(x, "insert")
    /\ UNCHANGED <<log, accepted, job, worker, claimed, lapsed, eventSet, crashes>>

InsertPending(x) ==
    LET id == EventOf[x] IN
    /\ Awaits(x, "insert")
    /\ \/ Insert(id, "pending", "built") /\ Resume(x, "send")
       \/ InsertFails(id, "pending", "built") /\ Resume(x, "dropped")
    /\ UNCHANGED <<accepted, job, worker, claimed, lapsed, eventSet, crashes>>

\* sendEvents: the token, the rate limiter and the POST are inside the call.
SendEvents(x) ==
    /\ Awaits(x, "send")
    /\ \/ Resolves(EventOf[x]) /\ Resume(x, "markSent")
       \/ Rejects(EventOf[x])  /\ Resume(x, "markFailed")
    /\ UNCHANGED <<log, job, worker, claimed, lapsed, eventSet, crashes>>

MarkSent(x) ==
    /\ Awaits(x, "markSent")
    /\ UpdateStatus(EventOf[x], "sent")
    /\ Resume(x, "done")
    /\ UNCHANGED <<accepted, job, worker, claimed, lapsed, eventSet, crashes>>

MarkFailed(x) ==
    /\ Awaits(x, "markFailed")
    /\ UpdateStatus(EventOf[x], "failed")
    /\ Resume(x, "enqueue")
    /\ UNCHANGED <<accepted, job, worker, claimed, lapsed, eventSet, crashes>>

EnqueueOutbound(x) ==
    /\ Awaits(x, "enqueue")
    /\ \/ Enqueue(EventOf[x]) /\ Resume(x, "done")
       \/ "redis" \in Faults /\ Resume(x, "dropped") /\ UNCHANGED job
    /\ UNCHANGED <<log, accepted, worker, claimed, lapsed, eventSet, crashes>>

\* An operator provisions or selects an event set for the advertiser.
Provision ==
    /\ eventSet = "none"
    /\ eventSet' = "known"
    /\ UNCHANGED <<log, accepted, job, worker, claimed, lapsed, call, crashes>>

Crash ==
    /\ "crash" \in Faults /\ crashes < MaxCrashes
    /\ crashes' = crashes + 1
    /\ call' = [x \in Deliveries |-> IF call[x] \in Running THEN "crashed" ELSE call[x]]
    /\ KillWorkers
    /\ UNCHANGED <<log, accepted, job, claimed, lapsed, eventSet>>

-----------------------------------------------------------------------------

CallStep(x) ==
    \/ Deduplicate(x)   \/ LogDuplicate(x) \/ ResolveEventSet(x) \/ InsertPending(x)
    \/ SendEvents(x)    \/ MarkSent(x)     \/ MarkFailed(x)      \/ EnqueueOutbound(x)

QueueStep(id) ==
    /\ WorkerStep(id) \/ BackoffElapsed(id) \/ RequeueStalled(id)
    /\ UNCHANGED <<claimed, lapsed, call, eventSet, crashes>>

QueueTrouble(id) ==
    /\ ReportLost(id) \/ TrimJob(id)
    /\ UNCHANGED <<claimed, lapsed, call, eventSet, crashes>>

Expire(id) ==
    /\ ExpireKey(id)
    /\ UNCHANGED <<log, accepted, job, worker, call, eventSet, crashes>>

Next ==
    \/ \E x \in Deliveries : Receive(x) \/ CallStep(x)
    \/ \E id \in EventIds : QueueStep(id) \/ QueueTrouble(id) \/ Expire(id)
    \/ Provision
    \/ Crash

Spec == Init /\ [][Next]_vars

\* As for the inbound pipeline: settled awaits are resumed, the worker runs.
Fairness == /\ \A x \in Deliveries : WF_vars(CallStep(x))
            /\ \A id \in EventIds : WF_vars(QueueStep(id))

FairSpec == Spec /\ Fairness

-----------------------------------------------------------------------------
(* Properties *)

\* A row reads 'sent' only once TikTok has the event.
SentMeansDelivered ==
    \A id \in EventIds : log[id].status = "sent" => id \in accepted

\* Until its key lapses an event has one sender at a time: one call past the
\* check, or the job that this call has left behind, never both and never two.
SingleSender ==
    \A id \in EventIds : id \notin lapsed =>
        /\ \A x, y \in DeliveriesOf(id) : {call[x], call[y]} \subseteq Admitted => x = y
        /\ \A x \in DeliveriesOf(id) : call[x] \in Admitted => ~JobLive(id)

\* A redelivery never turns the row of an event that is being sent, was sent or
\* has failed into 'duplicate', wherever its insert falls among the others.
DuplicateNeverOverwrites ==
    [][\A id \in EventIds : log[id].status \in {"pending", "sent", "failed"}
                                => log'[id].status # "duplicate"]_vars

\* Once a row says 'sent' nothing takes it back (with keys that do not expire).
SentIsFinal ==
    [][\A id \in EventIds : log[id].status = "sent" => log'[id].status = "sent"]_vars

\* Nothing more happens to the event by itself.
Settled(id) == /\ \A x \in DeliveriesOf(id) :
                     call[x] \in Resolved \cup {"unborn", "crashed"}
               /\ ~JobLive(id) /\ At(id, "idle")

\* An event that went through the pipeline ends as 'sent' exactly if TikTok has
\* it, whatever duplicates were logged before or after it.
SettledLogIsTruthful ==
    \A id \in EventIds :
        Settled(id) /\ (\E x \in DeliveriesOf(id) : call[x] = "done") =>
            log[id].status = IF id \in accepted THEN "sent" ELSE "failed"

\* It is abandoned only with every attempt of the queue used up.
GivesUpOnlyWhenExhausted ==
    \A id \in EventIds :
        /\ Settled(id) /\ id \notin accepted
        /\ \E x \in DeliveriesOf(id) : call[x] = "done"
        => log[id].attempts = Attempts

\* An event taken up by a call reaches an end: on record as sent or failed, or
\* without a destination to send it to.
EveryEventSettles ==
    \A x \in Deliveries :
        call[x] \in Admitted ~>
            \/ call[x] \in {"unroutable", "dropped"}
            \/ Settled(EventOf[x]) /\ log[EventOf[x]].status \in {"sent", "failed"}

\* The event is being worked on, has arrived, or has used up its retries.
Processed(id) ==
    \/ \E x \in DeliveriesOf(id) : call[x] \in Admitted
    \/ JobLive(id)
    \/ id \in accepted
    \/ log[id].attempts = Attempts

\* "Checks if an event ID has already been processed": an event is called a
\* duplicate only if it is being processed or was.
DuplicateMeansProcessed ==
    \A x \in Deliveries : call[x] = "logDuplicate" => Processed(EventOf[x])

\* "TikTok send failed, enqueueing for retry": once the call has enqueued an
\* event TikTok does not have, there is a job that will run.
EveryFailureIsRetried ==
    [][\A x \in Deliveries :
          call[x] = "enqueue" /\ call'[x] = "done" /\ EventOf[x] \notin accepted
              => job'[EventOf[x]].state \in LiveStates]_vars

=============================================================================
