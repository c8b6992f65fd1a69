-------------------------- MODULE InboundPipeline --------------------------
(***************************************************************************)
(* TikTok lead -> Klaviyo: InboundPipeline.process, one instance of it per *)
(* webhook delivery, all of them interleaved at their awaits with each     *)
(* other and with the worker of the queue 'klaviyo-events'.  A delivery    *)
(* draws a fresh event id (uuidv4), so EventIds names both; it is          *)
(* deduplicated by the lead it carries.                                    *)
(***************************************************************************)
EXTENDS RetryQueue, RedisDeduplicator

CONSTANTS LeadOf,        \* the lead a delivery carries
          Unbuildable,   \* leads whose create_time is no date: the builder throws
          MaxCrashes     \* bound on the number of crashes

ASSUME InboundAssumption ==
    /\ LeadOf \in [EventIds -> Keys]
    /\ Unbuildable \subseteq Keys
    /\ MaxCrashes \in Nat

VARIABLES
    call,       \* call[d]: the await at which process() is for delivery d
    crashes     \* number of crashes so far

vars == <<log, accepted, job, worker, claimed, lapsed, call, crashes>>

\* Past the check, and with the caller's promise still open.
Admitted == {"upsert", "insert", "create", "markSent", "markFailed", "enqueue"}
Running  == Admitted \cup {"dedup"}

\* process() resolved: at its end, at the duplicate return, or in its catch.
Resolved == {"done", "duplicate", "dropped"}

CallStages == {"unborn", "crashed"} \cup Running \cup Resolved

TypeOK ==
    /\ LogTypeOK /\ DestinationTypeOK /\ QueueTypeOK /\ DedupTypeOK
    /\ call \in [EventIds -> CallStages]
    /\ crashes \in 0 .. MaxCrashes

Init ==
    /\ LogInit /\ DestinationInit /\ QueueInit /\ DedupInit
    /\ call = [d \in EventIds |-> "unborn"]
    /\ crashes = 0

Awaits(d, stage)  == call[d] = stage
Resume(d, stage) == call' = [call EXCEPT ![d] = stage]

\* buildKlaviyoEvent returns: create_time converts to a date.
Buildable(d) == LeadOf[d] \notin Unbuildable

-----------------------------------------------------------------------------

\* The webhook handler has answered 200 and calls process, which enriches the
\* lead and runs up to the deduplicator's SET.
Receive(d) ==
    /\ Awaits(d, "unborn")
    /\ Resume(d, "dedup")
    /\ UNCHANGED <<log, accepted, job, worker, claimed, lapsed, crashes>>

\* Mutant: the return on a duplicate is missing.
DeduplicateWithoutReturn(d) ==
    /\ Awaits(d, "dedup")
    /\ IsDuplicate(LeadOf[d]) \/ IsNew(LeadOf[d])
    /\ Resume(d, "upsert")
    /\ UNCHANGED <<log, accepted, job, worker, crashes>>

\* The answer of isDuplicate and all that runs on it up to the next await:
\* the return, or buildKlaviyoEvent, which may throw into the outer catch.
Deduplicate(d) ==
    /\ Awaits(d, "dedup")
    /\ \/ IsDuplicate(LeadOf[d]) /\ Resume(d, "duplicate")
       \/ /\ IsNew(LeadOf[d])
          /\ \/ ~Buildable(d) /\ Resume(d, "dropped")
             \/ Buildable(d)  /\ Resume(d, "upsert")
    /\ UNCHANGED <<log, accepted, job, worker, crashes>>

\* upsertProfile: a rejection is caught and the pipeline goes on all the same.
UpsertProfile(d) ==
    /\ Awaits(d, "upsert")
    /\ Resume(d, "insert")
    /\ UNCHANGED <<log, accepted, job, worker, claimed, lapsed, crashes>>

\* The pending row; insert rethrows, and the outer catch drops the lead.
InsertPending(d) ==
    /\ Awaits(d, "insert")
    /\ \/ Insert(d, "pending", "built") /\ Resume(d, "create")
       \/ InsertFails(d, "pending", "built") /\ Resume(d, "dropped")
    /\ UNCHANGED <<accepted, job, worker, claimed, lapsed, crashes>>

\* Mutant: the row is marked sent whether or not the call rejects.
CreateEventUnchecked(d) ==
    /\ Awaits(d, "create")
    /\ Resolves(d) \/ Rejects(d)
    /\ Resume(d, "markSent")
    /\ UNCHANGED <<log, job, worker, claimed, lapsed, crashes>>

CreateEvent(d) ==
    /\ Awaits(d, "create")
    /\ \/ Resolves(d) /\ Resume(d, "markSent")
       \/ Rejects(d)  /\ Resume(d, "markFailed")
    /\ UNCHANGED <<log, job, worker, claimed, lapsed, crashes>>

MarkSent(d) ==
    /\ Awaits(d, "markSent")
    /\ UpdateStatus(d, "sent")
    /\ Resume(d, "done")
    /\ UNCHANGED <<accepted, job, worker, claimed, lapsed, crashes>>

\* In the catch of the send: the row is marked before the job is added.
MarkFailed(d) ==
    /\ Awaits(d, "markFailed")
    /\ UpdateStatus(d, "failed")
    /\ Resume(d, "enqueue")
    /\ UNCHANGED <<accepted, job, worker, claimed, lapsed, crashes>>

\* Mutant: the failed event is not enqueued.
SkipEnqueueInbound(d) ==
    /\ Awaits(d, "enqueue")
    /\ Resume(d, "done")
    /\ UNCHANGED <<log, accepted, job, worker, claimed, lapsed, crashes>>

\* enqueueInbound; an error of Redis throws into the outer catch.
EnqueueInbound(d) ==
    /\ Awaits(d, "enqueue")
    /\ \/ Enqueue(d) /\ Resume(d, "done")
       \/ "redis" \in Faults /\ Resume(d, "dropped") /\ UNCHANGED job
    /\ UNCHANGED <<log, accepted, worker, claimed, lapsed, crashes>>

\* The process is gone, and with it open calls and processors.
Die ==
    /\ crashes' = crashes + 1
    /\ call' = [d \in EventIds |-> IF call[d] \in Running THEN "crashed" ELSE call[d]]
    /\ KillWorkers
    /\ UNCHANGED <<log, accepted, job, claimed, lapsed>>

\* It dies and comes back.
Crash == "crash" \in Faults /\ crashes < MaxCrashes /\ Die

-----------------------------------------------------------------------------

CallStep(d) ==
    \/ Deduplicate(d) \/ UpsertProfile(d) \/ InsertPending(d) \/ CreateEvent(d)
    \/ MarkSent(d)    \/ MarkFailed(d)    \/ EnqueueInbound(d)

\* A step of the queue or of its worker, on the job of delivery d.
QueueStep(d) ==
    /\ \/ WorkerStep(d) \/ BackoffElapsed(d) \/ RequeueStalled(d)
    /\ UNCHANGED <<claimed, lapsed, call, crashes>>

QueueTrouble(d) ==
    /\ ReportLost(d) \/ TrimJob(d)
    /\ UNCHANGED <<claimed, lapsed, call, crashes>>

Expire(lead) ==
    /\ ExpireKey(lead)
    /\ UNCHANGED <<log, accepted, job, worker, call, crashes>>

\* What happens while the process is up.
UpNext ==
    \/ \E d \in EventIds : Receive(d) \/ CallStep(d) \/ QueueStep(d) \/ QueueTrouble(d)
    \/ \E lead \in Keys : Expire(lead)

Next == UpNext \/ Crash

Spec == Init /\ [][Next]_vars

\* The event loop resumes every settled await, a running worker takes the jobs
\* it can, timers fire.  Nothing makes leads arrive, keys expire or jobs be
\* trimmed.
Fairness == \A d \in EventIds : WF_vars(CallStep(d)) /\ WF_vars(QueueStep(d))

\* A process that holds.  GracefulShutdown has the fairness of one that dies.
FairSpec == Init /\ [][UpNext]_vars /\ Fairness

-----------------------------------------------------------------------------
(* Properties *)

\* A row reads 'sent' only once Klaviyo has the event, whoever wrote it: the
\* call or the worker, with answers lost and crashes in between.
SentMeansDelivered ==
    \A d \in EventIds : log[d].status = "sent" => d \in accepted

\* Klaviyo gets one event per lead: two deliveries of a lead both reach it only
\* if the lead's key was lost (TTL, eviction) or its check failed open.
NoDuplicateLead ==
    \A d, e \in EventIds :
        LeadOf[d] = LeadOf[e] /\ {d, e} \subseteq accepted
            => d = e \/ LeadOf[d] \in lapsed

\* The attempts the log counts for an event stay within what the queue allows,
\* one more for each stalled run that BullMQ repeats.
AttemptsBounded ==
    \A d \in EventIds : log[d].attempts <= Attempts + MaxStalls

\* Nothing will happen any more for delivery d unless it is trimmed.
Settled(d) == /\ call[d] \in Resolved \cup {"crashed"}
              /\ ~JobLive(d) /\ At(d, "idle")

\* With Postgres up and answers that are heard, the log of a settled delivery
\* tells what happened: 'sent' exactly for what Klaviyo has, 'failed' for the
\* rest, 'pending' for none.
SettledLogIsTruthful ==
    \A d \in EventIds : Settled(d) /\ Logged(d) =>
        log[d].status = IF d \in accepted THEN "sent" ELSE "failed"

\* A lead that was let in is abandoned only with all retries used up.
GivesUpOnlyWhenExhausted ==
    \A d \in EventIds : Settled(d) /\ call[d] = "done" /\ d \notin accepted =>
        log[d].status = "failed" /\ log[d].attempts = Attempts

\* The delivery is being worked on, has arrived, or has used up its retries.
Accounted(d) ==
    \/ call[d] \in Admitted
    \/ JobLive(d)
    \/ d \in accepted
    \/ log[d].attempts = Attempts

\* A delivery is turned away as a duplicate only while another one of the lead
\* accounts for it: no lead that can be sent is skipped on the strength of
\* nothing.  (One that throws in the builder has its key claimed all the same.)
DuplicateIsBacked ==
    \A d \in EventIds : call[d] = "duplicate" /\ Buildable(d) =>
        \E e \in EventIds \ {d} : LeadOf[e] = LeadOf[d] /\ Accounted(e)

\* Once a row says 'sent' nothing takes it back: the pipeline marks 'failed'
\* before it adds the job, so the worker's 'sent' is the later write.
SentIsFinal ==
    [][\A d \in EventIds : log[d].status = "sent" => log'[d].status = "sent"]_vars

\* Every lead answered with 200 whose payload can be built is sent, or on record
\* as failed, or a duplicate.
EveryLeadSettles ==
    \A d \in EventIds :
        Buildable(d) /\ call[d] = "dedup" ~>
                             \/ call[d] = "duplicate"
                             \/ Settled(d) /\ log[d].status \in {"sent", "failed"}

-----------------------------------------------------------------------------
(* Refinement: the pipeline, its deduplicator and its queue implement the   *)
(* promise of AtMostOnceDelivery.                                           *)

Phase(d) ==
    IF d \in accepted THEN "delivered"
    ELSE IF call[d] \in {"unborn", "dedup"} THEN "new"
    ELSE IF call[d] \in Admitted \/ JobLive(d) THEN "open"
    ELSE "closed"

Abstract == INSTANCE AtMostOnceDelivery WITH
                Deliveries <- EventIds, Subjects <- Keys, SubjectOf <- LeadOf,
                phase <- [d \in EventIds |-> Phase(d)], lapses <- lapsed

\* Every behaviour of the pipeline, crashes and lost keys included, is one the
\* abstract specification allows.
ImplementsAtMostOnce == Abstract!Spec

\* And, the calls and the worker being scheduled, no delivery stays open for
\* ever, whatever is lost or dies on the way.
ImplementsSettling == Abstract!Settles

=============================================================================
