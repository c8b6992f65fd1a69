----------------------- MODULE OutboundPipelineProofs -----------------------
(***************************************************************************)
(* Theorems about OutboundPipeline, for every set of deliveries and events, *)
(* of unmapped, unroutable and valueless events, every number of attempts, *)
(* stalls and crashes, and every set of faults.                            *)
(***************************************************************************)
EXTENDS OutboundPipeline, RetryQueueProofs

queueSide == <<claimed, lapsed, call, eventSet, crashes>>

\* A step of the queue leaves the calls alone.
LEMMA QueueAlone ==
    ASSUME NEW id \in EventIds, QueueStep(id) \/ QueueTrouble(id)
    PROVE  QueueAction(id) /\ UNCHANGED queueSide
BY DEF QueueStep, QueueTrouble, QueueAction, queueSide

-----------------------------------------------------------------------------
(* Type correctness *)

\* Every variable keeps its type: rows, jobs, stages of calls and workers.
THEOREM OutboundTypes == Spec => []TypeOK
<1>1. Init => TypeOK
  BY StoresInit, OutboundAssumption
     DEF Init, TypeOK, StoresTypeOK, DedupInit, DedupTypeOK, CallStages
<1>2. TypeOK /\ [Next]_vars => TypeOK'
  <2> SUFFICES ASSUME TypeOK, [Next]_vars PROVE TypeOK'
    OBVIOUS
  <2> USE DEF TypeOK, DestinationTypeOK, QueueTypeOK, DedupTypeOK
  <2>0. \A x \in Deliveries : EventOf[x] \in EventIds
    BY OutboundAssumption
  <2>1. ASSUME NEW x \in Deliveries, Receive(x) PROVE TypeOK'
    BY <2>1 DEF Receive, Resume, CallStages, Running, Resolved, LogTypeOK
  <2>2. ASSUME NEW x \in Deliveries, Deduplicate(x) PROVE TypeOK'
    <3>1. call' \in [Deliveries -> CallStages]
      BY <2>2 DEF Deduplicate, Resume, CallStages, Running, Admitted, Resolved
    <3>2. DedupTypeOK'
      BY <2>0, <2>2, OutboundAssumption DEF Deduplicate, IsDuplicate, IsNew, Claim, FailOpen,
         AlreadyClaimed, ClaimResent, dedupVars
    <3> QED BY <2>2, <3>1, <3>2 DEF Deduplicate, LogTypeOK
  <2>3. ASSUME NEW x \in Deliveries, LogDuplicate(x) PROVE TypeOK'
    <3>1. LogTypeOK'
      BY <2>0, <2>3, InsertType DEF LogDuplicate, InsertFails, EventStatus, Payloads, LogTypeOK
    <3> QED BY <2>3, <3>1 DEF LogDuplicate, Resume, CallStages, Resolved
  <2>4. ASSUME NEW x \in Deliveries, ResolveEventSet(x) PROVE TypeOK'
    BY <2>4 DEF ResolveEventSet, Resume, CallStages, Running, Admitted, Resolved, LogTypeOK
  <2>5. ASSUME NEW x \in Deliveries, InsertPending(x) PROVE TypeOK'
    <3>1. LogTypeOK'
      BY <2>0, <2>5, InsertType DEF InsertPending, InsertFails, EventStatus, Payloads, LogTypeOK
    <3> QED BY <2>5, <3>1 DEF InsertPending, Resume, CallStages, Running, Admitted, Resolved
  <2>6. ASSUME NEW x \in Deliveries, SendEvents(x) PROVE TypeOK'
    BY <2>0, <2>6 DEF SendEvents, Resolves, Rejects, Resume, CallStages, Running, Admitted, LogTypeOK
  <2>7. ASSUME NEW x \in Deliveries, MarkSent(x) \/ MarkFailed(x) PROVE TypeOK'
    <3>1. LogTypeOK'
      BY <2>0, <2>7, UpdateStatusType DEF MarkSent, MarkFailed, EventStatus
    <3> QED
      BY <2>7, <3>1 DEF MarkSent, MarkFailed, Resume, CallStages, Running, Admitted, Resolved
  <2>8. ASSUME NEW x \in Deliveries, EnqueueOutbound(x) PROVE TypeOK'
    <3>1. job' \in [EventIds -> Jobs]
      BY <2>0, <2>8, EnqueueType DEF EnqueueOutbound
    <3> QED BY <2>8, <3>1 DEF EnqueueOutbound, Resume, CallStages, Resolved, LogTypeOK
  <2>9. ASSUME NEW id \in EventIds, QueueStep(id) \/ QueueTrouble(id) PROVE TypeOK'
    <3>1. StoresTypeOK'
      BY <2>9, QueueAlone, QueueTypes DEF StoresTypeOK
    <3> QED BY <2>9, <3>1, QueueAlone DEF StoresTypeOK, queueSide
  <2>10. ASSUME NEW id \in EventIds, Expire(id) PROVE TypeOK'
    BY <2>10 DEF Expire, ExpireKey, LogTypeOK
  <2>11. CASE Provision
    BY <2>11 DEF Provision, LogTypeOK
  <2>12. CASE Crash
    BY <2>12, OutboundAssumption DEF Crash, KillWorkers, CallStages, WorkerStages, LogTypeOK
  <2>13. CASE UNCHANGED vars
    BY <2>13 DEF vars, LogTypeOK
  <2> QED
    BY <2>1, <2>2, <2>3, <2>4, <2>5, <2>6, <2>7, <2>8, <2>9, <2>10, <2>11, <2>12, <2>13
       DEF Next, CallStep
<1> QED
  BY <1>1, <1>2, PTL DEF Spec

-----------------------------------------------------------------------------
(* 'sent' is written only after the send, though several calls and the      *)
(* worker may write one row.                                                *)

SentInv ==
    /\ SentMeansDelivered
    /\ \A x \in Deliveries : call[x] = "markSent" => EventOf[x] \in accepted
    /\ WorkersSent

\* A row that reads 'sent' is of an event TikTok has, whichever of the calls
\* and jobs of the event have written it.
THEOREM OutboundSentIsDelivered == Spec => []SentMeansDelivered
<1> USE DEF SentInv, SentMeansDelivered
<1>1. Init => SentInv
  BY DEF Init, LogInit, NoRow, QueueInit, WorkersSent
<1>2. TypeOK /\ SentInv /\ [Next]_vars => SentInv'
  <2> SUFFICES ASSUME TypeOK, SentInv, [Next]_vars PROVE SentInv'
    OBVIOUS
  <2> USE DEF TypeOK, DestinationTypeOK, QueueTypeOK
  <2>0. \A x \in Deliveries : EventOf[x] \in EventIds
    BY OutboundAssumption
  <2>1. ASSUME NEW x \in Deliveries, Receive(x) \/ Deduplicate(x) \/ ResolveEventSet(x)
        PROVE SentInv'
    BY <2>1 DEF Receive, Deduplicate, ResolveEventSet, Resume, WorkersSent
  <2>2. ASSUME NEW x \in Deliveries, LogDuplicate(x) \/ InsertPending(x) PROVE SentInv'
    <3>1. \A e \in EventIds : log'[e].status = "sent" => log[e].status = "sent"
      BY <2>0, <2>2, InsertEffect
         DEF LogDuplicate, InsertPending, InsertFails, EventStatus, Payloads
    <3> QED BY <2>2, <3>1 DEF LogDuplicate, InsertPending, Resume, WorkersSent
  <2>3. ASSUME NEW x \in Deliveries, SendEvents(x) PROVE SentInv'
    BY <2>3 DEF SendEvents, Resolves, Rejects, Resume, WorkersSent
  <2>4. ASSUME NEW x \in Deliveries, MarkSent(x) PROVE SentInv'
    <3>1. \A e \in EventIds :
             log'[e].status = "sent" => log[e].status = "sent" \/ e = EventOf[x]
      BY <2>0, <2>4, UpdateStatusEffect DEF MarkSent, EventStatus
    <3> QED BY <2>4, <3>1 DEF MarkSent, Awaits, Resume, WorkersSent
  <2>5. ASSUME NEW x \in Deliveries, MarkFailed(x) PROVE SentInv'
    <3>1. \A e \in EventIds : log'[e].status = "sent" => log[e].status = "sent"
      BY <2>0, <2>5, UpdateStatusEffect DEF MarkFailed, EventStatus
    <3> QED BY <2>5, <3>1 DEF MarkFailed, Resume, WorkersSent
  <2>6. ASSUME NEW x \in Deliveries, EnqueueOutbound(x) PROVE SentInv'
    BY <2>6 DEF EnqueueOutbound, Resume, WorkersSent
  <2>7. ASSUME NEW id \in EventIds, QueueStep(id) \/ QueueTrouble(id) PROVE SentInv'
    <3>1. RowsSent' /\ WorkersSent' /\ accepted \subseteq accepted'
      BY <2>7, QueueAlone, QueueSent DEF RowsSent, StoresTypeOK
    <3> QED BY <2>7, <3>1, QueueAlone DEF RowsSent, queueSide
  <2>8. ASSUME NEW id \in EventIds, Expire(id) PROVE SentInv'
    BY <2>8 DEF Expire, WorkersSent
  <2>9. CASE Provision \/ UNCHANGED vars
    BY <2>9 DEF Provision, vars, WorkersSent
  <2>10. CASE Crash
    BY <2>10 DEF Crash, KillWorkers, WorkersSent
  <2> QED
    BY <2>1, <2>2, <2>3, <2>4, <2>5, <2>6, <2>7, <2>8, <2>9, <2>10 DEF Next, CallStep
<1> QED
  BY <1>1, <1>2, OutboundTypes, PTL DEF Spec

-----------------------------------------------------------------------------
(* The duplicate's row: an insert gives a status only to a row that is not  *)
(* there, and nothing else writes 'duplicate'.                              *)

\* Wherever a redelivery's insert falls among the steps of the calls and of the
\* worker, it never replaces the status of the event.
THEOREM DuplicatesOverwriteNothing == Spec => DuplicateNeverOverwrites
<1> DEFINE Kept == \A id \in EventIds : log[id].status \in {"pending", "sent", "failed"}
                                            => log'[id].status # "duplicate"
<1>1. TypeOK /\ [Next]_vars => [Kept]_vars
  <2> SUFFICES ASSUME TypeOK, Next PROVE Kept
    OBVIOUS
  <2> USE DEF TypeOK
  <2>0. \A x \in Deliveries : EventOf[x] \in EventIds
    BY OutboundAssumption
  <2>1. ASSUME NEW x \in Deliveries, LogDuplicate(x) \/ InsertPending(x) PROVE Kept
    BY <2>0, <2>1, InsertEffect DEF LogDuplicate, InsertPending, InsertFails, EventStatus, Payloads
  <2>2. ASSUME NEW x \in Deliveries, MarkSent(x) \/ MarkFailed(x) PROVE Kept
    BY <2>0, <2>2, UpdateStatusEffect DEF MarkSent, MarkFailed, EventStatus
  <2>3. ASSUME NEW id \in EventIds, WorkerStep(id) PROVE Kept
    <3>1. CASE CountAttempt(id)
      BY <3>1, IncrementAttemptEffect DEF CountAttempt
    <3>2. CASE MarkJobSent(id) \/ OnFailed(id)
      BY <3>2, UpdateStatusEffect DEF MarkJobSent, OnFailed, EventStatus
    <3>3. CASE PickJob(id) \/ SendJob(id) \/ CompleteJob(id) \/ FailJob(id)
      BY <3>3 DEF PickJob, SendJob, CompleteJob, FailJob
    <3> QED BY <2>3, <3>1, <3>2, <3>3 DEF WorkerStep
  <2>4. log' = log => Kept
    OBVIOUS
  <2>5. ASSUME NEW x \in Deliveries,
               \/ Receive(x) \/ Deduplicate(x) \/ ResolveEventSet(x) \/ SendEvents(x)
               \/ EnqueueOutbound(x)
        PROVE  log' = log
    BY <2>5 DEF Receive, Deduplicate, ResolveEventSet, SendEvents, EnqueueOutbound
  <2>6. ASSUME NEW id \in EventIds,
               BackoffElapsed(id) \/ RequeueStalled(id) \/ QueueTrouble(id) \/ Expire(id)
        PROVE  log' = log
    BY <2>6 DEF BackoffElapsed, RequeueStalled, QueueTrouble, ReportLost, TrimJob, Expire
  <2>7. Provision \/ Crash => log' = log
    BY DEF Provision, Crash
  <2> QED
    BY <2>1, <2>2, <2>3, <2>4, <2>5, <2>6, <2>7 DEF Next, CallStep, QueueStep
<1> QED
  BY <1>1, OutboundTypes, PTL DEF Spec, DuplicateNeverOverwrites

-----------------------------------------------------------------------------
(* One sender at a time.  A call gets past the check only with a free key   *)
(* or by a lapse; whoever sends, a call or a live job, has its key claimed  *)
(* or lapsed; and a job becomes live through the one call that is past the  *)
(* check, which leaves with it.                                             *)

SendersClaim ==
    /\ \A x \in Deliveries : call[x] \in Admitted => EventOf[x] \in claimed \cup lapsed
    /\ \A id \in EventIds : JobLive(id) => id \in claimed \cup lapsed

SenderInv == Busy /\ SendersClaim /\ SingleSender

\* No one becomes a sender, and no claim is forgotten.
NoNewSender ==
    /\ \A x \in Deliveries : call'[x] \in Admitted => call[x] \in Admitted
    /\ \A id \in EventIds : JobLive(id)' => JobLive(id)
    /\ claimed \cup lapsed \subseteq claimed' \cup lapsed'
    /\ lapsed \subseteq lapsed'

LEMMA NoNewSenderKeeps == SenderInv /\ Busy' /\ NoNewSender => SenderInv'
<1> SUFFICES ASSUME SenderInv, Busy', NoNewSender PROVE SenderInv'
  OBVIOUS
<1> USE DEF SenderInv, NoNewSender
<1>1. SendersClaim'
  BY DEF SendersClaim
<1>2. SingleSender'
  BY DEF SingleSender, DeliveriesOf
<1> QED BY <1>1, <1>2

\* The check lets a call in by a free key, or records the lapse.
LEMMA CheckKeepsSole ==
    ASSUME TypeOK, SenderInv, NEW x \in Deliveries, Deduplicate(x)
    PROVE  SenderInv'
<1> USE DEF TypeOK, DedupTypeOK
<1>0. EventOf[x] \in EventIds /\ Busy'
  BY OutboundAssumption DEF Deduplicate, SenderInv, Busy
<1>1. CASE call'[x] \notin Admitted
  <2>1. NoNewSender
    BY <1>1 DEF NoNewSender, Deduplicate, Resume, IsDuplicate, IsNew, AlreadyClaimed,
       ClaimResent, Claim, FailOpen, dedupVars, JobLive
  <2> QED BY <1>0, <2>1, NoNewSenderKeeps
<1>2. CASE call'[x] \in Admitted
  <2>1. /\ IsNew(EventOf[x]) /\ UNCHANGED <<job, worker>>
        /\ \A y \in Deliveries \ {x} : call'[y] = call[y]
    BY <1>2 DEF Deduplicate, Resume, Admitted
  <2>2. /\ claimed \cup lapsed \cup {EventOf[x]} \subseteq claimed' \cup lapsed'
        /\ lapsed \subseteq lapsed'
        /\ EventOf[x] \in lapsed' \/ EventOf[x] \notin claimed
    BY <2>1 DEF IsNew, Claim, FailOpen
  <2>3. SendersClaim'
    BY <2>1, <2>2 DEF SenderInv, SendersClaim, JobLive
  <2>4. SingleSender'
    BY <2>1, <2>2 DEF SenderInv, SendersClaim, SingleSender, DeliveriesOf, JobLive
  <2> QED BY <1>0, <2>3, <2>4 DEF SenderInv
<1> QED BY <1>1, <1>2

\* The call that adds the job is no sender any more.
LEMMA EnqueueKeepsSole ==
    ASSUME TypeOK, SenderInv, NEW x \in Deliveries, EnqueueOutbound(x)
    PROVE  SenderInv'
<1> DEFINE id == EventOf[x]
<1> USE DEF TypeOK, QueueTypeOK, SenderInv
<1>0. id \in EventIds
  BY OutboundAssumption
<1>1. /\ call[x] \in Admitted /\ call'[x] \notin Admitted
      /\ \A y \in Deliveries \ {x} : call'[y] = call[y]
      /\ UNCHANGED <<worker, claimed, lapsed>>
  BY DEF EnqueueOutbound, Awaits, Resume, Admitted
<1>2. \A e \in EventIds : e # id => job'[e] = job[e]
  BY DEF EnqueueOutbound, Enqueue
<1>3. Busy'
  <2>1. \A e \in EventIds : job[e].state = "active" => job'[e].state = "active"
    BY <1>0 DEF EnqueueOutbound, Enqueue
  <2> QED BY <1>1, <2>1 DEF Busy
<1>4. SendersClaim'
  BY <1>1, <1>2 DEF SendersClaim, JobLive
<1>5. SingleSender'
  BY <1>1, <1>2 DEF SingleSender, DeliveriesOf, JobLive
<1> QED BY <1>3, <1>4, <1>5

\* Until its key lapses an event has one sender: one call past the check, or
\* the job it has left, whatever crashes, stalls, fails or is redelivered.
THEOREM OneSender == Spec => []SingleSender
<1>1. Init => SenderInv
  BY DEF Init, QueueInit, NoJob, SenderInv, Busy, SendersClaim, SingleSender, DeliveriesOf,
     JobLive, LiveStates, Admitted, Processing
<1>2. TypeOK /\ SenderInv /\ [Next]_vars => SenderInv'
  <2> SUFFICES ASSUME TypeOK, SenderInv, [Next]_vars PROVE SenderInv'
    OBVIOUS
  <2> USE DEF TypeOK, QueueTypeOK, DestinationTypeOK
  <2>1. ASSUME NEW x \in Deliveries, Receive(x) \/ LogDuplicate(x) PROVE Busy' /\ NoNewSender
    BY <2>1 DEF Receive, LogDuplicate, Resume, Admitted, SenderInv, Busy, NoNewSender, JobLive
  <2>2. ASSUME NEW x \in Deliveries,
               \/ ResolveEventSet(x) \/ InsertPending(x) \/ SendEvents(x)
               \/ MarkSent(x) \/ MarkFailed(x)
        PROVE  Busy' /\ NoNewSender
    <3>1. /\ call[x] \in Admitted /\ \A y \in Deliveries \ {x} : call'[y] = call[y]
          /\ UNCHANGED <<job, worker, claimed, lapsed>>
      BY <2>2 DEF ResolveEventSet, InsertPending, SendEvents, MarkSent, MarkFailed, Awaits,
         Resume, Admitted
    <3> QED BY <3>1 DEF SenderInv, Busy, NoNewSender, JobLive
  <2>3. ASSUME NEW id \in EventIds, QueueStep(id) \/ QueueTrouble(id)
        PROVE  Busy' /\ NoNewSender
    <3>1. Busy' /\ \A e \in EventIds : JobLive(e)' => JobLive(e)
      BY <2>3, QueueAlone, QueueBusy DEF SenderInv, StoresTypeOK
    <3> QED BY <2>3, <3>1, QueueAlone DEF NoNewSender, queueSide
  <2>4. ASSUME NEW id \in EventIds, Expire(id) PROVE Busy' /\ NoNewSender
    BY <2>4 DEF Expire, ExpireKey, SenderInv, Busy, NoNewSender, JobLive
  <2>5. CASE Provision \/ UNCHANGED vars
    <3>1. Busy' /\ NoNewSender
      BY <2>5 DEF Provision, vars, SenderInv, Busy, NoNewSender, JobLive
    <3> QED BY <3>1, NoNewSenderKeeps
  <2>6. CASE Crash
    <3>1. Busy' /\ NoNewSender
      BY <2>6 DEF Crash, KillWorkers, Processing, Admitted, SenderInv, Busy, NoNewSender, JobLive
    <3> QED BY <3>1, NoNewSenderKeeps
  <2> QED
    BY <2>1, <2>2, <2>3, <2>4, <2>5, <2>6, NoNewSenderKeeps, CheckKeepsSole, EnqueueKeepsSole
       DEF Next, CallStep
<1>3. SenderInv => SingleSender
  BY DEF SenderInv
<1> QED
  BY <1>1, <1>2, <1>3, OutboundTypes, PTL DEF Spec

-----------------------------------------------------------------------------
(* What the log is worth while keys are kept, Redis answers and the process *)
(* lives.  One delivery of an event at most enters; the parts below are     *)
(* about one event at a time, whose row, job and calls only its own         *)
(* deliveries and its own job touch.                                        *)

CallsStill(id) == \A x \in DeliveriesOf(id) : call'[x] = call[x]

LEMMA StepsApart ==
    ASSUME TypeOK, Without({"crash"}), [Next]_vars, NEW id \in EventIds
    PROVE  \/ \E x \in DeliveriesOf(id) : Receive(x) \/ CallStep(x)
           \/ QueueAction(id) /\ CallsStill(id)
           \/ Untouched(id) /\ CallsStill(id)
<1> DEFINE Goal == \/ \E x \in DeliveriesOf(id) : Receive(x) \/ CallStep(x)
                   \/ QueueAction(id) /\ CallsStill(id)
                   \/ Untouched(id) /\ CallsStill(id)
<1> SUFFICES Goal
  OBVIOUS
<1> USE DEF TypeOK, LogTypeOK, QueueTypeOK
<1>1. ASSUME NEW x \in Deliveries, Receive(x) \/ CallStep(x) PROVE Goal
  <2>1. CASE EventOf[x] = id
    BY <1>1, <2>1 DEF DeliveriesOf
  <2>2. CASE EventOf[x] # id
    <3> USE DEF Resume, Untouched, CallsStill, DeliveriesOf
    <3>1. CASE Receive(x) \/ Deduplicate(x) \/ ResolveEventSet(x)
      BY <2>2, <3>1 DEF Receive, Deduplicate, ResolveEventSet
    <3>2. CASE LogDuplicate(x) \/ InsertPending(x)
      BY <2>2, <3>2 DEF LogDuplicate, InsertPending, Insert, InsertFails
    <3>3. CASE SendEvents(x)
      BY <2>2, <3>3 DEF SendEvents, Resolves, Rejects
    <3>4. CASE MarkSent(x) \/ MarkFailed(x)
      BY <2>2, <3>4 DEF MarkSent, MarkFailed, UpdateStatus
    <3>5. CASE EnqueueOutbound(x)
      BY <2>2, <3>5 DEF EnqueueOutbound, Enqueue
    <3> QED BY <1>1, <3>1, <3>2, <3>3, <3>4, <3>5 DEF CallStep
  <2> QED BY <2>1, <2>2
<1>2. ASSUME NEW e \in EventIds, QueueStep(e) \/ QueueTrouble(e) PROVE Goal
  <2>1. QueueAction(e) /\ call' = call
    BY <1>2, QueueAlone DEF queueSide
  <2> QED BY <2>1, QueueLocal DEF StoresTypeOK, CallsStill
<1>3. ASSUME NEW e \in EventIds, Expire(e) PROVE Goal
  BY <1>3 DEF Expire, Untouched, CallsStill
<1>4. ~Crash
  BY DEF Crash, Without
<1>5. CASE Provision \/ UNCHANGED vars
  BY <1>5 DEF Provision, vars, Untouched, CallsStill
<1> QED BY <1>1, <1>2, <1>3, <1>4, <1>5 DEF Next

\* A delivery that was let past the check with an advertiser, up to its end.
Entered(x) == call[x] \in Admitted \cup {"done"}

SoleEntrant ==
    /\ lapsed = {}
    /\ \A x \in Deliveries : Entered(x) => EventOf[x] \in claimed
    /\ \A x, y \in Deliveries : EventOf[x] = EventOf[y] /\ Entered(x) /\ Entered(y) => x = y

LEMMA SoleEntrantInvariant ==
    ASSUME Without({"redis", "ttl", "crash"}) PROVE Spec => []SoleEntrant
<1> USE DEF SoleEntrant, Entered, Admitted
<1>1. Init => SoleEntrant
  BY DEF Init, DedupInit
<1>2. TypeOK /\ SoleEntrant /\ [Next]_vars => SoleEntrant'
  <2> SUFFICES ASSUME TypeOK, SoleEntrant, [Next]_vars PROVE SoleEntrant'
    OBVIOUS
  <2> USE DEF TypeOK
  <2>1. ASSUME NEW x \in Deliveries, Deduplicate(x) PROVE SoleEntrant'
    <3>1. CASE IsDuplicate(EventOf[x]) /\ Resume(x, "logDuplicate")
      BY <2>1, <3>1 DEF Deduplicate, Resume, IsDuplicate, AlreadyClaimed, ClaimResent, Claim, dedupVars
    <3>2. CASE /\ Claim(EventOf[x])
               /\ Resume(x, "unroutable") \/ Resume(x, "resolve")
      BY <2>1, <3>2 DEF Deduplicate, Resume, Claim
    <3> QED BY <2>1, <3>1, <3>2 DEF Deduplicate, IsNew, FailOpen, Without
  <2>2. ASSUME NEW x \in Deliveries, Receive(x) \/ CallStep(x), ~Deduplicate(x)
        PROVE  SoleEntrant'
    <3>1. /\ UNCHANGED <<claimed, lapsed>>
          /\ \A y \in Deliveries : Entered(y)' => Entered(y)
      BY <2>2 DEF CallStep, Receive, LogDuplicate, ResolveEventSet, InsertPending, SendEvents,
         MarkSent, MarkFailed, EnqueueOutbound, Awaits, Resume
    <3> QED BY <3>1
  <2>3. ASSUME NEW id \in EventIds, QueueStep(id) \/ QueueTrouble(id) PROVE SoleEntrant'
    BY <2>3, QueueAlone DEF queueSide
  <2>4. ASSUME NEW id \in EventIds PROVE ~Expire(id)
    BY DEF Expire, ExpireKey, Without
  <2>5. ~Crash
    BY DEF Crash, Without
  <2>6. CASE Provision \/ UNCHANGED vars
    BY <2>6 DEF Provision, vars
  <2> QED BY <2>1, <2>2, <2>3, <2>4, <2>5, <2>6 DEF Next
<1> QED BY <1>1, <1>2, OutboundTypes, PTL DEF Spec

\* A call of the event has come to its end past the send.
Over(id) == \E x \in DeliveriesOf(id) : call[x] = "done"

\* The queue has nothing of the event before, and no row says 'sent'.
Orderly(id) ==
    /\ Attended(id) /\ SentRests(id)
    /\ job[id].state # "absent" \/ worker[id] # "idle" \/ log[id].status = "sent" => Over(id)

\* While one call of an event is past the check, none has ended there.
LEMMA AdmittedNotOver ==
    ASSUME SoleEntrant, NEW id \in EventIds, NEW x \in DeliveriesOf(id), call[x] \in Admitted
    PROVE  /\ ~Over(id)
           /\ \A y \in DeliveriesOf(id) \ {x} : ~Entered(y)
BY DEF SoleEntrant, Over, Entered, DeliveriesOf, Admitted

\* A call's steps touch no call but itself.
LEMMA OneCallMoves ==
    ASSUME TypeOK, NEW x \in Deliveries, Receive(x) \/ CallStep(x)
    PROVE  /\ \A y \in Deliveries \ {x} : call'[y] = call[y]
           /\ worker' = worker /\ call[x] # "done"
BY DEF TypeOK, CallStep, Receive, Deduplicate, LogDuplicate, ResolveEventSet, InsertPending,
   SendEvents, MarkSent, MarkFailed, EnqueueOutbound, Awaits, Resume

LEMMA OverStays ==
    ASSUME TypeOK, Without({"crash"}), [Next]_vars, NEW id \in EventIds, Over(id)
    PROVE  Over(id)'
<1>1. CASE CallsStill(id)
  BY <1>1 DEF CallsStill, Over, DeliveriesOf
<1>2. ASSUME NEW x \in DeliveriesOf(id), Receive(x) \/ CallStep(x) PROVE Over(id)'
  BY <1>2, OneCallMoves DEF Over, DeliveriesOf
<1> QED BY <1>1, <1>2, StepsApart

LEMMA OrderlyStep ==
    ASSUME TypeOK, SoleEntrant, Without({"redis", "ttl", "crash"}), [Next]_vars,
           NEW id \in EventIds, Orderly(id)
    PROVE  Orderly(id)' /\ (log[id].status = "sent" => log'[id].status = "sent")
<1> DEFINE Goal == Orderly(id)' /\ (log[id].status = "sent" => log'[id].status = "sent")
<1> SUFFICES Goal
  OBVIOUS
<1> USE DEF TypeOK, QueueTypeOK, Orderly
<1>0. Over(id) => Over(id)'
  BY OverStays DEF Without
<1>1. CASE Untouched(id) /\ CallsStill(id)
  BY <1>0, <1>1 DEF Untouched, Attended, SentRests, JobLive
<1>2. CASE QueueAction(id) /\ CallsStill(id)
  <2>1. /\ Attended(id)' /\ SentRests(id)'
        /\ log[id].status = "sent" => log'[id].status = "sent"
    BY <1>2, QueueAttended, QueueSentRests DEF StoresTypeOK, Without
  <2>2. Over(id)'
    BY <1>0, <1>2, QueueNeedsJob
  <2> QED BY <2>1, <2>2
<1>3. ASSUME NEW x \in DeliveriesOf(id), Receive(x) \/ CallStep(x) PROVE Goal
  <2>0. x \in Deliveries /\ EventOf[x] = id /\ worker' = worker
    BY <1>3, OneCallMoves DEF DeliveriesOf
  <2> USE DEF Attended, SentRests, Processing, JobLive, LiveStates
  <2>1. CASE Receive(x) \/ Deduplicate(x) \/ ResolveEventSet(x) \/ SendEvents(x)
    BY <1>0, <2>0, <2>1 DEF Receive, Deduplicate, ResolveEventSet, SendEvents
  <2>2. CASE LogDuplicate(x) \/ InsertPending(x)
    <3>1. UNCHANGED job /\ (log'[id].status = "sent" <=> log[id].status = "sent")
      BY <2>0, <2>2, InsertEffect
         DEF LogDuplicate, InsertPending, InsertFails, EventStatus, Payloads
    <3> QED BY <1>0, <2>0, <3>1
  <2>3. CASE MarkSent(x) \/ MarkFailed(x) \/ EnqueueOutbound(x)
    <3>1. job[id].state = "absent" /\ worker[id] = "idle" /\ log[id].status # "sent"
      BY <2>3, AdmittedNotOver DEF MarkSent, MarkFailed, EnqueueOutbound, Awaits, Admitted
    <3>2. CASE MarkSent(x)
      <4>1. Over(id)'
        BY <2>0, <3>2 DEF MarkSent, Resume, Over, DeliveriesOf
      <4> QED BY <2>0, <3>1, <3>2, <4>1 DEF MarkSent
    <3>3. CASE MarkFailed(x)
      <4>1. log'[id].status # "sent"
        BY <2>0, <3>1, <3>3, UpdateStatusEffect DEF MarkFailed, EventStatus
      <4> QED BY <2>0, <3>1, <3>3, <4>1 DEF MarkFailed
    <3>4. CASE EnqueueOutbound(x)
      <4>1. Over(id)'
        BY <2>0, <3>4 DEF EnqueueOutbound, Resume, Over, DeliveriesOf, Without
      <4> QED BY <2>0, <3>1, <3>4, <4>1 DEF EnqueueOutbound, Enqueue, NoJob
    <3> QED BY <2>3, <3>2, <3>3, <3>4
  <2> QED BY <1>3, <2>1, <2>2, <2>3 DEF CallStep
<1> QED BY <1>1, <1>2, <1>3, StepsApart DEF Without

OrderlyInv == \A id \in EventIds : Orderly(id)

LEMMA OrderlyInvariant ==
    ASSUME Without({"redis", "ttl", "crash"}) PROVE Spec => []OrderlyInv
<1>1. Init => OrderlyInv
  BY DEF Init, LogInit, NoRow, QueueInit, NoJob, OrderlyInv, Orderly, Attended, SentRests,
     Processing, JobLive, LiveStates
<1>2. TypeOK /\ SoleEntrant /\ OrderlyInv /\ [Next]_vars => OrderlyInv'
  BY OrderlyStep DEF OrderlyInv
<1> QED BY <1>1, <1>2, OutboundTypes, SoleEntrantInvariant, PTL DEF Spec

\* With keys that are kept no redelivery, retry or failed call takes 'sent'
\* back, though several calls and the worker write one row.
THEOREM OutboundSentIsFinal ==
    ASSUME Without({"redis", "ttl", "crash"}) PROVE Spec => SentIsFinal
<1> DEFINE Final == \A id \in EventIds : log[id].status = "sent" => log'[id].status = "sent"
<1>1. TypeOK /\ SoleEntrant /\ OrderlyInv /\ [Next]_vars => [Final]_vars
  BY OrderlyStep DEF OrderlyInv
<1> QED BY <1>1, OutboundTypes, SoleEntrantInvariant, OrderlyInvariant, PTL DEF Spec, SentIsFinal

-----------------------------------------------------------------------------
(* Giving up, and the truth of the log, as for the inbound pipeline; here   *)
(* the row may be another delivery's, inserted before the send as           *)
(* 'duplicate'.                                                             *)

Pursuit(id) ==
    /\ Heard(id) /\ Counted(id)
    /\ \A x \in DeliveriesOf(id) :
          /\ call[x] \in {"send", "markSent", "markFailed", "enqueue", "done"} => Logged(id)
          /\ call[x] = "markSent" => id \in accepted
          /\ call[x] \in {"enqueue", "done"} => FailureMarked(id)
    /\ IF Over(id) THEN Pursued(id) ELSE log[id].attempts = 0

\* Up to its own end a call leaves the calls, job and worker of the event be.
LEMMA PursuitOfCalls ==
    ASSUME TypeOK, SoleEntrant, Without({"update", "redis", "ttl", "crash"}), [Next]_vars,
           NEW id \in EventIds, Orderly(id), Pursuit(id),
           NEW x \in DeliveriesOf(id), Receive(x) \/ CallStep(x)
    PROVE  Pursuit(id)'
<1> USE DEF TypeOK, QueueTypeOK, DestinationTypeOK, LogTypeOK
<1>0. /\ x \in Deliveries /\ EventOf[x] = id /\ worker' = worker /\ call[x] # "done"
      /\ \A y \in Deliveries \ {x} : call'[y] = call[y]
  BY OneCallMoves DEF DeliveriesOf
<1>1. DeliveriesOf(id)' = DeliveriesOf(id) /\ DeliveriesOf(id) \subseteq Deliveries
  BY DEF DeliveriesOf
<1>2. CASE Receive(x) \/ Deduplicate(x) \/ ResolveEventSet(x)
  <2>1. /\ UNCHANGED <<log, accepted, job, worker>>
        /\ call'[x] \notin {"send", "markSent", "markFailed", "enqueue", "done"}
    BY <1>0, <1>2 DEF Receive, Deduplicate, ResolveEventSet, Resume
  <2>2. Over(id)' <=> Over(id)
    BY <1>0, <1>1, <2>1 DEF Over
  <2> QED
    BY <1>0, <1>1, <2>1, <2>2 DEF Pursuit, Heard, Counted, Logged, FailureMarked, Pursued, JobLive
<1>3. CASE LogDuplicate(x)
  <2>1. /\ UNCHANGED <<accepted, job, worker>> /\ call'[x] \in {"duplicate", "dropped"}
        /\ log' = log \/ Insert(id, "duplicate", "empty")
    BY <1>0, <1>3 DEF LogDuplicate, InsertFails, Resume
  <2>2. \/ log'[id] = log[id]
        \/ ~Logged(id) /\ Logged(id)' /\ log'[id].attempts = 0
    BY <2>1 DEF Insert, Logged
  <2>3. Over(id)' <=> Over(id)
    BY <1>0, <1>1, <2>1 DEF Over
  <2>4. CASE log'[id] = log[id]
    BY <1>0, <1>1, <2>1, <2>3, <2>4
       DEF Pursuit, Heard, Counted, Logged, FailureMarked, Pursued, JobLive
  <2>5. CASE ~Logged(id) /\ Logged(id)' /\ log'[id].attempts = 0
    <3>1. ~Over(id)
      BY <2>5 DEF Over, Pursuit
    <3>2. ~JobLive(id)
      BY <3>1 DEF Orderly, JobLive, LiveStates
    <3>3. \A y \in DeliveriesOf(id) :
             call'[y] \notin {"send", "markSent", "markFailed", "enqueue", "done"}
      BY <1>0, <1>1, <2>1, <2>5 DEF Pursuit
    <3> QED
      BY <1>0, <1>1, <2>1, <2>3, <2>5, <3>1, <3>2, <3>3 DEF Pursuit, Heard, Counted, JobLive
  <2> QED BY <2>2, <2>4, <2>5
<1>4. CASE call[x] \in Admitted /\ ~ResolveEventSet(x)
  \* The one call of the event that is past the check.
  <2>0. /\ ~Over(id) /\ log[id].attempts = 0
        /\ job[id].state = "absent" /\ worker[id] = "idle" /\ ~JobLive(id)
        /\ \A y \in DeliveriesOf(id) \ {x} : call'[y] \notin Admitted \cup {"done"}
    BY <1>0, <1>1, <1>4, AdmittedNotOver DEF Pursuit, Orderly, Entered, JobLive, LiveStates
  <2> USE DEF Resume, Awaits
  <2>1. ASSUME /\ job'[id] = job[id]
               /\ call'[x] \in {"send", "markSent", "markFailed", "enqueue", "done"} => Logged(id)'
               /\ call'[x] = "markSent" => id \in accepted'
               /\ call'[x] \in {"enqueue", "done"} => FailureMarked(id)'
               /\ call'[x] = "done" => id \in accepted'
               /\ log'[id].attempts = 0
        PROVE  Pursuit(id)'
    <3>1. Over(id)' => id \in accepted'
      BY <1>1, <2>0, <2>1 DEF Over
    <3>2. Heard(id)' /\ Counted(id)'
      BY <1>0, <2>0, <2>1 DEF Heard, Counted, JobLive
    <3>3. \A y \in DeliveriesOf(id) :
             /\ call'[y] \in {"send", "markSent", "markFailed", "enqueue", "done"} => Logged(id)'
             /\ call'[y] = "markSent" => id \in accepted'
             /\ call'[y] \in {"enqueue", "done"} => FailureMarked(id)'
      BY <2>0, <2>1 DEF Admitted
    <3> QED BY <1>1, <2>1, <3>1, <3>2, <3>3 DEF Pursuit, Pursued
  <2>2. CASE InsertPending(x)
    <3>1. call'[x] = "send" => Logged(id)'
      BY <1>0, <2>2 DEF InsertPending, Insert, Logged
    <3>2. log'[id].attempts = 0
      BY <1>0, <2>0, <2>2, InsertEffect DEF InsertPending, InsertFails, EventStatus, Payloads
    <3>3. job' = job /\ call'[x] \in {"send", "dropped"}
      BY <1>0, <2>2 DEF InsertPending
    <3> QED BY <2>1, <3>1, <3>2, <3>3
  <2>3. CASE SendEvents(x)
    <3>1. UNCHANGED <<log, job>> /\ Logged(id)
      BY <1>0, <2>3 DEF SendEvents, Pursuit
    <3>2. \/ call'[x] = "markSent" /\ id \in accepted'
          \/ call'[x] = "markFailed"
      BY <1>0, <2>3 DEF SendEvents, Resolves
    <3> QED BY <2>0, <2>1, <3>1, <3>2 DEF Logged
  <2>4. CASE MarkSent(x)
    <3>1. /\ UNCHANGED <<accepted, job>> /\ id \in accepted /\ call'[x] = "done"
          /\ log' = [log EXCEPT ![id].status = "sent"]
      BY <1>0, <2>4 DEF MarkSent, UpdateStatus, Pursuit, Without, Logged
    <3>2. log'[id].attempts = 0 /\ Logged(id)'
      BY <2>0, <3>1 DEF Rows, Logged
    <3> QED BY <2>1, <3>1, <3>2 DEF FailureMarked
  <2>5. CASE MarkFailed(x)
    <3>1. /\ UNCHANGED <<accepted, job>> /\ call'[x] = "enqueue"
          /\ log' = [log EXCEPT ![id].status = "failed"]
      BY <1>0, <2>5 DEF MarkFailed, UpdateStatus, Pursuit, Without, Logged
    <3>2. log'[id].attempts = 0 /\ log'[id].status = "failed"
      BY <2>0, <3>1 DEF Rows
    <3> QED BY <2>1, <3>1, <3>2 DEF FailureMarked, Logged
  <2>6. CASE EnqueueOutbound(x)
    <3>1. /\ UNCHANGED <<log, accepted>> /\ call'[x] = "done"
          /\ job'[id] = [state |-> "waiting", made |-> 0, stalls |-> 0]
      BY <1>0, <2>0, <2>6 DEF EnqueueOutbound, Enqueue, NoJob, Without
    <3>2. JobLive(id)' /\ Counted(id)' /\ Heard(id)'
      BY <1>0, <2>0, <3>1, RetryAssumption DEF JobLive, LiveStates, Counted, Heard
    <3>3. Logged(id)' /\ FailureMarked(id)'
      BY <1>0, <2>6, <3>1 DEF EnqueueOutbound, Pursuit, Logged, FailureMarked
    <3>4. \A y \in DeliveriesOf(id) \ {x} : call'[y] \notin Admitted \cup {"done"}
      BY <2>0
    <3>5. Over(id)'
      BY <1>0, <1>1, <3>1 DEF Over
    <3> QED BY <1>0, <1>1, <3>1, <3>2, <3>3, <3>4, <3>5 DEF Pursuit, Pursued, Admitted
  <2>7. ~Receive(x) /\ ~Deduplicate(x) /\ ~LogDuplicate(x)
    BY <1>4 DEF Receive, Deduplicate, LogDuplicate, Admitted
  <2> QED BY <1>4, <2>2, <2>3, <2>4, <2>5, <2>6, <2>7 DEF CallStep
<1>5. InsertPending(x) \/ SendEvents(x) \/ MarkSent(x) \/ MarkFailed(x) \/ EnqueueOutbound(x)
         => call[x] \in Admitted /\ ~ResolveEventSet(x)
  BY DEF InsertPending, SendEvents, MarkSent, MarkFailed, EnqueueOutbound, ResolveEventSet,
     Awaits, Admitted
<1> QED BY <1>2, <1>3, <1>4, <1>5 DEF CallStep

LEMMA PursuitStep ==
    ASSUME TypeOK, SoleEntrant, Without({"update", "redis", "ttl", "crash"}), [Next]_vars,
           NEW id \in EventIds, Orderly(id), Pursuit(id)
    PROVE  Pursuit(id)'
<1>0. DeliveriesOf(id)' = DeliveriesOf(id)
  BY DEF DeliveriesOf
<1>1. CASE CallsStill(id)
  <2>0. Over(id)' <=> Over(id)
    BY <1>0, <1>1 DEF CallsStill, Over
  <2>1. CASE Untouched(id)
    BY <1>0, <1>1, <2>0, <2>1 DEF CallsStill, Untouched, Pursuit, Heard, Counted, Logged,
       FailureMarked, Pursued, JobLive
  <2>2. CASE QueueAction(id)
    <3>1. Over(id)
      BY <2>2, QueueNeedsJob DEF Orderly
    <3>2. PICK x \in DeliveriesOf(id) : call[x] = "done"
      BY <3>1 DEF Over
    <3>3. Heard(id) /\ Counted(id) /\ Pursued(id) /\ Logged(id) /\ FailureMarked(id)
      BY <3>1, <3>2 DEF Pursuit
    <3>4. Heard(id)' /\ Counted(id)' /\ Pursued(id)' /\ Logged(id)'
      BY <2>2, <3>3, QueueCounts DEF Orderly, StoresTypeOK, TypeOK, Without
    <3>5. FailureMarked(id)'
      BY <2>2, <3>3, QueueFailureMarked DEF StoresTypeOK, TypeOK, Without
    <3>6. id \in accepted => id \in accepted'
      BY <2>2 DEF QueueAction, WorkerStep, PickJob, CountAttempt, SendJob, Resolves, Rejects,
         MarkJobSent, CompleteJob, FailJob, OnFailed, BackoffElapsed, RequeueStalled,
         ReportLost, TrimJob
    <3> QED BY <1>0, <1>1, <2>0, <3>1, <3>4, <3>5, <3>6 DEF Pursuit, CallsStill
  <2>3. Untouched(id) \/ QueueAction(id) \/ \E x \in DeliveriesOf(id) : Receive(x) \/ CallStep(x)
    BY StepsApart DEF Without
  <2> QED BY <2>1, <2>2, <2>3, PursuitOfCalls
<1>2. CASE ~CallsStill(id)
  BY <1>2, StepsApart, PursuitOfCalls DEF Without
<1> QED BY <1>1, <1>2

PursuitInv == \A id \in EventIds : Pursuit(id)

LEMMA PursuitInvariant ==
    ASSUME Without({"update", "redis", "ttl", "crash"}) PROVE Spec => []PursuitInv
<1>1. Init => PursuitInv
  BY DEF Init, LogInit, NoRow, QueueInit, NoJob, PursuitInv, Pursuit, Heard, Counted, JobLive,
     LiveStates, Over, DeliveriesOf
<1>2. TypeOK /\ SoleEntrant /\ OrderlyInv /\ PursuitInv /\ [Next]_vars => PursuitInv'
  BY PursuitStep DEF PursuitInv, OrderlyInv
<1>3. Spec => []SoleEntrant /\ []OrderlyInv
  BY SoleEntrantInvariant, OrderlyInvariant DEF Without
<1> QED BY <1>1, <1>2, <1>3, OutboundTypes, PTL DEF Spec

\* An event that went through a call and is neither sent nor being retried has
\* used up every attempt of the queue.
THEOREM OutboundGivesUpExhausted ==
    ASSUME Without({"update", "redis", "ttl", "crash"})
    PROVE  Spec => []GivesUpOnlyWhenExhausted
<1>1. PursuitInv => GivesUpOnlyWhenExhausted
  BY DEF PursuitInv, Pursuit, GivesUpOnlyWhenExhausted, Settled, Pursued, Over
<1> QED BY <1>1, PursuitInvariant, PTL

-----------------------------------------------------------------------------

Truthful(id) ==
    /\ id \in accepted => \E x \in DeliveriesOf(id) : call[x] \in {"markSent", "done"}
    /\ Over(id) => SuccessMarked(id)

LEMMA TruthfulStep ==
    ASSUME TypeOK, SoleEntrant, Without({"update", "reply", "redis", "ttl", "crash"}),
           [Next]_vars, NEW id \in EventIds, Orderly(id), Pursuit(id), Truthful(id)
    PROVE  Truthful(id)'
<1> USE DEF TypeOK, DestinationTypeOK
<1>0. DeliveriesOf(id)' = DeliveriesOf(id) /\ DeliveriesOf(id) \subseteq Deliveries
  BY DEF DeliveriesOf
<1>1. CASE Untouched(id) /\ CallsStill(id)
  BY <1>0, <1>1 DEF Untouched, CallsStill, Truthful, Over, SuccessMarked
<1>2. CASE QueueAction(id) /\ CallsStill(id)
  <2>1. PICK x \in DeliveriesOf(id) : call[x] = "done"
    BY <1>2, QueueNeedsJob DEF Orderly, Over
  <2>2. SuccessMarked(id)'
    BY <1>2, <2>1, QueueSuccessMarked
       DEF Orderly, Pursuit, Truthful, Over, StoresTypeOK, Without
  <2> QED BY <1>0, <1>2, <2>1, <2>2 DEF CallsStill, Truthful
<1>3. ASSUME NEW x \in DeliveriesOf(id), Receive(x) \/ CallStep(x) PROVE Truthful(id)'
  <2>0. /\ x \in Deliveries /\ EventOf[x] = id /\ worker' = worker /\ call[x] # "done"
        /\ \A y \in Deliveries \ {x} : call'[y] = call[y]
    BY <1>3, OneCallMoves DEF DeliveriesOf
  <2> USE DEF Resume, Awaits
  <2>1. CASE /\ Receive(x) \/ Deduplicate(x) \/ LogDuplicate(x) \/ ResolveEventSet(x)
                \/ InsertPending(x)
    <3>1. accepted' = accepted /\ call'[x] # "done" /\ call[x] # "markSent"
      BY <2>0, <2>1 DEF Receive, Deduplicate, LogDuplicate, ResolveEventSet, InsertPending
    <3>2. log[id].status = "sent" => log'[id].status = "sent"
      BY OrderlyStep DEF Without
    <3> QED BY <1>0, <2>0, <3>1, <3>2 DEF Truthful, Over, SuccessMarked
  <2>2. CASE SendEvents(x)
    <3>1. ~Over(id)
      BY <2>2, AdmittedNotOver DEF SendEvents, Admitted
    <3>2. /\ call'[x] # "done" /\ call[x] = "send"
          /\ accepted' = accepted \/ call'[x] = "markSent"
      BY <2>0, <2>2 DEF SendEvents, Rejects, Without
    <3> QED BY <1>0, <2>0, <3>1, <3>2 DEF Truthful, Over
  <2>3. CASE MarkSent(x)
    <3>1. log' = [log EXCEPT ![id].status = "sent"]
      BY <2>0, <2>3 DEF MarkSent, UpdateStatus, Pursuit, Without
    <3>2. log'[id].status = "sent" /\ call'[x] = "done"
      BY <2>0, <2>3, <3>1 DEF MarkSent, LogTypeOK, Rows
    <3> QED BY <1>0, <3>2 DEF Truthful, SuccessMarked
  <2>4. CASE MarkFailed(x) \/ EnqueueOutbound(x)
    <3>1. call[x] \in Admitted /\ call[x] # "markSent" /\ accepted' = accepted
      BY <2>4 DEF MarkFailed, EnqueueOutbound, Admitted
    <3>2. id \notin accepted
      BY <3>1, AdmittedNotOver DEF Truthful, Entered, Admitted
    <3> QED BY <3>1, <3>2 DEF Truthful, SuccessMarked
  <2> QED BY <1>3, <2>1, <2>2, <2>3, <2>4 DEF CallStep
<1> QED BY <1>1, <1>2, <1>3, StepsApart DEF Without

TruthfulInv == \A id \in EventIds : Truthful(id)

\* An event that went through the pipeline and to which nothing more happens
\* reads 'sent' exactly if TikTok has it, whatever duplicates were logged.
THEOREM OutboundSettledLogIsTruthful ==
    ASSUME Without({"update", "reply", "redis", "ttl", "crash"})
    PROVE  Spec => []SettledLogIsTruthful
<1>1. Init => TruthfulInv
  BY DEF Init, DestinationInit, TruthfulInv, Truthful, Over, DeliveriesOf
<1>2. TypeOK /\ SoleEntrant /\ OrderlyInv /\ PursuitInv /\ TruthfulInv /\ [Next]_vars
         => TruthfulInv'
  BY TruthfulStep DEF OrderlyInv, PursuitInv, TruthfulInv
<1>3. PursuitInv /\ TruthfulInv => SettledLogIsTruthful
  BY DEF PursuitInv, Pursuit, TruthfulInv, Truthful, SettledLogIsTruthful, Settled, Over,
     FailureMarked, SuccessMarked, At
<1>4. Spec => []SoleEntrant /\ []OrderlyInv /\ []PursuitInv
  BY SoleEntrantInvariant, OrderlyInvariant, PursuitInvariant DEF Without
<1> QED BY <1>1, <1>2, <1>3, <1>4, OutboundTypes, PTL DEF Spec

=============================================================================
