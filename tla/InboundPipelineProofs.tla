----------------------- MODULE InboundPipelineProofs -----------------------
(***************************************************************************)
(* Theorems about InboundPipeline, for every set of deliveries and leads,  *)
(* every assignment of leads to deliveries, every number of attempts,      *)
(* stalls and crashes, and every set of faults; the last of them is that   *)
(* it implements AtMostOnceDelivery.                                       *)
(***************************************************************************)
EXTENDS InboundPipeline, RetryQueueProofs

-----------------------------------------------------------------------------
(* Type correctness *)

\* Every variable keeps its type: rows, jobs, stages of calls and workers.
THEOREM TypeCorrect == Spec => []TypeOK
<1>1. Init => TypeOK
  BY InboundAssumption DEF Init, TypeOK, LogInit, LogTypeOK, Rows, NoRow, DestinationInit,
     DestinationTypeOK, QueueInit, QueueTypeOK, Jobs, JobStates, NoJob, WorkerStages,
     DedupInit, DedupTypeOK, CallStages
<1>2. TypeOK /\ [Next]_vars => TypeOK'
  <2> SUFFICES ASSUME TypeOK, [Next]_vars PROVE TypeOK'
    OBVIOUS
  <2> USE DEF TypeOK, DestinationTypeOK, QueueTypeOK, DedupTypeOK
  <2>1. ASSUME NEW d \in EventIds, Receive(d) PROVE TypeOK'
    BY <2>1 DEF Receive, Resume, CallStages, Running, LogTypeOK
  <2>2. ASSUME NEW d \in EventIds, Deduplicate(d) PROVE TypeOK'
    <3>1. call' \in [EventIds -> CallStages]
      BY <2>2 DEF Deduplicate, Resume, CallStages, Running, Admitted, Resolved
    <3>2. DedupTypeOK'
      BY <2>2, InboundAssumption DEF Deduplicate, IsDuplicate, IsNew, Claim, FailOpen,
         AlreadyClaimed, ClaimResent, dedupVars
    <3> QED
      BY <2>2, <3>1, <3>2 DEF Deduplicate, LogTypeOK
  <2>3. ASSUME NEW d \in EventIds, UpsertProfile(d) PROVE TypeOK'
    BY <2>3 DEF UpsertProfile, Resume, CallStages, Running, Admitted, LogTypeOK
  <2>4. ASSUME NEW d \in EventIds, InsertPending(d) PROVE TypeOK'
    <3>1. LogTypeOK'
      BY <2>4, InsertType DEF InsertPending, InsertFails, EventStatus, Payloads, LogTypeOK
    <3> QED
      BY <2>4, <3>1 DEF InsertPending, Resume, CallStages, Running, Admitted, Resolved
  <2>5. ASSUME NEW d \in EventIds, CreateEvent(d) PROVE TypeOK'
    BY <2>5 DEF CreateEvent, Resolves, Rejects, Resume, CallStages, Running, Admitted, LogTypeOK
  <2>6. ASSUME NEW d \in EventIds, MarkSent(d) PROVE TypeOK'
    <3>1. LogTypeOK'
      BY <2>6, UpdateStatusType DEF MarkSent, EventStatus
    <3> QED
      BY <2>6, <3>1 DEF MarkSent, Resume, CallStages, Resolved
  <2>7. ASSUME NEW d \in EventIds, MarkFailed(d) PROVE TypeOK'
    <3>1. LogTypeOK'
      BY <2>7, UpdateStatusType DEF MarkFailed, EventStatus
    <3> QED
      BY <2>7, <3>1 DEF MarkFailed, Resume, CallStages, Running, Admitted
  <2>8. ASSUME NEW d \in EventIds, EnqueueInbound(d) PROVE TypeOK'
    <3>1. job' \in [EventIds -> Jobs]
      BY <2>8, EnqueueType DEF EnqueueInbound
    <3> QED
      BY <2>8, <3>1 DEF EnqueueInbound, Resume, CallStages, Resolved, LogTypeOK
  <2>9. ASSUME NEW d \in EventIds, QueueStep(d) \/ QueueTrouble(d) PROVE TypeOK'
    <3>1. StoresTypeOK'
      BY <2>9, QueueTypes DEF StoresTypeOK, QueueStep, QueueTrouble, QueueAction
    <3> QED
      BY <2>9, <3>1 DEF QueueStep, QueueTrouble, StoresTypeOK
  <2>10. ASSUME NEW lead \in Keys, Expire(lead) PROVE TypeOK'
    BY <2>10 DEF Expire, ExpireKey, LogTypeOK
  <2>11. CASE Crash
    BY <2>11, InboundAssumption DEF Crash, Die, KillWorkers, CallStages, WorkerStages, LogTypeOK
  <2>12. CASE UNCHANGED vars
    BY <2>12 DEF vars, LogTypeOK
  <2> QED
    BY <2>1, <2>2, <2>3, <2>4, <2>5, <2>6, <2>7, <2>8, <2>9, <2>10, <2>11, <2>12
       DEF Next, UpNext, CallStep
<1> QED
  BY <1>1, <1>2, PTL DEF Spec

-----------------------------------------------------------------------------
(* 'sent' is written only after the send: the stage that writes it is       *)
(* reached through a resolved call alone.                                   *)

SentInv ==
    /\ SentMeansDelivered
    /\ \A d \in EventIds : call[d] = "markSent" => d \in accepted
    /\ \A d \in EventIds : worker[d] = "mark" => d \in accepted

\* No row claims a delivery that Klaviyo does not have.
THEOREM SentIsDelivered == Spec => []SentMeansDelivered
<1> USE DEF SentInv, SentMeansDelivered
<1>1. Init => SentInv
  BY DEF Init, LogInit, NoRow, QueueInit
<1>2. TypeOK /\ SentInv /\ [Next]_vars => SentInv'
  <2> SUFFICES ASSUME TypeOK, SentInv, [Next]_vars PROVE SentInv'
    OBVIOUS
  <2> USE DEF TypeOK, DestinationTypeOK, QueueTypeOK
  <2>1. ASSUME NEW d \in EventIds, Receive(d) PROVE SentInv'
    BY <2>1 DEF Receive, Resume
  <2>2. ASSUME NEW d \in EventIds, Deduplicate(d) PROVE SentInv'
    BY <2>2 DEF Deduplicate, Resume
  <2>3. ASSUME NEW d \in EventIds, UpsertProfile(d) PROVE SentInv'
    BY <2>3 DEF UpsertProfile, Resume
  <2>4. ASSUME NEW d \in EventIds, InsertPending(d) PROVE SentInv'
    <3>1. \A e \in EventIds : log'[e].status = "sent" => log[e].status = "sent"
      BY <2>4, InsertEffect DEF InsertPending, InsertFails, EventStatus, Payloads
    <3> QED
      BY <2>4, <3>1 DEF InsertPending, Resume
  <2>5. ASSUME NEW d \in EventIds, CreateEvent(d) PROVE SentInv'
    BY <2>5 DEF CreateEvent, Resolves, Rejects, Resume
  <2>6. ASSUME NEW d \in EventIds, MarkSent(d) PROVE SentInv'
    <3>1. \A e \in EventIds : log'[e].status = "sent" => log[e].status = "sent" \/ e = d
      BY <2>6, UpdateStatusEffect DEF MarkSent, EventStatus
    <3> QED
      BY <2>6, <3>1 DEF MarkSent, Awaits, Resume
  <2>7. ASSUME NEW d \in EventIds, MarkFailed(d) PROVE SentInv'
    <3>1. \A e \in EventIds : log'[e].status = "sent" => log[e].status = "sent"
      BY <2>7, UpdateStatusEffect DEF MarkFailed, EventStatus
    <3> QED
      BY <2>7, <3>1 DEF MarkFailed, Resume
  <2>8. ASSUME NEW d \in EventIds, EnqueueInbound(d) PROVE SentInv'
    BY <2>8 DEF EnqueueInbound, Resume
  <2>9. ASSUME NEW d \in EventIds, QueueStep(d) \/ QueueTrouble(d) PROVE SentInv'
    <3>1. RowsSent' /\ WorkersSent' /\ accepted \subseteq accepted'
      BY <2>9, QueueSent DEF RowsSent, WorkersSent, StoresTypeOK, QueueStep, QueueTrouble, QueueAction
    <3> QED
      BY <2>9, <3>1 DEF RowsSent, WorkersSent, QueueStep, QueueTrouble
  <2>10. ASSUME NEW lead \in Keys, Expire(lead) PROVE SentInv'
    BY <2>10 DEF Expire
  <2>11. CASE Crash
    BY <2>11 DEF Crash, Die, KillWorkers
  <2>12. CASE UNCHANGED vars
    BY <2>12 DEF vars
  <2> QED
    BY <2>1, <2>2, <2>3, <2>4, <2>5, <2>6, <2>7, <2>8, <2>9, <2>10, <2>11, <2>12
       DEF Next, UpNext, CallStep
<1> QED
  BY <1>1, <1>2, TypeCorrect, PTL DEF Spec

-----------------------------------------------------------------------------
(* The queue: a processor runs on an active job only, and nothing of the    *)
(* queue is there for a delivery before its call has added the job.         *)

QueueInv ==
    /\ \A d \in EventIds : worker[d] \in Processing => job[d].state = "active"
    /\ \A d \in EventIds : call[d] \in {"unborn"} \cup Running =>
          /\ job[d].state = "absent"
          /\ log[d].attempts = 0

LEMMA QueueInvariant == Spec => []QueueInv
<1> USE DEF QueueInv
<1>1. Init => QueueInv
  BY DEF Init, LogInit, NoRow, QueueInit, NoJob, Processing
<1>2. TypeOK /\ QueueInv /\ [Next]_vars => QueueInv'
  <2> SUFFICES ASSUME TypeOK, QueueInv, [Next]_vars PROVE QueueInv'
    OBVIOUS
  <2> USE DEF TypeOK, QueueTypeOK, Jobs, Running, Admitted, Processing
  <2>1. ASSUME NEW d \in EventIds,
               Receive(d) \/ Deduplicate(d) \/ UpsertProfile(d) \/ CreateEvent(d)
        PROVE QueueInv'
    BY <2>1 DEF Receive, Deduplicate, UpsertProfile, CreateEvent, Awaits, Resume
  <2>2. ASSUME NEW d \in EventIds, InsertPending(d) PROVE QueueInv'
    <3>1. \A e \in EventIds : log'[e].attempts = log[e].attempts \/ log'[e].attempts = 0
      BY <2>2, InsertEffect DEF InsertPending, InsertFails, EventStatus, Payloads
    <3> QED
      BY <2>2, <3>1 DEF InsertPending, Awaits, Resume
  <2>3. ASSUME NEW d \in EventIds, MarkSent(d) \/ MarkFailed(d) PROVE QueueInv'
    <3>1. \A e \in EventIds : log'[e].attempts = log[e].attempts
      BY <2>3, UpdateStatusEffect DEF MarkSent, MarkFailed, EventStatus
    <3> QED
      BY <2>3, <3>1 DEF MarkSent, MarkFailed, Awaits, Resume
  <2>4. ASSUME NEW d \in EventIds, EnqueueInbound(d) PROVE QueueInv'
    BY <2>4 DEF EnqueueInbound, Enqueue, NoJob, Awaits, Resume
  <2>5. ASSUME NEW d \in EventIds, WorkerStep(d),
               UNCHANGED <<claimed, lapsed, call, crashes>>
        PROVE QueueInv'
    <3>1. CASE PickJob(d) \/ SendJob(d) \/ CompleteJob(d) \/ FailJob(d)
      BY <2>5, <3>1 DEF PickJob, SendJob, CompleteJob, FailJob, At, Goto
    <3>2. CASE CountAttempt(d)
      <4>1. \A e \in EventIds : e # d => log'[e].attempts = log[e].attempts
        BY <3>2, IncrementAttemptEffect DEF CountAttempt
      <4> QED
        BY <2>5, <3>2, <4>1 DEF CountAttempt, At, Goto
    <3>3. CASE MarkJobSent(d) \/ OnFailed(d)
      <4>1. \A e \in EventIds : log'[e].attempts = log[e].attempts
        BY <3>3, UpdateStatusEffect DEF MarkJobSent, OnFailed, EventStatus
      <4> QED
        BY <2>5, <3>3, <4>1 DEF MarkJobSent, OnFailed, At, Goto
    <3> QED
      BY <2>5, <3>1, <3>2, <3>3 DEF WorkerStep
  <2>6. ASSUME NEW d \in EventIds, BackoffElapsed(d) \/ RequeueStalled(d),
               UNCHANGED <<claimed, lapsed, call, crashes>>
        PROVE QueueInv'
    BY <2>6 DEF BackoffElapsed, RequeueStalled, At
  <2>7. ASSUME NEW d \in EventIds, QueueTrouble(d) PROVE QueueInv'
    BY <2>7 DEF QueueTrouble, ReportLost, TrimJob, NoJob, Goto
  <2>8. ASSUME NEW lead \in Keys, Expire(lead) PROVE QueueInv'
    BY <2>8 DEF Expire
  <2>9. CASE Crash
    BY <2>9 DEF Crash, Die, KillWorkers
  <2>10. CASE UNCHANGED vars
    BY <2>10 DEF vars
  <2> QED
    BY <2>1, <2>2, <2>3, <2>4, <2>5, <2>6, <2>7, <2>8, <2>9, <2>10
       DEF Next, UpNext, CallStep, QueueStep
<1> QED
  BY <1>1, <1>2, TypeCorrect, PTL DEF Spec

-----------------------------------------------------------------------------
(* The count of attempts.  A live job has spent made + stalls runs before    *)
(* the present one, and the log has counted no more than those and it.       *)

CurrentRun(d) == IF job[d].state = "active" /\ worker[d] # "increment" THEN 1 ELSE 0

CountInv ==
    /\ AttemptsBounded
    /\ \A d \in EventIds : JobLive(d) =>
          /\ job[d].made < Attempts
          /\ job[d].stalls <= MaxStalls
          /\ log[d].attempts <= job[d].made + job[d].stalls + CurrentRun(d)

\* However often workers die or Redis refuses their reports, the log never
\* counts more attempts than the options of the queue grant.
THEOREM AttemptsAreBounded == Spec => []AttemptsBounded
<1> USE RetryAssumption DEF CountInv, AttemptsBounded, JobLive, LiveStates, CurrentRun
<1>1. Init => CountInv
  BY DEF Init, LogInit, NoRow, QueueInit, NoJob
<1>2. TypeOK /\ QueueInv /\ CountInv /\ [Next]_vars => CountInv'
  <2> SUFFICES ASSUME TypeOK, QueueInv, CountInv, [Next]_vars PROVE CountInv'
    OBVIOUS
  <2> USE DEF TypeOK, QueueTypeOK, Jobs, Rows
  <2>0. /\ \A e \in EventIds : log[e].attempts \in Nat
        /\ \A e \in EventIds : job[e].made \in Nat /\ job[e].stalls \in Nat
    BY DEF LogTypeOK
  <2>1. ASSUME NEW d \in EventIds,
               Receive(d) \/ Deduplicate(d) \/ UpsertProfile(d) \/ CreateEvent(d)
        PROVE CountInv'
    BY <2>1 DEF Receive, Deduplicate, UpsertProfile, CreateEvent
  <2>2. ASSUME NEW d \in EventIds, InsertPending(d) PROVE CountInv'
    <3>1. \A e \in EventIds : log'[e].attempts = log[e].attempts \/ log'[e].attempts = 0
      BY <2>2, InsertEffect DEF InsertPending, InsertFails, EventStatus, Payloads
    <3> QED
      BY <2>0, <2>2, <3>1 DEF InsertPending
  <2>3. ASSUME NEW d \in EventIds, MarkSent(d) \/ MarkFailed(d) PROVE CountInv'
    <3>1. \A e \in EventIds : log'[e].attempts = log[e].attempts
      BY <2>3, UpdateStatusEffect DEF MarkSent, MarkFailed, EventStatus
    <3> QED
      BY <2>3, <3>1 DEF MarkSent, MarkFailed
  <2>4. ASSUME NEW d \in EventIds, EnqueueInbound(d) PROVE CountInv'
    <3>1. log[d].attempts = 0 /\ job[d].state = "absent"
      BY <2>4 DEF EnqueueInbound, Awaits, QueueInv, Running, Admitted
    <3> QED
      BY <2>0, <2>4, <3>1 DEF EnqueueInbound, Enqueue, NoJob
  <2>5. ASSUME NEW d \in EventIds, WorkerStep(d) PROVE CountInv'
    <3>1. CASE PickJob(d)
      BY <2>0, <3>1 DEF PickJob, Goto
    <3>2. CASE CountAttempt(d)
      <4>1. \A e \in EventIds :
               \/ log'[e].attempts = log[e].attempts
               \/ e = d /\ log'[e].attempts = log[e].attempts + 1
        BY <3>2, IncrementAttemptEffect DEF CountAttempt
      <4>2. JobLive(d) /\ job[d].state = "active" /\ worker[d] = "increment"
        BY <3>2 DEF CountAttempt, At, QueueInv, Processing
      <4>3. \A e \in EventIds : e # d => worker'[e] = worker[e]
        BY <3>2 DEF CountAttempt, Goto
      <4>4. worker'[d] = "send" /\ job' = job
        BY <3>2 DEF CountAttempt, Goto
      <4>5. log'[d].attempts <= job[d].made + job[d].stalls + 1
        BY <2>0, <4>1, <4>2
      <4>6. log'[d].attempts <= Attempts + MaxStalls
        <5>1. job[d].made + 1 <= Attempts /\ job[d].stalls <= MaxStalls
          BY <2>0, <4>2
        <5>2. log'[d].attempts \in Nat
          BY <2>0, <4>1
        <5> HIDE DEF CountInv, AttemptsBounded, TypeOK, JobLive
        <5> QED
          BY <2>0, <4>5, <5>1, <5>2
      <4> QED
        BY <2>0, <4>1, <4>2, <4>3, <4>4, <4>5, <4>6
    <3>3. CASE SendJob(d)
      BY <2>0, <3>3 DEF SendJob, At, Goto
    <3>4. CASE MarkJobSent(d) \/ OnFailed(d)
      <4>1. \A e \in EventIds : log'[e].attempts = log[e].attempts
        BY <3>4, UpdateStatusEffect DEF MarkJobSent, OnFailed, EventStatus
      <4> QED
        BY <2>0, <3>4, <4>1 DEF MarkJobSent, OnFailed, At, Goto
    <3>5. CASE CompleteJob(d) \/ FailJob(d)
      BY <2>0, <3>5 DEF CompleteJob, FailJob, At, Goto, QueueInv, Processing
    <3> QED
      BY <2>5, <3>1, <3>2, <3>3, <3>4, <3>5 DEF WorkerStep
  <2>6. ASSUME NEW d \in EventIds, BackoffElapsed(d) \/ RequeueStalled(d) PROVE CountInv'
    BY <2>0, <2>6 DEF BackoffElapsed, RequeueStalled, At
  <2>7. ASSUME NEW d \in EventIds, QueueTrouble(d) PROVE CountInv'
    BY <2>0, <2>7 DEF QueueTrouble, ReportLost, TrimJob, NoJob, Goto, QueueInv, Processing
  <2>8. ASSUME NEW lead \in Keys, Expire(lead) PROVE CountInv'
    BY <2>8 DEF Expire
  <2>9. CASE Crash
    BY <2>0, <2>9 DEF Crash, Die, KillWorkers
  <2>10. CASE UNCHANGED vars
    BY <2>10 DEF vars
  <2> QED
    BY <2>1, <2>2, <2>3, <2>4, <2>5, <2>6, <2>7, <2>8, <2>9, <2>10
       DEF Next, UpNext, CallStep, QueueStep
<1> QED
  BY <1>1, <1>2, TypeCorrect, QueueInvariant, PTL DEF Spec

-----------------------------------------------------------------------------
(* Deduplication.  A delivery that may still reach Klaviyo, or has, holds   *)
(* its lead: only an answer "new" of the deduplicator lets it in, and that  *)
(* answer needs a free key, which a lead that is held and has not lapsed    *)
(* does not have.                                                           *)

Holds(d) ==
    \/ call[d] \in Admitted \cup {"done", "dropped"}
    \/ job[d].state # "absent"
    \/ d \in accepted

HoldersClaim == \A d \in EventIds : Holds(d) => LeadOf[d] \in claimed \cup lapsed

SoleHolder == \A d, e \in EventIds :
                 LeadOf[d] = LeadOf[e] /\ Holds(d) /\ Holds(e)
                    => d = e \/ LeadOf[d] \in lapsed

DedupInv == HoldersClaim /\ SoleHolder

\* Apart from the check itself no step lets a delivery in, and no step frees
\* the lead of one that is in without recording the lapse.
LEMMA OnlyTheCheckAdmits ==
    ASSUME TypeOK, QueueInv, [Next]_vars, ~ \E d \in EventIds : Deduplicate(d)
    PROVE  /\ \A d \in EventIds : Holds(d)' => Holds(d)
           /\ claimed \cup lapsed \subseteq claimed' \cup lapsed'
           /\ lapsed \subseteq lapsed'
<1> DEFINE Goal == /\ \A d \in EventIds : Holds(d)' => Holds(d)
                   /\ claimed \cup lapsed \subseteq claimed' \cup lapsed'
                   /\ lapsed \subseteq lapsed'
<1> SUFFICES Goal
  OBVIOUS
<1> USE DEF TypeOK, QueueTypeOK, DestinationTypeOK, Holds, Admitted
<1>1. ASSUME NEW d \in EventIds, Receive(d) PROVE Goal
  BY <1>1 DEF Receive, Awaits, Resume
<1>2. ASSUME NEW d \in EventIds, UpsertProfile(d) \/ InsertPending(d) PROVE Goal
  BY <1>2 DEF UpsertProfile, InsertPending, Awaits, Resume
<1>3. ASSUME NEW d \in EventIds, CreateEvent(d) PROVE Goal
  BY <1>3 DEF CreateEvent, Resolves, Rejects, Awaits, Resume
<1>4. ASSUME NEW d \in EventIds, MarkSent(d) \/ MarkFailed(d) PROVE Goal
  BY <1>4 DEF MarkSent, MarkFailed, Awaits, Resume
<1>5. ASSUME NEW d \in EventIds, EnqueueInbound(d) PROVE Goal
  BY <1>5 DEF EnqueueInbound, Enqueue, Awaits, Resume
<1>6. ASSUME NEW d \in EventIds, QueueStep(d) PROVE Goal
  <2>1. CASE SendJob(d)
    <3>1. job[d].state = "active"
      BY <2>1 DEF SendJob, At, QueueInv, Processing
    <3> QED
      BY <1>6, <2>1, <3>1 DEF QueueStep, SendJob, Resolves, Rejects
  <2>2. CASE PickJob(d) \/ CompleteJob(d) \/ FailJob(d)
    <3>1. job[d].state # "absent"
      BY <2>2 DEF PickJob, CompleteJob, FailJob, At, QueueInv, Processing
    <3> QED
      BY <1>6, <2>2, <3>1 DEF QueueStep, PickJob, CompleteJob, FailJob
  <2>3. CASE CountAttempt(d) \/ MarkJobSent(d) \/ OnFailed(d)
    BY <1>6, <2>3 DEF QueueStep, CountAttempt, MarkJobSent, OnFailed
  <2>4. CASE BackoffElapsed(d) \/ RequeueStalled(d)
    BY <1>6, <2>4 DEF QueueStep, BackoffElapsed, RequeueStalled
  <2> QED
    BY <1>6, <2>1, <2>2, <2>3, <2>4 DEF QueueStep, WorkerStep
<1>7. ASSUME NEW d \in EventIds, QueueTrouble(d) PROVE Goal
  BY <1>7 DEF QueueTrouble, ReportLost, TrimJob, NoJob
<1>8. ASSUME NEW lead \in Keys, Expire(lead) PROVE Goal
  BY <1>8 DEF Expire, ExpireKey
<1>9. CASE Crash
  BY <1>9 DEF Crash, Die, Running
<1>10. CASE UNCHANGED vars
  BY <1>10 DEF vars
<1> QED
  BY <1>1, <1>2, <1>3, <1>4, <1>5, <1>6, <1>7, <1>8, <1>9, <1>10 DEF Next, UpNext, CallStep

\* The check admits the delivery it is made for, and no other.
LEMMA CheckAdmitsOne ==
    ASSUME TypeOK, NEW d \in EventIds, Deduplicate(d)
    PROVE  /\ \A e \in EventIds \ {d} : Holds(e)' => Holds(e)
           /\ claimed \cup lapsed \subseteq claimed' \cup lapsed'
           /\ lapsed \subseteq lapsed'
           /\ Holds(d)' => \/ Holds(d)
                           \/ LeadOf[d] \in lapsed'
                           \/ LeadOf[d] \notin claimed /\ LeadOf[d] \in claimed'
<1> USE DEF TypeOK, DedupTypeOK, Holds, Admitted
<1>1. CASE IsDuplicate(LeadOf[d]) /\ Resume(d, "duplicate")
  BY <1>1 DEF Deduplicate, IsDuplicate, AlreadyClaimed, ClaimResent, Claim, dedupVars, Resume
<1>2. CASE /\ IsNew(LeadOf[d])
           /\ call' \in {[call EXCEPT ![d] = "dropped"], [call EXCEPT ![d] = "upsert"]}
  BY <1>2 DEF Deduplicate, IsNew, Claim, FailOpen
<1> QED
  BY <1>1, <1>2 DEF Deduplicate, Resume

LEMMA DedupInvariant == Spec => []DedupInv
<1> USE DEF DedupInv, HoldersClaim, SoleHolder
<1>1. Init => DedupInv
  BY DEF Init, Holds, Admitted, DestinationInit, QueueInit, NoJob
<1>2. TypeOK /\ QueueInv /\ DedupInv /\ [Next]_vars => DedupInv'
  <2> SUFFICES ASSUME TypeOK, QueueInv, DedupInv, [Next]_vars PROVE DedupInv'
    OBVIOUS
  <2>1. CASE \E d \in EventIds : Deduplicate(d)
    <3> PICK d \in EventIds : Deduplicate(d)
      BY <2>1
    <3> QED
      BY CheckAdmitsOne
  <2>2. CASE ~ \E d \in EventIds : Deduplicate(d)
    BY <2>2, OnlyTheCheckAdmits
  <2> QED
    BY <2>1, <2>2
<1> QED
  BY <1>1, <1>2, TypeCorrect, QueueInvariant, PTL DEF Spec

\* Two deliveries of one lead both reach Klaviyo only if the protection of the
\* lead has lapsed: no interleaving, crash, lost answer or retry suffices.
THEOREM NoLeadTwice == Spec => []NoDuplicateLead
<1>1. DedupInv => NoDuplicateLead
  BY DEF DedupInv, SoleHolder, NoDuplicateLead, Holds
<1> QED
  BY <1>1, DedupInvariant, PTL

-----------------------------------------------------------------------------
(* The refinement: whatever the pipeline does maps to a step of            *)
(* AtMostOnceDelivery or to a stutter.                                     *)

\* What a step may do to the phase of the delivery it is about, without the
\* check: deliver it or close it.
Moves(d) ==
    \/ Phase(d)' = Phase(d)
    \/ Phase(d) = "open" /\ Phase(d)' = "delivered"
    \/ Phase(d) \in {"new", "open"} /\ Phase(d)' = "closed"

\* The step is about delivery d and no other.
Local(d) ==
    \A e \in EventIds \ {d} :
        /\ call'[e] = call[e]
        /\ job'[e].state = job[e].state
        /\ e \in accepted' <=> e \in accepted

LEMMA PhaseTypes ==
    ASSUME NEW d \in EventIds
    PROVE  Phase(d) \in {"new", "open", "delivered", "closed"}
BY DEF Phase

LEMMA OthersStay ==
    ASSUME NEW d \in EventIds, Local(d)
    PROVE  \A e \in EventIds \ {d} : Phase(e)' = Phase(e)
BY DEF Local, Phase, JobLive

\* Such a step is one of the abstract specification, or none.
LEMMA LocalStep ==
    ASSUME NEW d \in EventIds, Local(d), Moves(d), UNCHANGED lapsed
    PROVE  [Abstract!Next]_(Abstract!avars)
<1>1. \A e \in EventIds \ {d} : Phase(e)' = Phase(e)
  BY OthersStay
<1>2. CASE Phase(d)' = Phase(d)
  BY <1>1, <1>2 DEF Abstract!avars
<1>3. CASE Phase(d) = "open" /\ Phase(d)' = "delivered"
  <2>1. Abstract!Deliver(d)
    BY <1>1, <1>3 DEF Abstract!Deliver
  <2> QED
    BY <2>1 DEF Abstract!Next
<1>4. CASE Phase(d) \in {"new", "open"} /\ Phase(d)' = "closed"
  <2>1. Abstract!Close({d})
    BY <1>1, <1>4 DEF Abstract!Close
  <2> QED
    BY <2>1 DEF Abstract!Next
<1> QED
  BY <1>2, <1>3, <1>4 DEF Moves

-----------------------------------------------------------------------------
(* The check.  A delivery is let in on a free key, and an open or delivered *)
(* one of the same lead would hold that key, unless it has lapsed.          *)

LEMMA OpenHolds ==
    ASSUME NEW d \in EventIds, Phase(d) \in {"open", "delivered"}
    PROVE  Holds(d)
BY DEF Phase, Holds, JobLive, LiveStates

LEMMA DeduplicateStep ==
    ASSUME TypeOK, QueueInv, DedupInv, NEW d \in EventIds, Deduplicate(d)
    PROVE  [Abstract!Next]_(Abstract!avars)
<1> DEFINE lead == LeadOf[d]
<1>0. /\ lead \in Keys
      /\ call \in [EventIds -> CallStages]
      /\ call[d] = "dedup" /\ job[d].state = "absent" /\ ~JobLive(d)
      /\ UNCHANGED <<accepted, job>> /\ JobLive(d)' = JobLive(d)
  BY InboundAssumption DEF Deduplicate, Awaits, QueueInv, Running, TypeOK, JobLive, LiveStates
<1>1. Local(d)
  BY <1>0 DEF Local, Deduplicate, Resume
<1>2. \A e \in EventIds \ {d} : Phase(e)' = Phase(e)
  BY <1>1, OthersStay
<1>3. CASE IsDuplicate(lead) /\ Resume(d, "duplicate")
  <2>1. UNCHANGED lapsed
    BY <1>3 DEF IsDuplicate, AlreadyClaimed, ClaimResent, Claim, dedupVars
  <2>2. Moves(d)
    BY <1>0, <1>3 DEF Moves, Phase, Resume, Admitted
  <2> QED
    BY <1>1, <2>1, <2>2, LocalStep
<1>4. CASE IsNew(lead) /\ ~Buildable(d) /\ Resume(d, "dropped")
  <2>1. Moves(d)
    BY <1>0, <1>4 DEF Moves, Phase, Resume, Admitted
  <2>2. CASE Claim(lead)
    BY <1>1, <2>1, <2>2, LocalStep DEF Claim
  <2>3. CASE FailOpen(lead)
    <3>1. Phase(d)' = Phase(d) \/ (Phase(d) = "new" /\ Phase(d)' = "closed")
      BY <1>0, <1>4 DEF Phase, Resume, Admitted
    <3>2. Abstract!Lapse(lead)
      BY <1>2, <2>3, <3>1 DEF Abstract!Lapse, FailOpen
    <3> QED
      BY <1>0, <3>2 DEF Abstract!Next
  <2> QED
    BY <1>4, <2>2, <2>3 DEF IsNew
<1>5. CASE IsNew(lead) /\ Buildable(d) /\ Resume(d, "upsert")
  <2>1. lapsed' \in {lapsed, lapsed \cup {lead}}
    BY <1>5 DEF IsNew, Claim, FailOpen
  <2>2. CASE d \in accepted
    <3>1. Phase(d)' = Phase(d)
      BY <1>0, <2>2 DEF Phase
    <3>2. CASE lapsed' = lapsed
      BY <1>1, <3>1, <3>2, LocalStep DEF Moves
    <3>3. CASE lapsed' = lapsed \cup {lead}
      BY <1>0, <1>2, <3>1, <3>3 DEF Abstract!Lapse, Abstract!Next
    <3> QED
      BY <2>1, <3>2, <3>3
  <2>3. CASE d \notin accepted
    <3>1. Phase(d) = "new" /\ Phase(d)' = "open"
      BY <1>0, <1>5, <2>3 DEF Phase, Resume, Admitted
    <3>2. lead \in lapsed' \/ lead \notin claimed
      BY <1>5 DEF IsNew, Claim, FailOpen
    <3>3. \/ lead \in lapsed'
          \/ \A e \in EventIds \ {d} :
                LeadOf[e] = lead => Phase(e) \notin {"open", "delivered"}
      BY <2>1, <3>2, OpenHolds DEF DedupInv, HoldersClaim
    <3>4. Abstract!Open(d)
      BY <1>2, <2>1, <3>1, <3>3 DEF Abstract!Open, Abstract!Siblings
    <3> QED
      BY <3>4 DEF Abstract!Next
  <2> QED
    BY <2>2, <2>3
<1> QED
  BY <1>3, <1>4, <1>5 DEF Deduplicate

-----------------------------------------------------------------------------
(* The other steps. *)

LEMMA CallMoves ==
    ASSUME TypeOK, QueueInv, NEW d \in EventIds, CallStep(d), ~Deduplicate(d)
    PROVE  Local(d) /\ Moves(d) /\ UNCHANGED lapsed
<1>0. /\ call \in [EventIds -> CallStages] /\ job \in [EventIds -> Jobs]
      /\ call[d] \in Running => job[d] \in Jobs /\ job[d].state = "absent"
  BY DEF TypeOK, QueueTypeOK, QueueInv
<1> USE DEF Local, Moves, Phase, JobLive, LiveStates, Admitted, Running, Awaits, Resume
<1>1. CASE UpsertProfile(d)
  BY <1>0, <1>1 DEF UpsertProfile
<1>2. CASE InsertPending(d)
  BY <1>0, <1>2 DEF InsertPending
<1>3. CASE CreateEvent(d)
  BY <1>0, <1>3 DEF CreateEvent, Resolves, Rejects
<1>4. CASE MarkSent(d)
  BY <1>0, <1>4 DEF MarkSent
<1>5. CASE MarkFailed(d)
  BY <1>0, <1>5 DEF MarkFailed
<1>6. CASE EnqueueInbound(d)
  BY <1>0, <1>6 DEF EnqueueInbound, Enqueue, NoJob
<1> QED
  BY <1>1, <1>2, <1>3, <1>4, <1>5, <1>6 DEF CallStep

\* The queue brings no job back to life, and sends only what lives.
LEMMA QueueEffect ==
    ASSUME TypeOK, QueueInv, NEW d \in EventIds, QueueStep(d) \/ QueueTrouble(d)
    PROVE  /\ Local(d) /\ UNCHANGED <<lapsed, call>>
           /\ JobLive(d)' => JobLive(d)
           /\ UNCHANGED accepted \/ (JobLive(d) /\ accepted' = accepted \cup {d})
<1>0. /\ UNCHANGED <<lapsed, call>>
      /\ job \in [EventIds -> Jobs]
      /\ worker[d] \in Processing => job[d].state = "active"
  BY DEF QueueStep, QueueTrouble, TypeOK, QueueTypeOK, QueueInv
<1> USE DEF Local, JobLive, LiveStates, Jobs, JobStates, At, Processing
<1>1. CASE PickJob(d)
  BY <1>0, <1>1 DEF PickJob
<1>2. CASE CountAttempt(d) \/ MarkJobSent(d) \/ OnFailed(d) \/ ReportLost(d)
  BY <1>0, <1>2 DEF CountAttempt, MarkJobSent, OnFailed, ReportLost
<1>3. CASE SendJob(d)
  BY <1>0, <1>3 DEF SendJob, Resolves, Rejects
<1>4. CASE CompleteJob(d)
  BY <1>0, <1>4 DEF CompleteJob
<1>5. CASE FailJob(d)
  BY <1>0, <1>5 DEF FailJob
<1>6. CASE BackoffElapsed(d)
  BY <1>0, <1>6 DEF BackoffElapsed
<1>7. CASE RequeueStalled(d)
  BY <1>0, <1>7 DEF RequeueStalled
<1>8. CASE TrimJob(d)
  BY <1>0, <1>8 DEF TrimJob, NoJob
<1> QED
  BY <1>1, <1>2, <1>3, <1>4, <1>5, <1>6, <1>7, <1>8
     DEF QueueStep, QueueTrouble, WorkerStep

\* A job lives only after its call has ended, so its delivery is open.
LEMMA QueueMoves ==
    ASSUME TypeOK, QueueInv, NEW d \in EventIds, QueueStep(d) \/ QueueTrouble(d)
    PROVE  Local(d) /\ Moves(d) /\ UNCHANGED lapsed
<1>1. JobLive(d) => call[d] \notin {"unborn", "dedup"}
  BY DEF QueueInv, Running, JobLive, LiveStates
<1> QED
  BY <1>1, QueueEffect DEF Moves, Phase

LEMMA ExpireStep ==
    ASSUME NEW lead \in Keys, Expire(lead)
    PROVE  [Abstract!Next]_(Abstract!avars)
<1>1. \A d \in EventIds : Phase(d)' = Phase(d)
  BY DEF Expire, Phase, JobLive
<1>2. Abstract!Lapse(lead)
  BY <1>1 DEF Expire, ExpireKey, Abstract!Lapse
<1> QED
  BY <1>2 DEF Abstract!Next

\* A crash closes every delivery whose call was open.
LEMMA CrashStep ==
    ASSUME TypeOK, QueueInv, Crash
    PROVE  [Abstract!Next]_(Abstract!avars)
<1> DEFINE D == {d \in EventIds : Phase(d)' # Phase(d)}
<1>1. ASSUME NEW d \in EventIds, d \in D
      PROVE  Phase(d) \in {"new", "open"} /\ Phase(d)' = "closed"
  <2>1. JobLive(d)' = JobLive(d) /\ UNCHANGED accepted
    BY DEF Crash, Die, JobLive
  <2>2. call[d] \in Running /\ call'[d] = "crashed"
    BY <1>1, <2>1 DEF Crash, Die, Phase
  <2>3. ~JobLive(d)
    BY <2>2 DEF QueueInv, JobLive, LiveStates
  <2> QED
    BY <1>1, <2>1, <2>2, <2>3 DEF Phase, Running, Admitted
<1>2. Abstract!Close(D)
  BY <1>1 DEF Crash, Die, Abstract!Close
<1> QED
  BY <1>2 DEF Abstract!Next

LEMMA ReceiveStep ==
    ASSUME TypeOK, NEW d \in EventIds, Receive(d)
    PROVE  Local(d) /\ Moves(d) /\ UNCHANGED lapsed
BY DEF TypeOK, Receive, Awaits, Resume, Local, Moves, Phase, JobLive, Admitted

-----------------------------------------------------------------------------

\* Initially nothing has been delivered and no promise has lapsed.
LEMMA InitMaps == Init => Abstract!Init
BY DEF Init, DestinationInit, DedupInit, Phase, Abstract!Init

LEMMA NextMaps ==
    ASSUME TypeOK, QueueInv, DedupInv, [Next]_vars
    PROVE  [Abstract!Next]_(Abstract!avars)
<1>1. ASSUME NEW d \in EventIds, Deduplicate(d) PROVE [Abstract!Next]_(Abstract!avars)
  BY <1>1, DeduplicateStep
<1>2. ASSUME NEW d \in EventIds,
             \/ Receive(d) \/ QueueStep(d) \/ QueueTrouble(d)
             \/ CallStep(d) /\ ~Deduplicate(d)
      PROVE  [Abstract!Next]_(Abstract!avars)
  BY <1>2, ReceiveStep, CallMoves, QueueMoves, LocalStep
<1>3. ASSUME NEW lead \in Keys, Expire(lead) PROVE [Abstract!Next]_(Abstract!avars)
  BY <1>3, ExpireStep
<1>4. CASE Crash
  BY <1>4, CrashStep
<1>5. CASE UNCHANGED vars
  <2>1. \A d \in EventIds : Phase(d)' = Phase(d)
    BY <1>5 DEF vars, Phase, JobLive
  <2> QED
    BY <1>5, <2>1 DEF vars, Abstract!avars
<1> QED
  BY <1>1, <1>2, <1>3, <1>4, <1>5 DEF Next, UpNext

\* Pipeline, deduplicator and queue implement the promise of at most one
\* delivery per lead, whatever fails, expires or dies: the safety half of the
\* refinement, for all constants.
THEOREM PipelineImplementsAtMostOnce == Spec => ImplementsAtMostOnce
BY InitMaps, NextMaps, TypeCorrect, QueueInvariant, DedupInvariant, PTL
   DEF Spec, ImplementsAtMostOnce, Abstract!Spec

-----------------------------------------------------------------------------
(* What the log is worth while Redis answers the worker and the process     *)
(* lives.  Every invariant from here on is about one delivery at a time: a  *)
(* step that is not the delivery's own leaves all of its state alone.       *)

LEMMA StepsApart ==
    ASSUME TypeOK, Without({"crash"}), [Next]_vars, NEW d \in EventIds
    PROVE  \/ Receive(d) \/ CallStep(d)
           \/ QueueAction(d) /\ call'[d] = call[d]
           \/ Untouched(d) /\ call'[d] = call[d]
<1> DEFINE Goal == \/ Receive(d) \/ CallStep(d)
                   \/ QueueAction(d) /\ call'[d] = call[d]
                   \/ Untouched(d) /\ call'[d] = call[d]
<1> SUFFICES Goal
  OBVIOUS
<1> USE DEF TypeOK, LogTypeOK, QueueTypeOK
<1>1. ASSUME NEW e \in EventIds, Receive(e) \/ CallStep(e) PROVE Goal
  <2>1. CASE e = d
    BY <1>1, <2>1
  <2>2. CASE e # d
    <3>1. CASE Receive(e) \/ Deduplicate(e) \/ UpsertProfile(e)
      BY <2>2, <3>1 DEF Receive, Deduplicate, UpsertProfile, Resume, Untouched
    <3>2. CASE InsertPending(e)
      BY <2>2, <3>2 DEF InsertPending, Insert, InsertFails, Resume, Untouched
    <3>3. CASE CreateEvent(e)
      BY <2>2, <3>3 DEF CreateEvent, Resolves, Rejects, Resume, Untouched
    <3>4. CASE MarkSent(e) \/ MarkFailed(e)
      BY <2>2, <3>4 DEF MarkSent, MarkFailed, UpdateStatus, Resume, Untouched
    <3>5. CASE EnqueueInbound(e)
      BY <2>2, <3>5 DEF EnqueueInbound, Enqueue, Resume, Untouched
    <3> QED BY <1>1, <3>1, <3>2, <3>3, <3>4, <3>5 DEF CallStep
  <2> QED BY <2>1, <2>2
<1>2. ASSUME NEW e \in EventIds, QueueStep(e) \/ QueueTrouble(e) PROVE Goal
  <2>1. QueueAction(e) /\ call' = call
    BY <1>2 DEF QueueStep, QueueTrouble, QueueAction
  <2> QED BY <2>1, QueueLocal DEF StoresTypeOK
<1>3. ASSUME NEW lead \in Keys, Expire(lead) PROVE Goal
  BY <1>3 DEF Expire, Untouched
<1>4. ~Crash
  BY DEF Crash, Without
<1>5. CASE UNCHANGED vars
  BY <1>5 DEF vars, Untouched
<1> QED BY <1>1, <1>2, <1>3, <1>4, <1>5 DEF Next, UpNext

\* The queue has nothing of a delivery until its call has handed the job over.
Handed(d) == job[d].state # "absent" \/ worker[d] # "idle" => call[d] = "done"

SentAtEnd(d) == log[d].status = "sent" => call[d] = "done"

Orderly(d) == Attended(d) /\ SentRests(d) /\ Handed(d) /\ SentAtEnd(d)

LEMMA OrderlyStep ==
    ASSUME TypeOK, Without({"redis", "crash"}), [Next]_vars, NEW d \in EventIds, Orderly(d)
    PROVE  Orderly(d)' /\ (log[d].status = "sent" => log'[d].status = "sent")
<1> DEFINE Goal == Orderly(d)' /\ (log[d].status = "sent" => log'[d].status = "sent")
<1> SUFFICES Goal
  OBVIOUS
<1> USE DEF TypeOK, QueueTypeOK, Orderly, Handed, SentAtEnd
<1>1. CASE Untouched(d) /\ call'[d] = call[d]
  BY <1>1 DEF Untouched, Attended, SentRests, JobLive
<1>2. CASE QueueAction(d) /\ call'[d] = call[d]
  <2>1. /\ Attended(d)' /\ SentRests(d)'
        /\ log[d].status = "sent" => log'[d].status = "sent"
    BY <1>2, QueueAttended, QueueSentRests DEF StoresTypeOK, Without
  <2>2. call'[d] = "done"
    BY <1>2, QueueNeedsJob
  <2> QED BY <2>1, <2>2
<1>3. CASE Receive(d) \/ CallStep(d)
  <2>0. /\ call[d] \in {"unborn"} \cup Running /\ worker' = worker
        /\ job[d].state = "absent" /\ worker[d] = "idle" /\ log[d].status # "sent"
    BY <1>3 DEF CallStep, Receive, Deduplicate, UpsertProfile, InsertPending, CreateEvent,
       MarkSent, MarkFailed, EnqueueInbound, Awaits, Running, Admitted
  <2> USE DEF Attended, SentRests, Processing, JobLive, LiveStates
  <2>1. CASE Receive(d) \/ Deduplicate(d) \/ UpsertProfile(d) \/ CreateEvent(d)
    BY <2>0, <2>1 DEF Receive, Deduplicate, UpsertProfile, CreateEvent
  <2>2. CASE InsertPending(d)
    <3>1. log'[d].status # "sent"
      BY <2>0, <2>2, InsertEffect DEF InsertPending, InsertFails, EventStatus, Payloads
    <3> QED BY <2>0, <2>2, <3>1 DEF InsertPending
  <2>3. CASE MarkSent(d)
    BY <2>0, <2>3 DEF MarkSent, Resume
  <2>4. CASE MarkFailed(d)
    <3>1. log'[d].status # "sent"
      BY <2>0, <2>4, UpdateStatusEffect DEF MarkFailed, EventStatus
    <3> QED BY <2>0, <2>4, <3>1 DEF MarkFailed
  <2>5. CASE EnqueueInbound(d)
    BY <2>0, <2>5 DEF EnqueueInbound, Enqueue, NoJob, Resume, Without
  <2> QED BY <1>3, <2>1, <2>2, <2>3, <2>4, <2>5 DEF CallStep
<1> QED BY <1>1, <1>2, <1>3, StepsApart DEF Without

OrderlyInv == \A d \in EventIds : Orderly(d)

LEMMA OrderlyInvariant ==
    ASSUME Without({"redis", "crash"}) PROVE Spec => []OrderlyInv
<1>1. Init => OrderlyInv
  BY DEF Init, LogInit, NoRow, QueueInit, NoJob, OrderlyInv, Orderly, Attended, SentRests,
     Handed, SentAtEnd, Processing, JobLive, LiveStates
<1>2. TypeOK /\ OrderlyInv /\ [Next]_vars => OrderlyInv'
  BY OrderlyStep DEF OrderlyInv
<1> QED BY <1>1, <1>2, TypeCorrect, PTL DEF Spec

\* What a row says of success is never taken back, by the call or the worker,
\* whatever Klaviyo and Postgres do: the call's 'failed' comes before the job,
\* and a job that has written 'sent' is not run again.
THEOREM InboundSentIsFinal ==
    ASSUME Without({"redis", "crash"}) PROVE Spec => SentIsFinal
<1> DEFINE Final == \A d \in EventIds : log[d].status = "sent" => log'[d].status = "sent"
<1>1. TypeOK /\ OrderlyInv /\ [Next]_vars => [Final]_vars
  BY OrderlyStep DEF OrderlyInv
<1> QED BY <1>1, TypeCorrect, OrderlyInvariant, PTL DEF Spec, SentIsFinal

-----------------------------------------------------------------------------
(* Giving up.  With the counter's UPDATEs heard as well, the log's counter  *)
(* is the number of the job's runs, so a job that ends without delivering   *)
(* has used all of them.                                                    *)

Pursuit(d) ==
    /\ Heard(d) /\ Counted(d)
    /\ call[d] \in {"create", "markSent", "markFailed", "enqueue", "done"} => Logged(d)
    /\ call[d] = "markSent" => d \in accepted
    /\ call[d] \in {"enqueue", "done"} => FailureMarked(d)
    /\ call[d] = "done" => Pursued(d)

LEMMA PursuitStep ==
    ASSUME TypeOK, QueueInv, Without({"update", "redis", "crash"}), [Next]_vars,
           NEW d \in EventIds, Orderly(d), Pursuit(d)
    PROVE  Pursuit(d)'
<1> USE DEF TypeOK, QueueTypeOK, DestinationTypeOK, Pursuit
<1>1. CASE Untouched(d) /\ call'[d] = call[d]
  BY <1>1 DEF Untouched, Heard, Counted, Logged, FailureMarked, Pursued, JobLive
<1>2. CASE QueueAction(d) /\ call'[d] = call[d]
  <2>1. call[d] = "done" /\ call'[d] = "done"
    BY <1>2, QueueNeedsJob DEF Orderly, Handed
  <2>2. Heard(d)' /\ Counted(d)' /\ Pursued(d)' /\ Logged(d)'
    BY <1>2, <2>1, QueueCounts DEF Orderly, StoresTypeOK, Without
  <2>3. FailureMarked(d)'
    BY <1>2, <2>1, QueueFailureMarked DEF StoresTypeOK, Without
  <2> QED BY <2>1, <2>2, <2>3
<1>3. CASE Receive(d) \/ CallStep(d)
  <2>0. /\ call[d] \in {"unborn"} \cup Running /\ worker' = worker
        /\ job[d].state = "absent" /\ worker[d] = "idle" /\ log[d].attempts = 0
    BY <1>3 DEF CallStep, Receive, Deduplicate, UpsertProfile, InsertPending, CreateEvent,
       MarkSent, MarkFailed, EnqueueInbound, Awaits, Running, Admitted, Orderly, Handed, QueueInv
  <2> USE DEF Heard, Counted, Pursued, FailureMarked, Logged, JobLive, LiveStates, Resume, Awaits
  <2>1. CASE Receive(d) \/ Deduplicate(d) \/ UpsertProfile(d)
    BY <2>0, <2>1 DEF Receive, Deduplicate, UpsertProfile
  <2>2. CASE InsertPending(d)
    <3>1. call'[d] = "create" => Logged(d)'
      BY <2>2 DEF InsertPending, Insert, LogTypeOK
    <3> QED BY <2>0, <2>2, <3>1 DEF InsertPending
  <2>3. CASE CreateEvent(d)
    BY <2>0, <2>3 DEF CreateEvent, Resolves
  <2>4. CASE MarkSent(d)
    <3>1. Logged(d)'
      BY <2>4 DEF MarkSent, UpdateStatus, Without, LogTypeOK, Rows
    <3> QED BY <2>0, <2>4, <3>1 DEF MarkSent
  <2>5. CASE MarkFailed(d)
    <3>1. log'[d].status = "failed"
      BY <2>5 DEF MarkFailed, UpdateStatus, Without, LogTypeOK, Rows
    <3> QED BY <2>0, <2>5, <3>1 DEF MarkFailed
  <2>6. CASE EnqueueInbound(d)
    <3>1. job'[d] = [state |-> "waiting", made |-> 0, stalls |-> 0] /\ call'[d] = "done"
      BY <2>0, <2>6 DEF EnqueueInbound, Enqueue, NoJob, Without
    <3> QED BY <2>0, <2>6, <3>1, RetryAssumption DEF EnqueueInbound
  <2> QED BY <1>3, <2>1, <2>2, <2>3, <2>4, <2>5, <2>6 DEF CallStep
<1> QED BY <1>1, <1>2, <1>3, StepsApart DEF Without

PursuitInv == \A d \in EventIds : Pursuit(d)

LEMMA PursuitInvariant ==
    ASSUME Without({"update", "redis", "crash"}) PROVE Spec => []PursuitInv
<1>1. Init => PursuitInv
  BY DEF Init, LogInit, NoRow, QueueInit, NoJob, PursuitInv, Pursuit, Heard, Counted, JobLive,
     LiveStates
<1>2. TypeOK /\ QueueInv /\ OrderlyInv /\ PursuitInv /\ [Next]_vars => PursuitInv'
  BY PursuitStep DEF PursuitInv, OrderlyInv
<1>3. Spec => []OrderlyInv
  BY OrderlyInvariant DEF Without
<1> QED BY <1>1, <1>2, <1>3, TypeCorrect, QueueInvariant, PTL DEF Spec

\* A lead that is neither sent nor being retried is one whose retries are all
\* used up and on record, though answers are lost, inserts fail, keys lapse.
THEOREM InboundGivesUpExhausted ==
    ASSUME Without({"update", "redis", "crash"}) PROVE Spec => []GivesUpOnlyWhenExhausted
<1>1. PursuitInv => GivesUpOnlyWhenExhausted
  BY DEF PursuitInv, Pursuit, GivesUpOnlyWhenExhausted, Settled, Pursued, FailureMarked
<1> QED BY <1>1, PursuitInvariant, PTL

-----------------------------------------------------------------------------
(* The truth of the log.  With inserts that hold and answers that are heard *)
(* a row and what Klaviyo has differ only while someone is about to write   *)
(* the row.                                                                 *)

Truthful(d) ==
    /\ call[d] # "crashed"
    /\ call[d] \in {"unborn", "dedup", "upsert", "insert", "dropped", "duplicate"} =>
          ~Logged(d) /\ d \notin accepted
    /\ call[d] \in {"create", "markFailed", "enqueue"} => d \notin accepted
    /\ call[d] = "done" => SuccessMarked(d)

LEMMA TruthfulStep ==
    ASSUME TypeOK, Without({"postgres", "update", "reply", "redis", "crash"}), [Next]_vars,
           NEW d \in EventIds, Orderly(d), Pursuit(d), Truthful(d)
    PROVE  Truthful(d)'
<1> USE DEF TypeOK, QueueTypeOK, DestinationTypeOK, Truthful
<1>1. CASE Untouched(d) /\ call'[d] = call[d]
  BY <1>1 DEF Untouched, Logged, SuccessMarked
<1>2. CASE QueueAction(d) /\ call'[d] = call[d]
  <2>1. call[d] = "done" /\ call'[d] = "done"
    BY <1>2, QueueNeedsJob DEF Orderly, Handed
  <2>2. SuccessMarked(d)'
    BY <1>2, <2>1, QueueSuccessMarked DEF Orderly, Pursuit, StoresTypeOK, Without
  <2> QED BY <2>1, <2>2
<1>3. CASE Receive(d) \/ CallStep(d)
  <2> USE DEF SuccessMarked, Logged, Resume, Awaits
  <2>1. CASE Receive(d) \/ Deduplicate(d) \/ UpsertProfile(d)
    BY <2>1 DEF Receive, Deduplicate, UpsertProfile
  <2>2. CASE InsertPending(d)
    BY <2>2 DEF InsertPending, InsertFails, Without
  <2>3. CASE CreateEvent(d)
    BY <2>3 DEF CreateEvent, Resolves, Rejects, Without
  <2>4. CASE MarkSent(d)
    <3>1. log'[d].status = "sent"
      BY <2>4 DEF MarkSent, UpdateStatus, Without, LogTypeOK, Rows, Pursuit
    <3> QED BY <2>4, <3>1 DEF MarkSent
  <2>5. CASE MarkFailed(d)
    BY <2>5 DEF MarkFailed
  <2>6. CASE EnqueueInbound(d)
    BY <2>6 DEF EnqueueInbound, Without
  <2> QED BY <1>3, <2>1, <2>2, <2>3, <2>4, <2>5, <2>6 DEF CallStep
<1> QED BY <1>1, <1>2, <1>3, StepsApart DEF Without

TruthfulInv == \A d \in EventIds : Truthful(d)

\* Once nothing more happens to a delivery its row tells what happened: 'sent'
\* exactly if Klaviyo has the lead, 'failed' otherwise, and never 'pending'.
THEOREM InboundSettledLogIsTruthful ==
    ASSUME Without({"postgres", "update", "reply", "redis", "crash"})
    PROVE  Spec => []SettledLogIsTruthful
<1>1. Init => TruthfulInv
  BY DEF Init, LogInit, NoRow, DestinationInit, TruthfulInv, Truthful, Logged
<1>2. TypeOK /\ OrderlyInv /\ PursuitInv /\ TruthfulInv /\ [Next]_vars => TruthfulInv'
  BY TruthfulStep DEF OrderlyInv, PursuitInv, TruthfulInv
<1>3. PursuitInv /\ TruthfulInv => SettledLogIsTruthful
  BY DEF PursuitInv, Pursuit, TruthfulInv, Truthful, SettledLogIsTruthful, Settled, Resolved,
     FailureMarked, SuccessMarked, At
<1>4. Spec => []OrderlyInv /\ []PursuitInv
  BY OrderlyInvariant, PursuitInvariant DEF Without
<1> QED BY <1>1, <1>2, <1>3, <1>4, TypeCorrect, PTL DEF Spec

-----------------------------------------------------------------------------
(* Duplicates.  A claimed key of a lead that can be built belongs to a      *)
(* delivery that accounts for it, and such a delivery goes on doing so: it  *)
(* leaves the call by resolving the send or by handing over a job, and the  *)
(* job delivers or uses up its attempts.                                    *)

Fresh(d) == call[d] \in {"unborn", "dedup"} => d \notin accepted

ClaimsBacked == \A lead \in claimed \ Unbuildable :
                   \E e \in EventIds : LeadOf[e] = lead /\ Accounted(e)

BackedInv == (\A d \in EventIds : Fresh(d)) /\ ClaimsBacked /\ DuplicateIsBacked

LEMMA AccountedStays ==
    ASSUME TypeOK, QueueInv, Without({"postgres", "update", "redis", "crash"}), [Next]_vars,
           NEW d \in EventIds, Orderly(d), Pursuit(d)', Accounted(d)
    PROVE  Accounted(d)'
<1> USE DEF TypeOK, QueueTypeOK, DestinationTypeOK, Accounted
<1>1. CASE Untouched(d) /\ call'[d] = call[d]
  BY <1>1 DEF Untouched, JobLive
<1>2. CASE QueueAction(d) /\ call'[d] = call[d]
  <2>1. call'[d] = "done"
    BY <1>2, QueueNeedsJob DEF Orderly, Handed
  <2> QED BY <2>1 DEF Pursuit, Pursued
<1>3. CASE Receive(d) \/ Deduplicate(d)
  BY <1>3 DEF Receive, Deduplicate, Awaits, Admitted, JobLive
<1>4. CASE CallStep(d) /\ ~Deduplicate(d)
  <2>1. call'[d] \in Admitted \cup {"done"}
    <3> USE DEF Resume, Admitted
    <3>1. CASE UpsertProfile(d) \/ CreateEvent(d)
      BY <3>1 DEF UpsertProfile, CreateEvent
    <3>2. CASE InsertPending(d)
      BY <3>2 DEF InsertPending, InsertFails, Without
    <3>3. CASE MarkSent(d) \/ MarkFailed(d)
      BY <3>3 DEF MarkSent, MarkFailed
    <3>4. CASE EnqueueInbound(d)
      BY <3>4 DEF EnqueueInbound, Without
    <3> QED BY <1>4, <3>1, <3>2, <3>3, <3>4 DEF CallStep
  <2> QED BY <2>1 DEF Pursuit, Pursued
<1> QED BY <1>1, <1>2, <1>3, <1>4, StepsApart DEF Without

LEMMA FreshStep ==
    ASSUME TypeOK, Without({"crash"}), [Next]_vars, NEW d \in EventIds, Orderly(d), Fresh(d)
    PROVE  Fresh(d)'
<1> USE DEF TypeOK, Fresh
<1>1. CASE Untouched(d) /\ call'[d] = call[d]
  BY <1>1 DEF Untouched
<1>2. CASE QueueAction(d) /\ call'[d] = call[d]
  BY <1>2, QueueNeedsJob DEF Orderly, Handed
<1>3. CASE Receive(d)
  BY <1>3 DEF Receive, Awaits
<1>4. CASE CallStep(d)
  <2>1. call'[d] \notin {"unborn", "dedup"}
    BY <1>4 DEF CallStep, Deduplicate, UpsertProfile, InsertPending, CreateEvent, MarkSent,
       MarkFailed, EnqueueInbound, Resume
  <2> QED BY <2>1
<1> QED BY <1>1, <1>2, <1>3, <1>4, StepsApart

\* No step but the check claims a key or turns a delivery away.
LEMMA OnlyTheCheckClaims ==
    ASSUME TypeOK, [Next]_vars, ~ \E d \in EventIds : Deduplicate(d)
    PROVE  /\ claimed' \subseteq claimed
           /\ \A d \in EventIds : call'[d] = "duplicate" => call[d] = "duplicate"
<1> DEFINE Goal == /\ claimed' \subseteq claimed
                   /\ \A d \in EventIds : call'[d] = "duplicate" => call[d] = "duplicate"
<1> SUFFICES Goal
  OBVIOUS
<1> USE DEF TypeOK
<1>1. ASSUME NEW d \in EventIds, Receive(d) \/ CallStep(d) PROVE Goal
  BY <1>1 DEF CallStep, Receive, UpsertProfile, InsertPending, CreateEvent, MarkSent,
     MarkFailed, EnqueueInbound, Resume
<1>2. ASSUME NEW d \in EventIds, QueueStep(d) \/ QueueTrouble(d) PROVE Goal
  BY <1>2 DEF QueueStep, QueueTrouble
<1>3. ASSUME NEW lead \in Keys, Expire(lead) PROVE Goal
  BY <1>3 DEF Expire, ExpireKey
<1>4. CASE Crash
  BY <1>4 DEF Crash, Die
<1>5. CASE UNCHANGED vars
  BY <1>5 DEF vars
<1> QED BY <1>1, <1>2, <1>3, <1>4, <1>5 DEF Next, UpNext

LEMMA BackedStep ==
    ASSUME TypeOK, QueueInv, Without({"postgres", "update", "redis", "resend", "crash"}),
           [Next]_vars, OrderlyInv, PursuitInv', BackedInv
    PROVE  BackedInv'
<1>1. \A d \in EventIds : Fresh(d)'
  BY FreshStep DEF BackedInv, OrderlyInv, Without
<1>2. \A d \in EventIds : Accounted(d) => Accounted(d)'
  BY AccountedStays DEF OrderlyInv, PursuitInv, Without
<1>3. CASE ~ \E d \in EventIds : Deduplicate(d)
  BY <1>1, <1>2, <1>3, OnlyTheCheckClaims DEF BackedInv, ClaimsBacked, DuplicateIsBacked, Buildable
<1>4. ASSUME NEW d \in EventIds, Deduplicate(d) PROVE BackedInv'
  <2>0. /\ call[d] = "dedup" /\ \A e \in EventIds \ {d} : call'[e] = call[e]
        /\ call \in [EventIds -> CallStages] /\ LeadOf[d] \in Keys
    BY <1>4, InboundAssumption DEF Deduplicate, Awaits, Resume, TypeOK
  <2>1. ~Accounted(d)
    BY <2>0, RetryAssumption DEF Accounted, Admitted, QueueInv, Running, JobLive, LiveStates,
       BackedInv, Fresh
  <2>2. CASE AlreadyClaimed(LeadOf[d]) /\ Resume(d, "duplicate")
    <3>1. ClaimsBacked'
      BY <1>2, <2>2 DEF AlreadyClaimed, dedupVars, BackedInv, ClaimsBacked
    <3>2. Buildable(d) => \E e \in EventIds \ {d} : LeadOf[e] = LeadOf[d] /\ Accounted(e)
      BY <2>1, <2>2 DEF AlreadyClaimed, BackedInv, ClaimsBacked, Buildable
    <3>3. DuplicateIsBacked'
      BY <1>2, <2>0, <3>2 DEF BackedInv, DuplicateIsBacked, Buildable
    <3> QED BY <1>1, <3>1, <3>3 DEF BackedInv
  <2>3. CASE /\ Claim(LeadOf[d])
             /\ \/ ~Buildable(d) /\ Resume(d, "dropped")
                \/ Buildable(d)  /\ Resume(d, "upsert")
    <3>1. Buildable(d) => Accounted(d)'
      BY <2>0, <2>3 DEF Resume, Accounted, Admitted
    <3>2. ClaimsBacked'
      BY <1>2, <2>3, <3>1 DEF Claim, BackedInv, ClaimsBacked, Buildable
    <3>3. call'[d] # "duplicate"
      BY <2>0, <2>3 DEF Resume
    <3>4. DuplicateIsBacked'
      BY <1>2, <2>0, <3>3 DEF BackedInv, DuplicateIsBacked, Buildable
    <3> QED BY <1>1, <3>2, <3>4 DEF BackedInv
  <2> QED BY <1>4, <2>2, <2>3 DEF Deduplicate, IsDuplicate, IsNew, ClaimResent, FailOpen, Without
<1> QED BY <1>3, <1>4

\* A lead that can be sent is turned away as a duplicate only on the strength
\* of another delivery of it that is under way, has arrived or has exhausted
\* its retries, for every order in which deliveries, retries and lost keys fall.
THEOREM DuplicatesAreBacked ==
    ASSUME Without({"postgres", "update", "redis", "resend", "crash"})
    PROVE  Spec => []DuplicateIsBacked
<1>1. Init => BackedInv
  BY DEF Init, DedupInit, DestinationInit, BackedInv, Fresh, ClaimsBacked, DuplicateIsBacked
<1>2. TypeOK /\ QueueInv /\ OrderlyInv /\ PursuitInv' /\ BackedInv /\ [Next]_vars => BackedInv'
  BY BackedStep
<1>3. BackedInv => DuplicateIsBacked
  BY DEF BackedInv
<1>4. Spec => []OrderlyInv /\ []PursuitInv
  BY OrderlyInvariant, PursuitInvariant DEF Without
<1> QED BY <1>1, <1>2, <1>3, <1>4, TypeCorrect, QueueInvariant, PTL DEF Spec

=============================================================================
