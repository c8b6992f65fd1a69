-------------------------- MODULE RetryQueueProofs --------------------------
(***************************************************************************)
(* What both pipelines' proofs need of the event log, the retry queue and  *)
(* its worker: how a step of theirs leaves types, statuses and jobs.       *)
(***************************************************************************)
EXTENDS RetryQueue, TLAPS

StoresTypeOK == LogTypeOK /\ DestinationTypeOK /\ QueueTypeOK

\* A step of the worker or of BullMQ.
QueueAction(id) == \/ WorkerStep(id) \/ BackoffElapsed(id) \/ RequeueStalled(id)
                  \/ ReportLost(id) \/ TrimJob(id)

-----------------------------------------------------------------------------
(* The log *)

LEMMA InsertType ==
    ASSUME LogTypeOK, NEW id \in EventIds, NEW s \in EventStatus,
           NEW p \in Payloads, Insert(id, s, p)
    PROVE  LogTypeOK'
BY DEF LogTypeOK, Insert, Rows, Logged

LEMMA UpdateStatusType ==
    ASSUME LogTypeOK, NEW id \in EventIds, NEW s \in EventStatus,
           UpdateStatus(id, s)
    PROVE  LogTypeOK'
BY DEF LogTypeOK, UpdateStatus, Rows, Logged

LEMMA IncrementAttemptType ==
    ASSUME LogTypeOK, NEW id \in EventIds, IncrementAttempt(id)
    PROVE  LogTypeOK'
BY DEF LogTypeOK, IncrementAttempt, Rows, Logged

\* An insert gives a status only to a row that is not there.
LEMMA InsertEffect ==
    ASSUME LogTypeOK, NEW id \in EventIds, NEW s \in EventStatus,
           NEW p \in Payloads, Insert(id, s, p), NEW e \in EventIds
    PROVE  /\ \/ log'[e].status = log[e].status
              \/ e = id /\ log[e].status = "absent" /\ log'[e].status = s
           /\ log'[e].attempts = log[e].attempts \/ log'[e].attempts = 0
BY DEF LogTypeOK, Insert, Rows, Logged

LEMMA UpdateStatusEffect ==
    ASSUME LogTypeOK, NEW id \in EventIds, NEW s \in EventStatus,
           UpdateStatus(id, s), NEW e \in EventIds
    PROVE  /\ log'[e].status = log[e].status \/ (e = id /\ log'[e].status = s)
           /\ log'[e].attempts = log[e].attempts
BY DEF LogTypeOK, UpdateStatus, Rows, Logged

LEMMA IncrementAttemptEffect ==
    ASSUME LogTypeOK, NEW id \in EventIds, IncrementAttempt(id), NEW e \in EventIds
    PROVE  /\ log'[e].status = log[e].status
           /\ \/ log'[e].attempts = log[e].attempts
              \/ e = id /\ log'[e].attempts = log[e].attempts + 1
BY DEF LogTypeOK, IncrementAttempt, Rows, Logged

-----------------------------------------------------------------------------
(* Types *)

LEMMA EnqueueType ==
    ASSUME QueueTypeOK, NEW id \in EventIds, Enqueue(id)
    PROVE  job' \in [EventIds -> Jobs]
BY DEF QueueTypeOK, Enqueue, Jobs, JobStates, NoJob

LEMMA StoresInit == LogInit /\ DestinationInit /\ QueueInit => StoresTypeOK
BY DEF LogInit, LogTypeOK, Rows, NoRow, DestinationInit, DestinationTypeOK, QueueInit,
   QueueTypeOK, Jobs, JobStates, NoJob, WorkerStages, StoresTypeOK

LEMMA QueueTypes ==
    ASSUME StoresTypeOK, NEW id \in EventIds, QueueAction(id)
    PROVE  StoresTypeOK'
<1> USE DEF StoresTypeOK, QueueTypeOK, DestinationTypeOK, WorkerStages, Processing
<1>1. CASE PickJob(id)
  BY <1>1 DEF PickJob, Goto, Jobs, JobStates, LogTypeOK
<1>2. CASE CountAttempt(id)
  <2>1. LogTypeOK'
    BY <1>2, IncrementAttemptType DEF CountAttempt
  <2> QED BY <1>2, <2>1 DEF CountAttempt, Goto
<1>3. CASE SendJob(id)
  BY <1>3 DEF SendJob, Resolves, Rejects, Goto, LogTypeOK
<1>4. CASE MarkJobSent(id)
  <2>1. LogTypeOK'
    BY <1>4, UpdateStatusType DEF MarkJobSent, EventStatus
  <2> QED BY <1>4, <2>1 DEF MarkJobSent, Goto
<1>5. CASE CompleteJob(id)
  BY <1>5 DEF CompleteJob, Goto, Jobs, JobStates, LogTypeOK
<1>6. CASE FailJob(id)
  BY <1>6 DEF FailJob, Goto, Jobs, JobStates, LogTypeOK
<1>7. CASE OnFailed(id)
  <2>1. LogTypeOK'
    BY <1>7, UpdateStatusType DEF OnFailed, EventStatus
  <2> QED BY <1>7, <2>1 DEF OnFailed, Goto
<1>8. CASE BackoffElapsed(id) \/ RequeueStalled(id)
  BY <1>8 DEF BackoffElapsed, RequeueStalled, Jobs, JobStates, LogTypeOK
<1>9. CASE ReportLost(id) \/ TrimJob(id)
  BY <1>9 DEF ReportLost, TrimJob, Goto, Jobs, NoJob, JobStates, LogTypeOK
<1> QED BY <1>1, <1>2, <1>3, <1>4, <1>5, <1>6, <1>7, <1>8, <1>9 DEF QueueAction, WorkerStep

-----------------------------------------------------------------------------
(* 'sent': the worker's stage that writes it is reached through a resolved  *)
(* call alone.                                                              *)

RowsSent    == \A id \in EventIds : log[id].status = "sent" => id \in accepted
WorkersSent == \A id \in EventIds : worker[id] = "mark" => id \in accepted

LEMMA QueueSent ==
    ASSUME StoresTypeOK, RowsSent, WorkersSent, NEW id \in EventIds, QueueAction(id)
    PROVE  RowsSent' /\ WorkersSent' /\ accepted \subseteq accepted'
<1> USE DEF RowsSent, WorkersSent, StoresTypeOK, QueueTypeOK, DestinationTypeOK
<1>1. CASE PickJob(id) \/ CompleteJob(id) \/ FailJob(id)
  BY <1>1 DEF PickJob, CompleteJob, FailJob, Goto
<1>2. CASE CountAttempt(id)
  <2>1. \A e \in EventIds : log'[e].status = log[e].status
    BY <1>2, IncrementAttemptEffect DEF CountAttempt
  <2> QED BY <1>2, <2>1 DEF CountAttempt, Goto
<1>3. CASE SendJob(id)
  BY <1>3 DEF SendJob, Resolves, Rejects, Goto
<1>4. CASE MarkJobSent(id)
  <2>1. \A e \in EventIds : log'[e].status = "sent" => log[e].status = "sent" \/ e = id
    BY <1>4, UpdateStatusEffect DEF MarkJobSent, EventStatus
  <2> QED BY <1>4, <2>1 DEF MarkJobSent, At, Goto
<1>5. CASE OnFailed(id)
  <2>1. \A e \in EventIds : log'[e].status = "sent" => log[e].status = "sent"
    BY <1>5, UpdateStatusEffect DEF OnFailed, EventStatus
  <2> QED BY <1>5, <2>1 DEF OnFailed, Goto
<1>6. CASE BackoffElapsed(id) \/ RequeueStalled(id) \/ ReportLost(id) \/ TrimJob(id)
  BY <1>6 DEF BackoffElapsed, RequeueStalled, ReportLost, TrimJob, Goto
<1> QED BY <1>1, <1>2, <1>3, <1>4, <1>5, <1>6 DEF QueueAction, WorkerStep

-----------------------------------------------------------------------------
(* A processor runs on an active job only, and no step of the queue by      *)
(* itself brings a finished job back.                                       *)

Busy == \A id \in EventIds : worker[id] \in Processing => job[id].state = "active"

LEMMA QueueBusy ==
    ASSUME StoresTypeOK, Busy, NEW id \in EventIds, QueueAction(id)
    PROVE  Busy' /\ \A e \in EventIds : JobLive(e)' => JobLive(e)
<1> USE DEF StoresTypeOK, QueueTypeOK, Busy, Processing, JobLive, LiveStates, Jobs
<1>1. CASE PickJob(id)
  BY <1>1 DEF PickJob, At, Goto
<1>2. CASE CountAttempt(id) \/ SendJob(id) \/ MarkJobSent(id) \/ OnFailed(id)
  BY <1>2 DEF CountAttempt, SendJob, MarkJobSent, OnFailed, At, Goto
<1>3. CASE CompleteJob(id) \/ FailJob(id)
  BY <1>3 DEF CompleteJob, FailJob, At, Goto
<1>4. CASE BackoffElapsed(id) \/ RequeueStalled(id)
  BY <1>4 DEF BackoffElapsed, RequeueStalled, At
<1>5. CASE ReportLost(id) \/ TrimJob(id)
  BY <1>5 DEF ReportLost, TrimJob, NoJob, Goto
<1> QED BY <1>1, <1>2, <1>3, <1>4, <1>5 DEF QueueAction, WorkerStep

-----------------------------------------------------------------------------
(* A queue whose reports reach Redis and whose process lives: every active  *)
(* job has its processor, no run is repeated, and the row, the job and what *)
(* the destination has keep step.  Each part below is about one id, so that *)
(* a step has to be looked at only for the id it is about.                  *)

\* The kinds of trouble that a theorem leaves out.
Without(kinds) == Faults \cap kinds = {}

\* Whatever the surroundings do, id's share of the state is as it was.
Untouched(id) ==
    /\ log'[id] = log[id] /\ job'[id] = job[id] /\ worker'[id] = worker[id]
    /\ id \in accepted' <=> id \in accepted

Attended(id) ==
    /\ worker[id] \in Processing <=> job[id].state = "active"
    /\ JobLive(id) => worker[id] # "onFailed"

\* No one is left who could write 'failed' over 'sent'.
SentRests(id) ==
    log[id].status = "sent" =>
        worker[id] = "complete" \/ (worker[id] = "idle" /\ ~JobLive(id))

Heard(id) == worker[id] \in {"mark", "complete"} => id \in accepted

Counted(id) ==
    JobLive(id) =>
        /\ job[id].made < Attempts
        /\ log[id].attempts =
              job[id].made + IF worker[id] \in {"send", "mark", "complete", "fail"} THEN 1 ELSE 0

Pursued(id) == JobLive(id) \/ id \in accepted \/ log[id].attempts = Attempts

FailureMarked(id) == id \in accepted \/ log[id].status = "failed"

SuccessMarked(id) == id \in accepted => worker[id] = "mark" \/ log[id].status = "sent"

\* A step of the queue is about one id.
LEMMA QueueLocal ==
    ASSUME StoresTypeOK, NEW id \in EventIds, QueueAction(id),
           NEW e \in EventIds, e # id
    PROVE  Untouched(e)
<1> USE DEF StoresTypeOK, LogTypeOK, QueueTypeOK, Untouched
<1>1. CASE PickJob(id) \/ CompleteJob(id) \/ FailJob(id)
  BY <1>1 DEF PickJob, CompleteJob, FailJob, Goto
<1>2. CASE CountAttempt(id)
  BY <1>2 DEF CountAttempt, IncrementAttempt, Goto
<1>3. CASE SendJob(id)
  BY <1>3 DEF SendJob, Resolves, Rejects, Goto
<1>4. CASE MarkJobSent(id) \/ OnFailed(id)
  BY <1>4 DEF MarkJobSent, OnFailed, UpdateStatus, Goto
<1>5. CASE BackoffElapsed(id) \/ RequeueStalled(id) \/ ReportLost(id) \/ TrimJob(id)
  BY <1>5 DEF BackoffElapsed, RequeueStalled, ReportLost, TrimJob, Goto
<1> QED BY <1>1, <1>2, <1>3, <1>4, <1>5 DEF QueueAction, WorkerStep

\* There is none without a job or a worker at it.
LEMMA QueueNeedsJob ==
    ASSUME NEW id \in EventIds, QueueAction(id)
    PROVE  job[id].state # "absent" \/ worker[id] # "idle"
BY DEF QueueAction, WorkerStep, PickJob, CountAttempt, SendJob, MarkJobSent, CompleteJob,
   FailJob, OnFailed, BackoffElapsed, RequeueStalled, ReportLost, TrimJob, At

LEMMA QueueAttended ==
    ASSUME StoresTypeOK, Without({"redis"}), NEW id \in EventIds, QueueAction(id),
           Attended(id)
    PROVE  Attended(id)'
<1> USE DEF StoresTypeOK, QueueTypeOK, Attended, Processing, JobLive, LiveStates, Jobs, At, Goto
<1>1. CASE PickJob(id) \/ CompleteJob(id) \/ FailJob(id)
  BY <1>1 DEF PickJob, CompleteJob, FailJob
<1>2. CASE CountAttempt(id) \/ SendJob(id) \/ MarkJobSent(id) \/ OnFailed(id)
  BY <1>2 DEF CountAttempt, SendJob, MarkJobSent, OnFailed
<1>3. CASE BackoffElapsed(id) \/ RequeueStalled(id)
  BY <1>3 DEF BackoffElapsed, RequeueStalled
<1>4. CASE ReportLost(id) \/ TrimJob(id)
  BY <1>4 DEF ReportLost, TrimJob, NoJob, Without
<1> QED BY <1>1, <1>2, <1>3, <1>4 DEF QueueAction, WorkerStep

LEMMA QueueSentRests ==
    ASSUME StoresTypeOK, Without({"redis"}), NEW id \in EventIds, QueueAction(id),
           Attended(id), SentRests(id)
    PROVE  SentRests(id)' /\ (log[id].status = "sent" => log'[id].status = "sent")
<1> USE DEF StoresTypeOK, LogTypeOK, QueueTypeOK, Attended, SentRests, Processing, JobLive,
            LiveStates, Jobs, At, Goto
<1>1. CASE PickJob(id) \/ CompleteJob(id) \/ FailJob(id) \/ SendJob(id)
  BY <1>1 DEF PickJob, CompleteJob, FailJob, SendJob
<1>2. CASE CountAttempt(id)
  <2>1. log'[id].status = log[id].status
    BY <1>2, IncrementAttemptEffect DEF CountAttempt
  <2> QED BY <1>2, <2>1 DEF CountAttempt
<1>3. CASE MarkJobSent(id)
  <2>1. log'[id].status \in {log[id].status, "sent"}
    BY <1>3, UpdateStatusEffect DEF MarkJobSent, EventStatus
  <2> QED BY <1>3, <2>1 DEF MarkJobSent
<1>4. CASE OnFailed(id)
  <2>1. log'[id].status \in {log[id].status, "failed"}
    BY <1>4, UpdateStatusEffect DEF OnFailed, EventStatus
  <2> QED BY <1>4, <2>1 DEF OnFailed
<1>5. CASE BackoffElapsed(id) \/ RequeueStalled(id)
  BY <1>5 DEF BackoffElapsed, RequeueStalled
<1>6. CASE ReportLost(id) \/ TrimJob(id)
  BY <1>6 DEF ReportLost, TrimJob, NoJob, Without
<1> QED BY <1>1, <1>2, <1>3, <1>4, <1>5, <1>6 DEF QueueAction, WorkerStep

\* With the counter heard the log counts the runs exactly, and a job ends with
\* the event delivered or its attempts used up.
LEMMA QueueCounts ==
    ASSUME StoresTypeOK, Without({"redis", "update"}), NEW id \in EventIds, QueueAction(id),
           Attended(id), Heard(id), Counted(id), Pursued(id), Logged(id)
    PROVE  Heard(id)' /\ Counted(id)' /\ Pursued(id)' /\ Logged(id)'
<1>0. /\ log \in [EventIds -> Rows] /\ log[id].attempts \in Nat
      /\ job \in [EventIds -> Jobs] /\ worker \in [EventIds -> WorkerStages]
      /\ job[id].made \in Nat /\ job[id].stalls \in Nat /\ Attempts \in Nat \ {0}
  BY RetryAssumption DEF StoresTypeOK, LogTypeOK, QueueTypeOK, Rows, Jobs
<1> USE DEF Attended, Heard, Counted, Pursued, Logged, Processing, JobLive, LiveStates, At, Goto
<1>1. CASE PickJob(id)
  BY <1>0, <1>1 DEF PickJob, Jobs
<1>2. CASE CompleteJob(id)
  BY <1>0, <1>2 DEF CompleteJob, Jobs
<1>3. CASE FailJob(id)
  BY <1>0, <1>3 DEF FailJob, Jobs
<1>4. CASE CountAttempt(id)
  <2>1. log' = [log EXCEPT ![id].attempts = @ + 1]
    BY <1>4 DEF CountAttempt, IncrementAttempt, Without
  <2> QED BY <1>0, <1>4, <2>1 DEF CountAttempt, Rows
<1>5. CASE SendJob(id)
  BY <1>0, <1>5 DEF SendJob, Resolves, Rejects, StoresTypeOK, DestinationTypeOK
<1>6. CASE MarkJobSent(id) \/ OnFailed(id)
  <2>1. \E s \in {"sent", "failed"} : log' = [log EXCEPT ![id].status = s]
    BY <1>6 DEF MarkJobSent, OnFailed, UpdateStatus, Without
  <2>2. log'[id].status # "absent" /\ log'[id].attempts = log[id].attempts
    BY <1>0, <2>1 DEF Rows
  <2> QED BY <1>0, <1>6, <2>2 DEF MarkJobSent, OnFailed
<1>7. CASE BackoffElapsed(id)
  BY <1>0, <1>7 DEF BackoffElapsed, Jobs
<1>8. CASE RequeueStalled(id) \/ ReportLost(id)
  BY <1>8 DEF RequeueStalled, ReportLost, Without
<1>9. CASE TrimJob(id)
  BY <1>0, <1>9 DEF TrimJob, NoJob, Jobs
<1> QED BY <1>1, <1>2, <1>3, <1>4, <1>5, <1>6, <1>7, <1>8, <1>9 DEF QueueAction, WorkerStep

LEMMA QueueFailureMarked ==
    ASSUME StoresTypeOK, Without({"redis", "update"}), NEW id \in EventIds, QueueAction(id),
           Heard(id), Logged(id), FailureMarked(id)
    PROVE  FailureMarked(id)'
<1> USE DEF StoresTypeOK, LogTypeOK, Heard, Logged, FailureMarked, At
<1>1. CASE MarkJobSent(id)
  BY <1>1 DEF MarkJobSent
<1>2. CASE OnFailed(id)
  BY <1>2 DEF OnFailed, UpdateStatus, Without, Rows
<1>3. CASE CountAttempt(id)
  BY <1>3, IncrementAttemptEffect DEF CountAttempt
<1>4. CASE SendJob(id)
  BY <1>4 DEF SendJob, Resolves, Rejects
<1>5. CASE /\ ~MarkJobSent(id) /\ ~OnFailed(id) /\ ~CountAttempt(id) /\ ~SendJob(id)
  <2>1. UNCHANGED <<log, accepted>>
    BY <1>5 DEF QueueAction, WorkerStep, PickJob, CompleteJob, FailJob, BackoffElapsed,
       RequeueStalled, ReportLost, TrimJob
  <2> QED BY <2>1
<1> QED BY <1>1, <1>2, <1>3, <1>4, <1>5

LEMMA QueueSuccessMarked ==
    ASSUME StoresTypeOK, Without({"redis", "update", "reply"}), NEW id \in EventIds,
           QueueAction(id), Attended(id), SentRests(id), Logged(id), SuccessMarked(id)
    PROVE  SuccessMarked(id)'
<1> USE DEF StoresTypeOK, LogTypeOK, QueueTypeOK, SuccessMarked, Logged, At, Goto
<1>0. log[id].status = "sent" => log'[id].status = "sent"
  BY QueueSentRests DEF Without
<1>1. CASE MarkJobSent(id)
  BY <1>1 DEF MarkJobSent, UpdateStatus, Without, Rows
<1>2. CASE SendJob(id)
  <2>1. ~JobLive(id) => worker[id] # "send"
    BY DEF Attended, Processing, JobLive, LiveStates
  <2>2. id \notin accepted
    BY <1>2, <2>1 DEF SendJob, SentRests
  <2> QED BY <1>2, <2>2 DEF SendJob, Resolves, Rejects, Without
<1>3. CASE ~MarkJobSent(id) /\ ~SendJob(id)
  <2>1. UNCHANGED accepted /\ (worker[id] = "mark" => worker'[id] = "mark")
    BY <1>3 DEF QueueAction, WorkerStep, PickJob, CountAttempt, CompleteJob, FailJob, OnFailed,
       BackoffElapsed, RequeueStalled, ReportLost, TrimJob
  <2> QED BY <1>0, <2>1
<1> QED BY <1>1, <1>2, <1>3

=============================================================================
