---------------------------- MODULE RetryQueue ----------------------------
(***************************************************************************)
(* One BullMQ queue of the class RetryQueue with its worker.  A job is     *)
(* added under jobId = event id; the worker's processor counts the attempt *)
(* in the event log, calls the destination and marks the row sent; BullMQ  *)
(* moves the job on when the processor returns or throws, and the handler  *)
(* of the 'failed' event marks the row once the attempts are used up.      *)
(* Every await of the processor is a step of its own.                      *)
(***************************************************************************)
EXTENDS EventLog, Destination

CONSTANTS Attempts,     \* the option attempts of the queue (5 or 3)
          MaxStalls     \* BullMQ's maxStalledCount (1 by default)

ASSUME RetryAssumption == Attempts \in Nat \ {0} /\ MaxStalls \in Nat

VARIABLES
    job,        \* job[id]: the job BullMQ keeps in Redis under that id
    worker      \* worker[id]: where the processor or handler of id's job is

JobStates  == {"absent", "waiting", "active", "delayed", "completed", "failed"}
LiveStates == {"waiting", "active", "delayed"}

\* "idle": no processor or handler runs for that id.
Processing   == {"increment", "send", "mark", "complete", "fail"}
WorkerStages == Processing \cup {"idle", "onFailed"}

Jobs  == [state : JobStates, made : Nat, stalls : Nat]
NoJob == [state |-> "absent", made |-> 0, stalls |-> 0]

QueueTypeOK == /\ job \in [EventIds -> Jobs]
               /\ worker \in [EventIds -> WorkerStages]

QueueInit == /\ job = [id \in EventIds |-> NoJob]
             /\ worker = [id \in EventIds |-> "idle"]

JobLive(id) == job[id].state \in LiveStates

At(id, stage)  == worker[id] = stage
Goto(id, stage) == worker' = [worker EXCEPT ![id] = stage]

-----------------------------------------------------------------------------

\* Queue.add with a jobId: ignored while a job of that id is kept, finished
\* jobs included.
Enqueue(id) ==
    job' = [job EXCEPT ![id] = IF @.state = "absent"
                               THEN [NoJob EXCEPT !.state = "waiting"] ELSE @]

\* Mutant: only jobs that were never tried are taken.
PickFreshJob(id) ==
    /\ job[id] = [NoJob EXCEPT !.state = "waiting"] /\ At(id, "idle")
    /\ job' = [job EXCEPT ![id].state = "active"]
    /\ Goto(id, "increment")
    /\ UNCHANGED <<log, accepted>>

\* The worker takes a waiting job and enters the processor.
PickJob(id) ==
    /\ job[id].state = "waiting" /\ At(id, "idle")
    /\ job' = [job EXCEPT ![id].state = "active"]
    /\ Goto(id, "increment")
    /\ UNCHANGED <<log, accepted>>

\* Mutant: the processor does not count the attempt.
SkipCount(id) ==
    /\ At(id, "increment")
    /\ Goto(id, "send")
    /\ UNCHANGED <<log, job, accepted>>

CountAttempt(id) ==
    /\ At(id, "increment")
    /\ IncrementAttempt(id)
    /\ Goto(id, "send")
    /\ UNCHANGED <<job, accepted>>

\* Mutant: the rejection is caught and not thrown again.
SendJobSwallows(id) ==
    /\ At(id, "send")
    /\ Resolves(id) \/ Rejects(id)
    /\ Goto(id, "mark")
    /\ UNCHANGED <<job, log>>

SendJob(id) ==
    /\ At(id, "send")
    /\ \/ Resolves(id) /\ Goto(id, "mark")
       \/ Rejects(id)  /\ Goto(id, "fail")
    /\ UNCHANGED <<job, log>>

\* Mutants: the worker does not update the row; it throws after the update.
SkipMarkJobSent(id) ==
    /\ At(id, "mark")
    /\ Goto(id, "complete")
    /\ UNCHANGED <<log, job, accepted>>

MarkJobSentThenThrow(id) ==
    /\ At(id, "mark")
    /\ UpdateStatus(id, "sent")
    /\ Goto(id, "fail")
    /\ UNCHANGED <<job, accepted>>

MarkJobSent(id) ==
    /\ At(id, "mark")
    /\ UpdateStatus(id, "sent")
    /\ Goto(id, "complete")
    /\ UNCHANGED <<job, accepted>>

\* The processor returned: BullMQ moves the job to completed.
CompleteJob(id) ==
    /\ At(id, "complete")
    /\ job' = [job EXCEPT ![id].state = "completed", ![id].made = @ + 1]
    /\ Goto(id, "idle")
    /\ UNCHANGED <<log, accepted>>

\* Mutants: one attempt too many; one too few.
FailJobLate(id) ==
    LET made == job[id].made + 1 IN
    /\ At(id, "fail")
    /\ \/ /\ made <= Attempts
          /\ job' = [job EXCEPT ![id].state = "delayed", ![id].made = made]
          /\ Goto(id, "idle")
       \/ /\ made > Attempts
          /\ job' = [job EXCEPT ![id].state = "failed", ![id].made = made]
          /\ Goto(id, "onFailed")
    /\ UNCHANGED <<log, accepted>>

FailJobEarly(id) ==
    LET made == job[id].made + 1 IN
    /\ At(id, "fail")
    /\ \/ /\ made < Attempts - 1
          /\ job' = [job EXCEPT ![id].state = "delayed", ![id].made = made]
          /\ Goto(id, "idle")
       \/ /\ made >= Attempts - 1
          /\ job' = [job EXCEPT ![id].state = "failed", ![id].made = made]
          /\ Goto(id, "onFailed")
    /\ UNCHANGED <<log, accepted>>

\* The processor threw: back off while attempts are left; else the job is
\* failed for good and the 'failed' handler passes its attemptsMade test.
FailJob(id) ==
    LET made == job[id].made + 1 IN
    /\ At(id, "fail")
    /\ \/ /\ made < Attempts
          /\ job' = [job EXCEPT ![id].state = "delayed", ![id].made = made]
          /\ Goto(id, "idle")
       \/ /\ made >= Attempts
          /\ job' = [job EXCEPT ![id].state = "failed", ![id].made = made]
          /\ Goto(id, "onFailed")
    /\ UNCHANGED <<log, accepted>>

\* The 'failed' handler of an exhausted job.
OnFailed(id) ==
    /\ At(id, "onFailed")
    /\ UpdateStatus(id, "failed")
    /\ Goto(id, "idle")
    /\ UNCHANGED <<job, accepted>>

\* The exponential backoff is over.
BackoffElapsed(id) ==
    /\ job[id].state = "delayed"
    /\ job' = [job EXCEPT ![id].state = "waiting"]
    /\ UNCHANGED <<worker, log, accepted>>

\* Redis refuses to record the end of a run: the job stays active, unowned.
ReportLost(id) ==
    /\ "redis" \in Faults
    /\ worker[id] \in {"complete", "fail"}
    /\ Goto(id, "idle")
    /\ UNCHANGED <<job, log, accepted>>

\* An active job without a worker is found stalled: run again, and failed
\* beyond MaxStalls.  attemptsMade does not move, so the handler of that
\* 'failed' event returns without touching the log.
RequeueStalled(id) ==
    LET stalls == job[id].stalls + 1 IN
    /\ job[id].state = "active" /\ At(id, "idle")
    /\ job' = [job EXCEPT ![id].stalls = stalls,
                          ![id].state = IF stalls <= MaxStalls
                                        THEN "waiting" ELSE "failed"]
    /\ UNCHANGED <<worker, log, accepted>>

\* removeOnComplete / removeOnFail drop the oldest finished jobs.
TrimJob(id) ==
    /\ job[id].state \in {"completed", "failed"}
    /\ job' = [job EXCEPT ![id] = NoJob]
    /\ UNCHANGED <<worker, log, accepted>>

\* The process dies: processors vanish, the jobs stay as Redis has them.
KillWorkers == worker' = [id \in EventIds |-> "idle"]

WorkerStep(id) ==
    \/ PickJob(id)     \/ CountAttempt(id) \/ SendJob(id)
    \/ MarkJobSent(id) \/ CompleteJob(id)  \/ FailJob(id) \/ OnFailed(id)

=============================================================================
