----------------------- MODULE GracefulShutdownProofs -----------------------
(***************************************************************************)
(* A shutdown in the middle of everything is no worse than stores that     *)
(* fail: every step of the process around the pipeline is a step of the    *)
(* pipeline, or leaves it alone.  With that the theorems about the pipeline *)
(* hold through any number of shutdowns and restarts.                      *)
(***************************************************************************)
EXTENDS GracefulShutdown, InboundPipelineProofs

\* The stores may fail and the process may die; nothing is said of the others.
StoresMayFail == {"redis", "postgres", "update", "crash"} \subseteq Faults

\* Until it exits, a shutdown may still count as the death it ends in.
ServerInv == server \in ServerStages \ {"up", "down"} => crashes < MaxCrashes

\* The pipeline's own view of a step.
PipelineStep == [Next]_vars

-----------------------------------------------------------------------------

LEMMA AwaitsDistinct ==
    ASSUME NEW d \in EventIds, RefusedStep(d)
    PROVE  call[d] \in {"dedup", "insert", "enqueue", "markSent", "markFailed"}
BY DEF RefusedStep, Awaits

\* A store that is closed answers like one that fails.
LEMMA RefusalIsFault ==
    ASSUME StoresMayFail, NEW d \in EventIds, RefusedStep(d)
    PROVE  CallStep(d)
<1> USE DEF StoresMayFail, Awaits
<1>1. CASE Awaits(d, "dedup")
  BY <1>1 DEF RefusedStep, CallStep, Deduplicate, IsNew, FailOpen
<1>2. CASE Awaits(d, "insert")
  BY <1>2 DEF RefusedStep, CallStep, InsertPending, InsertFails
<1>3. CASE Awaits(d, "enqueue")
  BY <1>3 DEF RefusedStep, CallStep, EnqueueInbound
<1>4. CASE Awaits(d, "markSent")
  BY <1>4 DEF RefusedStep, CallStep, MarkSent, UpdateStatus
<1>5. CASE Awaits(d, "markFailed")
  BY <1>5 DEF RefusedStep, CallStep, MarkFailed, UpdateStatus
<1> QED BY <1>1, <1>2, <1>3, <1>4, <1>5, AwaitsDistinct

LEMMA ExitIsCrash ==
    ASSUME StoresMayFail, ServerInv, Exit \/ ExitTwice
    PROVE  Crash
BY DEF StoresMayFail, ServerInv, ServerStages, Exit, ExitTwice, ExitFrom, Crash

LEMMA StepsMap ==
    ASSUME StoresMayFail, ServerInv, [SNext]_svars
    PROVE  PipelineStep
<1> USE DEF PipelineStep
<1>1. ASSUME NEW d \in EventIds, Accept(d) \/ Proceed(d) \/ Work(d) PROVE Next
  BY <1>1, RefusalIsFault DEF Accept, Proceed, Work, Next, UpNext
<1>2. CASE Trouble
  BY <1>2 DEF Trouble, Next, UpNext
<1>3. CASE Signal \/ CloseQueue \/ QuitRedis \/ EndPool \/ Restart
  BY <1>3 DEF Signal, CloseQueue, QuitRedis, EndPool, Restart, Shutdown
<1>4. CASE Exit \/ ExitTwice
  BY <1>4, ExitIsCrash DEF Next, UpNext
<1>5. CASE Kill
  BY <1>5 DEF Kill, Next, UpNext
<1>6. CASE UNCHANGED svars
  BY <1>6 DEF svars
<1> QED BY <1>1, <1>2, <1>3, <1>4, <1>5, <1>6 DEF SNext, Progress

LEMMA ServerInvariant == SSpec => []ServerInv
<1>1. SInit => ServerInv
  BY DEF SInit, ServerInv
<1>2. ServerInv /\ [SNext]_svars => ServerInv'
  <2> SUFFICES ASSUME ServerInv, [SNext]_svars PROVE ServerInv'
    OBVIOUS
  <2> USE DEF ServerInv, ServerStages
  <2>1. ASSUME NEW d \in EventIds, Accept(d) \/ Proceed(d) \/ Work(d)
        PROVE  UNCHANGED <<server, crashes>>
    BY <2>1 DEF Accept, Receive, Proceed, RefusedStep, CallStep, Deduplicate, UpsertProfile,
       InsertPending, CreateEvent, MarkSent, MarkFailed, EnqueueInbound, Work, QueueStep,
       processVars
  <2>2. Trouble => UNCHANGED <<server, crashes>>
    BY DEF Trouble, QueueTrouble, Expire, processVars
  <2>3. CASE Signal
    BY <2>3 DEF Signal, Shutdown, vars
  <2>4. CASE CloseQueue \/ QuitRedis \/ EndPool
    BY <2>4 DEF CloseQueue, QuitRedis, EndPool, Shutdown, vars
  <2>5. CASE Exit \/ ExitTwice \/ Restart \/ Kill
    BY <2>5 DEF Exit, ExitTwice, ExitFrom, Restart, Kill, Shutdown
  <2>6. CASE UNCHANGED svars
    BY <2>6 DEF svars, vars, processVars
  <2> QED BY <2>1, <2>2, <2>3, <2>4, <2>5, <2>6 DEF SNext, Progress
<1> QED BY <1>1, <1>2, PTL DEF SSpec

\* Bootstrap, shutdown and restart around the pipeline implement the pipeline.
THEOREM ShutdownImplementsPipeline ==
    ASSUME StoresMayFail PROVE SSpec => Spec
<1>1. SInit => Init
  BY DEF SInit
<1>2. ServerInv /\ [SNext]_svars => [Next]_vars
  BY StepsMap DEF PipelineStep
<1> QED BY <1>1, <1>2, ServerInvariant, PTL DEF SSpec, Spec

\* Every variable of the process has its type, and so has the pipeline in it.
THEOREM ShutdownTypes ==
    ASSUME StoresMayFail PROVE SSpec => []ShutdownTypeOK
<1> DEFINE ProcessOK == /\ server \in ServerStages
                        /\ late \subseteq EventIds /\ unmarked \subseteq EventIds
<1>1. SInit => ProcessOK
  BY DEF SInit, ServerStages
<1>2. ProcessOK /\ [SNext]_svars => ProcessOK'
  <2> SUFFICES ASSUME ProcessOK, [SNext]_svars PROVE ProcessOK'
    OBVIOUS
  <2> USE DEF ServerStages
  <2>1. ASSUME NEW d \in EventIds, Accept(d) \/ Proceed(d) PROVE ProcessOK'
    BY <2>1 DEF Accept, Proceed, Issue, RefusedStep
  <2>2. ASSUME NEW d \in EventIds, Work(d) PROVE ProcessOK'
    BY <2>2 DEF Work, processVars
  <2>3. CASE Trouble
    BY <2>3 DEF Trouble, processVars
  <2>4. CASE Signal \/ CloseQueue \/ QuitRedis \/ EndPool \/ Restart
    BY <2>4 DEF Signal, CloseQueue, QuitRedis, EndPool, Restart, Shutdown
  <2>5. CASE Exit \/ ExitTwice \/ Kill
    BY <2>5 DEF Exit, ExitTwice, ExitFrom, Kill
  <2>6. CASE UNCHANGED svars
    BY <2>6 DEF svars, processVars
  <2> QED BY <2>1, <2>2, <2>3, <2>4, <2>5, <2>6 DEF SNext, Progress
<1>3. TypeOK /\ ProcessOK => ShutdownTypeOK
  BY DEF ShutdownTypeOK
<1> QED
  BY <1>1, <1>2, <1>3, ShutdownImplementsPipeline, TypeCorrect, PTL DEF SSpec

\* A shutdown, however it meets the calls in flight, sends no lead twice and
\* writes no 'sent' for what Klaviyo has not.
THEOREM ShutdownKeepsPromises ==
    ASSUME StoresMayFail
    PROVE  SSpec => /\ []SentMeansDelivered /\ []NoDuplicateLead
                    /\ []AttemptsBounded /\ ImplementsAtMostOnce
BY ShutdownImplementsPipeline, SentIsDelivered, NoLeadTwice, AttemptsAreBounded,
   PipelineImplementsAtMostOnce, PTL

-----------------------------------------------------------------------------
(* A refused 'failed' leaves no job *)

\* Commands are refused from a goodbye on and until the end of the process; the
\* pool goes last, so a call whose 'failed' it refused finds Redis gone too.
UnmarkedInv ==
    /\ late \subseteq EventIds /\ unmarked \subseteq EventIds
    /\ \A d \in late : /\ server \in {"quitting", "ending", "closing"}
                       /\ call[d] \in PostgresStages => server \in {"ending", "closing"}
    /\ \A d \in unmarked :
          /\ job[d].state = "absent"
          /\ \/ call[d] \in {"dropped", "crashed"}
             \/ call[d] = "enqueue" /\ d \in late

\* The steps of the queue leave a job that is not there alone.
LEMMA AbsentStays ==
    ASSUME TypeOK, QueueInv, NEW d \in EventIds, QueueStep(d) \/ QueueTrouble(d),
           NEW e \in EventIds, job[e].state = "absent"
    PROVE  job'[e].state = "absent"
<1> USE DEF TypeOK, QueueTypeOK, QueueInv, Processing, Jobs
<1>1. CASE PickJob(d) \/ CompleteJob(d) \/ FailJob(d)
  BY <1>1 DEF PickJob, CompleteJob, FailJob, At
<1>2. CASE CountAttempt(d) \/ SendJob(d) \/ MarkJobSent(d) \/ OnFailed(d) \/ ReportLost(d)
  BY <1>2 DEF CountAttempt, SendJob, MarkJobSent, OnFailed, ReportLost
<1>3. CASE BackoffElapsed(d) \/ RequeueStalled(d) \/ TrimJob(d)
  BY <1>3 DEF BackoffElapsed, RequeueStalled, TrimJob, NoJob
<1> QED BY <1>1, <1>2, <1>3 DEF QueueStep, QueueTrouble, WorkerStep

LEMMA AcceptUnmarked ==
    ASSUME TypeOK, UnmarkedInv, NEW d \in EventIds, Accept(d)
    PROVE  UnmarkedInv'
<1>1. /\ call[d] = "unborn" /\ call'[d] = "dedup"
      /\ \A e \in EventIds \ {d} : call'[e] = call[e]
      /\ UNCHANGED <<job, server, unmarked>>
  BY DEF Accept, Receive, Awaits, Resume, TypeOK
<1>2. late' = {e \in EventIds : IF call'[e] = call[e] THEN e \in late ELSE call'[e] \in Refused}
  BY DEF Accept, Issue
<1> QED BY <1>1, <1>2 DEF UnmarkedInv, Refused, RedisStages, PostgresStages

LEMMA ProceedUnmarked ==
    ASSUME TypeOK, QueueInv, UnmarkedInv, NEW d \in EventIds, Proceed(d)
    PROVE  UnmarkedInv'
<1>0. UNCHANGED server
  BY DEF Proceed
<1>1. late' = {e \in EventIds : IF call'[e] = call[e] THEN e \in late ELSE call'[e] \in Refused}
  BY DEF Proceed, Issue
<1>2. \A e \in EventIds \ {d} : call'[e] = call[e] /\ job'[e] = job[e]
  BY DEF Proceed, RefusedStep, CallStep, Deduplicate, UpsertProfile, InsertPending, CreateEvent,
     MarkSent, MarkFailed, EnqueueInbound, Enqueue, Resume, TypeOK, QueueTypeOK
<1>3. /\ late' \subseteq EventIds
      /\ \A e \in late' : /\ server' \in {"quitting", "ending", "closing"}
                          /\ call'[e] \in PostgresStages => server' \in {"ending", "closing"}
  BY <1>0, <1>1 DEF UnmarkedInv, Refused, RedisStages, PostgresStages
<1>4. CASE d \in late /\ RefusedStep(d)
  <2>1. UNCHANGED job
    BY <1>4 DEF RefusedStep
  <2>2. CASE Awaits(d, "markFailed")
    <3>1. job[d].state = "absent"
      BY <2>2 DEF Awaits, QueueInv, Running, Admitted
    <3>2. call'[d] = "enqueue" /\ call[d] # "enqueue" /\ unmarked' = unmarked \cup {d}
      BY <1>4, <2>2 DEF RefusedStep, Awaits, Resume, TypeOK
    <3>3. "enqueue" \in Refused
      BY <1>4, <2>2 DEF UnmarkedInv, Awaits, Refused, RedisStages, PostgresStages
    <3> QED BY <1>1, <1>2, <1>3, <2>1, <3>1, <3>2, <3>3 DEF UnmarkedInv
  <2>3. CASE ~Awaits(d, "markFailed")
    <3>1. unmarked' = unmarked
      BY <1>4, <2>3 DEF RefusedStep
    <3>2. CASE call[d] = "enqueue"
      <4>1. call'[d] = "dropped"
        BY <1>4, <3>2 DEF RefusedStep, Awaits, Resume, TypeOK
      <4> QED BY <1>1, <1>2, <1>3, <2>1, <3>1, <4>1 DEF UnmarkedInv
    <3>3. CASE call[d] # "enqueue"
      <4>1. call[d] \in {"dedup", "insert", "markSent"}
        BY <1>4, <2>3, <3>3, AwaitsDistinct DEF Awaits
      <4>2. d \notin unmarked
        BY <4>1 DEF UnmarkedInv
      <4> QED BY <1>1, <1>2, <1>3, <2>1, <3>1, <4>2 DEF UnmarkedInv
    <3> QED BY <3>2, <3>3
  <2> QED BY <2>2, <2>3
<1>5. CASE d \notin late /\ CallStep(d) /\ UNCHANGED unmarked
  <2>1. call[d] \notin {"dropped", "crashed"}
    BY <1>5 DEF CallStep, Deduplicate, UpsertProfile, InsertPending, CreateEvent, MarkSent,
       MarkFailed, EnqueueInbound, Awaits
  <2>2. d \notin unmarked
    BY <1>5, <2>1 DEF UnmarkedInv
  <2> QED BY <1>1, <1>2, <1>3, <1>5, <2>2 DEF UnmarkedInv
<1> QED BY <1>4, <1>5 DEF Proceed

\* With stores that may fail, the order of the goodbyes leaves no job behind a
\* row that the closed pool kept at 'pending'.
THEOREM UnmarkedIsNeverQueued ==
    ASSUME StoresMayFail PROVE SSpec => []UnmarkedIsNotQueued
<1>1. SInit => UnmarkedInv
  BY DEF SInit, UnmarkedInv
<1>2. TypeOK /\ QueueInv /\ UnmarkedInv /\ [SNext]_svars => UnmarkedInv'
  <2> SUFFICES ASSUME TypeOK, QueueInv, UnmarkedInv, [SNext]_svars PROVE UnmarkedInv'
    OBVIOUS
  <2>1. ASSUME NEW d \in EventIds, QueueStep(d) \/ QueueTrouble(d),
               UNCHANGED <<call, server, late, unmarked>>
        PROVE  UnmarkedInv'
    <3>1. \A e \in EventIds : job[e].state = "absent" => job'[e].state = "absent"
      BY <2>1, AbsentStays
    <3> QED BY <2>1, <3>1 DEF UnmarkedInv
  <2>2. ASSUME NEW lead \in Keys, Expire(lead), UNCHANGED processVars PROVE UnmarkedInv'
    BY <2>2 DEF Expire, processVars, UnmarkedInv
  <2>3. CASE Signal \/ CloseQueue \/ QuitRedis \/ EndPool \/ Restart
    BY <2>3 DEF Signal, CloseQueue, QuitRedis, EndPool, Restart, Shutdown, vars, UnmarkedInv,
       PostgresStages
  <2>4. CASE Exit \/ ExitTwice \/ Kill
    <3>1. /\ late' = {} /\ UNCHANGED <<unmarked, job>>
          /\ call' = [d \in EventIds |-> IF call[d] \in Running THEN "crashed" ELSE call[d]]
      BY <2>4 DEF Exit, ExitTwice, ExitFrom, Kill, Crash, Die
    <3> QED BY <3>1 DEF UnmarkedInv, Running, Admitted
  <2>5. CASE UNCHANGED svars
    BY <2>5 DEF svars, vars, processVars, UnmarkedInv
  <2>6. CASE Trouble
    <3>1. ASSUME NEW d \in EventIds, QueueTrouble(d), UNCHANGED processVars
          PROVE  UnmarkedInv'
      <4>1. UNCHANGED <<call, server, late, unmarked>>
        BY <3>1 DEF QueueTrouble, RequeueStalled, TrimJob, processVars
      <4> QED BY <2>1, <3>1, <4>1
    <3> QED BY <2>2, <2>6, <3>1 DEF Trouble
  <2>7. CASE \E d \in EventIds : Accept(d) \/ Proceed(d) \/ Work(d)
    <3>1. PICK d \in EventIds : Accept(d) \/ Proceed(d) \/ Work(d)
      BY <2>7
    <3>2. CASE Accept(d)
      BY <3>2, AcceptUnmarked
    <3>3. CASE Proceed(d)
      BY <3>3, ProceedUnmarked
    <3>4. CASE Work(d)
      <4>1. QueueStep(d) /\ UNCHANGED <<call, server, late, unmarked>>
        BY <3>4 DEF Work, QueueStep, processVars
      <4> QED BY <2>1, <4>1
    <3> QED BY <3>1, <3>2, <3>3, <3>4
  <2> QED
    BY <2>3, <2>4, <2>5, <2>6, <2>7 DEF SNext, Progress
<1>3. UnmarkedInv => UnmarkedIsNotQueued
  BY DEF UnmarkedInv, UnmarkedIsNotQueued
<1> QED
  BY <1>1, <1>2, <1>3, ShutdownImplementsPipeline, TypeCorrect, QueueInvariant, PTL DEF SSpec

-----------------------------------------------------------------------------
(* A shutdown interrupts no job *)

\* From the close of the queue on no processor runs, and from the end of the
\* pool on no handler of 'failed' either.
QuietInv ==
    /\ server \in {"quitting", "ending", "closing"} =>
           \A d \in EventIds : worker[d] \notin Processing
    /\ server = "closing" => \A d \in EventIds : At(d, "idle")

\* Outside of a job's run the queue sends its worker nowhere but to rest.
LEMMA QueueRests ==
    ASSUME TypeOK, NEW d \in EventIds, QueueStep(d), ~At(d, "idle"),
           worker[d] \notin Processing
    PROVE  /\ At(d, "onFailed")
           /\ \A e \in EventIds : worker'[e] = worker[e] \/ worker'[e] = "idle"
<1>1. At(d, "onFailed")
  BY DEF At, TypeOK, QueueTypeOK, WorkerStages
<1>2. OnFailed(d) \/ BackoffElapsed(d)
  BY <1>1 DEF QueueStep, WorkerStep, PickJob, CountAttempt, SendJob, MarkJobSent, CompleteJob,
     FailJob, ReportLost, RequeueStalled, At
<1>3. OnFailed(d) => worker' = [worker EXCEPT ![d] = "idle"]
  BY DEF OnFailed, Goto
<1>4. BackoffElapsed(d) => worker' = worker
  BY DEF BackoffElapsed
<1>5. DOMAIN worker = EventIds
  BY DEF TypeOK, QueueTypeOK
<1> QED BY <1>1, <1>2, <1>3, <1>4, <1>5

LEMMA QuietStep == TypeOK /\ QuietInv /\ [SNext]_svars => QuietInv'
<1> SUFFICES ASSUME TypeOK, QuietInv, [SNext]_svars PROVE QuietInv'
  OBVIOUS
<1> USE DEF QuietInv, At
<1>1. ASSUME NEW d \in EventIds, Accept(d) \/ Proceed(d) PROVE QuietInv'
  BY <1>1 DEF Accept, Receive, Proceed, RefusedStep, CallStep, Deduplicate, UpsertProfile,
     InsertPending, CreateEvent, MarkSent, MarkFailed, EnqueueInbound, Enqueue, Resume
<1>2. ASSUME NEW d \in EventIds, Work(d) PROVE QuietInv'
  <2>1. QueueStep(d) /\ server' = server
    BY <1>2 DEF Work, processVars
  <2>2. CASE server \notin {"quitting", "ending", "closing"}
    BY <2>1, <2>2
  <2>3. CASE server \in {"quitting", "ending", "closing"}
    <3>1. ~At(d, "idle") /\ worker[d] \notin Processing
      BY <1>2, <2>3 DEF Work
    <3>2. /\ At(d, "onFailed")
          /\ \A e \in EventIds : worker'[e] = worker[e] \/ worker'[e] = "idle"
      BY <2>1, <3>1, QueueRests
    <3> QED BY <2>1, <2>3, <3>1, <3>2 DEF Processing
  <2> QED BY <2>2, <2>3
<1>3. CASE Trouble
  <2>1. server' = server
    BY <1>3 DEF Trouble, processVars
  <2>2. worker' = worker \/ \E d \in EventIds : worker' = [worker EXCEPT ![d] = "idle"]
    BY <1>3 DEF Trouble, QueueTrouble, ReportLost, Goto, TrimJob, Expire
  <2> QED BY <2>1, <2>2 DEF TypeOK, QueueTypeOK, Processing
<1>4. CASE Signal \/ CloseQueue \/ QuitRedis \/ Restart
  BY <1>4 DEF Signal, CloseQueue, QuitRedis, Restart, Shutdown, vars
<1>5. CASE EndPool
  <2>1. /\ worker' = worker
        /\ \A d \in EventIds : worker[d] \notin Processing
        /\ \A d \in EventIds : worker[d] # "onFailed"
    BY <1>5 DEF EndPool, Shutdown, vars
  <2>2. \A d \in EventIds : worker[d] \in WorkerStages
    BY DEF TypeOK, QueueTypeOK
  <2>3. \A d \in EventIds : worker[d] = "idle"
    BY <2>1, <2>2 DEF WorkerStages
  <2> QED BY <2>1, <2>3 DEF Processing
<1>6. CASE Exit \/ ExitTwice \/ Kill
  BY <1>6 DEF Exit, ExitTwice, ExitFrom, Kill
<1>7. CASE UNCHANGED svars
  BY <1>7 DEF svars, vars, processVars
<1> QED BY <1>1, <1>2, <1>3, <1>4, <1>5, <1>6, <1>7 DEF SNext, Progress

\* An exit after a signal finds no job in the middle of its run, and unless a
\* second signal hurries it no final 'failed' that is still to be written.
THEOREM ExitSparesJobsHolds ==
    ASSUME StoresMayFail PROVE SSpec => ExitSparesJobs
<1> DEFINE Spares == server # "down" /\ server' = "down" =>
                        /\ \A d \in EventIds : worker[d] \notin Processing
                        /\ server = "closing" => \A d \in EventIds : At(d, "idle")
<1>1. SInit => QuietInv
  BY DEF SInit, QuietInv
<1>2. QuietInv /\ [SNext]_svars => [Spares]_svars
  <2> SUFFICES ASSUME QuietInv, SNext, server # "down", server' = "down" PROVE Spares
    OBVIOUS
  <2>1. CASE Exit \/ ExitTwice
    BY <2>1 DEF Exit, ExitTwice, ExitFrom, QuietInv
  <2>2. ASSUME NEW d \in EventIds, Accept(d) \/ Proceed(d) \/ Work(d)
        PROVE  server' = server
    BY <2>2 DEF Accept, Proceed, Work, processVars
  <2>3. Trouble => server' = server
    BY DEF Trouble, processVars
  <2>4. Signal \/ CloseQueue \/ QuitRedis \/ EndPool \/ Restart \/ Kill => server' # "down"
    BY DEF Signal, CloseQueue, QuitRedis, EndPool, Restart, Kill, Shutdown
  <2> QED BY <2>1, <2>2, <2>3, <2>4 DEF SNext, Progress
<1> QED BY <1>1, <1>2, QuietStep, ShutdownImplementsPipeline, TypeCorrect, PTL
        DEF SSpec, ExitSparesJobs

=============================================================================
