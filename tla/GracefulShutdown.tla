-------------------------- MODULE GracefulShutdown --------------------------
(***************************************************************************)
(* The process around the inbound pipeline: bootstrap, and shutdown, which *)
(* awaits the queue's close, Redis' quit and the pool's end, and only then *)
(* closes the HTTP server and arms the timer that forces the exit.         *)
(* Nothing awaits the calls of process: they go on while their stores are  *)
(* taken away, and a command issued to a store after its goodbye is        *)
(* refused, while one issued before is still answered.                     *)
(***************************************************************************)
EXTENDS InboundPipeline

VARIABLES
    server,       \* how far shutdown has come
    late,         \* calls whose await was issued to a store that is closed
    unmarked      \* history: deliveries whose 'failed' the closed pool refused

processVars == <<server, late, unmarked>>
svars == <<vars, processVars>>

\* The await at which shutdown is; "closing": past all of them; "down": exited.
ServerStages == {"up", "draining", "quitting", "ending", "closing", "down"}

ShutdownTypeOK ==
    /\ TypeOK
    /\ server \in ServerStages
    /\ late \subseteq EventIds /\ unmarked \subseteq EventIds

SInit == /\ Init
         /\ server = "up"
         /\ late = {} /\ unmarked = {}

RedisStages    == {"dedup", "enqueue"}
PostgresStages == {"insert", "markSent", "markFailed"}

\* Mutant: the pool is ended before Redis is quit.
RefusedPoolFirst ==
    (IF server \in {"quitting", "ending", "closing"} THEN PostgresStages ELSE {})
    \cup (IF server \in {"ending", "closing"} THEN RedisStages ELSE {})

\* The awaits of a call that a store refuses when they are issued now.
Refused == (IF server \in {"quitting", "ending", "closing"} THEN RedisStages ELSE {})
           \cup (IF server \in {"ending", "closing"} THEN PostgresStages ELSE {})

\* A call that goes on issues its next await; the others wait for theirs.
Issue == late' = {d \in EventIds : IF call'[d] = call[d] THEN d \in late
                                   ELSE call'[d] \in Refused}

-----------------------------------------------------------------------------

\* Requests are still accepted until the process exits.
Accept(d) ==
    /\ server # "down"
    /\ Receive(d)
    /\ Issue
    /\ UNCHANGED <<server, unmarked>>

\* A refused await settles by rejecting: the check fails open, insert and
\* enqueue throw into the outer catch, updateStatus logs the error.
RefusedStep(d) ==
    /\ \/ /\ Awaits(d, "dedup")
          /\ lapsed' = lapsed \cup {LeadOf[d]}
          /\ Resume(d, IF Buildable(d) THEN "upsert" ELSE "dropped")
          /\ UNCHANGED unmarked
       \/ /\ call[d] \in {"insert", "enqueue"}
          /\ Resume(d, "dropped")
          /\ UNCHANGED <<lapsed, unmarked>>
       \/ /\ Awaits(d, "markSent")
          /\ Resume(d, "done")
          /\ UNCHANGED <<lapsed, unmarked>>
       \/ /\ Awaits(d, "markFailed")
          /\ Resume(d, "enqueue")
          /\ unmarked' = unmarked \cup {d}
          /\ UNCHANGED lapsed
    /\ UNCHANGED <<log, accepted, job, worker, claimed, crashes>>

\* process goes on, with the outcome that its store leaves it.
Proceed(d) ==
    /\ \/ d \in late /\ RefusedStep(d)
       \/ d \notin late /\ CallStep(d) /\ UNCHANGED unmarked
    /\ Issue
    /\ UNCHANGED server

\* Processors and the handlers of 'failed' run until the process exits; a
\* worker that is closing takes no job, promotes none and looks for no stalled
\* one.
Work(d) ==
    /\ QueueStep(d)
    /\ server = "up" \/ ~At(d, "idle")
    /\ UNCHANGED processVars

Trouble ==
    /\ \/ \E d \in EventIds : QueueTrouble(d)
       \/ \E lead \in Keys : Expire(lead)
    /\ UNCHANGED processVars

-----------------------------------------------------------------------------

Shutdown(next) == /\ server' = next
                  /\ UNCHANGED <<vars, late, unmarked>>

\* SIGTERM or SIGINT: the refresher is stopped and retryQueue.close called.
Signal == /\ server = "up" /\ crashes < MaxCrashes
          /\ Shutdown("draining")

\* Mutants: the close of the queue is not awaited; it waits for all jobs.
CloseNotAwaited == server = "draining" /\ Shutdown("quitting")

CloseWaitsForJobs == /\ server = "draining"
                     /\ \A d \in EventIds : ~JobLive(d) /\ worker[d] \notin Processing
                     /\ Shutdown("quitting")

\* retryQueue.close resolves once no processor runs; redis.quit is issued.
CloseQueue == /\ server = "draining"
              /\ \A d \in EventIds : worker[d] \notin Processing
              /\ Shutdown("quitting")

\* quit resolves behind the commands that were issued before it; pool.end is
\* called.
QuitRedis == /\ server = "quitting"
             /\ \A d \in EventIds \ late : call[d] \notin RedisStages
             /\ Shutdown("ending")

\* end resolves when the queries under way are answered; the HTTP server is
\* told to close and the timer is armed.
EndPool == /\ server = "ending"
           /\ \A d \in EventIds \ late : call[d] \notin PostgresStages
           /\ \A d \in EventIds : ~At(d, "onFailed")
           /\ Shutdown("closing")

\* The process ends; MaxCrashes bounds how often, however it happens.
ExitFrom(stages) == /\ server \in stages
                    /\ server' = "down" /\ late' = {}
                    /\ Die
                    /\ UNCHANGED unmarked

\* process.exit: when the last connection is closed, or by the timer.
Exit == ExitFrom({"closing"})

\* After another signal shutdown runs twice: the second quit or the second end
\* is rejected, and nobody handles that rejection.
ExitTwice == ExitFrom({"quitting", "ending"})

\* Whoever runs the service starts it again; bootstrap brings the workers up.
Restart == server = "down" /\ Shutdown("up")

\* The process dies at any other time, and is started again.
Kill == /\ server # "down"
        /\ server' = "up" /\ late' = {}
        /\ Crash
        /\ UNCHANGED unmarked

-----------------------------------------------------------------------------

Progress == CloseQueue \/ QuitRedis \/ EndPool \/ Exit \/ Restart

SNext == \/ \E d \in EventIds : Accept(d) \/ Proceed(d) \/ Work(d)
         \/ Trouble
         \/ Signal \/ Progress \/ ExitTwice
         \/ Kill

SSpec == SInit /\ [][SNext]_svars

\* As for the pipeline; and awaits of shutdown resolve once nothing holds them
\* up, the exit follows, and the service is started again.
SFairness == /\ \A d \in EventIds : WF_svars(Proceed(d)) /\ WF_svars(Work(d))
             /\ WF_svars(Progress)

SFairSpec == SSpec /\ SFairness

-----------------------------------------------------------------------------
(* Properties *)

\* A shutdown interrupts no job: when the process exits no processor runs, and
\* unless a second signal has hurried it no final 'failed' is on its way.
ExitSparesJobs ==
    [][server # "down" /\ server' = "down" =>
          /\ \A d \in EventIds : worker[d] \notin Processing
          /\ server = "closing" => \A d \in EventIds : At(d, "idle")]_svars

\* The order of the goodbyes: a call whose 'failed' the closed pool refused
\* does not leave a job behind a row that still says 'pending'.
UnmarkedIsNotQueued == \A d \in unmarked : job[d].state = "absent"

\* While Redis and Postgres answer the goodbyes, a shutdown ends the process,
\* however many calls are in flight and whatever the worker is doing.
ShutdownEnds == server = "draining" ~> server \in {"down", "up"}

=============================================================================
