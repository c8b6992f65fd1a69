---------------------------- MODULE Surroundings ----------------------------
(***************************************************************************)
(* What the bridge depends on and does not control, and the trouble each   *)
(* of it may cause in the instance at hand.                                *)
(***************************************************************************)
CONSTANT Faults

\* TikTok, Klaviyo: "api", a call fails after the client's HTTP retries;
\* "reply", the service acts on a call, and the answer is lost.
ServiceFaults == {"api", "reply"}

\* "postgres", a query of the pool fails; "update", an UPDATE of the event log
\* fails, of which nobody hears.
PostgresFaults == {"postgres", "update"}

\* "redis", a command is answered with an error; "ttl", a key expires or is
\* evicted; "resend", ioredis repeats a command whose answer was lost with the
\* connection (server.ts sets maxRetriesPerRequest: null, so that a command
\* waits for the reconnection instead of failing).
RedisFaults == {"redis", "ttl", "resend"}

\* The process dies and is started again.
ProcessFaults == {"crash"}

ASSUME FaultsAssumption ==
    Faults \subseteq ServiceFaults \cup PostgresFaults \cup RedisFaults \cup ProcessFaults

=============================================================================
