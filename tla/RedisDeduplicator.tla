------------------------- MODULE RedisDeduplicator -------------------------
(***************************************************************************)
(* The keys of the class RedisDeduplicator.  isDuplicate is a single       *)
(* SET key "1" EX ttl NX: the answer and the claim are one atomic step of  *)
(* Redis.  Each operator below is one outcome of that call.                *)
(***************************************************************************)
EXTENDS Surroundings

CONSTANT Keys

VARIABLES
    claimed,    \* the keys present in Redis
    lapsed      \* history: keys that were lost, or whose check failed open

dedupVars == <<claimed, lapsed>>

DedupTypeOK == claimed \subseteq Keys /\ lapsed \subseteq Keys

DedupInit == claimed = {} /\ lapsed = {}

\* Mutant: SET without NX.
ClaimWithoutNX(key) ==
    /\ claimed' = claimed \cup {key}
    /\ UNCHANGED lapsed

\* "OK": the key was not there and now is.  isDuplicate returns false.
Claim(key) ==
    /\ key \notin claimed
    /\ claimed' = claimed \cup {key}
    /\ UNCHANGED lapsed

\* An error reply is logged and taken for a new event: returns false.
FailOpen(key) ==
    /\ "redis" \in Faults
    /\ lapsed' = lapsed \cup {key}
    /\ UNCHANGED claimed

\* null: the key is there.  Returns true.
AlreadyClaimed(key) ==
    /\ key \in claimed
    /\ UNCHANGED dedupVars

\* The first SET was applied, its answer lost with the connection, and the
\* repeated SET finds the key the same call has just set.  Returns true.
ClaimResent(key) ==
    /\ "resend" \in Faults
    /\ Claim(key)

\* isDuplicate(key) returns false / true.
IsNew(key)       == Claim(key) \/ FailOpen(key)
IsDuplicate(key) == AlreadyClaimed(key) \/ ClaimResent(key)

\* The TTL runs out, or Redis evicts the key (allkeys-lru).
ExpireKey(key) ==
    /\ "ttl" \in Faults
    /\ key \in claimed
    /\ claimed' = claimed \ {key}
    /\ lapsed'  = lapsed \cup {key}

=============================================================================
