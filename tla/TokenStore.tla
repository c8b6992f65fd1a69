----------------------------- MODULE TokenStore -----------------------------
(***************************************************************************)
(* The OAuth token of one advertiser: the class TokenStore and everybody   *)
(* who uses it.  An operation is a route of the OAuth router, a run of the *)
(* proactive refresher, or a sender that asks for the active token; it     *)
(* advances one await at a time, interleaved with the others.  Tokens are  *)
(* numbered in the order in which TikTok issues them.                      *)
(***************************************************************************)
EXTENDS CachedRow, Naturals

CONSTANTS MaxIssued,     \* bound on the tokens TikTok issues
          OAuthStates    \* the uuids of the authorizations

ASSUME TokenAssumption == MaxIssued \in Nat /\ Values = 1 .. MaxIssued /\ None = 0

VARIABLES
    issued,      \* tokens issued so far
    stored,      \* history: the tokens Postgres has had
    gone,        \* history: the tokens whose revocation was reported a success
    oauth,       \* oauth[s]: whether an OAuth state is in Redis
    request,     \* request[o]: the OAuth state a callback came with, until it is
                 \* deleted; late is history: it was used up already
    used         \* history: the OAuth states with which a callback went on

tokenVars == <<issued, stored, gone>>
oauthVars == <<oauth, request, used>>
vars == <<row, copy, op, clean, tokenVars, oauthVars>>

Kinds  == {"authorize", "manual", "proactive", "sender", "revoke"}
Stages == {"getState", "delState", "getCopy", "getRow", "fill", "getAll", "exchange",
           "saveRow", "saveCopy", "delCopy", "delRow"}

StateKeys == {"new", "pending", "dropped"}
NoRequest == [state |-> None, late |-> FALSE]

\* Whoever is about to write a token has one.
TypeOK == /\ StoreTypeOK(Kinds, Stages)
          /\ \A o \in Ops : op[o].at \in {"fill", "saveRow", "saveCopy"} => op[o].holds # None
          /\ issued \in 0 .. MaxIssued
          /\ stored \subseteq Values
          /\ gone \subseteq Values \cup {None}
          /\ oauth \in [OAuthStates -> StateKeys]
          /\ request \in [Ops -> [state : OAuthStates \cup {None}, late : BOOLEAN]]
          /\ used \subseteq OAuthStates

Init == /\ StoreInit
        /\ issued = 0 /\ stored = {} /\ gone = {}
        /\ oauth = [s \in OAuthStates |-> "new"]
        /\ request = [o \in Ops |-> NoRequest]
        /\ used = {}

-----------------------------------------------------------------------------

FirstStage(kind) ==
    CASE kind = "authorize" -> "getState"
      [] kind = "proactive" -> "getAll"
      [] kind = "revoke"    -> "delCopy"
      [] OTHER              -> "getCopy"

\* The browser comes back from TikTok, once or again, with the state it left with.
Comes(o, s) == /\ oauth[s] # "new"
               /\ request' = [request EXCEPT ![o] = [state |-> s, late |-> s \in used]]
Forget(o) == request' = [request EXCEPT ![o] = NoRequest]

\* A request arrives, the refresher's interval elapses, or an event is sent.
\* The token that a revoke holds is history: what the caller wants to be gone.
Begin(o, kind) ==
    /\ Enter(o, kind, FirstStage(kind), IF kind = "revoke" THEN row ELSE None,
             kind = "sender")
    /\ \/ kind # "authorize" /\ UNCHANGED request
       \/ kind = "authorize" /\ \E s \in OAuthStates : Comes(o, s)
    /\ UNCHANGED <<tokenVars, oauth, used>>

-----------------------------------------------------------------------------
(* The state of an authorization *)

\* GET /auth/tiktok: a fresh state is set, or Redis refuses and nothing is.
Initiate(s) ==
    /\ oauth[s] = "new"
    /\ oauth' = [oauth EXCEPT ![s] = "pending"]
    /\ UNCHANGED <<row, copy, op, clean, tokenVars, request, used>>

\* callback: the key of the state; without it, or on an error, it is refused.
GetState(o) ==
    /\ At(o, "getState")
    /\ \/ /\ oauth[request[o].state] = "pending"
          /\ Goto(o, "delState") /\ UNCHANGED request
       \/ /\ oauth[request[o].state] # "pending" \/ "redis" \in Faults
          /\ End(o) /\ Forget(o)
    /\ UNCHANGED <<row, copy, clean, tokenVars, oauth, used>>

\* Mutant: the state is not deleted.
SkipDelState(o) ==
    /\ At(o, "delState")
    /\ Goto(o, "exchange") /\ Forget(o)
    /\ used' = used \cup {request[o].state}
    /\ UNCHANGED <<row, copy, clean, tokenVars, oauth>>

\* callback: the key is deleted, whether it is still there or not.
DelState(o) ==
    /\ At(o, "delState")
    /\ \/ /\ Goto(o, "exchange")
          /\ oauth' = [oauth EXCEPT ![request[o].state] = "dropped"]
          /\ used' = used \cup {request[o].state}
       \/ "redis" \in Faults /\ End(o) /\ UNCHANGED <<oauth, used>>
    /\ Forget(o)
    /\ UNCHANGED <<row, copy, clean, tokenVars>>

\* Ten minutes have passed.
StateExpires(s) ==
    /\ "ttl" \in Faults /\ oauth[s] = "pending"
    /\ oauth' = [oauth EXCEPT ![s] = "dropped"]
    /\ UNCHANGED <<row, copy, op, clean, tokenVars, request, used>>

-----------------------------------------------------------------------------
(* The store *)

\* get has its token: a sender is served, a manual refresh goes on to TikTok.
Got(o, token) ==
    \/ op[o].kind = "sender" /\ End(o)
    \/ op[o].kind = "manual" /\ Hold(o, token, "exchange")

\* get: the copy in Redis; a miss and an error both lead to Postgres.
GetCopy(o) ==
    /\ At(o, "getCopy")
    /\ \/ copy # None /\ Got(o, copy)
       \/ (copy = None \/ "redis" \in Faults) /\ Goto(o, "getRow")
    /\ UNCHANGED <<row, copy, clean, tokenVars, oauthVars>>

\* Mutant: get does not look whether there is a row.
GetRowUnchecked(o) ==
    /\ At(o, "getRow")
    /\ Hold(o, row, "fill")
    /\ UNCHANGED <<row, copy, clean, tokenVars, oauthVars>>

\* get: the row; no row, or a failed query, ends the operation.
GetRow(o) ==
    /\ At(o, "getRow")
    /\ \/ row # None /\ Hold(o, row, "fill")
       \/ (row = None \/ "postgres" \in Faults) /\ End(o)
    /\ UNCHANGED <<row, copy, clean, tokenVars, oauthVars>>

\* get: the row that was read goes into Redis, an error is only logged.
Fill(o) ==
    /\ At(o, "fill")
    /\ WriteCopy(op[o].holds) \/ CopyWriteFails
    /\ Got(o, op[o].holds)
    /\ UNCHANGED <<clean, tokenVars, oauthVars>>

\* The refresher's snapshot of the table; nothing is done about a token that
\* is not due.
GetAll(o) ==
    /\ At(o, "getAll")
    /\ \/ row # None /\ Hold(o, row, "exchange")
       \/ End(o)
    /\ UNCHANGED <<row, copy, clean, tokenVars, oauthVars>>

\* Mutant: the token that was held is spread over the new one and wins.
ExchangeKeepsOld(o) ==
    /\ At(o, "exchange")
    /\ issued < MaxIssued
    /\ issued' = issued + 1
    /\ Hold(o, IF op[o].holds = None THEN issued + 1 ELSE op[o].holds, "saveRow")
    /\ UNCHANGED <<row, copy, clean, stored, gone, oauthVars>>

\* exchangeCode, refreshToken: TikTok issues a new token, which is lost if the
\* answer is; or refuses.
Exchange(o) ==
    /\ At(o, "exchange")
    /\ \/ /\ issued < MaxIssued
          /\ issued' = issued + 1
          /\ \/ Hold(o, issued + 1, "saveRow") /\ UNCHANGED clean
             \/ "reply" \in Faults /\ End(o) /\ clean' = FALSE
       \/ /\ "api" \in Faults \/ issued = MaxIssued
          /\ End(o)
          /\ UNCHANGED <<issued, clean>>
    /\ UNCHANGED <<row, copy, stored, gone, oauthVars>>

\* Mutant: save swallows the error of Postgres and goes on to Redis.
SaveRowSwallows(o) ==
    LET token == op[o].holds IN
    /\ At(o, "saveRow")
    /\ WriteRow(token) \/ RowWriteFails(token)
    /\ Goto(o, "saveCopy")
    /\ stored'  = IF row' = token THEN stored \cup {token} ELSE stored
    /\ UNCHANGED <<clean, issued, gone, oauthVars>>

\* save: Postgres first; its error ends the operation.
SaveRow(o) ==
    LET token == op[o].holds IN
    /\ At(o, "saveRow")
    /\ \/ WriteRow(token) /\ Goto(o, "saveCopy") /\ UNCHANGED clean
       \/ RowWriteFails(token) /\ End(o) /\ clean' = FALSE
    /\ stored'  = IF row' = token THEN stored \cup {token} ELSE stored
    /\ UNCHANGED <<issued, gone, oauthVars>>

\* save: then the copy; here an error of Redis is not caught.
SaveCopy(o) ==
    /\ At(o, "saveCopy")
    /\ \/ WriteCopy(op[o].holds) /\ clean' = op[o].ok
       \/ CopyWriteFails /\ clean' = FALSE
    /\ End(o)
    /\ UNCHANGED <<tokenVars, oauthVars>>

\* Mutant: delete forgets the copy.
SkipDelCopy(o) ==
    /\ At(o, "delCopy")
    /\ Goto(o, "delRow")
    /\ UNCHANGED <<row, copy, clean, tokenVars, oauthVars>>

\* delete: first the copy, an error of Redis is only logged.
DelCopy(o) ==
    /\ At(o, "delCopy")
    /\ \/ WriteCopy(None) /\ Goto(o, "delRow")
       \/ CopyWriteFails /\ op' = [op EXCEPT ![o].at = "delRow", ![o].ok = FALSE]
    /\ UNCHANGED <<clean, tokenVars, oauthVars>>

\* delete: then the row.
DelRow(o) ==
    /\ At(o, "delRow")
    /\ \/ /\ WriteRow(None)
          /\ clean' = op[o].ok
          /\ gone' = gone \cup {op[o].holds}
       \/ RowWriteFails(None) /\ clean' = FALSE /\ UNCHANGED gone
    /\ End(o)
    /\ UNCHANGED <<issued, stored, oauthVars>>

-----------------------------------------------------------------------------

Expire == CopyExpires /\ UNCHANGED <<tokenVars, oauthVars>>

Crash == /\ KillOps
         /\ request' = [o \in Ops |-> NoRequest]
         /\ UNCHANGED <<tokenVars, oauth, used>>

Step(o) == \/ GetState(o) \/ DelState(o)
           \/ GetCopy(o) \/ GetRow(o) \/ Fill(o) \/ GetAll(o) \/ Exchange(o)
           \/ SaveRow(o) \/ SaveCopy(o) \/ DelCopy(o) \/ DelRow(o)

Next == \/ \E o \in Ops : Step(o) \/ \E kind \in Kinds : Begin(o, kind)
        \/ \E s \in OAuthStates : Initiate(s) \/ StateExpires(s)
        \/ Expire
        \/ Crash

Spec == Init /\ [][Next]_vars

-----------------------------------------------------------------------------
(* Properties *)

\* A token that a sender can be served was durable first: Redis never has one
\* that Postgres did not get, whichever of the two fails in a save.
CopyWasStored == copy # None => copy \in stored

\* The copy is stale only after a writer overlapped another operation, failed
\* or was killed, and the next writer that runs undisturbed heals it.  Senders
\* that fill the cache at the same time do no harm.
CoherentUnlessDisturbed == Quiet /\ clean => Coherent

\* Likewise, Postgres has the token that TikTok issued last, or none: a save
\* never leaves an older one, whose refresh token is used up.
LastTokenWins == Quiet /\ clean /\ row # None => row = issued

\* A state that was read and is still to be deleted when a second callback
\* reads it lets both go on; but once a callback has its deletion acknowledged,
\* no callback that comes later gets past the check, and none exchanges a code.
UsedStateIsRefused == \A o \in Ops : request[o].late => At(o, "getState")

\* "Deletes a token from both Redis and Postgres": the token that was stored
\* when a successful revoke began is not served once everything is over.
RevokedMeansGone == Quiet => \A token \in gone : token # None => token \notin {row, copy}

=============================================================================
