---------------------- MODULE ProactiveTokenRefresher ----------------------
(***************************************************************************)
(* The proactive refresher against time, for one advertiser's token.  Time *)
(* is counted down, in hours: to the next check, and to the end of the     *)
(* access token's life.                                                    *)
(***************************************************************************)
EXTENDS Surroundings, Integers

CONSTANTS
    Interval,      \* CHECK_INTERVAL_MS
    Buffer,        \* EXPIRY_BUFFER_MS
    Lifetimes,     \* the values of access_token_expires_in
    MaxExcused     \* bound on excused

ASSUME TimingAssumption ==
    /\ Interval \in Nat /\ Buffer \in Nat /\ MaxExcused \in Nat
    /\ Lifetimes \subseteq Nat
    /\ \A life \in Lifetimes : life > Buffer

VARIABLES
    up,            \* the process runs
    wait,          \* hours to the next check
    left,          \* hours the stored token may still be used; below 1, none
    refreshing,    \* a check found the token due and has called TikTok
    excused        \* history: since the token was issued, the hours the process
                   \* was down or a refresh under way; an hour for each death
                   \* of the process; and, for each refresh that failed, the
                   \* hours to the next check

vars == <<up, wait, left, refreshing, excused>>

TypeOK == /\ up \in BOOLEAN /\ refreshing \in BOOLEAN
          /\ wait \in 0 .. Interval
          /\ left \in Int
          /\ excused \in 0 .. MaxExcused

\* The token has been authorized some time after a check.
Init == /\ up = TRUE /\ refreshing = FALSE
        /\ wait \in 0 .. Interval
        /\ left \in Lifetimes
        /\ excused = 0

-----------------------------------------------------------------------------

\* An hour goes by; a check that is due comes first.
Tick ==
    /\ wait > 0 \/ ~up
    /\ left' = left - 1
    /\ wait' = IF up THEN wait - 1 ELSE wait
    /\ excused' = IF up /\ ~refreshing THEN excused ELSE excused + 1
    /\ excused' <= MaxExcused
    /\ UNCHANGED <<up, refreshing>>

\* Mutants: the interval and the buffer are added up; only tokens that have
\* expired are refreshed.
CheckLate ==
    /\ up /\ wait = 0
    /\ wait' = Interval + Buffer
    /\ refreshing' = (refreshing \/ left <= Buffer)
    /\ UNCHANGED <<up, left, excused>>

CheckWithoutBuffer ==
    /\ up /\ wait = 0
    /\ wait' = Interval
    /\ refreshing' = (refreshing \/ left <= 0)
    /\ UNCHANGED <<up, left, excused>>

\* refreshExpiringTokens: a token that is due is refreshed.
Check ==
    /\ up /\ wait = 0
    /\ wait' = Interval
    /\ refreshing' = (refreshing \/ left <= Buffer)
    /\ UNCHANGED <<up, left, excused>>

NewToken == left' \in Lifetimes /\ excused' = 0

\* refreshToken: the new token is saved.
Refreshed == /\ refreshing
             /\ refreshing' = FALSE /\ NewToken
             /\ UNCHANGED <<up, wait>>

\* refreshToken: an error is logged, the next check will see the token again.
RefreshFails == /\ refreshing /\ "api" \in Faults
                /\ refreshing' = FALSE
                /\ excused' = excused + wait /\ excused' <= MaxExcused
                /\ UNCHANGED <<up, wait, left>>

\* The callback route or the manual refresh stores a new token.
Reauthorize == /\ up
               /\ NewToken
               /\ UNCHANGED <<up, wait, refreshing>>

\* The process dies.
Stop == /\ "crash" \in Faults /\ up
        /\ up' = FALSE /\ refreshing' = FALSE
        /\ excused' = excused + 1 /\ excused' <= MaxExcused
        /\ UNCHANGED <<wait, left>>

\* start: a check at once, and one after each interval.
Start == /\ ~up
         /\ up' = TRUE /\ wait' = 0
         /\ UNCHANGED <<left, refreshing, excused>>

Next == Tick \/ Check \/ Refreshed \/ RefreshFails \/ Reauthorize \/ Stop \/ Start

Spec == Init /\ [][Next]_vars

-----------------------------------------------------------------------------
(* Properties *)

\* A check every Interval hours with a buffer of Buffer hours leaves a token
\* expired for less than Interval - Buffer hours, and the hours excused.
OutageBounded == left > Buffer - Interval - excused

=============================================================================
