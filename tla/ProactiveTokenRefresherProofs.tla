------------------- MODULE ProactiveTokenRefresherProofs -------------------
(***************************************************************************)
(* How long a token may stay expired, for every interval, buffer and       *)
(* lifetime of tokens.                                                     *)
(***************************************************************************)
EXTENDS ProactiveTokenRefresher, TLAPS

\* What the token will have left at the next check is bounded too: while the
\* process runs and no refresh is under way, wait hours pass before that check.
NextCheckInv ==
    up /\ ~refreshing => left - wait > Buffer - Interval - excused

Flags == up \in BOOLEAN /\ refreshing \in BOOLEAN /\ (refreshing => up)

Hours == wait \in 0 .. Interval /\ left \in Int /\ excused \in 0 .. MaxExcused

RefresherInv == Flags /\ Hours /\ OutageBounded /\ NextCheckInv

\* A fresh token outlives the buffer, and the next check is an interval away
\* at most.
LEMMA FreshToken ==
  ASSUME NEW life \in Nat, NEW w \in 0 .. Interval, life > Buffer
  PROVE  life - w > Buffer - Interval - 0 /\ life > Buffer - Interval - 0
<1>1. Interval \in Nat /\ Buffer \in Nat
  BY TimingAssumption
<1>2. w \in Int /\ w <= Interval
  BY <1>1
<1> QED
  BY <1>1, <1>2

LEMMA InitInv == Init => RefresherInv
<1> SUFFICES ASSUME Init PROVE RefresherInv
  OBVIOUS
<1>1. left \in Nat /\ left > Buffer
  BY TimingAssumption DEF Init
<1>2. Flags
  BY Zenon DEF Init, Flags
<1>3. Hours /\ OutageBounded /\ NextCheckInv
  BY <1>1, TimingAssumption DEF Init, Hours, OutageBounded, NextCheckInv
<1> QED
  BY <1>2, <1>3 DEF RefresherInv

LEMMA StepFlags == Flags /\ [Next]_vars => Flags'
<1> SUFFICES ASSUME Flags, [Next]_vars PROVE Flags'
  OBVIOUS
<1>1. CASE Check
  <2>1. refreshing' \in BOOLEAN /\ up' = up /\ up
    BY <1>1, Zenon DEF Check
  <2> QED BY <2>1, Zenon DEF Flags
<1>2. CASE Tick \/ Reauthorize \/ UNCHANGED vars
  <2>1. up' = up /\ refreshing' = refreshing
    BY <1>2, Zenon DEF Tick, Reauthorize, vars
  <2> QED BY <2>1, Zenon DEF Flags
<1>3. CASE Refreshed \/ RefreshFails \/ Stop \/ Start
  BY <1>3, Zenon DEF Refreshed, RefreshFails, Stop, Start, Flags
<1> QED
  BY <1>1, <1>2, <1>3 DEF Next

\* Each step keeps the inductive invariant.
LEMMA StepInv == RefresherInv /\ [Next]_vars => RefresherInv'
<1> SUFFICES ASSUME RefresherInv, [Next]_vars
             PROVE  Hours' /\ OutageBounded' /\ NextCheckInv'
  BY StepFlags DEF RefresherInv
<1>0. Interval \in Nat /\ Buffer \in Nat /\ MaxExcused \in Nat
  BY TimingAssumption
<1> USE <1>0 DEF RefresherInv, Hours, OutageBounded, NextCheckInv
<1>1. CASE Tick
  <2>1. left' = left - 1 /\ excused' \in 0 .. MaxExcused
    BY <1>1 DEF Tick
  <2>2. CASE up /\ ~refreshing
    BY <1>1, <2>1, <2>2 DEF Tick
  <2>3. CASE ~up
    BY <1>1, <2>1, <2>3 DEF Tick
  <2>4. CASE up /\ refreshing
    BY <1>1, <2>1, <2>4 DEF Tick
  <2> QED BY <2>2, <2>3, <2>4
<1>2. CASE Check
  <2>1. Hours' /\ OutageBounded' /\ left' = left /\ wait' = Interval /\ excused' = excused
    BY <1>2 DEF Check
  <2>2. ~refreshing' => ~(left <= Buffer)
    BY <1>2, Zenon DEF Check
  <2> QED BY <2>1, <2>2
<1>3. ASSUME NewToken, wait' = wait PROVE Hours' /\ OutageBounded' /\ NextCheckInv'
  <2>1. left' \in Nat /\ left' > Buffer /\ excused' = 0
    BY <1>3, TimingAssumption DEF NewToken
  <2>2. Hours'
    BY <1>3, <2>1
  <2>3. wait' \in 0 .. Interval
    BY <1>3
  <2>4. left' - wait' > Buffer - Interval - 0 /\ left' > Buffer - Interval - 0
    BY ONLY <2>1, <2>3, FreshToken
  <2> QED BY <2>1, <2>2, <2>4
<1>4. CASE Refreshed \/ Reauthorize
  BY <1>3, <1>4 DEF Refreshed, Reauthorize
<1>5. CASE RefreshFails
  BY <1>5 DEF RefreshFails
<1>6. CASE Stop
  BY <1>6 DEF Stop
<1>7. CASE Start
  BY <1>7 DEF Start
<1>8. CASE UNCHANGED vars
  BY <1>8 DEF vars
<1> QED
  BY <1>1, <1>2, <1>4, <1>5, <1>6, <1>7, <1>8 DEF Next

\* The refresher keeps its invariant.
THEOREM RefresherIsSound == Spec => []RefresherInv
  BY InitInv, StepInv, PTL DEF Spec

\* The refresher's variables have their types.
THEOREM RefresherTypes == Spec => []TypeOK
<1>1. RefresherInv => TypeOK
  BY Zenon DEF RefresherInv, Flags, Hours, TypeOK
<1> QED
  BY <1>1, RefresherIsSound, PTL

\* A token stays expired for less than Interval - Buffer hours, plus the hours
\* in which the process was down or TikTok refused, whatever the constants.
THEOREM OutageIsBounded == Spec => []OutageBounded
<1>1. RefresherInv => OutageBounded
  BY DEF RefresherInv
<1> QED
  BY <1>1, RefresherIsSound, PTL

\* With a buffer as long as the interval no token would expire unless the
\* process was down or TikTok refused: the buffer of one hour is what makes the
\* bound of OutageIsBounded twenty-two hours.
THEOREM WideBufferSuffices ==
  Buffer >= Interval => (Spec => [](excused = 0 => left > 0))
<1> SUFFICES ASSUME Buffer >= Interval PROVE Spec => [](excused = 0 => left > 0)
  OBVIOUS
<1>1. RefresherInv => (excused = 0 => left > 0)
  BY TimingAssumption DEF RefresherInv, Hours, OutageBounded
<1> QED
  BY <1>1, RefresherIsSound, PTL

=============================================================================
