-------------------------- MODULE TokenStoreProofs --------------------------
(***************************************************************************)
(* For any number of operations in flight, tokens, OAuth states and faults: *)
(* what Redis may serve, that used OAuth states are refused, types, and    *)
(* when row, copy and the last token that TikTok issued agree.             *)
(***************************************************************************)
EXTENDS TokenStore, TLAPS

States == OpStates(Kinds, Stages)

Writing == {"fill", "saveRow", "saveCopy"}

\* Whoever is about to write the copy holds a token that Postgres was given,
\* and whoever is about to write the row holds a token.
CopiesStored(states) ==
    \A o \in Ops :
        /\ states[o].at \in {"fill", "saveCopy"} => states[o].holds \in stored
        /\ states[o].at = "saveRow" => states[o].holds \in Values

\* The tokens that can reach the copy: from the row, or from an operation.
StoredInv == /\ stored \subseteq Values
             /\ issued \in 0 .. MaxIssued
             /\ op \in [Ops -> States]
             /\ row # None => row \in stored
             /\ CopyWasStored
             /\ CopiesStored(op)

-----------------------------------------------------------------------------
(* Operations change one at a time. *)

LEMMA NoneIsIdle == Idle \in States /\ Idle.at \notin Writing
  BY DEF Idle, Writing, States, OpStates

\* An operation that goes on keeps its token, unless it takes another.
LEMMA GoesOn ==
  ASSUME StoredInv, NEW o \in Ops, NEW stage \in Stages \ Writing,
         Goto(o, stage)
  PROVE  op' \in [Ops -> States] /\ CopiesStored(op')
  BY DEF StoredInv, CopiesStored, Writing, Goto, States, OpStates

LEMMA Holds ==
  ASSUME StoredInv, NEW o \in Ops, NEW token \in Values, NEW stage \in Stages,
         stage \in {"fill", "saveCopy"} => token \in stored,
         Hold(o, token, stage)
  PROVE  op' \in [Ops -> States] /\ CopiesStored(op')
<1> DEFINE held == [op[o] EXCEPT !.at = stage, !.holds = token]
<1>1. op' = [op EXCEPT ![o] = held] /\ held.at = stage /\ held.holds = token
  BY DEF StoredInv, Hold, States, OpStates
<1>2. held \in States
  BY DEF StoredInv, States, OpStates
<1> HIDE DEF held
<1>3. op' \in [Ops -> States]
  BY <1>1, <1>2 DEF StoredInv
<1>4. CopiesStored(op')
  BY <1>1 DEF StoredInv, CopiesStored
<1> QED
  BY <1>3, <1>4

LEMMA Ends ==
  ASSUME StoredInv, NEW o \in Ops, End(o)
  PROVE  op' \in [Ops -> States] /\ CopiesStored(op')
  BY NoneIsIdle DEF StoredInv, CopiesStored, Writing, End

LEMMA GotType ==
  ASSUME StoredInv, NEW o \in Ops, NEW token \in Values, Got(o, token)
  PROVE  op' \in [Ops -> States] /\ CopiesStored(op')
<1>1. CASE End(o)
  BY <1>1, Ends
<1>2. CASE Hold(o, token, "exchange")
  BY <1>2, Holds, "exchange" \in Stages DEF Stages
<1> QED
  BY <1>1, <1>2 DEF Got

-----------------------------------------------------------------------------
(* Every step keeps the invariant. *)

LEMMA FirstStages ==
  ASSUME NEW kind \in Kinds
  PROVE  FirstStage(kind) \in Stages \ Writing
  BY DEF Writing, Kinds, Stages, FirstStage

LEMMA BeginStored ==
  ASSUME StoredInv, NEW o \in Ops, NEW kind \in Kinds, Begin(o, kind)
  PROVE  StoredInv'
<1> DEFINE value     == IF kind = "revoke" THEN row ELSE None
           reads     == kind = "sender"
           disturbed == {p \in Ops \ {o} : InFlight(p) /\ ~(reads /\ op[p].reads)}
           entered   == [kind |-> kind, at |-> FirstStage(kind), holds |-> value,
                         reads |-> reads, ok |-> disturbed = {}]
<1>1. value \in Values \cup {None}
  BY DEF StoredInv
<1>2. entered \in States /\ entered.at \notin Writing
  BY <1>1, FirstStages DEF States, OpStates
<1>3. \A p \in Ops : [op[p] EXCEPT !.ok = @ /\ p \notin disturbed] \in States
  BY DEF StoredInv, States, OpStates
<1> HIDE DEF value, reads, disturbed, entered
<1>4. op' = [p \in Ops |-> IF p = o THEN entered
                           ELSE [op[p] EXCEPT !.ok = @ /\ p \notin disturbed]]
  BY DEF Begin, Enter, entered, disturbed, value, reads
<1>5. op' \in [Ops -> States]
  BY <1>2, <1>3, <1>4
<1>6. CopiesStored(op')
  BY <1>2, <1>4 DEF CopiesStored, Writing, StoredInv, States, OpStates
<1>7. UNCHANGED <<row, copy, issued, stored>>
  BY DEF Begin, Enter, tokenVars
<1> QED
  BY <1>5, <1>6, <1>7 DEF StoredInv, CopyWasStored, CopiesStored

\* A step that leaves the two stores alone, or writes a stored token or
\* nothing to the copy.
LEMMA Frame ==
  ASSUME StoredInv, UNCHANGED <<issued, stored>>, row' \in {row, None},
         copy' = copy \/ copy' \in stored \cup {None},
         op' \in [Ops -> States], CopiesStored(op')
  PROVE  StoredInv'
  BY DEF StoredInv, CopyWasStored, CopiesStored

LEMMA StepStored ==
  ASSUME StoredInv, NEW o \in Ops, Step(o)
  PROVE  StoredInv'
<1> DEFINE token == op[o].holds
<1>0. /\ stored \subseteq Values
      /\ copy # None => copy \in stored
      /\ row # None => row \in stored
      /\ op[o] \in States
  BY DEF StoredInv, CopyWasStored
<1>10. CASE GetState(o)
  <2>1. op' \in [Ops -> States] /\ CopiesStored(op')
    BY <1>10, Ends, GoesOn DEF GetState, Stages, Writing
  <2> QED BY <1>10, <2>1, Frame DEF GetState, tokenVars
<1>11. CASE DelState(o)
  <2>1. op' \in [Ops -> States] /\ CopiesStored(op')
    BY <1>11, Ends, GoesOn DEF DelState, Stages, Writing
  <2> QED BY <1>11, <2>1, Frame DEF DelState, tokenVars
<1>1. CASE GetCopy(o)
  <2>1. op' \in [Ops -> States] /\ CopiesStored(op')
    BY <1>0, <1>1, GotType, GoesOn DEF GetCopy, Stages, Writing
  <2> QED BY <1>1, <2>1, Frame DEF GetCopy, tokenVars
<1>2. CASE GetRow(o)
  <2>1. op' \in [Ops -> States] /\ CopiesStored(op')
    BY <1>0, <1>2, Holds, Ends DEF GetRow, Stages
  <2> QED BY <1>2, <2>1, Frame DEF GetRow, tokenVars
<1>3. CASE Fill(o)
  <2>1. token \in stored
    BY <1>3 DEF Fill, At, StoredInv, CopiesStored
  <2>2. op' \in [Ops -> States] /\ CopiesStored(op')
    BY <1>0, <1>3, <2>1, GotType DEF Fill
  <2> QED BY <1>3, <2>1, <2>2, Frame DEF Fill, WriteCopy, CopyWriteFails, tokenVars
<1>4. CASE GetAll(o)
  <2>1. op' \in [Ops -> States] /\ CopiesStored(op')
    BY <1>0, <1>4, Holds, Ends DEF GetAll, Stages
  <2> QED BY <1>4, <2>1, Frame DEF GetAll, tokenVars
<1>5. CASE Exchange(o)
  <2>1. CASE End(o) /\ UNCHANGED issued
    <3>1. op' \in [Ops -> States] /\ CopiesStored(op')
      BY <2>1, Ends
    <3> QED BY <1>5, <2>1, <3>1, Frame DEF Exchange, tokenVars
  <2>2. CASE issued < MaxIssued /\ issued' = issued + 1
    <3>1. issued' \in 0 .. MaxIssued /\ issued + 1 \in Values
      BY <2>2, TokenAssumption DEF StoredInv
    <3>2. op' \in [Ops -> States] /\ CopiesStored(op')
      BY <1>5, <2>2, <3>1, Ends, Holds DEF Exchange, Stages
    <3> QED BY <1>5, <3>1, <3>2 DEF Exchange, StoredInv, CopyWasStored, CopiesStored
  <2> QED BY <1>5, <2>1, <2>2 DEF Exchange
<1>6. CASE SaveRow(o)
  <2>1. token \in Values /\ stored' \subseteq stored \cup {token} /\ stored \subseteq stored'
    BY <1>6 DEF SaveRow, At, StoredInv, CopiesStored
  <2>2. row' \in {token, row} /\ (row' = token => token \in stored') /\ UNCHANGED copy
    BY <1>6 DEF SaveRow, WriteRow, RowWriteFails
  <2>3. CASE Goto(o, "saveCopy") /\ row' = token
    <3>1. op' \in [Ops -> States] /\ CopiesStored(op)'
      BY <2>1, <2>2, <2>3 DEF StoredInv, CopiesStored, Goto, States, OpStates, Stages
    <3> QED BY <1>0, <1>6, <2>1, <2>2, <3>1 DEF SaveRow, StoredInv, CopyWasStored
  <2>4. CASE End(o)
    <3>1. op' \in [Ops -> States] /\ CopiesStored(op')
      BY <2>4, Ends
    <3> QED BY <1>0, <1>6, <2>1, <2>2, <3>1 DEF SaveRow, StoredInv, CopyWasStored, CopiesStored
  <2> QED BY <1>6, <2>3, <2>4 DEF SaveRow, WriteRow
<1>7. CASE SaveCopy(o)
  <2>1. token \in stored
    BY <1>7 DEF SaveCopy, At, StoredInv, CopiesStored
  <2>2. op' \in [Ops -> States] /\ CopiesStored(op')
    BY <1>7, Ends DEF SaveCopy
  <2> QED BY <1>7, <2>1, <2>2, Frame DEF SaveCopy, WriteCopy, CopyWriteFails, tokenVars
<1>8. CASE DelCopy(o)
  <2>1. op' \in [Ops -> States] /\ CopiesStored(op')
    <3>1. CASE Goto(o, "delRow")
      BY <3>1, GoesOn DEF Stages, Writing
    <3>2. CASE op' = [op EXCEPT ![o].at = "delRow", ![o].ok = FALSE]
      BY <3>2 DEF StoredInv, CopiesStored, States, OpStates, Stages
    <3> QED BY <1>8, <3>1, <3>2 DEF DelCopy
  <2> QED BY <1>8, <2>1, Frame DEF DelCopy, WriteCopy, CopyWriteFails, tokenVars
<1>9. CASE DelRow(o)
  <2>1. op' \in [Ops -> States] /\ CopiesStored(op')
    BY <1>9, Ends DEF DelRow
  <2> QED BY <1>9, <2>1, Frame DEF DelRow, WriteRow, RowWriteFails, tokenVars
<1> QED
  BY <1>1, <1>2, <1>3, <1>4, <1>5, <1>6, <1>7, <1>8, <1>9, <1>10, <1>11 DEF Step

-----------------------------------------------------------------------------

LEMMA InitStored == Init => StoredInv
  BY NoneIsIdle, TokenAssumption
     DEF Init, StoreInit, StoredInv, CopyWasStored, CopiesStored, Writing

LEMMA NextStored == StoredInv /\ [Next]_vars => StoredInv'
<1> SUFFICES ASSUME StoredInv, [Next]_vars PROVE StoredInv'
  OBVIOUS
<1>1. CASE \E o \in Ops : Step(o) \/ \E kind \in Kinds : Begin(o, kind)
  BY <1>1, StepStored, BeginStored
<1>2. CASE Expire
  BY <1>2, Frame DEF Expire, CopyExpires, WriteCopy, StoredInv, tokenVars
<1>3. CASE Crash
  <2>1. op' \in [Ops -> States] /\ CopiesStored(op')
    BY <1>3, NoneIsIdle DEF Crash, KillOps, CopiesStored, Writing
  <2> QED BY <1>3, <2>1, Frame DEF Crash, KillOps, tokenVars
<1>4. CASE UNCHANGED vars
  BY <1>4 DEF vars, tokenVars, StoredInv, CopyWasStored, CopiesStored
<1>5. CASE \E s \in OAuthStates : Initiate(s) \/ StateExpires(s)
  <2>1. UNCHANGED <<row, copy, op, issued, stored>>
    BY <1>5 DEF Initiate, StateExpires, tokenVars
  <2> QED BY <2>1 DEF StoredInv, CopyWasStored, CopiesStored
<1> QED
  BY <1>1, <1>2, <1>3, <1>4, <1>5 DEF Next

\* Which tokens can reach the copy.
THEOREM StoredInvariant == Spec => []StoredInv
  BY InitStored, NextStored, PTL DEF Spec

\* Redis never serves a token that Postgres was not given, whatever fails,
\* expires or is killed, and however the operations interleave.
THEOREM CopiesWereStored == Spec => []CopyWasStored
<1>1. StoredInv => CopyWasStored
  BY DEF StoredInv
<1> QED
  BY <1>1, StoredInvariant, PTL

-----------------------------------------------------------------------------
(* The states of authorizations *)

\* A callback that is past the check came with a state that was not used up, a
\* state that is used up is not in Redis, and a callback has a state.
StatesInv ==
    /\ oauth \in [OAuthStates -> StateKeys]
    /\ request \in [Ops -> [state : OAuthStates \cup {None}, late : BOOLEAN]]
    /\ used \subseteq OAuthStates
    /\ \A s \in used : oauth[s] = "dropped"
    /\ \A o \in Ops :
          /\ At(o, "getState") \/ At(o, "delState") => request[o].state \in OAuthStates
          /\ request[o].late => At(o, "getState") /\ request[o].state \in used

LEMMA InitStates == Init => StatesInv
  BY DEF Init, StoreInit, StatesInv, NoRequest, StateKeys, At, Idle

LEMMA BeginStates ==
  ASSUME StoredInv, StatesInv, NEW o \in Ops, NEW kind \in Kinds, Begin(o, kind)
  PROVE  StatesInv'
<1>1. op'[o].at = FirstStage(kind) /\ op[o].at = "idle"
  BY DEF Begin, Enter, InFlight
<1>2. \A p \in Ops \ {o} : op'[p].at = op[p].at
  BY DEF Begin, Enter, StoredInv, States, OpStates
<1>3. UNCHANGED <<oauth, used>>
  BY DEF Begin
<1>4. ~request[o].late
  BY <1>1 DEF StatesInv, At
<1>5. CASE kind # "authorize"
  <2>1. op'[o].at \notin {"getState", "delState"} /\ request' = request
    BY <1>1, <1>5 DEF FirstStage, Kinds, Begin
  <2> QED BY <1>2, <1>3, <1>4, <2>1 DEF StatesInv, At
<1>6. CASE kind = "authorize"
  <2>1. op'[o].at = "getState"
    BY <1>1, <1>6 DEF FirstStage
  <2>2. PICK s \in OAuthStates : request' = [request EXCEPT ![o] = [state |-> s, late |-> s \in used]]
    BY <1>6 DEF Begin, Comes
  <2>3. request' \in [Ops -> [state : OAuthStates \cup {None}, late : BOOLEAN]]
    BY <2>2 DEF StatesInv
  <2> QED BY <1>2, <1>3, <2>1, <2>2, <2>3 DEF StatesInv, At
<1> QED BY <1>5, <1>6

\* A step that leaves the authorizations alone.
LEMMA StatesFrame ==
  ASSUME StatesInv, NEW o \in Ops, UNCHANGED oauthVars,
         op[o].at \notin {"getState", "delState"},
         op'[o].at \notin {"getState", "delState"},
         \A p \in Ops \ {o} : op'[p].at = op[p].at
  PROVE  StatesInv'
  BY DEF StatesInv, At, oauthVars

LEMMA GetStateStates ==
  ASSUME StoredInv, StatesInv, NEW o \in Ops, GetState(o)
  PROVE  StatesInv'
<1>1. At(o, "getState") /\ request[o].state \in OAuthStates /\ UNCHANGED <<oauth, used>>
  BY DEF GetState, StatesInv
<1>2. CASE Goto(o, "delState") /\ oauth[request[o].state] = "pending" /\ UNCHANGED request
  <2>1. op'[o].at = "delState" /\ \A p \in Ops \ {o} : op'[p].at = op[p].at
    BY <1>2 DEF Goto, StoredInv, States, OpStates
  <2>2. ~request[o].late
    BY <1>1, <1>2 DEF StatesInv
  <2> QED BY <1>1, <1>2, <2>1, <2>2 DEF StatesInv, At
<1>3. CASE End(o) /\ Forget(o)
  <2>1. op'[o].at = "idle" /\ \A p \in Ops \ {o} : op'[p].at = op[p].at
    BY <1>3 DEF End, Idle, StoredInv
  <2>2. /\ request' \in [Ops -> [state : OAuthStates \cup {None}, late : BOOLEAN]]
        /\ ~request'[o].late /\ \A p \in Ops \ {o} : request'[p] = request[p]
    BY <1>3 DEF Forget, NoRequest, StatesInv
  <2> QED BY <1>1, <2>1, <2>2 DEF StatesInv, At
<1> QED BY <1>2, <1>3 DEF GetState

LEMMA DelStateStates ==
  ASSUME StoredInv, StatesInv, NEW o \in Ops, DelState(o)
  PROVE  StatesInv'
<1> DEFINE s == request[o].state
<1>1. At(o, "delState") /\ s \in OAuthStates
  BY DEF DelState, StatesInv
<1>2. /\ request' \in [Ops -> [state : OAuthStates \cup {None}, late : BOOLEAN]]
      /\ ~request'[o].late /\ \A p \in Ops \ {o} : request'[p] = request[p]
  BY DEF DelState, Forget, NoRequest, StatesInv
<1>3. /\ op'[o].at \in {"exchange", "idle"}
      /\ \A p \in Ops \ {o} : op'[p].at = op[p].at
  BY DEF DelState, Goto, End, Idle, StoredInv, States, OpStates
<1>4. \/ oauth' = [oauth EXCEPT ![s] = "dropped"] /\ used' = used \cup {s}
      \/ UNCHANGED <<oauth, used>>
  BY DEF DelState
<1>5. /\ oauth' \in [OAuthStates -> StateKeys] /\ used' \subseteq OAuthStates
      /\ used \subseteq used' /\ \A t \in used' : oauth'[t] = "dropped"
  BY <1>1, <1>4 DEF StatesInv, StateKeys
<1> QED BY <1>1, <1>2, <1>3, <1>5 DEF StatesInv, At

\* The steps of the store itself begin and end elsewhere.
LEMMA StoreStates ==
  ASSUME StoredInv, StatesInv, NEW o \in Ops,
         \/ GetCopy(o) \/ GetRow(o) \/ Fill(o) \/ GetAll(o) \/ Exchange(o)
         \/ SaveRow(o) \/ SaveCopy(o) \/ DelCopy(o) \/ DelRow(o)
  PROVE  StatesInv'
<1>1. UNCHANGED oauthVars
  BY DEF GetCopy, GetRow, Fill, GetAll, Exchange, SaveRow, SaveCopy, DelCopy, DelRow
<1>2. op[o].at \notin {"getState", "delState"}
  BY DEF At, GetCopy, GetRow, Fill, GetAll, Exchange, SaveRow, SaveCopy, DelCopy, DelRow
<1>3. \/ End(o)
      \/ \E stage \in Stages \ {"getState", "delState"} :
            \/ Goto(o, stage)
            \/ \E token : Hold(o, token, stage)
            \/ op' = [op EXCEPT ![o].at = stage, ![o].ok = FALSE]
  BY DEF GetCopy, GetRow, Fill, GetAll, Exchange, SaveRow, SaveCopy, DelCopy, DelRow, Got, Stages
<1>4. /\ op'[o].at \notin {"getState", "delState"}
      /\ \A p \in Ops \ {o} : op'[p].at = op[p].at
  <2>1. CASE End(o)
    BY <2>1 DEF End, Idle, StoredInv
  <2>2. ASSUME NEW stage \in Stages \ {"getState", "delState"}, Goto(o, stage)
        PROVE  op'[o].at = stage /\ \A p \in Ops \ {o} : op'[p].at = op[p].at
    BY <2>2 DEF Goto, StoredInv, States, OpStates
  <2>3. ASSUME NEW stage \in Stages \ {"getState", "delState"}, NEW token, Hold(o, token, stage)
        PROVE  op'[o].at = stage /\ \A p \in Ops \ {o} : op'[p].at = op[p].at
    BY <2>3 DEF Hold, StoredInv, States, OpStates
  <2>4. ASSUME NEW stage \in Stages \ {"getState", "delState"},
               op' = [op EXCEPT ![o].at = stage, ![o].ok = FALSE]
        PROVE  op'[o].at = stage /\ \A p \in Ops \ {o} : op'[p].at = op[p].at
    BY <2>4 DEF StoredInv, States, OpStates
  <2> QED BY <1>3, <2>1, <2>2, <2>3, <2>4
<1> QED BY <1>1, <1>2, <1>4, StatesFrame

LEMMA NextStates == StoredInv /\ StatesInv /\ [Next]_vars => StatesInv'
<1> SUFFICES ASSUME StoredInv, StatesInv, [Next]_vars PROVE StatesInv'
  OBVIOUS
<1>1. CASE \E o \in Ops : Step(o) \/ \E kind \in Kinds : Begin(o, kind)
  BY <1>1, BeginStates, GetStateStates, DelStateStates, StoreStates DEF Step
<1>2. CASE \E s \in OAuthStates : Initiate(s) \/ StateExpires(s)
  <2>1. PICK s \in OAuthStates : Initiate(s) \/ StateExpires(s)
    BY <1>2
  <2>2. s \notin used
    BY <2>1 DEF Initiate, StateExpires, StatesInv
  <2>3. oauth' \in [OAuthStates -> StateKeys] /\ \A t \in OAuthStates \ {s} : oauth'[t] = oauth[t]
    BY <2>1 DEF Initiate, StateExpires, StatesInv, StateKeys
  <2>4. UNCHANGED <<op, request, used>>
    BY <2>1 DEF Initiate, StateExpires
  <2> QED BY <2>2, <2>3, <2>4 DEF StatesInv, At
<1>3. CASE Crash
  <2>1. /\ op' = [o \in Ops |-> Idle] /\ request' = [o \in Ops |-> NoRequest]
        /\ UNCHANGED <<oauth, used>>
    BY <1>3 DEF Crash, KillOps
  <2> QED BY <2>1 DEF StatesInv, NoRequest, Idle, At
<1>4. CASE Expire \/ UNCHANGED vars
  <2>1. UNCHANGED <<op, oauth, request, used>>
    BY <1>4 DEF Expire, CopyExpires, vars, oauthVars
  <2> QED BY <2>1 DEF StatesInv, At
<1> QED
  BY <1>1, <1>2, <1>3, <1>4 DEF Next

\* Which states Redis and the callbacks in flight may have.
THEOREM StatesInvariant == Spec => []StatesInv
  BY InitStates, NextStates, StoredInvariant, PTL DEF Spec

\* Once a callback went on with a state, no callback that comes later does, for
\* any number of callbacks and states, whatever fails, expires or is killed.
THEOREM UsedStatesAreRefused == Spec => []UsedStateIsRefused
<1>1. StatesInv => UsedStateIsRefused
  BY DEF StatesInv, UsedStateIsRefused
<1> QED
  BY <1>1, StatesInvariant, PTL

-----------------------------------------------------------------------------
(* Types *)

\* The two variables that the invariants above leave out.
HistoryOK == clean \in BOOLEAN /\ gone \subseteq Values \cup {None}

LEMMA StepHistory ==
  ASSUME StoredInv, HistoryOK, NEW o \in Ops, Step(o)
  PROVE  HistoryOK'
<1>1. op[o].holds \in Values \cup {None} /\ op[o].ok \in BOOLEAN
  BY DEF StoredInv, States, OpStates
<1>2. clean' \in {clean, FALSE, op[o].ok}
  BY DEF Step, GetState, DelState, tokenVars, GetCopy, GetRow, Fill, GetAll, Exchange, SaveRow, SaveCopy, DelCopy, DelRow
<1>3. gone' \in {gone, gone \cup {op[o].holds}}
  BY DEF Step, GetState, DelState, tokenVars, GetCopy, GetRow, Fill, GetAll, Exchange, SaveRow, SaveCopy, DelCopy, DelRow
<1> QED
  BY <1>1, <1>2, <1>3 DEF HistoryOK

LEMMA NextHistory == StoredInv /\ HistoryOK /\ [Next]_vars => HistoryOK'
<1> SUFFICES ASSUME StoredInv, HistoryOK, [Next]_vars PROVE HistoryOK'
  OBVIOUS
<1>1. CASE \E o \in Ops : Step(o)
  BY <1>1, StepHistory
<1>2. CASE \E o \in Ops, kind \in Kinds : Begin(o, kind)
  BY <1>2 DEF Begin, Enter, HistoryOK, tokenVars
<1>3. CASE Expire \/ Crash \/ UNCHANGED vars
  BY <1>3 DEF Expire, CopyExpires, Crash, KillOps, vars, tokenVars, HistoryOK
<1>4. CASE \E s \in OAuthStates : Initiate(s) \/ StateExpires(s)
  BY <1>4 DEF Initiate, StateExpires, tokenVars, HistoryOK
<1> QED
  BY <1>1, <1>2, <1>3, <1>4 DEF Next

\* Every variable has its type, and whoever is about to write a token has one.
THEOREM TokenTypes == Spec => []TypeOK
<1>1. Init => HistoryOK
  BY DEF Init, StoreInit, HistoryOK
<1>2. Spec => []HistoryOK
  BY <1>1, NextHistory, StoredInvariant, PTL DEF Spec
<1>3. StoredInv /\ StatesInv /\ HistoryOK => TypeOK
  <2> SUFFICES ASSUME StoredInv, StatesInv, HistoryOK PROVE TypeOK
    OBVIOUS
  <2>1. StoreTypeOK(Kinds, Stages)
    BY DEF StoredInv, HistoryOK, CopyWasStored, StoreTypeOK, States
  <2>2. \A o \in Ops : op[o].at \in {"fill", "saveRow", "saveCopy"} => op[o].holds # None
    BY NoneAssumption DEF StoredInv, CopiesStored
  <2> QED BY <2>1, <2>2 DEF TypeOK, StoredInv, StatesInv, HistoryOK
<1> QED
  BY <1>2, <1>3, StoredInvariant, StatesInvariant, PTL

-----------------------------------------------------------------------------
(* Row, copy and the last token *)

\* Whoever is undisturbed is alone among those in flight, or all of them read;
\* so is everybody while the stores are clean.
Apart ==
    \A o \in Ops : \A p \in Ops \ {o} :
        InFlight(o) /\ InFlight(p) /\ (clean \/ op[o].ok) => op[o].reads /\ op[p].reads

\* Where a reader can be: none goes on to TikTok.
Reading(o) == /\ op[o].at \in {"idle", "getCopy", "getRow", "fill"}
              /\ op[o].kind # "manual"

\* While the stores are clean, row and copy differ only in the middle of a save,
\* and a reader that fills the copy has the row.
CopyInv == /\ \A o \in Ops : op[o].reads => Reading(o)
           /\ clean /\ (\A o \in Ops : ~At(o, "saveCopy")) => Coherent
           /\ \A o \in Ops : clean /\ At(o, "fill") => op[o].holds = row
           /\ \A o \in Ops : op[o].ok /\ At(o, "saveCopy") => op[o].holds = row
           /\ \A o \in Ops : op[o].ok /\ At(o, "delRow") => copy = None

\* The row has the last token, or an undisturbed save is on its way with it.
LastInv == /\ clean /\ (\A o \in Ops : ~At(o, "saveRow")) => row \in {None, issued}
           /\ \A o \in Ops : (clean \/ op[o].ok) /\ At(o, "saveRow") => op[o].holds = issued
           /\ \A o \in Ops : op[o].ok /\ At(o, "saveCopy") => row = issued

UndisturbedInv == Apart /\ CopyInv /\ LastInv

\* What a step does to the operation it belongs to; the others stay, and only
\* the end of an undisturbed one makes the stores clean.
Kept(o) == /\ \A p \in Ops \ {o} : op'[p] = op[p]
           /\ \/ op'[o] = Idle
              \/ /\ op'[o].reads = op[o].reads /\ op'[o].kind = op[o].kind
                 /\ op'[o].ok => op[o].ok

Moves(o) == /\ InFlight(o)
            /\ Kept(o)
            /\ clean' => clean \/ (op[o].ok /\ op'[o] = Idle)

LEMMA GoesOnMoves ==
  ASSUME StoredInv, NEW o \in Ops, NEW stage, Goto(o, stage)
  PROVE  /\ \A p \in Ops \ {o} : op'[p] = op[p]
         /\ op'[o] = [op[o] EXCEPT !.at = stage]
         /\ op'[o].at = stage /\ op'[o].holds = op[o].holds /\ op'[o].ok = op[o].ok
         /\ op'[o].reads = op[o].reads /\ op'[o].kind = op[o].kind
  BY DEF StoredInv, Goto, States, OpStates

LEMMA HoldsMoves ==
  ASSUME StoredInv, NEW o \in Ops, NEW token, NEW stage, Hold(o, token, stage)
  PROVE  /\ \A p \in Ops \ {o} : op'[p] = op[p]
         /\ op'[o].at = stage /\ op'[o].holds = token /\ op'[o].ok = op[o].ok
         /\ op'[o].reads = op[o].reads /\ op'[o].kind = op[o].kind
  BY DEF StoredInv, Hold, States, OpStates

LEMMA EndsMoves ==
  ASSUME StoredInv, NEW o \in Ops, End(o)
  PROVE  (\A p \in Ops \ {o} : op'[p] = op[p]) /\ op'[o] = Idle
  BY DEF StoredInv, End

LEMMA DelCopyFailsMoves ==
  ASSUME StoredInv, NEW o \in Ops, op' = [op EXCEPT ![o].at = "delRow", ![o].ok = FALSE]
  PROVE  /\ \A p \in Ops \ {o} : op'[p] = op[p]
         /\ op'[o].at = "delRow" /\ op'[o].ok = FALSE
         /\ op'[o].reads = op[o].reads /\ op'[o].kind = op[o].kind
  BY DEF StoredInv, States, OpStates

LEMMA KeepsOthers ==
  ASSUME StoredInv, NEW o \in Ops
  PROVE  /\ \A stage : Goto(o, stage) => Kept(o)
         /\ \A token, stage : Hold(o, token, stage) => Kept(o)
         /\ End(o) => Kept(o)
  BY GoesOnMoves, HoldsMoves, EndsMoves DEF Kept

LEMMA StepMoves ==
  ASSUME StoredInv, NEW o \in Ops, Step(o)
  PROVE  Moves(o)
<1>1. CASE GetState(o) \/ DelState(o)
  <2>1. Kept(o) /\ clean' = clean
    BY <1>1, KeepsOthers DEF GetState, DelState
  <2> QED BY <1>1, <2>1 DEF GetState, DelState, Moves, At, InFlight
<1>2. CASE GetCopy(o) \/ GetRow(o) \/ Fill(o) \/ GetAll(o)
  <2>1. Kept(o) /\ clean' = clean
    BY <1>2, KeepsOthers DEF GetCopy, GetRow, Fill, GetAll, Got
  <2> QED BY <1>2, <2>1 DEF GetCopy, GetRow, Fill, GetAll, Moves, At, InFlight
<1>3. CASE Exchange(o)
  <2>1. Kept(o) /\ (clean' => clean)
    BY <1>3, KeepsOthers DEF Exchange
  <2> QED BY <1>3, <2>1 DEF Exchange, Moves, At, InFlight
<1>4. CASE SaveRow(o)
  <2>1. Kept(o) /\ (clean' => clean)
    BY <1>4, KeepsOthers DEF SaveRow
  <2> QED BY <1>4, <2>1 DEF SaveRow, Moves, At, InFlight
<1>5. CASE SaveCopy(o) \/ DelRow(o)
  <2>1. Kept(o) /\ op'[o] = Idle /\ (clean' => op[o].ok)
    BY <1>5, KeepsOthers, EndsMoves DEF SaveCopy, DelRow
  <2> QED BY <1>5, <2>1 DEF SaveCopy, DelRow, Moves, At, InFlight
<1>6. CASE DelCopy(o)
  <2>1. Kept(o) /\ clean' = clean
    BY <1>6, KeepsOthers, DelCopyFailsMoves DEF DelCopy, Kept
  <2> QED BY <1>6, <2>1 DEF DelCopy, Moves, At, InFlight
<1> QED
  BY <1>1, <1>2, <1>3, <1>4, <1>5, <1>6 DEF Step

LEMMA StepApart ==
  ASSUME StoredInv, Apart, NEW o \in Ops, Step(o)
  PROVE  Apart'
<1>1. Moves(o)
  BY StepMoves
<1>2. Idle.at = "idle"
  BY DEF Idle
<1> SUFFICES ASSUME NEW p \in Ops, NEW q \in Ops \ {p},
                    InFlight(p)', InFlight(q)', clean' \/ op'[p].ok
             PROVE  op'[p].reads /\ op'[q].reads
  BY DEF Apart
<1>3. InFlight(p) /\ InFlight(q)
  BY <1>1 DEF Moves, Kept, InFlight
<1>4. CASE clean \/ op[p].ok
  BY <1>1, <1>2, <1>3, <1>4 DEF Moves, Kept, Apart, InFlight
<1>5. CASE ~clean /\ ~op[p].ok
  <2>1. op[o].ok /\ op'[o] = Idle /\ o \notin {p, q}
    BY <1>1, <1>2, <1>5 DEF Moves, Kept, InFlight
  <2> QED BY <1>1, <1>3, <2>1 DEF Apart, Moves, Kept
<1> QED
  BY <1>4, <1>5

\* An operation that writes, or is at TikTok, is alone or disturbed, and so are
\* the others.
LEMMA WriterApart ==
  ASSUME Apart, CopyInv, NEW o \in Ops, InFlight(o), ~Reading(o),
         NEW p \in Ops \ {o}, InFlight(p)
  PROVE  ~clean /\ ~op[o].ok /\ ~op[p].ok
  BY DEF Apart, CopyInv

\* A step that leaves row and copy alone, and begins no write of the copy.
LEMMA CopyFrame ==
  ASSUME CopyInv, NEW o \in Ops, Kept(o), UNCHANGED <<row, copy>>, clean' => clean,
         ~At(o, "saveCopy"), op'[o].at \notin {"saveCopy", "delRow"},
         op'[o].at = "fill" => op'[o].holds = row,
         op'[o].reads => Reading(o)'
  PROVE  CopyInv'
<1>1. \A p \in Ops : op'[p].reads => Reading(p)'
  BY DEF CopyInv, Kept, Reading
<1>2. ASSUME clean', \A p \in Ops : ~At(p, "saveCopy")' PROVE Coherent'
  BY <1>2 DEF CopyInv, Kept, At, Coherent
<1>3. \A p \in Ops : clean' /\ At(p, "fill")' => op'[p].holds = row'
  BY DEF CopyInv, Kept, At
<1>4. \A p \in Ops : op'[p].ok /\ At(p, "saveCopy")' => op'[p].holds = row'
  BY DEF CopyInv, Kept, At
<1>5. \A p \in Ops : op'[p].ok /\ At(p, "delRow")' => copy' = None
  BY DEF CopyInv, Kept, At
<1> QED
  BY <1>1, <1>2, <1>3, <1>4, <1>5 DEF CopyInv

\* A step of a writer: the others, if there are any, are disturbed.
LEMMA WriterFrame ==
  ASSUME Apart, CopyInv, NEW o \in Ops, InFlight(o), ~Reading(o), Kept(o),
         op'[o].reads => Reading(o)',
         clean' /\ ~At(o, "saveCopy")' => Coherent',
         op'[o].at # "fill",
         op'[o].ok /\ At(o, "saveCopy")' => op'[o].holds = row',
         op'[o].ok /\ At(o, "delRow")' => copy' = None,
         clean' => clean \/ op[o].ok
  PROVE  CopyInv'
<1>1. \A p \in Ops : op'[p].reads => Reading(p)'
  BY DEF CopyInv, Kept, Reading
<1>2. \A p \in Ops \ {o} : InFlight(p) => ~clean' /\ ~op'[p].ok /\ op'[p].at = op[p].at
  BY WriterApart DEF Kept
<1>3. \A p \in Ops \ {o} : ~InFlight(p) => op'[p].at = "idle"
  BY DEF Kept, InFlight
<1>4. \A p \in Ops : clean' /\ At(p, "fill")' => op'[p].holds = row'
  BY <1>2, <1>3 DEF At
<1>5. \A p \in Ops : op'[p].ok /\ At(p, "saveCopy")' => op'[p].holds = row'
  BY <1>2, <1>3 DEF At
<1>6. \A p \in Ops : op'[p].ok /\ At(p, "delRow")' => copy' = None
  BY <1>2, <1>3 DEF At
<1>7. clean' /\ (\A p \in Ops : ~At(p, "saveCopy")') => Coherent'
  OBVIOUS
<1> QED
  BY <1>1, <1>4, <1>5, <1>6, <1>7 DEF CopyInv

LEMMA IdleReads == Idle.at = "idle" /\ Idle.reads /\ Idle.kind = "none"
  BY DEF Idle

\* Looking at the stores, at the OAuth state or at TikTok.
LEMMA LookCopy ==
  ASSUME StoredInv, CopyInv, NEW o \in Ops,
         GetState(o) \/ DelState(o) \/ GetCopy(o) \/ GetRow(o) \/ GetAll(o) \/ Exchange(o)
  PROVE  CopyInv'
<1> USE DEF At
<1>0. op[o].reads => Reading(o)
  BY DEF CopyInv
<1>1. Moves(o)
  BY StepMoves DEF Step
<1>2. CASE GetState(o) \/ DelState(o)
  <2>1. op'[o].at \in {"idle", "delState", "exchange"} /\ (op'[o].reads => Reading(o)')
    BY <1>0, <1>2, GoesOnMoves, EndsMoves, IdleReads DEF GetState, DelState, Reading
  <2>2. op[o].at # "saveCopy" /\ UNCHANGED <<row, copy, clean>>
    BY <1>2 DEF GetState, DelState
  <2> QED BY <1>1, <2>1, <2>2, CopyFrame DEF Moves
<1>3. CASE GetCopy(o)
  <2>1. op'[o].at \in {"idle", "exchange", "getRow"} /\ (op'[o].reads => Reading(o)')
    <3>1. CASE Goto(o, "getRow")
      BY <1>0, <1>3, <3>1, GoesOnMoves DEF GetCopy, Reading
    <3>2. CASE Got(o, copy)
      BY <1>0, <1>3, <3>2, HoldsMoves, EndsMoves, IdleReads DEF GetCopy, Got, Reading
    <3> QED BY <1>3, <3>1, <3>2 DEF GetCopy
  <2>2. op[o].at # "saveCopy" /\ UNCHANGED <<row, copy, clean>>
    BY <1>3 DEF GetCopy
  <2> QED BY <1>1, <2>1, <2>2, CopyFrame DEF Moves
<1>4. CASE GetRow(o)
  <2>1. /\ op'[o].at \in {"idle", "fill"} /\ (op'[o].reads => Reading(o)')
        /\ op'[o].at = "fill" => op'[o].holds = row
    BY <1>0, <1>4, HoldsMoves, EndsMoves, IdleReads DEF GetRow, Reading
  <2>2. op[o].at # "saveCopy" /\ UNCHANGED <<row, copy, clean>>
    BY <1>4 DEF GetRow
  <2> QED BY <1>1, <2>1, <2>2, CopyFrame DEF Moves
<1>5. CASE GetAll(o)
  <2>1. op'[o].at \in {"idle", "exchange"} /\ (op'[o].reads => Reading(o)')
    BY <1>0, <1>5, HoldsMoves, EndsMoves, IdleReads DEF GetAll, Reading
  <2>2. op[o].at # "saveCopy" /\ UNCHANGED <<row, copy, clean>>
    BY <1>5 DEF GetAll
  <2> QED BY <1>1, <2>1, <2>2, CopyFrame DEF Moves
<1>6. CASE Exchange(o)
  <2>1. op'[o].at \in {"idle", "saveRow"} /\ (op'[o].reads => Reading(o)')
    BY <1>0, <1>6, HoldsMoves, EndsMoves, IdleReads DEF Exchange, Reading
  <2>2. op[o].at # "saveCopy" /\ UNCHANGED <<row, copy>> /\ (clean' => clean)
    BY <1>6 DEF Exchange
  <2> QED BY <1>1, <2>1, <2>2, CopyFrame DEF Moves
<1> QED
  BY <1>2, <1>3, <1>4, <1>5, <1>6

\* Writing to the stores.
LEMMA FillCopy ==
  ASSUME StoredInv, Apart, CopyInv, NEW o \in Ops, Fill(o)
  PROVE  CopyInv'
<1> USE DEF At
<1>1. Moves(o) /\ (op[o].reads => Reading(o))
  BY StepMoves DEF Step, CopyInv
<1>2. op'[o].at \in {"idle", "exchange"} /\ (op'[o].reads => Reading(o)')
  BY <1>1, HoldsMoves, EndsMoves, IdleReads DEF Fill, Got, Reading
<1>3. row' = row /\ clean' = clean /\ copy' \in {copy, op[o].holds} /\ op[o].at = "fill"
  BY DEF Fill, WriteCopy, CopyWriteFails
<1>4. CASE copy' = copy
  BY <1>1, <1>2, <1>3, <1>4, CopyFrame DEF Moves
<1>5. CASE copy' # copy /\ copy' = op[o].holds
  <2>1. \A p \in Ops : op'[p].reads => Reading(p)'
    BY <1>1, <1>2 DEF CopyInv, Moves, Kept, Reading
  <2>2. clean' => Coherent'
    BY <1>3, <1>5 DEF CopyInv, Coherent
  <2>3. \A p \in Ops : clean' /\ At(p, "fill")' => op'[p].holds = row'
    BY <1>1, <1>2, <1>3 DEF CopyInv, Moves, Kept
  <2>4. \A p \in Ops : op'[p].ok /\ At(p, "saveCopy")' => op'[p].holds = row'
    BY <1>1, <1>2, <1>3 DEF CopyInv, Moves, Kept
  <2>5. \A p \in Ops : op'[p].ok /\ At(p, "delRow")' => copy' = None
    <3>1. \A p \in Ops \ {o} : At(p, "delRow") => ~op[p].ok
      BY <1>1, WriterApart DEF Moves, InFlight, Reading
    <3> QED BY <1>1, <1>2, <3>1 DEF Moves, Kept
  <2> QED BY <2>1, <2>2, <2>3, <2>4, <2>5 DEF CopyInv
<1> QED
  BY <1>3, <1>4, <1>5

\* The writers, one by one.
LEMMA WriteCopyInv ==
  ASSUME StoredInv, Apart, CopyInv, NEW o \in Ops,
         SaveRow(o) \/ SaveCopy(o) \/ DelCopy(o) \/ DelRow(o)
  PROVE  CopyInv'
<1> USE DEF At
<1>1. Moves(o) /\ (op[o].reads => Reading(o))
  BY StepMoves DEF Step, CopyInv
<1>2. ~Reading(o) /\ ~op[o].reads
  BY <1>1 DEF SaveRow, SaveCopy, DelCopy, DelRow, Reading
<1>3. op'[o].at # "idle" => ~op'[o].reads
  BY <1>1, <1>2, IdleReads DEF Moves, Kept
<1>4. op'[o].reads => Reading(o)'
  BY <1>1, <1>2, IdleReads DEF Moves, Kept, Reading
<1>5. CASE SaveRow(o)
  <2>1. \/ op'[o].at = "idle" /\ ~clean'
        \/ op'[o].at = "saveCopy" /\ op'[o].holds = op[o].holds /\ row' = op[o].holds
    BY <1>5, GoesOnMoves, EndsMoves, IdleReads DEF SaveRow, WriteRow
  <2> QED BY <1>1, <1>2, <1>4, <2>1, WriterFrame DEF Moves
<1>6. CASE SaveCopy(o)
  <2>1. op'[o].at = "idle" /\ (clean' => op[o].ok /\ row' = row /\ copy' = op[o].holds)
    BY <1>6, EndsMoves, IdleReads DEF SaveCopy, WriteCopy
  <2>2. clean' => Coherent'
    BY <1>6, <2>1 DEF SaveCopy, CopyInv, Coherent
  <2> QED BY <1>1, <1>2, <1>4, <2>1, <2>2, WriterFrame DEF Moves
<1>7. CASE DelCopy(o)
  <2>1. CASE Goto(o, "delRow") /\ copy' = None
    <3>1. op'[o].at = "delRow"
      BY <2>1, GoesOnMoves
    <3> QED BY <1>1, <1>2, <1>4, <2>1, <3>1, WriterFrame DEF Moves, Coherent
  <2>2. CASE op' = [op EXCEPT ![o].at = "delRow", ![o].ok = FALSE] /\ UNCHANGED <<row, copy, clean>>
    <3>1. op'[o].at = "delRow" /\ ~op'[o].ok
      BY <2>2, DelCopyFailsMoves
    <3>2. clean => \A p \in Ops : ~At(p, "saveCopy")
      BY <1>1, <1>2, <1>7, WriterApart DEF Moves, DelCopy, InFlight
    <3>3. clean' => Coherent'
      BY <2>2, <3>2 DEF CopyInv, Coherent
    <3> QED BY <1>1, <1>2, <1>4, <3>1, <3>3, WriterFrame DEF Moves
  <2> QED BY <1>7, <2>1, <2>2 DEF DelCopy, WriteCopy, CopyWriteFails
<1>8. CASE DelRow(o)
  <2>1. op'[o].at = "idle" /\ (clean' => op[o].ok /\ row' = None /\ copy' = copy)
    BY <1>8, EndsMoves, IdleReads DEF DelRow, WriteRow
  <2>2. clean' => Coherent'
    BY <1>8, <2>1 DEF DelRow, CopyInv, Coherent
  <2> QED BY <1>1, <1>2, <1>4, <2>1, <2>2, WriterFrame DEF Moves
<1> QED
  BY <1>5, <1>6, <1>7, <1>8

LEMMA StepCopy ==
  ASSUME StoredInv, Apart, CopyInv, NEW o \in Ops, Step(o)
  PROVE  CopyInv'
BY LookCopy, FillCopy, WriteCopyInv DEF Step

\* A step that leaves the row and TikTok alone, and begins no write of the row.
LEMMA LastFrame ==
  ASSUME LastInv, NEW o \in Ops, Kept(o), UNCHANGED <<row, issued>>, clean' => clean,
         ~At(o, "saveRow"), op'[o].at \notin {"saveRow", "saveCopy"}
  PROVE  LastInv'
<1>1. ASSUME clean', \A p \in Ops : ~At(p, "saveRow")' PROVE row' \in {None', issued'}
  BY <1>1 DEF LastInv, Kept, At
<1>2. \A p \in Ops : (clean' \/ op'[p].ok) /\ At(p, "saveRow")' => op'[p].holds = issued'
  BY DEF LastInv, Kept, At
<1>3. \A p \in Ops : op'[p].ok /\ At(p, "saveCopy")' => row' = issued'
  BY DEF LastInv, Kept, At
<1> QED
  BY <1>1, <1>2, <1>3 DEF LastInv

\* A step of a writer: the others, if there are any, are disturbed.
LEMMA WriterLast ==
  ASSUME Apart, CopyInv, NEW o \in Ops, InFlight(o), ~Reading(o), Kept(o),
         clean' /\ ~At(o, "saveRow")' => row' \in {None, issued'},
         (clean' \/ op'[o].ok) /\ At(o, "saveRow")' => op'[o].holds = issued',
         op'[o].ok /\ At(o, "saveCopy")' => row' = issued',
         clean' => clean \/ op[o].ok
  PROVE  LastInv'
<1>1. \A p \in Ops \ {o} : InFlight(p) => ~clean' /\ ~op'[p].ok
  BY WriterApart DEF Kept
<1>2. \A p \in Ops \ {o} : ~InFlight(p) => op'[p].at = "idle"
  BY DEF Kept, InFlight
<1>3. \A p \in Ops : (clean' \/ op'[p].ok) /\ At(p, "saveRow")' => op'[p].holds = issued'
  BY <1>1, <1>2 DEF At
<1>4. \A p \in Ops : op'[p].ok /\ At(p, "saveCopy")' => row' = issued'
  BY <1>1, <1>2 DEF At
<1> QED
  BY <1>3, <1>4 DEF LastInv

LEMMA LookLast ==
  ASSUME StoredInv, LastInv, NEW o \in Ops,
         GetState(o) \/ DelState(o) \/ GetCopy(o) \/ GetRow(o) \/ Fill(o) \/ GetAll(o)
             \/ DelCopy(o)
  PROVE  LastInv'
<1> USE DEF At
<1>1. Kept(o)
  BY StepMoves DEF Step, Moves
<1>2. CASE GetState(o) \/ DelState(o)
  <2>1. op'[o].at \in {"idle", "delState", "exchange"}
    BY <1>2, GoesOnMoves, EndsMoves, IdleReads DEF GetState, DelState
  <2>2. op[o].at # "saveRow" /\ UNCHANGED <<row, issued, clean>>
    BY <1>2 DEF GetState, DelState, tokenVars
  <2> QED BY <1>1, <2>1, <2>2, LastFrame
<1>3. CASE GetCopy(o) \/ Fill(o)
  <2>1. op'[o].at \in {"idle", "exchange", "getRow"}
    <3>1. ASSUME NEW token, Got(o, token) PROVE op'[o].at \in {"idle", "exchange"}
      BY <3>1, HoldsMoves, EndsMoves, IdleReads DEF Got
    <3> QED BY <1>3, <3>1, GoesOnMoves DEF GetCopy, Fill
  <2>2. op[o].at # "saveRow" /\ UNCHANGED <<row, issued, clean>>
    BY <1>3 DEF GetCopy, Fill, WriteCopy, CopyWriteFails, tokenVars
  <2> QED BY <1>1, <2>1, <2>2, LastFrame
<1>4. CASE GetRow(o) \/ GetAll(o)
  <2>1. op'[o].at \in {"idle", "fill", "exchange"}
    BY <1>4, HoldsMoves, EndsMoves, IdleReads DEF GetRow, GetAll
  <2>2. op[o].at # "saveRow" /\ UNCHANGED <<row, issued, clean>>
    BY <1>4 DEF GetRow, GetAll, tokenVars
  <2> QED BY <1>1, <2>1, <2>2, LastFrame
<1>5. CASE DelCopy(o)
  <2>1. op'[o].at = "delRow"
    BY <1>5, GoesOnMoves, DelCopyFailsMoves DEF DelCopy
  <2>2. op[o].at # "saveRow" /\ UNCHANGED <<row, issued, clean>>
    BY <1>5 DEF DelCopy, WriteCopy, CopyWriteFails, tokenVars
  <2> QED BY <1>1, <2>1, <2>2, LastFrame
<1> QED
  BY <1>2, <1>3, <1>4, <1>5

LEMMA WriteLast ==
  ASSUME StoredInv, Apart, CopyInv, LastInv, NEW o \in Ops,
         Exchange(o) \/ SaveRow(o) \/ SaveCopy(o) \/ DelRow(o)
  PROVE  LastInv'
<1> USE DEF At
<1>1. Moves(o)
  BY StepMoves DEF Step
<1>2. ~Reading(o)
  BY DEF Exchange, SaveRow, SaveCopy, DelRow, Reading
<1>3. CASE Exchange(o)
  <2>1. CASE Hold(o, issued + 1, "saveRow") /\ issued' = issued + 1
    <3>1. op'[o].at = "saveRow" /\ op'[o].holds = issued'
      BY <2>1, HoldsMoves
    <3> QED BY <1>1, <1>2, <3>1, WriterLast DEF Moves
  <2>2. CASE End(o) /\ ~clean'
    <3>1. op'[o].at = "idle"
      BY <2>2, EndsMoves, IdleReads
    <3> QED BY <1>1, <1>2, <2>2, <3>1, WriterLast DEF Moves
  <2>3. CASE End(o) /\ UNCHANGED <<issued, clean>>
    <3>1. op'[o].at = "idle"
      BY <2>3, EndsMoves, IdleReads
    <3> QED BY <1>1, <1>3, <2>3, <3>1, LastFrame DEF Moves, Exchange
  <2> QED BY <1>3, <2>1, <2>2, <2>3 DEF Exchange
<1>4. CASE SaveRow(o)
  <2>1. CASE WriteRow(op[o].holds) /\ Goto(o, "saveCopy") /\ UNCHANGED <<clean, issued>>
    <3>1. op'[o].at = "saveCopy" /\ row' = op[o].holds /\ op'[o].ok = op[o].ok
      BY <2>1, GoesOnMoves DEF WriteRow
    <3>2. clean \/ op[o].ok => op[o].holds = issued
      BY <1>4 DEF SaveRow, LastInv
    <3> QED BY <1>1, <1>2, <2>1, <3>1, <3>2, WriterLast DEF Moves
  <2>2. CASE End(o) /\ ~clean'
    <3>1. op'[o].at = "idle"
      BY <2>2, EndsMoves, IdleReads
    <3> QED BY <1>1, <1>2, <2>2, <3>1, WriterLast DEF Moves
  <2> QED BY <1>4, <2>1, <2>2 DEF SaveRow
<1>5. CASE SaveCopy(o)
  <2>1. op'[o].at = "idle" /\ UNCHANGED <<row, issued>> /\ (clean' => op[o].ok)
    BY <1>5, EndsMoves, IdleReads DEF SaveCopy, WriteCopy, CopyWriteFails, tokenVars
  <2>2. clean' => row' = issued'
    BY <1>5, <2>1 DEF SaveCopy, LastInv
  <2> QED BY <1>1, <1>2, <2>1, <2>2, WriterLast DEF Moves
<1>6. CASE DelRow(o)
  <2>1. op'[o].at = "idle" /\ (clean' => row' = None)
    BY <1>6, EndsMoves, IdleReads DEF DelRow, WriteRow
  <2> QED BY <1>1, <1>2, <2>1, WriterLast DEF Moves
<1> QED
  BY <1>3, <1>4, <1>5, <1>6

LEMMA StepUndisturbed ==
  ASSUME StoredInv, UndisturbedInv, NEW o \in Ops, Step(o)
  PROVE  UndisturbedInv'
BY StepApart, StepCopy, LookLast, WriteLast DEF UndisturbedInv, Step

\* An operation that begins disturbs those in flight and is disturbed by them,
\* unless all of them only read.
LEMMA BeginUndisturbed ==
  ASSUME StoredInv, UndisturbedInv, NEW o \in Ops, NEW kind \in Kinds, Begin(o, kind)
  PROVE  UndisturbedInv'
<1> DEFINE reads     == kind = "sender"
           disturbed == {p \in Ops \ {o} : InFlight(p) /\ ~(reads /\ op[p].reads)}
<1>1. /\ op'[o].kind = kind /\ op'[o].at = FirstStage(kind)
      /\ op'[o].reads = reads /\ op'[o].ok = (disturbed = {})
  BY DEF Begin, Enter
<1>2. \A p \in Ops \ {o} : /\ op'[p].at = op[p].at /\ op'[p].holds = op[p].holds
                           /\ op'[p].kind = op[p].kind /\ op'[p].reads = op[p].reads
                           /\ op'[p].ok => op[p].ok /\ p \notin disturbed
  <2> SUFFICES ASSUME NEW p \in Ops \ {o} PROVE
                           /\ op'[p].at = op[p].at /\ op'[p].holds = op[p].holds
                           /\ op'[p].kind = op[p].kind /\ op'[p].reads = op[p].reads
                           /\ op'[p].ok => op[p].ok /\ p \notin disturbed
    OBVIOUS
  <2>1. op'[p] = [op[p] EXCEPT !.ok = @ /\ p \notin disturbed]
    BY DEF Begin, Enter
  <2>2. op[p] \in States
    BY DEF StoredInv
  <2> HIDE DEF disturbed
  <2> QED BY <2>1, <2>2 DEF States, OpStates
<1>3. /\ UNCHANGED <<row, copy, issued>> /\ ~InFlight(o)
      /\ clean' => clean /\ disturbed = {}
  BY DEF Begin, Enter, tokenVars
<1>4. /\ FirstStage(kind) \in {"getState", "getAll", "delCopy", "getCopy"}
      /\ reads => FirstStage(kind) = "getCopy" /\ kind # "manual"
  BY DEF Kinds, FirstStage
<1>5. Apart'
  <2> SUFFICES ASSUME NEW p \in Ops, NEW q \in Ops \ {p},
                      InFlight(p)', InFlight(q)', clean' \/ op'[p].ok
               PROVE  op'[p].reads /\ op'[q].reads
    BY DEF Apart
  <2>0. \A r \in Ops \ {o} : InFlight(r) /\ r \notin disturbed => reads /\ op[r].reads
    OBVIOUS
  <2> HIDE DEF reads, disturbed
  <2>1. CASE p = o
    BY <1>1, <1>2, <1>3, <2>0, <2>1 DEF InFlight
  <2>2. CASE q = o
    BY <1>1, <1>2, <1>3, <2>0, <2>2 DEF InFlight
  <2>3. CASE o \notin {p, q}
    BY <1>2, <1>3, <2>3 DEF InFlight, UndisturbedInv, Apart
  <2> QED BY <2>1, <2>2, <2>3
<1>6. CopyInv'
  <2> HIDE DEF reads, disturbed
  <2>1. \A p \in Ops : op'[p].reads => Reading(p)'
    BY <1>1, <1>2, <1>4 DEF UndisturbedInv, CopyInv, Reading
  <2>2. ASSUME clean', \A p \in Ops : ~At(p, "saveCopy")' PROVE Coherent'
    BY <1>2, <1>3, <2>2 DEF UndisturbedInv, CopyInv, At, InFlight, Coherent
  <2>3. \A p \in Ops : clean' /\ At(p, "fill")' => op'[p].holds = row'
    BY <1>1, <1>2, <1>3, <1>4 DEF UndisturbedInv, CopyInv, At
  <2>4. \A p \in Ops : op'[p].ok /\ At(p, "saveCopy")' => op'[p].holds = row'
    BY <1>1, <1>2, <1>3, <1>4 DEF UndisturbedInv, CopyInv, At
  <2>5. \A p \in Ops : op'[p].ok /\ At(p, "delRow")' => copy' = None
    BY <1>1, <1>2, <1>3, <1>4 DEF UndisturbedInv, CopyInv, At
  <2> QED BY <2>1, <2>2, <2>3, <2>4, <2>5 DEF CopyInv
<1>7. LastInv'
  <2> HIDE DEF reads, disturbed
  <2>1. ASSUME clean', \A p \in Ops : ~At(p, "saveRow")' PROVE row' \in {None, issued'}
    BY <1>2, <1>3, <2>1 DEF UndisturbedInv, LastInv, At, InFlight
  <2>2. \A p \in Ops : (clean' \/ op'[p].ok) /\ At(p, "saveRow")' => op'[p].holds = issued'
    BY <1>1, <1>2, <1>3, <1>4 DEF UndisturbedInv, LastInv, At
  <2>3. \A p \in Ops : op'[p].ok /\ At(p, "saveCopy")' => row' = issued'
    BY <1>1, <1>2, <1>3, <1>4 DEF UndisturbedInv, LastInv, At
  <2> QED BY <2>1, <2>2, <2>3 DEF LastInv
<1> QED
  BY <1>5, <1>6, <1>7 DEF UndisturbedInv

LEMMA NextUndisturbed == StoredInv /\ UndisturbedInv /\ [Next]_vars => UndisturbedInv'
<1> SUFFICES ASSUME StoredInv, UndisturbedInv, [Next]_vars PROVE UndisturbedInv'
  OBVIOUS
<1> USE DEF UndisturbedInv, Apart, CopyInv, LastInv, InFlight, At, Reading, Coherent
<1>1. CASE \E o \in Ops : Step(o)
  BY <1>1, StepUndisturbed
<1>2. CASE \E o \in Ops, kind \in Kinds : Begin(o, kind)
  BY <1>2, BeginUndisturbed
<1>3. CASE Expire
  BY <1>3 DEF Expire, CopyExpires, WriteCopy, tokenVars
<1>4. CASE Crash
  <2>1. \A o \in Ops : op'[o] = Idle
    BY <1>4 DEF Crash, KillOps
  <2>2. UNCHANGED <<row, copy, issued>> /\ (clean' => clean /\ \A o \in Ops : op[o].reads)
    BY <1>4 DEF Crash, KillOps, tokenVars
  <2> QED BY <2>1, <2>2, IdleReads
<1>5. CASE UNCHANGED vars \/ \E s \in OAuthStates : Initiate(s) \/ StateExpires(s)
  <2>1. UNCHANGED <<row, copy, op, clean, issued>>
    BY <1>5 DEF Initiate, StateExpires, vars, tokenVars
  <2> QED BY <2>1
<1> QED
  BY <1>1, <1>2, <1>3, <1>4, <1>5 DEF Next

LEMMA UndisturbedInvariant == Spec => []UndisturbedInv
<1>1. Init => UndisturbedInv
  BY DEF Init, StoreInit, Idle, UndisturbedInv, Apart, CopyInv, LastInv, InFlight, At,
         Reading, Coherent
<1> QED
  BY <1>1, NextUndisturbed, StoredInvariant, PTL DEF Spec

\* Row and copy differ, at rest, only after a writer that overlapped another
\* operation, failed or was killed, and until one has run undisturbed.
THEOREM CoherenceHolds == Spec => []CoherentUnlessDisturbed
<1>1. UndisturbedInv => CoherentUnlessDisturbed
  BY DEF UndisturbedInv, CopyInv, CoherentUnlessDisturbed, Quiet, InFlight, At
<1> QED
  BY <1>1, UndisturbedInvariant, PTL

\* After an undisturbed save the row is the last token that TikTok has issued.
THEOREM LastTokenStays == Spec => []LastTokenWins
<1>1. UndisturbedInv => LastTokenWins
  BY DEF UndisturbedInv, LastInv, LastTokenWins, Quiet, InFlight, At
<1> QED
  BY <1>1, UndisturbedInvariant, PTL

=============================================================================
