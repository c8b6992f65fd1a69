---------------------- MODULE CRMEventSetManagerProofs ----------------------
(***************************************************************************)
(* The event sets of one advertiser, for any number of operations, sets    *)
(* and faults: types, the number of sets that provisions make, the         *)
(* coherence of row and copy, and with it what resolve answers.            *)
(***************************************************************************)
EXTENDS CRMEventSetManager, FiniteSetTheorems, TLAPS

States == OpStates(Kinds, Stages)

Writing == {"saveRow", "saveCopy", "fill"}

\* Types, but for the two counters; whoever is about to write a set's id has one.
TypeInv ==
    /\ StoreTypeOK(Kinds, Stages)
    /\ \A o \in Ops : op[o].at \in Writing => op[o].holds \in Values
    /\ source \in Sources /\ (source = "none" <=> row = None)
    /\ remote \subseteq Values
    /\ answer \in [set : Values \cup {None}, sound : BOOLEAN]

\* The provisions that have found no set and are about to make one.
Creating == {o \in Ops : op[o].kind = "provision" /\ op[o].at = "create"}

\* Once there is a set no further provision joins those.
CountInv == /\ made \in Nat /\ peak \in Nat
            /\ peak <= Cardinality(Ops)
            /\ made <= Cardinality(remote)
            /\ \A o \in Provisioning : InFlight(o)
            /\ Cardinality(Provisioning) <= peak
            /\ made <= peak
            /\ remote # {} => made + Cardinality(Creating) <= peak

\* Whoever is undisturbed is alone among those in flight, or all of them read;
\* so is everybody while the stores are clean.
Apart ==
    \A o \in Ops : \A p \in Ops \ {o} :
        InFlight(o) /\ InFlight(p) /\ (clean \/ op[o].ok) => op[o].reads /\ op[p].reads

\* Where a reader can be.
Reading(o) == op[o].at \in {"idle", "getCopy", "getRow", "fill"}

\* In these stages of a save the copy may be stale.
Saving(o) == op[o].at \in {"saveCopy", "delStale"}

\* While the stores are clean, row and copy differ only in the middle of a save,
\* and a resolve that fills the copy has the row.
CopyInv == /\ \A o \in Ops : op[o].reads => Reading(o)
           /\ clean /\ (\A o \in Ops : ~Saving(o)) => Coherent
           /\ \A o \in Ops : clean /\ At(o, "fill") => op[o].holds = row
           /\ \A o \in Ops : (clean \/ op[o].ok) /\ At(o, "saveCopy") => op[o].holds = row
           /\ \A o \in Ops : op[o].ok /\ At(o, "delCopy") => Coherent

\* An undisturbed provision finds what it saw: no set, or the one it holds.
ChoiceInv ==
    \A o \in Ops :
        /\ At(o, "list") => op[o].kind = "provision"
        /\ At(o, "saveRow") => op[o].kind \in {"provision", "select"}
        /\ op[o].kind = "provision" /\ op[o].ok /\ At(o, "create") => remote = {}
        /\ op[o].kind = "provision" /\ op[o].ok /\ At(o, "saveRow") => remote = {op[o].holds}

UndisturbedInv == Apart /\ CopyInv /\ ChoiceInv

-----------------------------------------------------------------------------
(* What a step does to the operation it belongs to *)

Kept(o) == /\ \A p \in Ops \ {o} : op'[p] = op[p]
           /\ \/ op'[o] = Idle
              \/ /\ op'[o].reads = op[o].reads /\ op'[o].kind = op[o].kind
                 /\ op'[o].ok = op[o].ok /\ op'[o].at # "idle"

Moves(o) == /\ InFlight(o)
            /\ Kept(o)
            /\ op' \in [Ops -> States]
            /\ clean' => clean \/ (op[o].ok /\ op'[o] = Idle)

LEMMA IdleIsState ==
    /\ Idle \in States /\ Idle.at = "idle" /\ Idle.reads
    /\ Idle.kind = "none" /\ Idle.holds = None
BY DEF Idle, States, OpStates

LEMMA OpType == ASSUME TypeInv, NEW o \in Ops
                PROVE  op \in [Ops -> States] /\ op[o] \in States /\ clean \in BOOLEAN
BY DEF TypeInv, StoreTypeOK, States

LEMMA GoesOn ==
    ASSUME TypeInv, NEW o \in Ops, NEW stage \in Stages, Goto(o, stage)
    PROVE  /\ Kept(o) /\ op' \in [Ops -> States]
           /\ op'[o].at = stage /\ op'[o].holds = op[o].holds /\ op'[o].ok = op[o].ok
           /\ op'[o].reads = op[o].reads /\ op'[o].kind = op[o].kind
<1>1. op' = [op EXCEPT ![o] = [op[o] EXCEPT !.at = stage]]
  BY DEF Goto
<1>2. [op[o] EXCEPT !.at = stage] \in States
  BY OpType DEF States, OpStates
<1> QED BY <1>1, <1>2, OpType DEF Kept, States, OpStates, Stages

LEMMA Holds ==
    ASSUME TypeInv, NEW o \in Ops, NEW stage \in Stages, NEW set \in Values,
           Hold(o, set, stage)
    PROVE  /\ Kept(o) /\ op' \in [Ops -> States]
           /\ op'[o].at = stage /\ op'[o].holds = set /\ op'[o].ok = op[o].ok
           /\ op'[o].reads = op[o].reads /\ op'[o].kind = op[o].kind
<1>1. op' = [op EXCEPT ![o] = [op[o] EXCEPT !.at = stage, !.holds = set]]
  BY OpType DEF Hold
<1>2. [op[o] EXCEPT !.at = stage, !.holds = set] \in States
  BY OpType DEF States, OpStates
<1> QED BY <1>1, <1>2, OpType DEF Kept, States, OpStates, Stages

LEMMA Ends ==
    ASSUME TypeInv, NEW o \in Ops, End(o)
    PROVE  Kept(o) /\ op' \in [Ops -> States] /\ op'[o] = Idle
BY OpType, IdleIsState DEF End, Kept

LEMMA StepMoves ==
    ASSUME TypeInv, NEW o \in Ops, Step(o)
    PROVE  Moves(o)
<1>0. /\ row \in Values \cup {None} /\ remote \subseteq Values /\ clean \in BOOLEAN
      /\ op[o].ok \in BOOLEAN
      /\ op[o].at \in Writing => op[o].holds \in Values
  BY OpType DEF TypeInv, StoreTypeOK, States, OpStates
<1>1. CASE List(o)
  <2>1. Kept(o) /\ op' \in [Ops -> States]
    BY <1>0, <1>1, GoesOn, Holds, Ends DEF List, Stages
  <2> QED BY <1>0, <1>1, <2>1 DEF List, Moves, At, InFlight
<1>2. CASE Create(o)
  <2>1. Kept(o) /\ op' \in [Ops -> States]
    BY <1>0, <1>2, Holds, Ends DEF Create, Stages
  <2> QED BY <1>0, <1>2, <2>1 DEF Create, Moves, At, InFlight
<1>3. CASE SaveRow(o)
  <2>1. Kept(o) /\ op' \in [Ops -> States] /\ (clean' => clean)
    BY <1>3, GoesOn, Ends DEF SaveRow, Stages
  <2> QED BY <1>0, <1>3, <2>1 DEF SaveRow, Moves, At, InFlight
<1>4. CASE SaveCopy(o)
  <2>1. Kept(o) /\ op' \in [Ops -> States]
    BY <1>4, GoesOn, Ends DEF SaveCopy, Stages
  <2>2. clean' => clean \/ (op[o].ok /\ op'[o] = Idle)
    BY <1>4, Ends DEF SaveCopy
  <2> QED BY <1>0, <1>4, <2>1, <2>2 DEF SaveCopy, Moves, At, InFlight
<1>5. CASE DelCopy(o)
  <2>1. Kept(o) /\ op' \in [Ops -> States] /\ op'[o] = Idle /\ (clean' => op[o].ok)
    BY <1>5, Ends DEF DelCopy
  <2> QED BY <1>0, <1>5, <2>1 DEF DelCopy, Moves, At, InFlight
<1>6. CASE GetCopy(o) \/ GetRow(o) \/ Fill(o)
  <2>1. Kept(o) /\ op' \in [Ops -> States]
    BY <1>0, <1>6, GoesOn, Holds, Ends DEF GetCopy, GetRow, Fill, Answer, Stages
  <2>2. InFlight(o) /\ clean' = clean
    BY <1>6 DEF GetCopy, GetRow, Fill, At, InFlight
  <2> QED BY <2>1, <2>2 DEF Moves
<1> QED
  BY <1>1, <1>2, <1>3, <1>4, <1>5, <1>6 DEF Step

-----------------------------------------------------------------------------
(* Types *)

LEMMA StepClean ==
    ASSUME TypeInv, NEW o \in Ops, Step(o)
    PROVE  clean' \in BOOLEAN
<1>1. clean \in BOOLEAN /\ op[o].ok \in BOOLEAN
  BY OpType DEF States, OpStates
<1> QED
  BY <1>1 DEF Step, List, Create, SaveRow, SaveCopy, DelCopy, GetCopy, GetRow, Fill

\* The operation, if it is about to write, has a set; row and source change
\* together.
LEMMA StepTypes ==
    ASSUME TypeInv, NEW o \in Ops, Step(o)
    PROVE  TypeInv'
<1> USE DEF At
<1>0. /\ row \in Values \cup {None} /\ copy \in Values \cup {None}
      /\ remote \subseteq Values
      /\ op[o].ok \in BOOLEAN
      /\ op[o].at \in Writing => op[o].holds \in Values
  BY OpType DEF TypeInv, StoreTypeOK, States, OpStates
<1>1. op' \in [Ops -> States] /\ Kept(o) /\ clean' \in BOOLEAN
  BY StepMoves, StepClean DEF Moves
<1>2. op'[o].at \in Writing => op'[o].holds \in Values
  <2>1. CASE List(o)
    BY <1>0, <2>1, GoesOn, Holds, Ends, IdleIsState DEF List, Writing, Stages
  <2>2. CASE Create(o)
    BY <1>0, <2>2, Holds, Ends, IdleIsState DEF Create, Writing, Stages
  <2>3. CASE SaveRow(o) \/ SaveCopy(o)
    BY <1>0, <2>3, GoesOn, Ends, IdleIsState DEF SaveRow, SaveCopy, Writing, Stages
  <2>4. CASE DelCopy(o) \/ Fill(o)
    BY <2>4, Ends, IdleIsState DEF DelCopy, Fill, Answer, Writing
  <2>5. CASE GetCopy(o)
    BY <2>5, GoesOn, Ends, IdleIsState DEF GetCopy, Answer, Writing, Stages
  <2>6. CASE GetRow(o)
    BY <1>0, <2>6, Holds, Ends, IdleIsState DEF GetRow, Answer, Writing, Stages
  <2> QED BY <2>1, <2>2, <2>3, <2>4, <2>5, <2>6 DEF Step
<1>3. \A p \in Ops : op'[p].at \in Writing => op'[p].holds \in Values
  BY <1>1, <1>2 DEF Kept, TypeInv
<1>4. /\ row' \in Values \cup {None}
      /\ source' \in Sources /\ (source' = "none" <=> row' = None)
  <2>1. CASE SaveRow(o)
    BY <1>0, <2>1, NoneAssumption DEF SaveRow, SaveRecord, WriteRow, TypeInv, Sources, Writing
  <2>2. CASE ~SaveRow(o)
    <3>1. row' = row /\ source' = source
      BY <2>2 DEF Step, List, Create, SaveCopy, DelCopy, GetCopy, GetRow, Fill,
         WriteCopy, CopyWriteFails
    <3> QED BY <3>1 DEF TypeInv, StoreTypeOK
  <2> QED BY <2>1, <2>2
<1>5. copy' \in Values \cup {None}
  BY <1>0 DEF Step, List, Create, SaveRow, SaveRecord, SaveCopy, DelCopy, GetCopy, GetRow,
     Fill, WriteRow, WriteCopy, CopyWriteFails, Writing
<1>6. remote' \subseteq Values
  BY <1>0 DEF Step, List, Create, MakeSet, SaveRow, SaveCopy, DelCopy, GetCopy, GetRow, Fill
<1>7. answer' \in [set : Values \cup {None}, sound : BOOLEAN]
  <2>1. ASSUME NEW set \in Values \cup {None}, NEW sound \in BOOLEAN, Answer(o, set, sound)
        PROVE  answer' \in [set : Values \cup {None}, sound : BOOLEAN]
    BY <1>0, <2>1 DEF Answer
  <2>2. CASE UNCHANGED answer
    BY <2>2 DEF TypeInv
  <2>3. CASE GetCopy(o) \/ GetRow(o) \/ Fill(o)
    BY <1>0, <2>1, <2>2, <2>3, EnvSetAssumption DEF GetCopy, GetRow, Fill, Writing
  <2> QED BY <2>2, <2>3 DEF Step, List, Create, SaveRow, SaveCopy, DelCopy
<1> QED
  BY <1>1, <1>3, <1>4, <1>5, <1>6, <1>7 DEF TypeInv, StoreTypeOK, States

\* What holds of every request that comes.
Begins(o, kind, stage, set) ==
    /\ Enter(o, kind, stage, set, kind = "resolve")
    /\ peak' = IF kind = "provision" /\ Cardinality(Provisioning) >= peak
               THEN Cardinality(Provisioning) + 1 ELSE peak
    /\ answer' = NoAnswer
    /\ UNCHANGED <<source, remote, made>>
    /\ \/ <<kind, stage>> \in {<<"provision", "list">>, <<"create", "create">>,
                              <<"resolve", "getCopy">>}
       \/ kind = "select" /\ stage = "saveRow" /\ set \in Values

LEMMA RequestBegins ==
    ASSUME NEW o \in Ops, Request(o)
    PROVE  \E kind \in Kinds, stage \in Stages, set \in Values \cup {None} :
               Begins(o, kind, stage, set)
<1>1. ASSUME NEW kind \in Kinds, NEW stage \in Stages, Begin(o, kind, stage),
             <<kind, stage>> \in {<<"provision", "list">>, <<"create", "create">>,
                                 <<"resolve", "getCopy">>}
      PROVE  Begins(o, kind, stage, None)
  BY <1>1 DEF Begin, Begins
<1>2. ASSUME NEW set \in Values, BeginSelect(o, set)
      PROVE  Begins(o, "select", "saveRow", set)
  BY <1>2 DEF BeginSelect, Begins
<1> QED
  BY <1>1, <1>2, Zenon DEF Request, Kinds, Stages

\* The operation that begins, and the others.
LEMMA Entered ==
    ASSUME TypeInv, NEW o \in Ops, NEW kind \in Kinds, NEW stage \in Stages,
           NEW set \in Values \cup {None}, NEW reads \in BOOLEAN,
           Enter(o, kind, stage, set, reads)
    PROVE  /\ op' \in [Ops -> States]
           /\ op'[o].kind = kind /\ op'[o].at = stage /\ op'[o].holds = set
           /\ op'[o].reads = reads
           /\ \A p \in Ops \ {o} :
                  /\ op'[p].at = op[p].at /\ op'[p].holds = op[p].holds
                  /\ op'[p].kind = op[p].kind /\ op'[p].reads = op[p].reads
                  /\ op'[p].ok => op[p].ok
                  /\ InFlight(p) /\ (op'[p].ok \/ op'[o].ok \/ clean') => reads /\ op[p].reads
           /\ ~InFlight(o) /\ clean' \in BOOLEAN /\ (clean' => clean)
           /\ UNCHANGED <<row, copy>>
<1> DEFINE disturbed == {p \in Ops \ {o} : InFlight(p) /\ ~(reads /\ op[p].reads)}
           entered   == [kind |-> kind, at |-> stage, holds |-> set,
                         reads |-> reads, ok |-> disturbed = {}]
           others(p) == [op[p] EXCEPT !.ok = @ /\ p \notin disturbed]
<1>1. entered \in States /\ \A p \in Ops : others(p) \in States
  BY OpType DEF States, OpStates
<1>2. \A p \in Ops \ {o} : InFlight(p) /\ p \notin disturbed => reads /\ op[p].reads
  OBVIOUS
<1>3. /\ op' = [p \in Ops |-> IF p = o THEN entered ELSE others(p)]
      /\ clean' = (clean /\ disturbed = {})
      /\ ~InFlight(o) /\ UNCHANGED <<row, copy>>
  BY DEF Enter
<1> HIDE DEF disturbed
<1>4. op' \in [Ops -> States]
  <2> HIDE DEF entered, others
  <2> QED BY <1>1, <1>3
<1>5. \A p \in Ops \ {o} :
          /\ op'[p].at = op[p].at /\ op'[p].holds = op[p].holds
          /\ op'[p].kind = op[p].kind /\ op'[p].reads = op[p].reads
          /\ op'[p].ok => op[p].ok /\ p \notin disturbed
  BY <1>3, OpType DEF States, OpStates
<1>6. /\ op'[o].kind = kind /\ op'[o].at = stage /\ op'[o].holds = set
      /\ op'[o].reads = reads /\ op'[o].ok = (disturbed = {})
  BY <1>3
<1>7. \A p \in Ops \ {o} :
          InFlight(p) /\ (op'[p].ok \/ op'[o].ok \/ clean') => reads /\ op[p].reads
  BY <1>2, <1>3, <1>5, <1>6
<1> QED
  BY <1>3, <1>4, <1>5, <1>6, <1>7

LEMMA BeginsTypes ==
    ASSUME TypeInv, NEW o \in Ops, NEW kind \in Kinds, NEW stage \in Stages,
           NEW set \in Values \cup {None}, Begins(o, kind, stage, set)
    PROVE  TypeInv'
<1> DEFINE reads == kind = "resolve"
<1>1. Enter(o, kind, stage, set, reads) /\ reads \in BOOLEAN
  BY DEF Begins
<1> HIDE DEF reads
<1>2. op' \in [Ops -> States] /\ clean' \in BOOLEAN /\ UNCHANGED <<row, copy>>
  BY <1>1, Entered
<1>3. \A p \in Ops : op'[p].at \in Writing => op'[p].holds \in Values
  <2>1. stage \in Writing => set \in Values
    BY DEF Begins, Writing
  <2>2. op'[o].at = stage /\ op'[o].holds = set
    BY <1>1, Entered
  <2>3. \A p \in Ops \ {o} : op'[p].at = op[p].at /\ op'[p].holds = op[p].holds
    BY <1>1, Entered
  <2> QED BY <2>1, <2>2, <2>3 DEF TypeInv
<1>4. answer' \in [set : Values \cup {None}, sound : BOOLEAN]
  BY DEF Begins, NoAnswer
<1> QED
  BY <1>2, <1>3, <1>4 DEF TypeInv, StoreTypeOK, States, Begins

LEMMA NextTypes == TypeInv /\ [Next]_vars => TypeInv'
<1> SUFFICES ASSUME TypeInv, [Next]_vars PROVE TypeInv'
  OBVIOUS
<1>1. ASSUME NEW o \in Ops, Request(o) PROVE TypeInv'
  BY <1>1, RequestBegins, BeginsTypes
<1>2. ASSUME NEW o \in Ops, Step(o) PROVE TypeInv'
  BY <1>2, StepTypes
<1>3. CASE Expire
  BY <1>3 DEF Expire, CopyExpires, WriteCopy, TypeInv, StoreTypeOK
<1>4. CASE Crash
  <2>1. op' = [o \in Ops |-> Idle] /\ UNCHANGED <<row, copy, source, remote, answer>>
    BY <1>4 DEF Crash, KillOps
  <2>2. clean' \in BOOLEAN
    BY <1>4 DEF Crash, KillOps
  <2>3. op' \in [Ops -> States] /\ \A o \in Ops : op'[o].at \notin Writing
    BY <2>1, IdleIsState DEF Writing
  <2> QED BY <2>1, <2>2, <2>3 DEF TypeInv, StoreTypeOK, States
<1>5. CASE UNCHANGED vars
  BY <1>5 DEF vars, TypeInv, StoreTypeOK
<1> QED
  BY <1>1, <1>2, <1>3, <1>4, <1>5 DEF Next

LEMMA TypeInvariant == Spec => []TypeInv
<1>1. Init => TypeInv
  BY IdleIsState DEF Init, StoreInit, NoAnswer, TypeInv, StoreTypeOK, States, Writing, Sources
<1> QED
  BY <1>1, NextTypes, PTL DEF Spec

-----------------------------------------------------------------------------
(* How many sets provisions make *)

LEMMA ProvisionsFinite ==
    /\ IsFiniteSet(Ops) /\ Cardinality(Ops) \in Nat
    /\ IsFiniteSet(Provisioning) /\ Cardinality(Provisioning) \in Nat
    /\ Cardinality(Provisioning) <= Cardinality(Ops)
    /\ IsFiniteSet(Creating) /\ Cardinality(Creating) \in Nat
    /\ Cardinality(Creating) <= Cardinality(Provisioning)
<1>1. Provisioning \subseteq Ops /\ Creating \subseteq Provisioning
  BY DEF Provisioning, Creating
<1> QED
  BY <1>1, FiniteAssumption, FS_Subset, FS_CardinalityType

LEMMA RemoteFinite ==
    ASSUME TypeInv PROVE IsFiniteSet(remote) /\ Cardinality(remote) \in Nat
BY FiniteAssumption, FS_Subset, FS_CardinalityType DEF TypeInv

\* A step that makes no set, and lets no provision pass a list that is not empty.
LEMMA NothingMade ==
    ASSUME CountInv, UNCHANGED <<remote, made, peak>>,
           Provisioning' \subseteq Provisioning, \A p \in Provisioning' : InFlight(p)',
           remote # {} => Creating' \subseteq Creating
    PROVE  CountInv'
<1>1. Cardinality(Provisioning') <= Cardinality(Provisioning) /\ Cardinality(Provisioning') \in Nat
  BY ProvisionsFinite, FS_Subset, FS_CardinalityType
<1>2. remote # {} => Cardinality(Creating') <= Cardinality(Creating) /\ Cardinality(Creating') \in Nat
  BY ProvisionsFinite, FS_Subset, FS_CardinalityType
<1> QED
  BY <1>1, <1>2, ProvisionsFinite DEF CountInv

LEMMA StepCount ==
    ASSUME TypeInv, CountInv, NEW o \in Ops, Step(o)
    PROVE  CountInv'
<1> USE DEF At
<1>0. Kept(o) /\ (op'[o].kind = "provision" => op[o].kind = "provision")
  BY StepMoves, IdleIsState DEF Moves, Kept
<1>1. Provisioning' \subseteq Provisioning /\ \A p \in Provisioning' : InFlight(p)'
  <2>1. op'[o].kind = "provision" => op'[o].at # "idle"
    BY <1>0, IdleIsState DEF Kept
  <2> QED BY <1>0, <2>1 DEF Provisioning, Kept, CountInv, InFlight
<1>2. CASE List(o)
  <2>1. remote # {} => op'[o].at # "create"
    BY <1>2, Holds, Ends, IdleIsState DEF List, Stages, TypeInv
  <2>2. remote # {} => Creating' \subseteq Creating
    BY <1>0, <2>1 DEF Creating, Kept
  <2> QED BY <1>1, <1>2, <2>2, NothingMade DEF List
<1>3. CASE Create(o) /\ remote' # remote
  <2>1. PICK set \in Values : /\ MakeSet(o, set)
                              /\ Hold(o, set, "saveRow") \/ End(o)
    BY <1>3 DEF Create
  <2>2. op'[o].at # "create" /\ op[o].at = "create" /\ peak' = peak
    BY <1>3, <2>1, Holds, Ends, IdleIsState DEF Create, Stages
  <2>3. /\ Cardinality(remote') = Cardinality(remote) + 1 /\ remote' # {}
        /\ remote = {} => made = 0
    BY <2>1, RemoteFinite, FS_AddElement, FS_EmptySet DEF MakeSet, CountInv
  <2>4. Creating' = Creating \ {o}
    BY <1>0, <2>2 DEF Creating, Kept
  <2>5. Cardinality(Provisioning') <= Cardinality(Provisioning) /\ Cardinality(Provisioning') \in Nat
    BY <1>1, ProvisionsFinite, FS_Subset, FS_CardinalityType
  <2>6. made + Cardinality(Creating) <= peak
    BY <2>3, ProvisionsFinite DEF CountInv
  <2>7. CASE op[o].kind = "provision"
    <3>1. o \in Creating /\ made' = made + 1
      BY <2>1, <2>2, <2>7 DEF Creating, MakeSet
    <3>2. Cardinality(Creating') = Cardinality(Creating) - 1
      BY <2>4, <3>1, ProvisionsFinite, FS_RemoveElement
    <3>3. Cardinality(Creating') \in Nat
      BY <2>4, ProvisionsFinite, FS_Subset, FS_CardinalityType
    <3> QED
      BY <1>1, <2>2, <2>3, <2>5, <2>6, <3>1, <3>2, <3>3, ProvisionsFinite, RemoteFinite DEF CountInv
  <2>8. CASE op[o].kind # "provision"
    <3>1. Creating' = Creating /\ made' = made
      BY <2>1, <2>4, <2>8 DEF Creating, MakeSet
    <3> QED
      BY <1>1, <2>2, <2>3, <2>5, <2>6, <3>1, ProvisionsFinite, RemoteFinite DEF CountInv
  <2> QED BY <2>7, <2>8
<1>4. CASE ~List(o) /\ ~(Create(o) /\ remote' # remote)
  <2>1. UNCHANGED <<remote, made, peak>>
    BY <1>4 DEF Step, Create, MakeSet, SaveRow, SaveCopy, DelCopy, GetCopy, GetRow, Fill
  <2>2. op'[o].at # "create"
    <3>1. CASE Create(o)
      BY <1>4, <2>1, <3>1, Holds, Ends, IdleIsState DEF Create, MakeSet, Stages
    <3>2. CASE SaveRow(o) \/ SaveCopy(o) \/ GetCopy(o)
      BY <3>2, GoesOn, Ends, IdleIsState DEF SaveRow, SaveCopy, GetCopy, Answer, Stages
    <3>3. CASE DelCopy(o) \/ Fill(o)
      BY <3>3, Ends, IdleIsState DEF DelCopy, Fill, Answer
    <3>4. CASE GetRow(o)
      <4>1. row \in Values \cup {None}
        BY DEF TypeInv, StoreTypeOK
      <4> QED BY <3>4, <4>1, Holds, Ends, IdleIsState DEF GetRow, Answer, Stages
    <3> QED BY <1>4, <3>1, <3>2, <3>3, <3>4 DEF Step
  <2>3. Creating' \subseteq Creating
    BY <1>0, <2>2 DEF Creating, Kept
  <2> QED BY <1>1, <2>1, <2>3, NothingMade
<1> QED
  BY <1>2, <1>3, <1>4

LEMMA BeginsCount ==
    ASSUME TypeInv, CountInv, NEW o \in Ops, NEW kind \in Kinds, NEW stage \in Stages,
           NEW set \in Values \cup {None}, Begins(o, kind, stage, set)
    PROVE  CountInv'
<1>1. /\ ~InFlight(o) /\ op'[o].kind = kind /\ op'[o].at = stage /\ stage # "idle"
      /\ \A p \in Ops \ {o} : op'[p].at = op[p].at /\ op'[p].kind = op[p].kind
  <2> DEFINE reads == kind = "resolve"
  <2>1. Enter(o, kind, stage, set, reads) /\ reads \in BOOLEAN
    BY DEF Begins
  <2> HIDE DEF reads
  <2> QED BY <2>1, Entered DEF Stages
<1>2. Creating' \subseteq Creating
  <2>1. ~(kind = "provision" /\ stage = "create")
    BY DEF Begins
  <2> QED BY <1>1, <2>1 DEF Creating
<1>3. UNCHANGED <<remote, made>>
  BY DEF Begins
<1>4. CASE kind # "provision"
  <2>1. Provisioning' \subseteq Provisioning
    BY <1>1, <1>4 DEF Provisioning
  <2>2. \A p \in Provisioning' : InFlight(p)'
    BY <1>1, <1>4 DEF Provisioning, InFlight, CountInv
  <2>3. peak' = peak
    BY <1>4 DEF Begins
  <2> QED BY <1>2, <1>3, <2>1, <2>2, <2>3, NothingMade
<1>5. CASE kind = "provision"
  <2>1. o \notin Provisioning /\ Provisioning' = Provisioning \cup {o}
    BY <1>1, <1>5 DEF Provisioning, CountInv
  <2>2. \A p \in Provisioning' : InFlight(p)'
    BY <1>1 DEF Provisioning, InFlight, CountInv
  <2>3. Cardinality(Provisioning') = Cardinality(Provisioning) + 1
    BY <2>1, ProvisionsFinite, FS_AddElement
  <2>4. Cardinality(Provisioning') <= Cardinality(Ops)
    <3>1. Provisioning' \subseteq Ops
      BY <2>1 DEF Provisioning
    <3> QED BY <3>1, ProvisionsFinite, FS_Subset
  <2>5. Cardinality(Creating') <= Cardinality(Creating) /\ Cardinality(Creating') \in Nat
    BY <1>2, ProvisionsFinite, FS_Subset, FS_CardinalityType
  <2>6. peak' = IF Cardinality(Provisioning) >= peak THEN Cardinality(Provisioning) + 1 ELSE peak
    BY <1>5 DEF Begins
  <2>7. /\ peak' \in Nat /\ peak' >= peak /\ Cardinality(Provisioning') <= peak'
        /\ peak' <= Cardinality(Ops)
    BY <2>3, <2>4, <2>6, ProvisionsFinite DEF CountInv
  <2> QED BY <1>3, <2>2, <2>5, <2>7, ProvisionsFinite DEF CountInv
<1> QED
  BY <1>4, <1>5

LEMMA NextCount == TypeInv /\ CountInv /\ [Next]_vars => CountInv'
<1> SUFFICES ASSUME TypeInv, CountInv, [Next]_vars PROVE CountInv'
  OBVIOUS
<1>1. ASSUME NEW o \in Ops, Request(o) PROVE CountInv'
  BY <1>1, RequestBegins, BeginsCount
<1>2. ASSUME NEW o \in Ops, Step(o) PROVE CountInv'
  BY <1>2, StepCount
<1>3. CASE Crash
  <2>1. Provisioning' = {} /\ Creating' = {} /\ UNCHANGED <<remote, made, peak>>
    BY <1>3, IdleIsState DEF Crash, KillOps, Provisioning, Creating
  <2> QED BY <2>1, NothingMade
<1>4. CASE Expire \/ UNCHANGED vars
  <2>1. UNCHANGED <<op, remote, made, peak>>
    BY <1>4 DEF Expire, CopyExpires, vars
  <2>2. Provisioning' = Provisioning /\ Creating' = Creating
    BY <2>1 DEF Provisioning, Creating
  <2>3. \A p \in Provisioning' : InFlight(p)'
    BY <2>1, <2>2 DEF CountInv, InFlight
  <2> QED BY <2>1, <2>2, <2>3, NothingMade
<1> QED
  BY <1>1, <1>2, <1>3, <1>4 DEF Next

LEMMA CountInvariant == Spec => []CountInv
<1>1. Init => CountInv
  <2> SUFFICES ASSUME Init PROVE CountInv
    OBVIOUS
  <2>1. Provisioning = {} /\ Creating = {} /\ remote = {} /\ made = 0 /\ peak = 0
    BY IdleIsState DEF Init, StoreInit, Provisioning, Creating
  <2> QED BY <2>1, FS_EmptySet, ProvisionsFinite DEF CountInv
<1> QED
  BY <1>1, NextCount, TypeInvariant, PTL DEF Spec

\* Every variable has its type, and whoever is about to write a set's id has one.
THEOREM EventSetTypes == Spec => []TypeOK
<1>1. TypeInv /\ CountInv => TypeOK
  <2> SUFFICES ASSUME TypeInv, CountInv PROVE TypeOK
    OBVIOUS
  <2>1. Cardinality(remote) <= Cardinality(Values) /\ Cardinality(Values) \in Nat
    BY FiniteAssumption, FS_Subset, FS_CardinalityType DEF TypeInv
  <2>2. made \in 0 .. Cardinality(Values) /\ peak \in 0 .. Cardinality(Ops)
    BY <2>1, RemoteFinite, ProvisionsFinite DEF CountInv
  <2>3. \A o \in Ops : op[o].at \in {"saveRow", "saveCopy", "fill"} => op[o].holds # None
    BY NoneAssumption DEF TypeInv, Writing
  <2> QED BY <2>2, <2>3 DEF TypeInv, TypeOK
<1> QED
  BY <1>1, TypeInvariant, CountInvariant, PTL

\* Provisions make no more event sets than were ever in flight together,
\* whatever is lost or killed.
THEOREM NoSurplusSets == Spec => []NoMoreSetsThanProvisions
<1>1. CountInv => NoMoreSetsThanProvisions
  BY DEF CountInv, NoMoreSetsThanProvisions
<1> QED
  BY <1>1, CountInvariant, PTL

-----------------------------------------------------------------------------
(* Row and copy *)

LEMMA StepApart ==
    ASSUME TypeInv, Apart, NEW o \in Ops, Step(o)
    PROVE  Apart'
<1>1. Moves(o) /\ Idle.at = "idle"
  BY StepMoves, IdleIsState
<1> SUFFICES ASSUME NEW p \in Ops, NEW q \in Ops \ {p},
                    InFlight(p)', InFlight(q)', clean' \/ op'[p].ok
             PROVE  op'[p].reads /\ op'[q].reads
  BY DEF Apart
<1>2. InFlight(p) /\ InFlight(q)
  BY <1>1 DEF Moves, Kept, InFlight
<1>3. CASE clean \/ op[p].ok
  BY <1>1, <1>2, <1>3 DEF Moves, Kept, Apart, InFlight
<1>4. CASE ~clean /\ ~op[p].ok
  <2>1. op[o].ok /\ op'[o] = Idle /\ o \notin {p, q}
    BY <1>1, <1>4 DEF Moves, Kept, InFlight
  <2> QED BY <1>1, <1>2, <2>1 DEF Apart, Moves, Kept
<1> QED
  BY <1>3, <1>4

\* An operation that writes, or is at TikTok, is alone or disturbed, and so are
\* the others.
LEMMA WriterApart ==
    ASSUME Apart, CopyInv, NEW o \in Ops, InFlight(o), ~Reading(o),
           NEW p \in Ops \ {o}, InFlight(p)
    PROVE  ~clean /\ ~op[o].ok /\ ~op[p].ok
BY DEF Apart, CopyInv

\* A step that leaves row and copy alone, and begins no write of the copy.
LEMMA CopyFrame ==
    ASSUME CopyInv, NEW o \in Ops, Kept(o), UNCHANGED <<row, copy>>, clean' => clean,
           ~Saving(o), op'[o].at \notin {"saveCopy", "delStale", "delCopy"},
           op'[o].at = "fill" => op'[o].holds = row,
           op'[o].reads => Reading(o)'
    PROVE  CopyInv'
<1> USE DEF Kept, At, Saving
<1>1. \A p \in Ops : op'[p].reads => Reading(p)'
  BY DEF CopyInv, Reading
<1>2. ASSUME clean', \A p \in Ops : ~Saving(p)' PROVE Coherent'
  BY <1>2 DEF CopyInv, Coherent
<1>3. \A p \in Ops : clean' /\ At(p, "fill")' => op'[p].holds = row'
  BY DEF CopyInv
<1>4. \A p \in Ops : (clean' \/ op'[p].ok) /\ At(p, "saveCopy")' => op'[p].holds = row'
  BY DEF CopyInv
<1>5. \A p \in Ops : op'[p].ok /\ At(p, "delCopy")' => Coherent'
  BY DEF CopyInv, Coherent
<1> QED
  BY <1>1, <1>2, <1>3, <1>4, <1>5 DEF CopyInv

\* A step of a writer: the others, if there are any, are disturbed.
LEMMA WriterFrame ==
    ASSUME Apart, CopyInv, NEW o \in Ops, InFlight(o), ~Reading(o), Kept(o),
           clean' /\ ~Saving(o)' => Coherent',
           op'[o].at # "fill", op'[o].at = "idle" \/ ~op'[o].reads,
           (clean' \/ op'[o].ok) /\ At(o, "saveCopy")' => op'[o].holds = row',
           op'[o].ok /\ At(o, "delCopy")' => Coherent',
           clean' => clean \/ op[o].ok
    PROVE  CopyInv'
<1>1. \A p \in Ops : op'[p].reads => Reading(p)'
  BY DEF CopyInv, Kept, Reading
<1>2. \A p \in Ops \ {o} : InFlight(p) => ~clean' /\ ~op'[p].ok /\ op'[p].at = op[p].at
  BY WriterApart DEF Kept
<1>3. \A p \in Ops \ {o} : ~InFlight(p) => op'[p].at = "idle"
  BY DEF Kept, InFlight
<1>4. \A p \in Ops : clean' /\ At(p, "fill")' => op'[p].holds = row'
  BY <1>2, <1>3 DEF At
<1>5. \A p \in Ops : (clean' \/ op'[p].ok) /\ At(p, "saveCopy")' => op'[p].holds = row'
  BY <1>2, <1>3 DEF At
<1>6. \A p \in Ops : op'[p].ok /\ At(p, "delCopy")' => Coherent'
  BY <1>2, <1>3 DEF At
<1>7. clean' /\ (\A p \in Ops : ~Saving(p)') => Coherent'
  OBVIOUS
<1> QED
  BY <1>1, <1>4, <1>5, <1>6, <1>7 DEF CopyInv

LEMMA StepCopy ==
    ASSUME TypeInv, Apart, CopyInv, NEW o \in Ops, Step(o)
    PROVE  CopyInv'
<1> USE DEF At
<1>0. Moves(o) /\ (op[o].reads => Reading(o)) /\ row \in Values \cup {None}
  BY StepMoves DEF CopyInv, TypeInv, StoreTypeOK
<1>00. op[o].at \in Writing => op[o].holds \in Values
  BY DEF TypeInv
<1>1. CASE List(o)
  <2>1. op'[o].at \in {"idle", "create", "saveRow"} /\ (op'[o].reads => op'[o].at = "idle")
    BY <1>0, <1>1, GoesOn, Holds, Ends, IdleIsState DEF List, Reading, Stages, TypeInv
  <2>2. ~Saving(o) /\ UNCHANGED <<row, copy, clean>>
    BY <1>1 DEF List, Saving
  <2> QED BY <1>0, <2>1, <2>2, CopyFrame DEF Moves, Reading
<1>2. CASE Create(o)
  <2>1. op'[o].at \in {"idle", "saveRow"} /\ (op'[o].reads => op'[o].at = "idle")
    BY <1>0, <1>2, Holds, Ends, IdleIsState DEF Create, Reading, Stages
  <2>2. ~Saving(o) /\ UNCHANGED <<row, copy, clean>>
    BY <1>2 DEF Create, Saving
  <2> QED BY <1>0, <2>1, <2>2, CopyFrame DEF Moves, Reading
<1>3. CASE GetCopy(o)
  <2>1. op'[o].at \in {"idle", "getRow"}
    BY <1>3, GoesOn, Ends, IdleIsState DEF GetCopy, Answer, Stages
  <2>2. ~Saving(o) /\ UNCHANGED <<row, copy, clean>>
    BY <1>3 DEF GetCopy, Saving
  <2> QED BY <1>0, <2>1, <2>2, CopyFrame DEF Moves, Reading
<1>4. CASE GetRow(o)
  <2>1. op'[o].at \in {"idle", "fill"} /\ (op'[o].at = "fill" => op'[o].holds = row)
    BY <1>0, <1>4, Holds, Ends, IdleIsState DEF GetRow, Answer, Stages
  <2>2. ~Saving(o) /\ UNCHANGED <<row, copy, clean>>
    BY <1>4 DEF GetRow, Saving
  <2> QED BY <1>0, <2>1, <2>2, CopyFrame DEF Moves, Reading
<1>5. CASE Fill(o)
  <2>1. op'[o] = Idle /\ Kept(o) /\ InFlight(o)
    BY <1>0, <1>5, Ends DEF Fill, Answer, Moves
  <2>2. row' = row /\ clean' = clean /\ copy' \in {copy, op[o].holds} /\ op[o].at = "fill"
    BY <1>5 DEF Fill, WriteCopy, CopyWriteFails
  <2>3. CASE copy' = copy
    BY <2>1, <2>2, <2>3, IdleIsState, CopyFrame DEF Reading, Saving
  <2>4. CASE copy' = op[o].holds
    <3>1. \A p \in Ops : op'[p].reads => Reading(p)'
      BY <2>1, IdleIsState DEF CopyInv, Kept, Reading
    <3>2. clean' => Coherent'
      BY <2>2, <2>4 DEF CopyInv, Coherent
    <3>3. \A p \in Ops : clean' /\ At(p, "fill")' => op'[p].holds = row'
      BY <2>1, <2>2, IdleIsState DEF CopyInv, Kept
    <3>4. \A p \in Ops : (clean' \/ op'[p].ok) /\ At(p, "saveCopy")' => op'[p].holds = row'
      BY <2>1, <2>2, IdleIsState DEF CopyInv, Kept
    <3>5. \A p \in Ops \ {o} : At(p, "delCopy") => ~op[p].ok
      BY <2>1, WriterApart DEF InFlight, Reading
    <3>6. \A p \in Ops : op'[p].ok /\ At(p, "delCopy")' => Coherent'
      BY <2>1, <3>5, IdleIsState DEF Kept
    <3> QED BY <3>1, <3>2, <3>3, <3>4, <3>6 DEF CopyInv
  <2> QED BY <2>2, <2>3, <2>4
<1>6. CASE SaveRow(o) \/ SaveCopy(o) \/ DelCopy(o)
  <2>0. InFlight(o) /\ ~Reading(o) /\ Kept(o) /\ ~op[o].reads /\ (clean' => clean \/ op[o].ok)
    BY <1>0, <1>6 DEF SaveRow, SaveCopy, DelCopy, Moves, Reading
  <2>1. op'[o].at = "idle" \/ ~op'[o].reads
    BY <2>0, IdleIsState DEF Kept
  <2>2. CASE SaveRow(o)
    <3>1. \/ op'[o].at = "idle" /\ ~clean'
          \/ op'[o].at = "saveCopy" /\ op'[o].holds = op[o].holds /\ row' = op[o].holds
      BY <2>2, GoesOn, Ends, IdleIsState DEF SaveRow, SaveRecord, WriteRow, Stages
    <3> QED BY <2>0, <2>1, <3>1, WriterFrame DEF Saving
  <2>3. CASE SaveCopy(o)
    <3>1. op[o].ok => op[o].holds = row
      BY <2>3 DEF SaveCopy, CopyInv
    <3>2. CASE WriteCopy(op[o].holds) /\ Goto(o, "delCopy") /\ UNCHANGED clean
      <4>1. op'[o].at = "delCopy" /\ op'[o].ok = op[o].ok
        BY <3>2, GoesOn DEF Stages
      <4>2. op[o].ok => Coherent'
        BY <3>1, <3>2 DEF WriteCopy, Coherent
      <4>3. clean => op[o].holds = row
        BY <2>3 DEF SaveCopy, CopyInv
      <4> QED BY <2>0, <2>1, <3>2, <4>1, <4>2, <4>3, WriterFrame DEF WriteCopy, Coherent
    <3>3. CASE End(o) /\ (clean' => op[o].ok /\ WriteCopy(op[o].holds))
      <4>1. op'[o].at = "idle"
        BY <3>3, Ends, IdleIsState
      <4>2. clean' => Coherent'
        BY <3>1, <3>3 DEF WriteCopy, Coherent
      <4> QED BY <2>0, <2>1, <4>1, <4>2, WriterFrame
    <3>4. CASE Goto(o, "delStale")
      <4>1. op'[o].at = "delStale"
        BY <3>4, GoesOn DEF Stages
      <4> QED BY <2>0, <2>1, <4>1, WriterFrame DEF Saving
    <3> QED BY <2>3, <3>2, <3>3, <3>4 DEF SaveCopy
  <2>4. CASE DelCopy(o)
    <3>1. op'[o].at = "idle"
      BY <2>4, Ends, IdleIsState DEF DelCopy
    <3>2. clean' => Coherent'
      BY <2>4 DEF DelCopy, WriteCopy, CopyWriteFails, CopyInv, Coherent
    <3> QED BY <2>0, <2>1, <3>1, <3>2, WriterFrame
  <2> QED BY <1>6, <2>2, <2>3, <2>4
<1> QED
  BY <1>1, <1>2, <1>3, <1>4, <1>5, <1>6 DEF Step

LEMMA StepChoice ==
    ASSUME TypeInv, Apart, CopyInv, ChoiceInv, NEW o \in Ops, Step(o)
    PROVE  ChoiceInv'
<1> USE DEF At
<1>1. Moves(o)
  BY StepMoves
<1>2. ASSUME remote' # remote, NEW p \in Ops \ {o}, InFlight(p)
      PROVE  ~op'[p].ok
  <2>1. Create(o)
    BY <1>2 DEF Step, List, SaveRow, SaveCopy, DelCopy, GetCopy, GetRow, Fill
  <2>2. ~op[p].ok
    BY <1>1, <1>2, <2>1, WriterApart DEF Create, Reading, Moves
  <2> QED BY <1>1, <2>2 DEF Moves, Kept
<1>3. ASSUME NEW p \in Ops \ {o}
      PROVE  /\ At(p, "list")' => op'[p].kind = "provision"
             /\ At(p, "saveRow")' => op'[p].kind \in {"provision", "select"}
             /\ op'[p].kind = "provision" /\ op'[p].ok /\ At(p, "create")' => remote' = {}
             /\ op'[p].kind = "provision" /\ op'[p].ok /\ At(p, "saveRow")'
                    => remote' = {op'[p].holds}
  BY <1>1, <1>2 DEF Moves, Kept, ChoiceInv, InFlight
<1>4. /\ At(o, "list")' => op'[o].kind = "provision"
      /\ At(o, "saveRow")' => op'[o].kind \in {"provision", "select"}
      /\ op'[o].kind = "provision" /\ op'[o].ok /\ At(o, "create")' => remote' = {}
      /\ op'[o].kind = "provision" /\ op'[o].ok /\ At(o, "saveRow")' => remote' = {op'[o].holds}
  <2>1. CASE List(o)
    <3>1. op[o].kind = "provision" /\ remote' = remote /\ remote \subseteq Values
      BY <2>1 DEF List, ChoiceInv, TypeInv
    <3>2. CASE Goto(o, "create") /\ remote = {}
      BY <3>1, <3>2, GoesOn DEF Stages
    <3>3. ASSUME NEW set \in remote, remote = {set}, Hold(o, set, "saveRow")
          PROVE  op'[o].at = "saveRow" /\ op'[o].holds = set /\ op'[o].kind = "provision"
      BY <3>1, <3>3, Holds DEF Stages
    <3>4. CASE End(o)
      BY <3>4, Ends, IdleIsState
    <3> QED BY <2>1, <3>1, <3>2, <3>3, <3>4 DEF List
  <2>2. CASE Create(o)
    <3>1. CASE End(o)
      BY <3>1, Ends, IdleIsState
    <3>2. ASSUME NEW set \in Values, MakeSet(o, set), op[o].kind = "provision",
                 Hold(o, set, "saveRow")
          PROVE  /\ op'[o].at = "saveRow" /\ op'[o].kind = "provision"
                 /\ op'[o].ok => remote' = {op'[o].holds}
      <4>1. /\ op'[o].at = "saveRow" /\ op'[o].kind = "provision"
            /\ op'[o].holds = set /\ op'[o].ok = op[o].ok
        BY <3>2, Holds DEF Stages
      <4>2. op[o].ok => remote = {}
        BY <2>2, <3>2 DEF Create, ChoiceInv
      <4> QED BY <3>2, <4>1, <4>2 DEF MakeSet
    <3> QED BY <2>2, <3>1, <3>2 DEF Create
  <2>3. CASE SaveRow(o) \/ SaveCopy(o) \/ DelCopy(o)
    <3>1. op'[o].at \notin {"list", "create", "saveRow"}
      BY <2>3, GoesOn, Ends, IdleIsState DEF SaveRow, SaveCopy, DelCopy, Stages
    <3> QED BY <3>1
  <2>4. CASE GetCopy(o) \/ GetRow(o) \/ Fill(o)
    <3>1. row \in Values \cup {None}
      BY DEF TypeInv, StoreTypeOK
    <3>2. op'[o].at \notin {"list", "create", "saveRow"}
      BY <2>4, <3>1, GoesOn, Holds, Ends, IdleIsState DEF GetCopy, GetRow, Fill, Answer, Stages
    <3> QED BY <3>2
  <2> QED BY <2>1, <2>2, <2>3, <2>4 DEF Step
<1> QED
  BY <1>3, <1>4 DEF ChoiceInv

\* An operation that begins disturbs those in flight and is disturbed by them,
\* unless all of them only read.
LEMMA BeginsUndisturbed ==
    ASSUME TypeInv, UndisturbedInv, NEW o \in Ops, NEW kind \in Kinds, NEW stage \in Stages,
           NEW set \in Values \cup {None}, Begins(o, kind, stage, set)
    PROVE  UndisturbedInv'
<1> DEFINE reads == kind = "resolve"
<1>1. Enter(o, kind, stage, set, reads) /\ reads \in BOOLEAN
  BY DEF Begins
<1>2. /\ stage \in {"list", "create", "getCopy", "saveRow"}
      /\ reads => stage = "getCopy"
      /\ stage = "list" => kind = "provision"
      /\ kind = "provision" => stage = "list"
      /\ stage = "saveRow" => kind = "select"
      /\ remote' = remote
  BY DEF Begins
<1> HIDE DEF reads
<1>3. /\ op'[o].kind = kind /\ op'[o].at = stage /\ op'[o].holds = set
      /\ op'[o].reads = reads
      /\ ~InFlight(o) /\ (clean' => clean)
      /\ UNCHANGED <<row, copy>>
  BY <1>1, Entered
<1>4. \A p \in Ops \ {o} :
         /\ op'[p].at = op[p].at /\ op'[p].holds = op[p].holds
         /\ op'[p].kind = op[p].kind /\ op'[p].reads = op[p].reads
         /\ op'[p].ok => op[p].ok
         /\ InFlight(p) /\ (op'[p].ok \/ op'[o].ok \/ clean') => reads /\ op[p].reads
  BY <1>1, Entered
<1>5. Apart'
  <2> SUFFICES ASSUME NEW p \in Ops, NEW q \in Ops \ {p},
                      InFlight(p)', InFlight(q)', clean' \/ op'[p].ok
               PROVE  op'[p].reads /\ op'[q].reads
    BY DEF Apart
  <2>1. CASE o \in {p, q}
    BY <1>3, <1>4, <2>1 DEF InFlight
  <2>2. CASE o \notin {p, q}
    BY <1>3, <1>4, <2>2 DEF InFlight, UndisturbedInv, Apart
  <2> QED BY <2>1, <2>2
<1>6. CopyInv'
  <2>1. \A p \in Ops : op'[p].reads => Reading(p)'
    BY <1>2, <1>3, <1>4 DEF UndisturbedInv, CopyInv, Reading
  <2>2. ASSUME clean', \A p \in Ops : ~Saving(p)' PROVE Coherent'
    BY <1>3, <1>4, <2>2 DEF UndisturbedInv, CopyInv, Saving, InFlight, Coherent
  <2>3. \A p \in Ops : clean' /\ At(p, "fill")' => op'[p].holds = row'
    BY <1>2, <1>3, <1>4 DEF UndisturbedInv, CopyInv, At
  <2>4. \A p \in Ops : (clean' \/ op'[p].ok) /\ At(p, "saveCopy")' => op'[p].holds = row'
    BY <1>2, <1>3, <1>4 DEF UndisturbedInv, CopyInv, At
  <2>5. \A p \in Ops : op'[p].ok /\ At(p, "delCopy")' => Coherent'
    BY <1>2, <1>3, <1>4 DEF UndisturbedInv, CopyInv, At, Coherent
  <2> QED BY <2>1, <2>2, <2>3, <2>4, <2>5 DEF CopyInv
<1>7. ChoiceInv'
  BY <1>2, <1>3, <1>4 DEF UndisturbedInv, ChoiceInv, At
<1> QED
  BY <1>5, <1>6, <1>7 DEF UndisturbedInv

LEMMA NextUndisturbed == TypeInv /\ UndisturbedInv /\ [Next]_vars => UndisturbedInv'
<1> SUFFICES ASSUME TypeInv, UndisturbedInv, [Next]_vars PROVE UndisturbedInv'
  OBVIOUS
<1>1. ASSUME NEW o \in Ops, Request(o) PROVE UndisturbedInv'
  BY <1>1, RequestBegins, BeginsUndisturbed
<1>2. ASSUME NEW o \in Ops, Step(o) PROVE UndisturbedInv'
  BY <1>2, StepApart, StepCopy, StepChoice DEF UndisturbedInv
<1> USE DEF UndisturbedInv, Apart, CopyInv, ChoiceInv, InFlight, At, Reading, Saving, Coherent
<1>3. CASE Expire
  BY <1>3 DEF Expire, CopyExpires, WriteCopy
<1>4. CASE Crash
  <2>1. \A o \in Ops : op'[o] = Idle
    BY <1>4 DEF Crash, KillOps
  <2>2. UNCHANGED <<row, copy, remote>> /\ (clean' => clean /\ \A o \in Ops : op[o].reads)
    BY <1>4 DEF Crash, KillOps
  <2> QED BY <2>1, <2>2, IdleIsState
<1>5. CASE UNCHANGED vars
  BY <1>5 DEF vars
<1> QED
  BY <1>1, <1>2, <1>3, <1>4, <1>5 DEF Next

LEMMA UndisturbedInvariant == Spec => []UndisturbedInv
<1>1. Init => UndisturbedInv
  BY DEF Init, StoreInit, Idle, UndisturbedInv, Apart, CopyInv, ChoiceInv, InFlight, At,
         Reading, Saving, Coherent
<1> QED
  BY <1>1, NextUndisturbed, TypeInvariant, PTL DEF Spec

\* Row and copy differ, at rest, only after a writer that overlapped another
\* operation, failed or was killed, and until one has run undisturbed.
THEOREM EventSetCoherence == Spec => []CoherentUnlessDisturbed
<1>1. UndisturbedInv => CoherentUnlessDisturbed
  BY DEF UndisturbedInv, CopyInv, CoherentUnlessDisturbed, Quiet, InFlight, Saving
<1> QED
  BY <1>1, UndisturbedInvariant, PTL

\* What resolve answers undisturbed is the row, or the environment's set when
\* there is none, from whichever store it had it.
THEOREM ResolveAnswersTheRow == Spec => AnswersTheRow
<1>1. TypeInv /\ UndisturbedInv /\ [Next]_vars => [answer' # answer => Resolved']_vars
  <2> SUFFICES ASSUME TypeInv, UndisturbedInv, Next, answer' # answer PROVE Resolved'
    OBVIOUS
  <2> USE DEF At
  <2>1. ASSUME NEW o \in Ops, Request(o) PROVE Resolved'
    <3>1. answer' = NoAnswer
      BY <2>1 DEF Request, Begin, BeginSelect
    <3> QED BY <3>1 DEF NoAnswer, Resolved
  <2>2. ASSUME NEW o \in Ops, GetCopy(o) \/ GetRow(o) \/ Fill(o) PROVE Resolved'
    <3>1. /\ clean' = clean /\ row' = row /\ InFlight(o)
          /\ row \in Values \cup {None} /\ None \notin Values
      BY <2>2, NoneAssumption
         DEF GetCopy, GetRow, Fill, WriteCopy, CopyWriteFails, InFlight, TypeInv, StoreTypeOK
    <3>2. ASSUME clean, NEW p \in Ops PROVE ~Saving(p)
      <4>1. CASE p = o
        BY <2>2, <4>1 DEF GetCopy, GetRow, Fill, Saving
      <4>2. CASE p # o
        BY <3>1, <3>2, <4>2, WriterApart DEF UndisturbedInv, Saving, InFlight, Reading
      <4> QED BY <4>1, <4>2
    <3>3. clean => Coherent
      BY <3>2 DEF UndisturbedInv, CopyInv
    <3>4. CASE GetCopy(o)
      BY <2>2, <3>1, <3>3, <3>4 DEF GetCopy, Answer, Coherent, Resolved
    <3>5. CASE GetRow(o)
      <4>1. CASE row = None /\ Answer(o, EnvSet, TRUE)
        BY <3>1, <4>1 DEF Answer, Resolved
      <4>2. CASE Answer(o, EnvSet, FALSE)
        <5>1. ~answer'.sound
          BY <4>2 DEF Answer
        <5> QED BY <5>1 DEF Resolved
      <4> QED BY <3>5, <4>1, <4>2 DEF GetRow
    <3>6. CASE Fill(o)
      <4>1. clean => op[o].holds = row /\ op[o].holds \in Values
        BY <3>6 DEF Fill, UndisturbedInv, CopyInv, TypeInv, Writing
      <4> QED BY <3>1, <3>6, <4>1 DEF Fill, Answer, Resolved
    <3> QED BY <2>2, <3>4, <3>5, <3>6
  <2>3. CASE Expire \/ Crash \/ \E o \in Ops : List(o) \/ Create(o) \/ SaveRow(o)
                                                  \/ SaveCopy(o) \/ DelCopy(o)
    BY <2>3 DEF Expire, Crash, List, Create, SaveRow, SaveCopy, DelCopy
  <2> QED BY <2>1, <2>2, <2>3 DEF Next, Step
<1> QED
  BY <1>1, TypeInvariant, UndisturbedInvariant, PTL DEF Spec, AnswersTheRow

\* No provision replaces a set of TikTok's that was selected by hand, unless
\* something overlapped it.
THEOREM ChoicesAreKept == Spec => ProvisionKeepsTheChoice
<1>1. UndisturbedInv /\ [Next]_vars
      => [source = "manual" /\ row \in remote /\ row' # row
          => \E o \in Ops : op[o].at = "saveRow" /\ (op[o].kind = "select" \/ ~op[o].ok)]_vars
  <2> SUFFICES ASSUME UndisturbedInv, Next, row \in remote, row' # row
               PROVE  \E o \in Ops : op[o].at = "saveRow" /\ (op[o].kind = "select" \/ ~op[o].ok)
    OBVIOUS
  <2>1. PICK o \in Ops : SaveRow(o)
    BY DEF Next, Request, Begin, BeginSelect, Enter, Step, List, Create, SaveCopy, DelCopy,
       GetCopy, GetRow, Fill, WriteCopy, CopyWriteFails, Expire, CopyExpires, Crash, KillOps
  <2>2. row' = op[o].holds /\ op[o].at = "saveRow"
    BY <2>1 DEF SaveRow, SaveRecord, WriteRow, At
  <2>3. /\ op[o].kind \in {"provision", "select"}
        /\ op[o].kind = "provision" /\ op[o].ok => remote = {op[o].holds}
    BY <2>2 DEF UndisturbedInv, ChoiceInv, At
  <2> QED BY <2>2, <2>3
<1> QED
  BY <1>1, UndisturbedInvariant, PTL DEF Spec, ProvisionKeepsTheChoice

=============================================================================
