------------------------- MODULE CRMEventSetManager -------------------------
(***************************************************************************)
(* Which event set of TikTok the events of one advertiser go to: the class *)
(* CRMEventSetManager, called by the routes of the event set router and,   *)
(* for resolve, by the outbound pipeline.  Sets are not deleted at TikTok, *)
(* and TikTok lists a set as soon as it exists.                            *)
(***************************************************************************)
EXTENDS CachedRow, FiniteSets, Naturals

CONSTANT EnvSet     \* TIKTOK_CRM_EVENT_SET_ID, or None

ASSUME EnvSetAssumption == EnvSet \in Values \cup {None}
ASSUME FiniteAssumption == IsFiniteSet(Values) /\ IsFiniteSet(Ops)

VARIABLES
    source,      \* column source of the row
    remote,      \* the event sets that TikTok has
    answer,      \* what the last resolve answered; sound is history: it was
                 \* disturbed by no writer and Postgres did not fail it
    made,        \* history: event sets made by provision
    peak         \* history: the most provisions ever in flight together

vars == <<row, copy, op, clean, source, remote, answer, made, peak>>

Kinds   == {"provision", "create", "select", "resolve"}
Stages  == {"list", "create", "saveRow", "saveCopy", "delCopy", "delStale",
            "getCopy", "getRow", "fill"}
Sources == {"none", "auto", "manual"}   \* auto: auto_created, auto_selected

NoAnswer == [set |-> None, sound |-> FALSE]

\* Whoever is about to write a set's id has one.
TypeOK ==
    /\ StoreTypeOK(Kinds, Stages)
    /\ \A o \in Ops : op[o].at \in {"saveRow", "saveCopy", "fill"} => op[o].holds # None
    /\ source \in Sources /\ (source = "none" <=> row = None)
    /\ remote \subseteq Values
    /\ answer \in [set : Values \cup {None}, sound : BOOLEAN]
    /\ made \in 0 .. Cardinality(Values) /\ peak \in 0 .. Cardinality(Ops)

Init == /\ StoreInit
        /\ source = "none" /\ answer = NoAnswer
        /\ remote = {} /\ made = 0 /\ peak = 0

Provisioning == {o \in Ops : op[o].kind = "provision"}

-----------------------------------------------------------------------------

\* A request: provision, create, or resolve.
Begin(o, kind, stage) ==
    /\ Enter(o, kind, stage, None, kind = "resolve")
    /\ peak' = IF kind = "provision" /\ Cardinality(Provisioning) >= peak
               THEN Cardinality(Provisioning) + 1 ELSE peak
    /\ answer' = NoAnswer
    /\ UNCHANGED <<source, remote, made>>

\* A request to select: any id, nobody asks TikTok whether it exists.
BeginSelect(o, set) ==
    /\ Enter(o, "select", "saveRow", set, FALSE)
    /\ answer' = NoAnswer
    /\ UNCHANGED <<source, remote, made, peak>>

\* Mutant: the first set of the list is taken, whatever its length.
ListTakesFirst(o) ==
    /\ At(o, "list")
    /\ \/ remote = {} /\ Goto(o, "create")
       \/ \E set \in remote : Hold(o, set, "saveRow")
    /\ UNCHANGED <<row, copy, clean, source, remote, answer, made, peak>>

\* Mutant: the empty list is not told apart.
ListTakesUndefined(o) ==
    /\ At(o, "list")
    /\ \/ \E set \in remote : remote = {set} /\ Hold(o, set, "saveRow")
       \/ remote = {} /\ Hold(o, None, "saveRow")
    /\ UNCHANGED <<row, copy, clean, source, remote, answer, made, peak>>

\* provision: none leads to create, one is taken, several are left to select.
\* Without a token, or when TikTok refuses, nothing is done.
List(o) ==
    /\ At(o, "list")
    /\ \/ remote = {} /\ Goto(o, "create")
       \/ \E set \in remote : remote = {set} /\ Hold(o, set, "saveRow")
       \/ (Cardinality(remote) > 1 \/ "api" \in Faults) /\ End(o)
    /\ UNCHANGED <<row, copy, clean, source, remote, answer, made, peak>>

\* TikTok makes a set for o, which has the bound of the instance.
MakeSet(o, set) ==
    /\ set \notin remote
    /\ remote' = remote \cup {set}
    /\ made' = IF op[o].kind = "provision" THEN made + 1 ELSE made

Full == remote = Values

\* Mutant: create is repeated when its answer is lost.
CreateRetried(o) ==
    /\ At(o, "create")
    /\ \/ \E set \in Values :
             /\ MakeSet(o, set)
             /\ \/ op[o].kind = "provision" /\ Hold(o, set, "saveRow")
                \/ op[o].kind = "create" /\ End(o)
                \/ "reply" \in Faults /\ UNCHANGED op
       \/ (Full \/ "api" \in Faults) /\ End(o) /\ UNCHANGED <<remote, made>>
    /\ UNCHANGED <<row, copy, clean, source, answer, peak>>

\* create: TikTok makes a set, and its answer may be lost; or refuses.
Create(o) ==
    /\ At(o, "create")
    /\ \/ \E set \in Values :
             /\ MakeSet(o, set)
             /\ \/ op[o].kind = "provision" /\ Hold(o, set, "saveRow")
                \/ (op[o].kind = "create" \/ "reply" \in Faults) /\ End(o)
       \/ (Full \/ "api" \in Faults) /\ End(o) /\ UNCHANGED <<remote, made>>
    /\ UNCHANGED <<row, copy, clean, source, answer, peak>>

-----------------------------------------------------------------------------

SaveRecord(o) ==
    /\ WriteRow(op[o].holds)
    /\ source' = IF op[o].kind = "select" THEN "manual" ELSE "auto"

\* saveToDb: the row; an error, reported for a statement that Postgres may
\* have committed, ends the operation.
SaveRow(o) ==
    /\ At(o, "saveRow")
    /\ \/ SaveRecord(o) /\ Goto(o, "saveCopy") /\ UNCHANGED clean
       \/ /\ "postgres" \in Faults
          /\ SaveRecord(o) \/ UNCHANGED <<row, copy, source>>
          /\ End(o) /\ clean' = FALSE
    /\ UNCHANGED <<remote, answer, made, peak>>

\* Mutant: saveToDb leaves the cache to expire.
SkipSaveCopy(o) ==
    /\ At(o, "saveCopy")
    /\ IF op[o].kind = "select" THEN Goto(o, "delStale") /\ UNCHANGED clean
       ELSE End(o) /\ clean' = op[o].ok
    /\ UNCHANGED <<row, copy, source, remote, answer, made, peak>>

\* saveToDb: the copy, an error of Redis is only logged.  A provision is over;
\* a select goes on to drop the copy, which is stale if it was not replaced.
SaveCopy(o) ==
    LET selects == op[o].kind = "select" IN
    /\ At(o, "saveCopy")
    /\ \/ /\ WriteCopy(op[o].holds)
          /\ \/ selects /\ Goto(o, "delCopy") /\ UNCHANGED clean
             \/ ~selects /\ End(o) /\ clean' = op[o].ok
       \/ /\ CopyWriteFails
          /\ \/ selects /\ Goto(o, "delStale") /\ UNCHANGED clean
             \/ ~selects /\ End(o) /\ clean' = FALSE
    /\ UNCHANGED <<source, remote, answer, made, peak>>

\* select: drop the copy, an error of Redis is only logged.
DelCopy(o) ==
    /\ op[o].at \in {"delCopy", "delStale"}
    /\ \/ WriteCopy(None) /\ clean' = op[o].ok
       \/ CopyWriteFails /\ clean' = (op[o].ok /\ At(o, "delCopy"))
    /\ End(o)
    /\ UNCHANGED <<source, remote, answer, made, peak>>

-----------------------------------------------------------------------------

Answer(o, set, sound) == End(o) /\ answer' = [set |-> set, sound |-> sound /\ op[o].ok]

\* Mutant: an error of Redis is taken for "no event set".
GetCopyGivesUp(o) ==
    /\ At(o, "getCopy")
    /\ \/ copy # None /\ Answer(o, copy, TRUE)
       \/ copy = None /\ Goto(o, "getRow") /\ UNCHANGED answer
       \/ "redis" \in Faults /\ Answer(o, EnvSet, TRUE)
    /\ UNCHANGED <<row, copy, clean, source, remote, made, peak>>

\* resolve: the copy; a miss and an error both lead to Postgres.
GetCopy(o) ==
    /\ At(o, "getCopy")
    /\ \/ copy # None /\ Answer(o, copy, TRUE)
       \/ (copy = None \/ "redis" \in Faults) /\ Goto(o, "getRow") /\ UNCHANGED answer
    /\ UNCHANGED <<row, copy, clean, source, remote, made, peak>>

\* resolve: the row; without one, and when the query fails, the environment.
GetRow(o) ==
    /\ At(o, "getRow")
    /\ \/ row # None /\ Hold(o, row, "fill") /\ UNCHANGED answer
       \/ row = None /\ Answer(o, EnvSet, TRUE)
       \/ "postgres" \in Faults /\ Answer(o, EnvSet, FALSE)
    /\ UNCHANGED <<row, copy, clean, source, remote, made, peak>>

\* resolve: the row that was read goes into Redis, an error is only logged.
Fill(o) ==
    /\ At(o, "fill")
    /\ WriteCopy(op[o].holds) \/ CopyWriteFails
    /\ Answer(o, op[o].holds, TRUE)
    /\ UNCHANGED <<clean, source, remote, made, peak>>

-----------------------------------------------------------------------------

Expire == CopyExpires /\ UNCHANGED <<source, remote, answer, made, peak>>

Crash == KillOps /\ UNCHANGED <<source, remote, answer, made, peak>>

Request(o) == \/ Begin(o, "provision", "list")
              \/ Begin(o, "create", "create")
              \/ Begin(o, "resolve", "getCopy")
              \/ \E set \in Values : BeginSelect(o, set)

Step(o) == \/ List(o) \/ Create(o) \/ SaveRow(o) \/ SaveCopy(o) \/ DelCopy(o)
           \/ GetCopy(o) \/ GetRow(o) \/ Fill(o)

Next == \/ \E o \in Ops : Request(o) \/ Step(o)
        \/ Expire
        \/ Crash

Spec == Init /\ [][Next]_vars

-----------------------------------------------------------------------------
(* Properties *)

\* A stale copy takes an overlap, a save that failed or was killed, or an
\* error of Redis that nothing makes good: select survives one, because it
\* replaces the copy and then drops it.
CoherentUnlessDisturbed == Quiet /\ clean => Coherent

\* Then resolve answers the row, or the environment's set when there is none,
\* also when Redis fails it.
Resolved == answer.sound /\ clean => answer.set = IF row = None THEN EnvSet ELSE row
AnswersTheRow == [][answer' # answer => Resolved']_vars

\* provision is not atomic and is not told when its answer is lost, and yet it
\* makes no more sets than were ever provisioned side by side: one, if the
\* routes are called one after the other.
NoMoreSetsThanProvisions == made <= peak

\* A choice that was made by hand, of a set TikTok has, is not replaced by a
\* provision, unless something overlapped it.
ProvisionKeepsTheChoice ==
    [][source = "manual" /\ row \in remote /\ row' # row
       => \E o \in Ops : op[o].at = "saveRow" /\ (op[o].kind = "select" \/ ~op[o].ok)]_vars

=============================================================================
