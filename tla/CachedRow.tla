----------------------------- MODULE CachedRow -----------------------------
(***************************************************************************)
(* One row of Postgres with a copy of it in Redis, and the asynchronous    *)
(* operations on the two: what the token store keeps of an advertiser, and *)
(* the event set manager too.  The copy is looked at first and expires by  *)
(* itself.  An operation advances one await at a time.                     *)
(***************************************************************************)
EXTENDS Surroundings

CONSTANTS Values, None,
          Ops            \* operations that may be in flight at the same time

ASSUME NoneAssumption == None \notin Values

VARIABLES
    row,     \* what Postgres has, or None
    copy,    \* what Redis has, or None
    op,      \* op[o]: what operation o is and where it is, the value it holds,
             \* whether it only reads; ok is history: nothing has disturbed it
    clean    \* history: a writer ended undisturbed, and no other began since

OpStates(kinds, stages) ==
    [kind  : kinds \cup {"none"}, at : stages \cup {"idle"},
     holds : Values \cup {None}, reads : BOOLEAN, ok : BOOLEAN]

StoreTypeOK(kinds, stages) ==
    /\ row \in Values \cup {None} /\ copy \in Values \cup {None}
    /\ op \in [Ops -> OpStates(kinds, stages)]
    /\ clean \in BOOLEAN

Idle == [kind |-> "none", at |-> "idle", holds |-> None, reads |-> TRUE, ok |-> TRUE]

StoreInit == /\ row = None /\ copy = None
             /\ op = [o \in Ops |-> Idle]
             /\ clean = TRUE

InFlight(o)  == op[o].at # "idle"
At(o, stage) == op[o].at = stage
Quiet        == \A o \in Ops : ~InFlight(o)

Goto(o, stage)        == op' = [op EXCEPT ![o].at = stage]
Hold(o, value, stage) == op' = [op EXCEPT ![o].at = stage, ![o].holds = value]
End(o)                == op' = [op EXCEPT ![o] = Idle]

\* An operation begins: it and those in flight disturb each other, unless
\* both only read.
Enter(o, kind, stage, value, reads) ==
    LET disturbed == {p \in Ops \ {o} : InFlight(p) /\ ~(reads /\ op[p].reads)}
    IN  /\ ~InFlight(o)
        /\ op' = [p \in Ops |->
                    IF p = o THEN [kind |-> kind, at |-> stage, holds |-> value,
                                   reads |-> reads, ok |-> disturbed = {}]
                    ELSE [op[p] EXCEPT !.ok = @ /\ p \notin disturbed]]
        /\ clean' = (clean /\ disturbed = {})
        /\ UNCHANGED <<row, copy>>

-----------------------------------------------------------------------------

\* A statement that succeeds.
WriteRow(v)  == row' = v /\ UNCHANGED copy
WriteCopy(v) == copy' = v /\ UNCHANGED row

\* A statement that is reported as failed: Postgres may have committed it,
\* Redis answers with an error and has done nothing.
RowWriteFails(v) == "postgres" \in Faults /\ row' \in {v, row} /\ UNCHANGED copy
CopyWriteFails   == "redis" \in Faults /\ UNCHANGED <<row, copy>>

CopyExpires == /\ "ttl" \in Faults /\ copy # None
               /\ WriteCopy(None)
               /\ UNCHANGED <<op, clean>>

\* The process dies, and is started again with nothing in flight.
KillOps == /\ "crash" \in Faults /\ ~Quiet
           /\ op' = [o \in Ops |-> Idle]
           /\ clean' = (clean /\ \A o \in Ops : op[o].reads)
           /\ UNCHANGED <<row, copy>>

\* The copy, if there is one, is of the row.
Coherent == copy \in {None, row}

=============================================================================
