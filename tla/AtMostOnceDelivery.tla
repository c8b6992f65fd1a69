------------------------ MODULE AtMostOnceDelivery ------------------------
(***************************************************************************)
(* What deduplication and retry promise together, with no Redis, Postgres  *)
(* or queue in sight.  Deliveries of a webhook name a subject (the lead,   *)
(* or the event); a delivery is taken up only while no other one of the    *)
(* same subject is being worked on or has arrived, it ends up delivered or *)
(* closed, and both are final.  The promise may lapse for a subject.       *)
(***************************************************************************)
CONSTANTS Deliveries, Subjects,
          SubjectOf     \* a function from Deliveries to Subjects

VARIABLES
    phase,     \* of each delivery: "new", "open", "delivered" or "closed"
    lapses     \* the subjects for which the promise has lapsed

avars == <<phase, lapses>>

Init == /\ phase = [d \in Deliveries |-> "new"]
        /\ lapses = {}

Siblings(d) == {e \in Deliveries \ {d} : SubjectOf[e] = SubjectOf[d]}

\* A delivery is taken up; the check that lets it in may be the one to lapse.
Open(d) ==
    /\ phase[d] = "new"
    /\ lapses' \in {lapses, lapses \cup {SubjectOf[d]}}
    /\ \/ SubjectOf[d] \in lapses'
       \/ \A e \in Siblings(d) : phase[e] \notin {"open", "delivered"}
    /\ phase' = [phase EXCEPT ![d] = "open"]

Deliver(d) ==
    /\ phase[d] = "open"
    /\ phase' = [phase EXCEPT ![d] = "delivered"]
    /\ UNCHANGED lapses

\* Deliveries are refused or given up, several at once when a process dies.
Close(D) ==
    /\ \A d \in D : phase[d] \in {"new", "open"}
    /\ phase' = [d \in Deliveries |-> IF d \in D THEN "closed" ELSE phase[d]]
    /\ UNCHANGED lapses

\* A delivery that fails its check in the same step as the check lapses.
Lapse(s) ==
    /\ lapses' = lapses \cup {s}
    /\ \/ UNCHANGED phase
       \/ \E d \in Deliveries :
             /\ SubjectOf[d] = s /\ phase[d] = "new"
             /\ phase' = [phase EXCEPT ![d] = "closed"]

Next ==
    \/ \E d \in Deliveries : Open(d) \/ Deliver(d)
    \/ \E D \in SUBSET Deliveries : Close(D)
    \/ \E s \in Subjects : Lapse(s)

Spec == Init /\ [][Next]_avars

\* A delivery that is taken up does not stay open.
Settles == \A d \in Deliveries :
              phase[d] = "open" ~> phase[d] \in {"delivered", "closed"}

=============================================================================
