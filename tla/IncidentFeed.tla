---------------------------- MODULE IncidentFeed ----------------------------
(***************************************************************************)
(* What a Desktop may rely on: announcements are numbered, and what it     *)
(* holds only ever moves forward to a later genuine announcement, as it    *)
(* was announced; an active one may be taken as expired instead.           *)
(***************************************************************************)
EXTENDS Integers

CONSTANTS
    Desktop,    \* the clients
    State,      \* what can be announced
    Number      \* the numbers an announcement may have

VARIABLES
    announced,  \* the announcements made: [seq, state]
    held        \* per desktop: the announcement it acts on

Nothing == [seq |-> 0, state |-> "none"]

Init == announced = {} /\ held = [d \in Desktop |-> Nothing]

Announce ==
    /\ \E a \in [seq : Number, state : State] :
         /\ \A b \in announced : b.seq < a.seq
         /\ announced' = announced \cup {a}
    /\ UNCHANGED held

Advance(d) ==
    /\ \E a \in announced :
         /\ a.seq > held[d].seq
         /\ \/ held' = [held EXCEPT ![d] = a]
            \/ /\ a.state = "active"
               /\ held' = [held EXCEPT ![d] = [seq |-> a.seq, state |-> "expired"]]
    /\ UNCHANGED announced

Next == Announce \/ \E d \in Desktop : Advance(d)

Spec == Init /\ [][Next]_<<announced, held>>
=============================================================================
