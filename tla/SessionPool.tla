---------------------------- MODULE SessionPool ----------------------------
(***************************************************************************)
(* What the admission of RAW sessions promises, whatever counters, maps    *)
(* and mutexes it is made of: a session is admitted to the server, joins   *)
(* one group of its identity, and appears as a present session of that     *)
(* identity, in this order; it goes through the same doors in the opposite *)
(* order; and no door opens while the room behind it is full.              *)
(***************************************************************************)
EXTENDS Integers, FiniteSets

CONSTANTS Sessions, Ids, IdOf, GroupLimit, GlobalLimit, DeviceLimit

VARIABLES
    admitted,   \* sessions past the server's limit
    groups,     \* the sessions of each group, named by the session that made it
    present     \* sessions counted for their identity

vars == <<admitted, groups, present>>

PresentOf(id) == {s \in present : IdOf[s] = id}
Grouped(s) == \E g \in Sessions : s \in groups[g]

Init ==
    /\ admitted = {}
    /\ groups = [g \in Sessions |-> {}]
    /\ present = {}

Admit(s) ==
    /\ s \notin admitted /\ Cardinality(admitted) < GlobalLimit
    /\ admitted' = admitted \cup {s}
    /\ UNCHANGED <<groups, present>>

Join(s, g) ==
    /\ s \in admitted /\ ~Grouped(s)
    /\ IdOf[g] = IdOf[s] /\ Cardinality(groups[g]) < GroupLimit
    /\ groups' = [groups EXCEPT ![g] = @ \cup {s}]
    /\ UNCHANGED <<admitted, present>>

Appear(s) ==
    /\ Grouped(s) /\ s \notin present
    /\ DeviceLimit > 0 => Cardinality(PresentOf(IdOf[s])) < DeviceLimit
    /\ present' = present \cup {s}
    /\ UNCHANGED <<admitted, groups>>

Disappear(s) ==
    /\ s \in present
    /\ present' = present \ {s}
    /\ UNCHANGED <<admitted, groups>>

Part(s, g) ==
    /\ s \in groups[g] /\ s \notin present
    /\ groups' = [groups EXCEPT ![g] = @ \ {s}]
    /\ UNCHANGED <<admitted, present>>

Release(s) ==
    /\ s \in admitted /\ ~Grouped(s)
    /\ admitted' = admitted \ {s}
    /\ UNCHANGED <<groups, present>>

Next ==
    \E s \in Sessions :
        \/ Admit(s) \/ Appear(s) \/ Disappear(s) \/ Release(s)
        \/ \E g \in Sessions : Join(s, g) \/ Part(s, g)

Spec == Init /\ [][Next]_vars

-----------------------------------------------------------------------------
(* The rooms never hold more than their limits: what the three limits are for. *)
Limits ==
    /\ IsFiniteSet(admitted) /\ Cardinality(admitted) <= GlobalLimit
    /\ \A g \in Sessions : IsFiniteSet(groups[g]) /\ Cardinality(groups[g]) <= GroupLimit
    /\ IsFiniteSet(present)
    /\ DeviceLimit > 0 => \A id \in Ids : Cardinality(PresentOf(id)) <= DeviceLimit
=============================================================================
