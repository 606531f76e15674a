---------------------------- MODULE WaitingRoom ----------------------------
(***************************************************************************)
(* What the waiting room promises, without sessions hashes, heartbeats,    *)
(* lists or goroutines: visitors enter one at a time and only while fewer  *)
(* than limit are inside, nobody is inside and waiting at once, and nobody *)
(* stops waiting except by entering or by departing.                       *)
(***************************************************************************)
EXTENDS Naturals, FiniteSets

CONSTANTS Visitors, Limits

VARIABLES limit, inside, waiting

vars == <<limit, inside, waiting>>

Init == limit \in Limits /\ inside = {} /\ waiting = {}

Enter(v) ==
    /\ Cardinality(inside) < limit
    /\ v \notin inside
    /\ inside' = inside \cup {v}
    /\ waiting' = waiting \ {v}
    /\ UNCHANGED limit

Wait(v) ==
    /\ v \notin inside
    /\ waiting' = waiting \cup {v}
    /\ UNCHANGED <<limit, inside>>

\* Any number of visitors leave, are evicted or are forgotten.
Depart(V) ==
    /\ inside' = inside \ V
    /\ waiting' = waiting \ V
    /\ UNCHANGED limit

SetLimit ==
    /\ limit' \in Limits
    /\ UNCHANGED <<inside, waiting>>

\* The room forgets everything.
Reset ==
    /\ limit' \in Limits
    /\ inside' = {} /\ waiting' = {}

Next ==
    \/ \E v \in Visitors : Enter(v) \/ Wait(v)
    \/ \E V \in SUBSET Visitors : Depart(V)
    \/ SetLimit
    \/ Reset

Spec == Init /\ [][Next]_vars
=============================================================================
