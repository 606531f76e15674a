--------------------------- MODULE UserReplicas ---------------------------
(***************************************************************************)
(* The users service of the PostgreSQL demo (client/main.go): dbresolver   *)
(* sends its writes to the primary and each read to a replica that it      *)
(* picks at random.  Replicas replay the primary's log some time later.    *)
(*                                                                         *)
(* A handler runs one statement, so it is one step; reads change nothing   *)
(* and are operators.  A user is its id: names take part in nothing.       *)
(***************************************************************************)
EXTENDS Integers, Sequences, FiniteSets, SequencesExt

CONSTANTS
    Replicas,
    Seeds,                            \* users that db-init.sql inserts
    MaxId, MaxWrites, MaxFaults       \* bounds

ASSUME ReplicasAssumption ==
    /\ IsFiniteSet(Replicas)
    /\ Seeds \in Nat /\ MaxId \in Nat /\ MaxWrites \in Nat /\ MaxFaults \in Nat
    /\ Seeds <= MaxId

VARIABLES
    log,          \* the contents of the primary's table after each write, in order
    serial,       \* next value of the sequence behind users.id
    replayed,     \* per replica, how much of log it has
    up,           \* replicas that answer
    chosen,       \* ids that came with a request
    collisions,   \* requests without an id whose id was taken
    faults        \* faults so far

vars == <<log, serial, replayed, up, chosen, collisions, faults>>

Ids   == 1 .. MaxId
Users == Last(log)

TypeOK ==
    /\ log \in Seq(SUBSET Ids) /\ Len(log) \in 1 .. MaxWrites + 1
    /\ serial \in 1 .. MaxId + 1
    /\ replayed \in [Replicas -> 1 .. Len(log)]
    /\ up \subseteq Replicas
    /\ chosen \subseteq Ids
    /\ collisions \in Nat
    /\ faults \in 0 .. MaxFaults

Init ==
    /\ log = <<1 .. Seeds>>
    /\ serial = Seeds + 1
    /\ replayed = [r \in Replicas |-> 1]
    /\ up = Replicas
    /\ chosen = {} /\ collisions = 0 /\ faults = 0

Fault == faults < MaxFaults /\ faults' = faults + 1

Write(users) ==
    /\ Len(log) <= MaxWrites
    /\ log' = Append(log, users)

-----------------------------------------------------------------------------
(* POST /users *)

\* Faulty: the id is the number of users plus one.
NextIdCounted == Cardinality(Users) + 1

\* SERIAL: a value is used up by a statement that fails, too, and an id that
\* came with a request leaves the sequence alone.
NextId == serial + 1

\* gorm leaves a field out that is zero.
Given(id) == id # 0

\* User has a JSON field for the id, so what is in the body is inserted. The
\* answer is 201 or, if the id is taken, 500.
PostUser(id) ==
    /\ IF Given(id)
       THEN /\ chosen' = chosen \cup {id}
            /\ IF id \in Users THEN UNCHANGED log ELSE Write(Users \cup {id})
            /\ UNCHANGED <<serial, collisions>>
       ELSE /\ serial <= MaxId
            /\ serial' = NextId
            /\ IF serial \in Users
               THEN collisions' = collisions + 1 /\ UNCHANGED log
               ELSE Write(Users \cup {serial}) /\ UNCHANGED collisions
            /\ UNCHANGED chosen
    /\ UNCHANGED <<replayed, up, faults>>

\* 500: the statement fails before or after it took an id, or its COMMIT was
\* carried out and the answer lost.
PostFails ==
    /\ serial <= MaxId
    /\ serial \notin Users
    /\ Fault
    /\ \/ UNCHANGED <<serial, log>>
       \/ serial' = NextId /\ UNCHANGED log
       \/ serial' = NextId /\ Write(Users \cup {serial})
    /\ UNCHANGED <<replayed, up, chosen, collisions>>

-----------------------------------------------------------------------------
(* DELETE /users/{id}: 204, whether or not there was such a user *)

DeleteUser(id) ==
    /\ IF id \in Users THEN Write(Users \ {id}) ELSE UNCHANGED log
    /\ UNCHANGED <<serial, replayed, up, chosen, collisions, faults>>

-----------------------------------------------------------------------------
(* The replicas, and what a read of one answers *)

Replay(r) ==
    /\ r \in up
    /\ replayed[r] < Len(log)
    /\ replayed' = [replayed EXCEPT ![r] = @ + 1]
    /\ UNCHANGED <<log, serial, up, chosen, collisions, faults>>

ReplicaFails(r) ==
    /\ r \in up
    /\ Fault
    /\ up' = up \ {r}
    /\ UNCHANGED <<log, serial, replayed, chosen, collisions>>

\* Faulty: restart: "no".
ReplicaStaysAway(r) == FALSE

\* restart: always
ReplicaReturns(r) ==
    /\ r \notin up
    /\ up' = up \cup {r}
    /\ UNCHANGED <<log, serial, replayed, chosen, collisions, faults>>

\* GET /users/{id}, when dbresolver picks r: every error is answered by 404.
GetUser(id, r) == IF r \in up /\ id \in log[replayed[r]] THEN "200" ELSE "404"

\* GET /users, when dbresolver picks r
ListUsers(r) ==
    IF r \in up THEN [status |-> "200", users |-> log[replayed[r]]]
                ELSE [status |-> "500", users |-> {}]

-----------------------------------------------------------------------------
Next ==
    \/ \E id \in {0} \cup Ids : PostUser(id)
    \/ PostFails
    \/ \E id \in Ids : DeleteUser(id)
    \/ \E r \in Replicas : Replay(r) \/ ReplicaFails(r) \/ ReplicaReturns(r)

Spec == Init /\ [][Next]_vars

\* A replica that is up follows the primary, and compose restarts one that is
\* not; nobody has to send a request.
FairSpec ==
    Spec /\ \A r \in Replicas : WF_vars(Replay(r)) /\ WF_vars(ReplicaReturns(r))

-----------------------------------------------------------------------------
\* An id in a POST does not move the sequence, so that a later POST without one
\* may fail: as often, at most, as there are ids that came with a request,
\* however users are created and deleted meanwhile.
CollisionsAreBounded == collisions <= Cardinality(chosen)

\* The user was in the table after some write.
WasUser(id) == \E k \in 1 .. Len(log) : id \in log[k]

\* The id of a user that was deleted comes back only if some request has brought
\* that id, now or at any time before. It may come back in a POST without an id
\* then: the sequence does not know that the id was in use. Of every other id, a
\* failed statement's included, what a lagging replica still shows of a deleted
\* user cannot be taken for a new one.
ReusedIdWasBrought ==
    [][\A id \in Users' : id \notin Users /\ WasUser(id) => id \in chosen']_vars

\* "replicated automatically" (README.md:83): a GET may miss a user that was
\* just created, show one that was deleted and, the replica being picked anew,
\* do so after it did not; but when nobody writes any more every replica ends
\* up with the answers of the primary.
AnswersConverge ==
    <>[](\A r \in Replicas :
             /\ ListUsers(r) = [status |-> "200", users |-> Users]
             /\ \A id \in Ids : GetUser(id, r) = "200" <=> id \in Users)
=============================================================================
