-------------------------- MODULE ReplicasProofs --------------------------
(***************************************************************************)
(* For any number of replicas, seeds and requests: the types, the bound on *)
(* POSTs that fail because their id is taken, and that an id comes back    *)
(* only if a request has brought it.                                       *)
(*                                                                         *)
(* The bound is not inductive: that the sequence meets a taken id says     *)
(* nothing about where the id comes from.  Ahead does, and Passed counts   *)
(* the ids of requests that the sequence can no longer meet.               *)
(***************************************************************************)
EXTENDS UserReplicas, FiniteSetTheorems, TLAPS

\* A user whose id the sequence has not reached brought it along.
Ahead == \A id \in Users : id >= serial => id \in chosen

Passed(ids, n) == {id \in ids : id < n}

Spent == collisions <= Cardinality(Passed(chosen, serial))

IInv == TypeOK /\ Ahead /\ Spent

-----------------------------------------------------------------------------
LEMMA IdsAreFinite ==
    ASSUME NEW S \in SUBSET Ids
    PROVE  IsFiniteSet(S)
<1>1. IsFiniteSet(Ids)
    BY FS_Interval, ReplicasAssumption DEF Ids
<1>2. QED
    BY <1>1, FS_Subset

\* Passed grows with the ids and with the sequence ...
LEMMA PassedGrows ==
    ASSUME NEW S \in SUBSET Ids, NEW T \in SUBSET Ids, S \subseteq T,
           NEW m \in Int, NEW n \in Int, m <= n
    PROVE  /\ Cardinality(Passed(S, m)) \in Nat /\ Cardinality(Passed(T, n)) \in Nat
           /\ Cardinality(Passed(S, m)) <= Cardinality(Passed(T, n))
<1>0. \A x \in T : x \in Int
    BY ReplicasAssumption DEF Ids
<1>1. Passed(S, m) \subseteq Passed(T, n) /\ Passed(T, n) \subseteq Ids
    BY <1>0 DEF Passed
<1>2. IsFiniteSet(Passed(T, n)) /\ IsFiniteSet(Passed(S, m))
    BY <1>1, IdsAreFinite
<1>3. QED
    BY <1>1, <1>2, FS_Subset, FS_CardinalityType

\* ... and by one when the sequence passes such an id.
LEMMA PassedCounts ==
    ASSUME NEW S \in SUBSET Ids, NEW n \in S
    PROVE  Cardinality(Passed(S, n + 1)) = Cardinality(Passed(S, n)) + 1
<1>0. \A x \in S : x \in Int
    BY ReplicasAssumption DEF Ids
<1>1. Passed(S, n + 1) = Passed(S, n) \cup {n} /\ n \notin Passed(S, n)
    BY <1>0 DEF Passed
<1>2. IsFiniteSet(Passed(S, n))
    BY IdsAreFinite DEF Passed
<1>3. QED
    BY <1>1, <1>2, FS_AddElement

\* What a write appends is what the primary holds then.
LEMMA WriteType ==
    ASSUME TypeOK, NEW S \in SUBSET Ids, Write(S)
    PROVE  /\ log' \in Seq(SUBSET Ids) /\ Len(log') \in 1 .. MaxWrites + 1
           /\ Len(log') = Len(log) + 1
           /\ Last(log') = S
BY ReplicasAssumption DEF TypeOK, Write, Last

LEMMA UsersAreIds ==
    ASSUME TypeOK
    PROVE  Users \subseteq Ids
BY ReplicasAssumption DEF TypeOK, Users, Last

\* The log is left or written once, so that replicas still are within it.
LEMMA LogStep ==
    ASSUME TypeOK, NEW S \in SUBSET Ids,
           Write(S) \/ UNCHANGED log, UNCHANGED replayed
    PROVE  /\ log' \in Seq(SUBSET Ids) /\ Len(log') \in 1 .. MaxWrites + 1
           /\ replayed' \in [Replicas -> 1 .. Len(log')]
           /\ Users' = S \/ Users' = Users
<1>1. CASE Write(S)
    <2>1. Len(log) \in Nat /\ Len(log') = Len(log) + 1
        BY <1>1, WriteType DEF TypeOK
    <2>2. replayed' \in [Replicas -> 1 .. Len(log')]
        BY <2>1 DEF TypeOK
    <2>3. QED
        BY <1>1, <2>2, WriteType DEF Users
<1>2. CASE UNCHANGED log
    BY <1>2 DEF TypeOK, Users
<1>3. QED
    BY <1>1, <1>2

-----------------------------------------------------------------------------
LEMMA InitIInv == Init => IInv
<1>1. ASSUME Init PROVE IInv
    <2>1. 1 .. Seeds \subseteq Ids
        BY ReplicasAssumption DEF Ids
    <2>2. Users = 1 .. Seeds
        BY <1>1 DEF Init, Users, Last
    <2>3. TypeOK
        BY <1>1, <2>1, ReplicasAssumption DEF Init, TypeOK
    <2>4. Ahead
        BY <1>1, <2>2, ReplicasAssumption DEF Init, Ahead
    <2>5. Passed(chosen, serial) = {}
        BY <1>1 DEF Init, Passed
    <2>6. Spent
        BY <1>1, <2>5, FS_EmptySet DEF Init, Spent
    <2>7. QED
        BY <2>3, <2>4, <2>6 DEF IInv
<1>2. QED
    BY <1>1

\* The sequence goes on over an id that is free, and perhaps the user is there.
LEMMA PassStep ==
    ASSUME IInv, serial \in Ids, serial' = serial + 1,
           Write(Users \cup {serial}) \/ UNCHANGED log,
           faults' \in 0 .. MaxFaults,
           UNCHANGED <<collisions, chosen, replayed, up>>
    PROVE  IInv'
<1> USE DEF IInv
<1>1. /\ chosen \in SUBSET Ids /\ serial \in Int /\ Users \cup {serial} \in SUBSET Ids
      /\ collisions \in Nat /\ \A id \in Ids : id \in Int
    BY UsersAreIds, ReplicasAssumption DEF TypeOK, Ids
<1>2. /\ log' \in Seq(SUBSET Ids) /\ Len(log') \in 1 .. MaxWrites + 1
      /\ replayed' \in [Replicas -> 1 .. Len(log')]
      /\ Users' = Users \cup {serial} \/ Users' = Users
    BY <1>1, LogStep
<1>3. TypeOK'
    <2>1. serial' \in 1 .. MaxId + 1
        BY ReplicasAssumption DEF Ids
    <2>2. QED
        BY <1>2, <2>1 DEF TypeOK
<1>4. Ahead'
    <2>1. SUFFICES ASSUME NEW id \in Users', id >= serial'
                   PROVE  id \in chosen'
        BY DEF Ahead
    <2>2. id \in Users \cup {serial} /\ id \in Int
        BY <1>1, <1>2
    <2>3. id \in Users /\ id >= serial
        BY <1>1, <2>1, <2>2
    <2>4. QED
        BY <2>3 DEF Ahead
<1>5. /\ Cardinality(Passed(chosen, serial)) <= Cardinality(Passed(chosen', serial'))
      /\ Cardinality(Passed(chosen, serial)) \in Nat
      /\ Cardinality(Passed(chosen', serial')) \in Nat
    <2>1. chosen' = chosen /\ serial <= serial' /\ serial' \in Int
        BY <1>1
    <2>2. QED
        BY <1>1, <2>1, PassedGrows
<1>6. Spent'
    BY <1>1, <1>5 DEF Spent
<1>7. QED
    BY <1>3, <1>4, <1>6

LEMMA NextIInv == IInv /\ [Next]_vars => IInv'
<1> SUFFICES ASSUME IInv, [Next]_vars PROVE IInv'
    OBVIOUS
<1> USE DEF IInv
<1>t. /\ chosen \in SUBSET Ids /\ serial \in Int /\ Users \subseteq Ids
      /\ collisions \in Nat /\ \A x \in Ids : x \in Int
    BY UsersAreIds, ReplicasAssumption DEF TypeOK, Ids
<1>1. ASSUME NEW id \in {0} \cup Ids, PostUser(id) PROVE IInv'
    <2>1. CASE Given(id)
        <3>1. id \in Ids /\ chosen' = chosen \cup {id}
              /\ (Write(Users \cup {id}) \/ UNCHANGED log)
              /\ UNCHANGED <<serial, collisions, replayed, up, faults>>
            BY <1>1, <2>1 DEF PostUser, Given
        <3>2. Users \cup {id} \in SUBSET Ids
            BY <3>1, <1>t
        <3>3. /\ log' \in Seq(SUBSET Ids) /\ Len(log') \in 1 .. MaxWrites + 1
              /\ replayed' \in [Replicas -> 1 .. Len(log')]
              /\ Users' = Users \cup {id} \/ Users' = Users
            BY <3>1, <3>2, LogStep
        <3>4. TypeOK'
            BY <3>1, <3>3 DEF TypeOK
        <3>5. Ahead'
            BY <3>1, <3>3 DEF Ahead
        <3>6. Cardinality(Passed(chosen, serial)) <= Cardinality(Passed(chosen', serial'))
              /\ Cardinality(Passed(chosen, serial)) \in Nat
              /\ Cardinality(Passed(chosen', serial')) \in Nat
            <4>1. chosen' \in SUBSET Ids /\ chosen \subseteq chosen' /\ serial <= serial' /\ serial' \in Int
                BY <3>1, <1>t
            <4>2. QED
                BY <4>1, <1>t, PassedGrows
        <3>7. Spent'
            BY <3>1, <3>6, <1>t DEF Spent
        <3>8. QED
            BY <3>4, <3>5, <3>7
    <2>2. CASE ~ Given(id) /\ serial \in Users
        <3>1. serial \in Ids /\ serial' = serial + 1 /\ collisions' = collisions + 1
              /\ UNCHANGED <<log, chosen, replayed, up, faults>>
            BY <1>1, <2>2, <1>t DEF PostUser, NextId
        <3>2. serial \in chosen
            BY <2>2, <1>t DEF Ahead
        <3>3. TypeOK'
            BY <3>1, ReplicasAssumption DEF TypeOK, Ids
        <3>4. Ahead'
            <4>1. SUFFICES ASSUME NEW id0 \in Users', id0 >= serial'
                           PROVE  id0 \in chosen'
                BY DEF Ahead
            <4>2. Users' = Users
                BY <3>1 DEF Users
            <4>3. id0 \in Users /\ id0 \in Int
                BY <1>t, <4>2
            <4>4. id0 >= serial
                BY <1>t, <3>1, <4>1, <4>3
            <4>5. QED
                BY <3>1, <4>3, <4>4 DEF Ahead
        <3>5. Cardinality(Passed(chosen', serial')) = Cardinality(Passed(chosen, serial)) + 1
            BY <3>1, <3>2, <1>t, PassedCounts
        <3>6. Cardinality(Passed(chosen, serial)) \in Nat
            BY <1>t, PassedGrows
        <3>7. Spent'
            BY <3>1, <3>5, <3>6, <1>t DEF Spent
        <3>8. QED
            BY <3>3, <3>4, <3>7
    <2>3. CASE ~ Given(id) /\ serial \notin Users
        <3>1. serial \in Ids /\ serial' = serial + 1 /\ Write(Users \cup {serial})
              /\ UNCHANGED <<collisions, chosen, replayed, up, faults>>
            BY <1>1, <2>3, ReplicasAssumption DEF PostUser, NextId, TypeOK, Ids
        <3>2. faults' \in 0 .. MaxFaults
            BY <3>1 DEF TypeOK
        <3>3. QED
            BY <3>1, <3>2, PassStep
    <2>4. QED
        BY <2>1, <2>2, <2>3
<1>2. ASSUME PostFails PROVE IInv'
    <2>1. serial \in Ids /\ faults' \in 0 .. MaxFaults
          /\ UNCHANGED <<replayed, up, chosen, collisions>>
        BY <1>2, ReplicasAssumption DEF PostFails, Fault, TypeOK, Ids
    <2>2. CASE UNCHANGED <<serial, log>>
        BY <2>1, <2>2 DEF TypeOK, Ahead, Spent, Users
    <2>3. CASE serial' = NextId /\ (UNCHANGED log \/ Write(Users \cup {serial}))
        BY <2>1, <2>3, PassStep DEF NextId
    <2>4. QED
        BY <1>2, <2>2, <2>3 DEF PostFails
<1>3. ASSUME NEW id \in Ids, DeleteUser(id) PROVE IInv'
    <2>1. Users \ {id} \in SUBSET Ids
        BY <1>t
    <2>2. /\ log' \in Seq(SUBSET Ids) /\ Len(log') \in 1 .. MaxWrites + 1
          /\ replayed' \in [Replicas -> 1 .. Len(log')]
          /\ Users' = Users \ {id} \/ Users' = Users
        BY <1>3, <2>1, LogStep DEF DeleteUser
    <2>3. QED
        BY <1>3, <2>2 DEF DeleteUser, TypeOK, Ahead, Spent
<1>4. ASSUME NEW r \in Replicas, Replay(r) PROVE IInv'
    <2>1. replayed' \in [Replicas -> 1 .. Len(log')]
        BY <1>4 DEF Replay, TypeOK
    <2>2. QED
        BY <1>4, <2>1 DEF Replay, TypeOK, Ahead, Spent, Users
<1>5. ASSUME NEW r \in Replicas, ReplicaFails(r) \/ ReplicaReturns(r) PROVE IInv'
    <2>1. up' \subseteq Replicas /\ faults' \in 0 .. MaxFaults
        BY <1>5, ReplicasAssumption DEF ReplicaFails, ReplicaReturns, Fault, TypeOK
    <2>2. UNCHANGED <<log, serial, replayed, chosen, collisions>>
        BY <1>5 DEF ReplicaFails, ReplicaReturns
    <2>3. QED
        BY <2>1, <2>2 DEF TypeOK, Ahead, Spent, Users
<1>6. ASSUME UNCHANGED vars PROVE IInv'
    BY <1>6 DEF vars, TypeOK, Ahead, Spent, Users
<1>7. QED
    BY <1>1, <1>2, <1>3, <1>4, <1>5, <1>6 DEF Next

LEMMA SpecIInv == Spec => []IInv
BY InitIInv, NextIInv, PTL DEF Spec

\* Every replica's position lies within the primary's log and every id within
\* the table's, whatever is written, lost or replayed.
THEOREM TypeCorrect == Spec => []TypeOK
<1>1. IInv => TypeOK
    BY DEF IInv
<1>2. QED
    BY <1>1, SpecIInv, PTL

\* POST /users without an id fails for a taken one at most as often as there
\* are ids that came with a request, however many users are created, deleted
\* and created again.
THEOREM CollisionTheorem == Spec => []CollisionsAreBounded
<1>1. ASSUME IInv PROVE CollisionsAreBounded
    <2>1. chosen \in SUBSET Ids /\ serial \in Int /\ collisions \in Nat
        BY <1>1, ReplicasAssumption DEF IInv, TypeOK
    <2>2. IsFiniteSet(chosen) /\ Passed(chosen, serial) \subseteq chosen
        BY <2>1, IdsAreFinite DEF Passed
    <2>3. Cardinality(Passed(chosen, serial)) <= Cardinality(chosen)
          /\ Cardinality(Passed(chosen, serial)) \in Nat /\ Cardinality(chosen) \in Nat
        BY <2>2, FS_Subset, FS_CardinalityType
    <2>4. QED
        BY <1>1, <2>1, <2>3 DEF IInv, Spent, CollisionsAreBounded
<1>2. QED
    BY <1>1, SpecIInv, PTL

-----------------------------------------------------------------------------
(* How the id of a deleted user comes back *)

\* Ahead, of every user there ever was: deleting one does not make its id new.
EverAhead == \A id \in Ids : id >= serial /\ WasUser(id) => id \in chosen

\* A write adds what it writes to the users there ever were.
LEMMA WasUserStep ==
    ASSUME TypeOK, NEW S, Write(S) \/ UNCHANGED log, NEW id, WasUser(id)'
    PROVE  WasUser(id) \/ (Write(S) /\ id \in S)
<1>1. CASE UNCHANGED log
    BY <1>1 DEF WasUser
<1>2. CASE Write(S)
    <2>1. log \in Seq(SUBSET Ids) /\ Len(log) \in Nat /\ log' = Append(log, S)
        BY <1>2 DEF TypeOK, Write
    <2>2. PICK k \in 1 .. Len(log') : id \in log'[k]
        BY DEF WasUser
    <2>3. CASE k \in 1 .. Len(log)
        <3>1. log'[k] = log[k]
            BY <2>1, <2>3
        <3>2. QED
            BY <2>2, <2>3, <3>1 DEF WasUser
    <2>4. CASE k \notin 1 .. Len(log)
        <3>1. Len(log') = Len(log) + 1
            BY <2>1
        <3>2. k = Len(log) + 1
            BY <2>1, <2>4, <3>1
        <3>3. log'[k] = S
            BY <2>1, <3>2
        <3>4. QED
            BY <1>2, <2>2, <3>3
    <2>5. QED
        BY <2>3, <2>4
<1>3. QED
    BY <1>1, <1>2

\* Who is a user now is one of the users there ever were.
LEMMA UsersWereUsers ==
    ASSUME TypeOK, NEW id \in Users
    PROVE  WasUser(id)
<1>1. log \in Seq(SUBSET Ids) /\ Len(log) \in 1 .. Len(log) /\ Users = log[Len(log)]
    BY DEF TypeOK, Users, Last
<1>2. QED
    BY <1>1 DEF WasUser

\* One step: the sequence never goes back, the ids of requests are kept, and a
\* user is new, came with a request or was given the next id of the sequence,
\* which the sequence then leaves behind.
LEMMA StepOfUsers ==
    ASSUME TypeOK, [Next]_vars
    PROVE  \E S :
              /\ Write(S) \/ UNCHANGED log
              /\ serial' = serial \/ serial' = serial + 1
              /\ chosen \subseteq chosen'
              /\ \A id \in S : \/ id \in Users
                               \/ id \in chosen'
                               \/ id = serial /\ serial' = serial + 1
<1> DEFINE Good(S) == \A id \in S : \/ id \in Users
                                    \/ id \in chosen'
                                    \/ id = serial /\ serial' = serial + 1
<1>1. ASSUME NEW i \in {0} \cup Ids, PostUser(i), Given(i) PROVE
      /\ Write(Users \cup {i}) \/ UNCHANGED log
      /\ serial' = serial /\ chosen \subseteq chosen' /\ Good(Users \cup {i})
    BY <1>1 DEF PostUser
<1>2. ASSUME NEW i \in {0} \cup Ids, PostUser(i), ~ Given(i) PROVE
      /\ Write(Users \cup {serial}) \/ UNCHANGED log
      /\ serial' = serial + 1 /\ chosen \subseteq chosen' /\ Good(Users \cup {serial})
    BY <1>2 DEF PostUser, NextId
<1>3. ASSUME PostFails PROVE
      \/ UNCHANGED <<serial, log, chosen>>
      \/ /\ Write(Users \cup {serial}) \/ UNCHANGED log
         /\ serial' = serial + 1 /\ chosen \subseteq chosen' /\ Good(Users \cup {serial})
    BY <1>3 DEF PostFails, NextId
<1>4. ASSUME NEW i \in Ids, DeleteUser(i) PROVE
      /\ Write(Users \ {i}) \/ UNCHANGED log
      /\ serial' = serial /\ chosen \subseteq chosen' /\ Good(Users \ {i})
    BY <1>4 DEF DeleteUser
<1>5. ASSUME NEW r \in Replicas, Replay(r) \/ ReplicaFails(r) \/ ReplicaReturns(r)
      PROVE  UNCHANGED <<serial, log, chosen>>
    BY <1>5 DEF Replay, ReplicaFails, ReplicaReturns
<1>6. ASSUME UNCHANGED vars PROVE UNCHANGED <<serial, log, chosen>>
    BY <1>6 DEF vars
<1>7. ASSUME UNCHANGED <<serial, log, chosen>> PROVE
      /\ UNCHANGED log /\ serial' = serial /\ chosen \subseteq chosen' /\ Good({})
    BY <1>7
<1> HIDE DEF Good
<1>8. \E S : /\ Write(S) \/ UNCHANGED log
             /\ serial' = serial \/ serial' = serial + 1
             /\ chosen \subseteq chosen' /\ Good(S)
    BY <1>1, <1>2, <1>3, <1>4, <1>5, <1>6, <1>7 DEF Next
<1>9. QED
    BY <1>8 DEF Good

LEMMA NextEverAhead == TypeOK /\ EverAhead /\ [Next]_vars => EverAhead'
<1> SUFFICES ASSUME TypeOK, EverAhead, [Next]_vars,
                    NEW id \in Ids, id >= serial', WasUser(id)'
             PROVE  id \in chosen'
    BY DEF EverAhead, Ids
<1>1. PICK S : /\ Write(S) \/ UNCHANGED log
               /\ serial' = serial \/ serial' = serial + 1
               /\ chosen \subseteq chosen'
               /\ \A x \in S : \/ x \in Users
                               \/ x \in chosen'
                               \/ x = serial /\ serial' = serial + 1
    BY StepOfUsers
<1>2. serial \in Int /\ id \in Int
    BY ReplicasAssumption DEF TypeOK, Ids
<1>3. id >= serial /\ ~ (id = serial /\ serial' = serial + 1)
    BY <1>1, <1>2
<1>4. WasUser(id) \/ id \in chosen'
    BY <1>1, <1>3, WasUserStep, UsersWereUsers
<1>5. QED
    BY <1>1, <1>3, <1>4 DEF EverAhead

\* However many statements failed and users were deleted, POST /users gives an id
\* again, with or without one in its body, only if some request has brought it:
\* an id that only the sequence ever gave is given once.
THEOREM ReuseTheorem == Spec => ReusedIdWasBrought
<1>1. Init => EverAhead
    <2>1. ASSUME Init PROVE EverAhead
        <3>1. log[1] = 1 .. Seeds /\ Len(log) = 1 /\ serial = Seeds + 1
            BY <2>1 DEF Init
        <3>2. ASSUME NEW id \in Ids, WasUser(id) PROVE id \in 1 .. Seeds
            <4>1. PICK k \in 1 .. Len(log) : id \in log[k]
                BY <3>2 DEF WasUser
            <4>2. k = 1
                BY <3>1, <4>1
            <4>3. QED
                BY <3>1, <4>1, <4>2
        <3>3. QED
            BY <3>1, <3>2, ReplicasAssumption DEF EverAhead, Ids
    <2>2. QED
        BY <2>1
<1>2. ASSUME TypeOK, EverAhead, [Next]_vars, NEW id \in Users', id \notin Users, WasUser(id)
      PROVE  id \in chosen'
    <2>1. PICK S : /\ Write(S) \/ UNCHANGED log
                   /\ \A x \in S : \/ x \in Users
                                   \/ x \in chosen'
                                   \/ x = serial /\ serial' = serial + 1
                   /\ chosen \subseteq chosen'
        BY <1>2, StepOfUsers
    <2>2. Write(S) /\ Users' = S
        <3>1. ~ UNCHANGED log
            BY <1>2 DEF Users
        <3>2. log \in Seq(SUBSET Ids)
            BY <1>2 DEF TypeOK
        <3>3. log' = Append(log, S) /\ Write(S)
            BY <2>1, <3>1 DEF Write
        <3>4. QED
            BY <3>2, <3>3 DEF Users, Last
    <2>3. id \in chosen' \/ id = serial
        BY <1>2, <2>1, <2>2
    <2>4. id \in Ids /\ serial >= serial
        <3>1. \E k \in 1 .. Len(log) : log[k] \in SUBSET Ids /\ id \in log[k]
            BY <1>2 DEF WasUser, TypeOK
        <3>2. serial \in Int
            BY <1>2, ReplicasAssumption DEF TypeOK
        <3>3. QED
            BY <3>1, <3>2
    <2>5. QED
        BY <1>2, <2>1, <2>3, <2>4 DEF EverAhead
<1>3. TypeOK /\ EverAhead /\ [Next]_vars =>
          [\A id \in Users' : id \notin Users /\ WasUser(id) => id \in chosen']_vars
    BY <1>2
<1>4. QED
    BY <1>1, <1>3, NextEverAhead, TypeCorrect, PTL DEF Spec, ReusedIdWasBrought
=============================================================================
