---------------------------- MODULE QueueStore ----------------------------
(***************************************************************************)
(* The Redis state of the virtual waiting room (queue-based-site-access)   *)
(* and the scripts and single commands that internal/queue issues on it.   *)
(* The state is one record, db, and each script is an operator from a      *)
(* state to a state, because Redis runs it without interruption.           *)
(*                                                                         *)
(*   db.capacity  queue:capacity, 0 when the key is missing (the service   *)
(*                never writes 0)                                          *)
(*   db.active    queue:active, the sessions that hold a slot              *)
(*   db.queue     queue:list, head first; may hold a session twice         *)
(*   db.status    the field status of session:<id>, "none" without a hash  *)
(*   db.beat      the sessions whose heartbeat:<id> key has not expired    *)
(*   db.history   the length of queue:timing_history                       *)
(*                                                                         *)
(* Definitions whose comment starts with "Faulty:" are wrong on purpose;   *)
(* they stand for a plausible slip in the definition that follows them.    *)
(***************************************************************************)
EXTENDS Naturals, FiniteSets, SequencesExt

CONSTANTS
    Sessions,         \* session identifiers (the qsid cookies)
    Capacities,       \* the values QUEUE_CAPACITY and the admin API may set
    DefaultCapacity,  \* the scripts' fallback for a missing key, '3'
    HistoryMax,       \* length the history list is trimmed to, 100
    MaxScan           \* entries luaAdmitNext looks at in one run, 50

ASSUME StoreAssumption ==
    /\ IsFiniteSet(Sessions)
    /\ Capacities \subseteq Nat \ {0}
    /\ DefaultCapacity \in Nat \ {0}
    /\ HistoryMax \in Nat
    /\ MaxScan \in Nat \ {0}

Statuses == {"none", "queued", "active"}

Store == [capacity : Capacities \cup {0},
          active   : SUBSET Sessions,
          queue    : Seq(Sessions),
          status   : [Sessions -> Statuses],
          beat     : SUBSET Sessions,
          history  : 0 .. HistoryMax]

EmptyStore == [capacity |-> 0,
               active   |-> {},
               queue    |-> << >>,
               status   |-> [s \in Sessions |-> "none"],
               beat     |-> {},
               history  |-> 0]

-----------------------------------------------------------------------------
(* Commands outside the scripts.                                           *)

\* The hashes of the sessions in S are deleted.
Forget(status, S) == [s \in Sessions |-> IF s \in S THEN "none" ELSE status[s]]

InitCapacity(db, n) ==
    IF db.capacity = 0 THEN [db EXCEPT !.capacity = n] ELSE db

StoreCapacity(db, n) == [db EXCEPT !.capacity = n]

DeleteSession(db, s) == [db EXCEPT !.status = Forget(@, {s})]

SetHeartbeat(db, s) == [db EXCEPT !.beat = @ \cup {s}]

\* The 30 s TTL of a heartbeat key, and the 24 h TTL of a session hash, run out.
HeartbeatExpires(db, s) == [db EXCEPT !.beat = @ \ {s}]
HashExpires(db, s)      == [db EXCEPT !.status = Forget(@, {s})]

-----------------------------------------------------------------------------
(* The scripts.                                                            *)

\* The capacity the scripts work with.
Limit(db) == IF db.capacity = 0 THEN DefaultCapacity ELSE db.capacity

\* Faulty: the comparison is strict.
FullTooLate(db) == Cardinality(db.active) > Limit(db)

Full(db) == Cardinality(db.active) >= Limit(db)

\* Faulty: the history is pushed and never trimmed.
AdmitUntrimmed(db, s) ==
    [db EXCEPT !.active = @ \cup {s}, !.status[s] = "active", !.history = @ + 1]

\* SADD, HSET status active, LPUSH + LTRIM of the admission time.
Admit(db, s) ==
    [db EXCEPT !.active     = @ \cup {s},
               !.status[s]  = "active",
               !.history    = IF @ < HistoryMax THEN @ + 1 ELSE HistoryMax]

\* Replies ~Full(db).
LuaTryAdmit(db, s) == IF Full(db) THEN db ELSE Admit(db, s)

\* Faulty: LPUSH instead of RPUSH.
JoinAtHead(db, s) ==
    IF db.status[s] \in {"queued", "active"} THEN db
    ELSE [db EXCEPT !.queue = <<s>> \o @, !.status[s] = "queued"]

\* Faulty: a session that joins again is moved to the end of the line.
JoinAgainAtTail(db, s) ==
    IF db.status[s] = "active" THEN db
    ELSE [db EXCEPT !.queue = Append(RemoveFirst(@, s), s), !.status[s] = "queued"]

LuaJoinQueue(db, s) ==
    IF db.status[s] \in {"queued", "active"} THEN db
    ELSE [db EXCEPT !.queue = Append(@, s), !.status[s] = "queued"]

\* The places, among the MaxScan first, of the entries whose session still
\* has a hash.
LivePlaces(db) ==
    {i \in 1 .. Len(db.queue) : i <= MaxScan /\ db.status[db.queue[i]] # "none"}

\* Whether luaAdmitNext finds somebody to admit, and whom: its reply.
CanAdmitNext(db) == ~Full(db) /\ LivePlaces(db) # {}
NextInLine(db)   == db.queue[Min(LivePlaces(db))]

\* Faulty: an entry without a hash at the head ends the run and stays there.
AdmitHeadOnly(db) ==
    IF Full(db) \/ db.queue = << >> \/ db.status[Head(db.queue)] = "none" THEN db
    ELSE Admit([db EXCEPT !.queue = Tail(@)], Head(db.queue))

\* Faulty: the capacity is not looked at.
AdmitUnchecked(db) ==
    IF LivePlaces(db) = {} THEN db
    ELSE Admit([db EXCEPT !.queue = SubSeq(@, Min(LivePlaces(db)) + 1, Len(@))],
               NextInLine(db))

\* Entries without a hash are dropped on the way; a run that meets MaxScan
\* of them gives up and leaves the rest to the next run.
LuaAdmitNext(db) ==
    IF Full(db) THEN db
    ELSE IF LivePlaces(db) = {}
    THEN [db EXCEPT !.queue = SubSeq(@, MaxScan + 1, Len(@))]
    ELSE Admit([db EXCEPT !.queue = SubSeq(@, Min(LivePlaces(db)) + 1, Len(@))],
               NextInLine(db))

\* The active sets SPOP may leave behind when it is called n times.
ReleaseChoices(db, n) ==
    {V \in SUBSET db.active :
        Cardinality(V) = IF n < Cardinality(db.active) THEN n
                                                       ELSE Cardinality(db.active)}

\* Faulty: the hash of a released session stays.
ReleaseKeepsHash(db, V) == [db EXCEPT !.active = @ \ V, !.beat = @ \ V]

\* V is the set of sessions that SPOP picked.
LuaRelease(db, V) ==
    [db EXCEPT !.active = @ \ V, !.status = Forget(@, V), !.beat = @ \ V]

\* Faulty: the hash of a session that leaves the line stays.
LeaveKeepsHash(db, s) ==
    [db EXCEPT !.active = @ \ {s},
               !.queue  = IF s \in db.active THEN @ ELSE RemoveFirst(@, s),
               !.status = IF s \in db.active THEN Forget(@, {s}) ELSE @,
               !.beat   = @ \ {s}]

\* Replies s \in db.active. An active session keeps its entries in the list.
LuaLeave(db, s) ==
    [db EXCEPT !.active = @ \ {s},
               !.queue  = IF s \in db.active THEN @ ELSE RemoveFirst(@, s),
               !.status = Forget(@, {s}),
               !.beat   = @ \ {s}]

\* The subsequence of q of the elements of S, in their order. It equals
\* SelectSeq(q, LAMBDA x : x \in S); the places are counted rather than
\* collected by recursion so that the proofs can reason about it.
PlacesIn(q, S) == {i \in DOMAIN q : q[i] \in S}
Rank(K, i)     == Cardinality({k \in K : k <= i})
KeepIn(q, S)   ==
    [j \in 1 .. Cardinality(PlacesIn(q, S)) |->
        q[CHOOSE i \in PlacesIn(q, S) : Rank(PlacesIn(q, S), i) = j]]

\* The sessions the reaper finds without a heartbeat; it replies 0
\* when there are none.
Stale(db) == (db.active \cup Range(db.queue)) \ db.beat

\* Faulty: the slot goes and the hash stays.
ReapKeepsHash(db) ==
    [db EXCEPT !.active = @ \cap db.beat, !.queue = KeepIn(@, db.beat)]

\* Faulty: only the list is walked.
ReapListOnly(db) ==
    [db EXCEPT !.queue  = KeepIn(@, db.beat),
               !.status = Forget(@, Range(db.queue) \ db.beat)]

\* The list is walked as it was before the walk, and each stale entry removes
\* the first entry of its session: none of that session's entries survives.
LuaReapStale(db) ==
    [db EXCEPT !.active = @ \cap db.beat,
               !.queue  = KeepIn(@, db.beat),
               !.status = Forget(@, Stale(db))]
=============================================================================
