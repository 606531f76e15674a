--------------------------- MODULE QueueService ---------------------------
(***************************************************************************)
(* The queue-service process: HTTP handlers (internal/handler), the        *)
(* background worker (internal/queue/worker.go) and their calls to Redis.  *)
(*                                                                         *)
(* A handler or worker step is one Redis round trip; between two of them   *)
(* any other goroutine may run. proc[p] says which call goroutine p makes  *)
(* next, for which handler, and on behalf of which session.  A handler's   *)
(* first call is part of the action that receives the request.  Any        *)
(* browser may send any request at any time: pages are not modelled here.  *)
(***************************************************************************)
EXTENDS QueueStore

CONSTANTS
    Requests,       \* handler goroutines that may be in flight together
    Worker,         \* the goroutine of RunWorker
    NoSession,      \* stands for the absence of a session
    Releases,       \* counts the release endpoint is called with (1 .. 100)
    MaxList,        \* bound on queue:list: visits are held back beyond it
    MaxFaults,      \* bound on failed calls, crashes and losses of Redis data
    HashesExpire    \* whether a behaviour may outlast the 24 h of a hash

ASSUME ServiceAssumption ==
    /\ Worker \notin Requests
    /\ NoSession \notin Sessions
    /\ Releases \subseteq 1 .. 100
    /\ MaxList \in Nat
    /\ MaxFaults \in Nat
    /\ HashesExpire \in BOOLEAN

VARIABLES
    db,      \* the Redis state
    up,      \* whether the service process runs
    proc,    \* the goroutines
    faults   \* faults so far

vars == <<db, up, proc, faults>>

Procs  == Requests \cup {Worker}
\* What a goroutine still has to tell apart: a visit of the root, a request that
\* ends once a dead session is deleted (a sub-path, a position poll), and one
\* that ends with a heartbeat (the queue page, the heartbeat endpoint).
Ops    == {"none", "root", "asset", "page"}

\* At rest or about to call luaAdmitNext a goroutine has no session at hand,
\* before every other call it has one.
Goroutine ==
    [at : {"idle", "admit"}, op : Ops, sid : {NoSession}] \cup
    [at : {"member", "delete", "try", "join", "beat", "seed"}, op : Ops, sid : Sessions]

At(label, op, s) == [at |-> label, op |-> op, sid |-> s]
Idle             == At("idle", "none", NoSession)
Admitting        == At("admit", "none", NoSession)

TypeOK ==
    /\ db \in Store
    /\ up \in BOOLEAN
    /\ proc \in [Procs -> Goroutine]
    /\ faults \in 0 .. MaxFaults

Init ==
    /\ db = EmptyStore
    /\ up = FALSE
    /\ proc = [p \in Procs |-> Idle]
    /\ faults = 0

-----------------------------------------------------------------------------
(* One Redis round trip of p.  go-redis may fail to deliver the command,   *)
(* lose the reply after it was applied, or lose the reply and send the     *)
(* command again; the code ignores the error and goes on with a zero       *)
(* value. after is the state the command leaves, onReply what p does next  *)
(* with the true reply, onError what it does next with a zero value.       *)

Outcomes == {"replied", "undelivered", "replyLost", "resent"}

Call(p, o, after, onReply, onError) ==
    /\ up
    /\ o # "replied" => faults < MaxFaults
    /\ faults' = IF o = "replied" THEN faults ELSE faults + 1
    /\ db' = IF o = "undelivered" THEN db ELSE after
    /\ proc' = [proc EXCEPT ![p] = CASE o = "replied" -> onReply
                                     [] o = "resent"  -> @
                                     [] OTHER         -> onError]
    /\ UNCHANGED up

Receives(p)   == p \in Requests /\ proc[p] = Idle
Stands(p, label) == proc[p].at = label

-----------------------------------------------------------------------------
(* rootHandler, queuePageHandler, positionHandler: GetStatus first.        *)

\* What rootHandler does with a session that is not active: a sub-path is
\* redirected to "/", the root itself asks for a slot.
Gate(op, s) == IF op = "root" THEN At("try", op, s) ELSE Idle

\* MaxList also counts the visits that may still end in the list.
ListHasRoom ==
    Len(db.queue) + Cardinality({p \in Requests : proc[p].op = "root"}) < MaxList

Visit(p, s, op, o) ==
    /\ Receives(p)
    /\ op = "root" => ListHasRoom
    /\ Call(p, o, db,
            IF db.status[s] = "active" THEN At("member", op, s) ELSE Gate(op, s),
            Gate(op, s))

\* Without an active slot the page refreshes the heartbeat, whatever the status.
QueuePage(p, s, o) ==
    /\ Receives(p)
    /\ Call(p, o, db,
            IF db.status[s] = "active" THEN At("member", "page", s)
                                       ELSE At("beat", "page", s),
            At("beat", "page", s))

\* The reads of GetPosition and CalculateETA change nothing and end the request.
PollPosition(p, s, o) ==
    /\ Receives(p)
    /\ Call(p, o, db,
            IF db.status[s] = "active" THEN At("member", "asset", s) ELSE Idle,
            Idle)

\* IsInActiveSet. A member is served and the request ends.
CheckMember(p, o) ==
    LET g == proc[p]
        evicted == IF g.op = "page" THEN At("beat", "page", g.sid)
                                    ELSE At("delete", g.op, g.sid)
    IN  /\ Stands(p, "member")
        /\ Call(p, o, db, IF g.sid \in db.active THEN Idle ELSE evicted, evicted)

DropSession(p, o) ==
    LET g == proc[p]
    IN  /\ Stands(p, "delete")
        /\ Call(p, o, DeleteSession(db, g.sid), Gate(g.op, g.sid), Gate(g.op, g.sid))

TryAdmit(p, o) ==
    LET g == proc[p]
    IN  /\ Stands(p, "try")
        /\ Call(p, o, LuaTryAdmit(db, g.sid),
                At(IF Full(db) THEN "join" ELSE "beat", g.op, g.sid),
                At("join", g.op, g.sid))

JoinQueue(p, o) ==
    LET g == proc[p]
    IN  /\ Stands(p, "join")
        /\ Call(p, o, LuaJoinQueue(db, g.sid),
                At("beat", g.op, g.sid), At("beat", g.op, g.sid))

\* The last call of every handler that refreshes a heartbeat.
Refresh(p, o) ==
    /\ Stands(p, "beat")
    /\ Call(p, o, SetHeartbeat(db, proc[p].sid), Idle, Idle)

-----------------------------------------------------------------------------
(* Session lifecycle and admin endpoints.                                  *)

Heartbeat(p, s, o) ==
    /\ Receives(p)
    /\ Call(p, o, db,
            IF db.status[s] \in {"active", "queued"}
            THEN At("beat", "page", s) ELSE Idle,
            Idle)

Leave(p, s, o) ==
    /\ Receives(p)
    /\ Call(p, o, LuaLeave(db, s), IF s \in db.active THEN Admitting ELSE Idle, Idle)

SetCapacity(p, n, o) ==
    /\ Receives(p)
    /\ Call(p, o, StoreCapacity(db, n), Admitting, Admitting)

ReleaseSlots(p, n, o) ==
    /\ Receives(p)
    /\ \E V \in ReleaseChoices(db, n) :
          Call(p, o, LuaRelease(db, V), Admitting, Admitting)

-----------------------------------------------------------------------------
(* admitPending, a loop run by the worker and by the last three handlers.  *)

AdmitNext(p, o) ==
    /\ Stands(p, "admit")
    /\ Call(p, o, LuaAdmitNext(db),
            IF CanAdmitNext(db) THEN At("seed", "none", NextInLine(db)) ELSE Idle,
            Idle)

SeedHeartbeat(p, o) ==
    /\ Stands(p, "seed")
    /\ Call(p, o, SetHeartbeat(db, proc[p].sid), Admitting, Admitting)

AdmitPending(p, o) == AdmitNext(p, o) \/ SeedHeartbeat(p, o)

\* RunWorker's select: an admission tick or a reaper tick.
AdmitTick ==
    /\ up /\ proc[Worker] = Idle
    /\ proc' = [proc EXCEPT ![Worker] = Admitting]
    /\ UNCHANGED <<db, up, faults>>

ReapStale(o) ==
    /\ proc[Worker] = Idle
    /\ Call(Worker, o, LuaReapStale(db),
            IF Stale(db) # {} THEN Admitting ELSE Idle, Idle)

-----------------------------------------------------------------------------
(* The environment.                                                        *)

\* The client goes away: the request's context is cancelled, every further
\* call fails without effect, and the handler returns.
Cancel(p) ==
    /\ p \in Requests /\ proc[p] # Idle
    /\ proc' = [proc EXCEPT ![p] = Idle]
    /\ UNCHANGED <<db, up, faults>>

\* TTLs run out in Redis, whether the service is up or not.
ExpireHeartbeat(s) ==
    /\ s \in db.beat
    /\ db' = HeartbeatExpires(db, s)
    /\ UNCHANGED <<up, proc, faults>>

ExpireHash(s) ==
    /\ HashesExpire /\ db.status[s] # "none"
    /\ db' = HashExpires(db, s)
    /\ UNCHANGED <<up, proc, faults>>

Fault == faults < MaxFaults /\ faults' = faults + 1

\* The process dies; its goroutines are gone, Redis keeps the state.
Crash ==
    /\ up /\ Fault
    /\ up' = FALSE
    /\ proc' = [p \in Procs |-> Idle]
    /\ UNCHANGED db

\* main: InitCapacity seeds a missing capacity; its error is ignored.
Start(n) ==
    /\ ~up
    /\ up' = TRUE
    /\ \/ db' = InitCapacity(db, n) /\ UNCHANGED faults
       \/ db' = db /\ Fault
    /\ UNCHANGED proc

\* Redis comes back without its data (no volume is configured for it).
RedisLosesData ==
    /\ Fault
    /\ db' = EmptyStore
    /\ UNCHANGED <<up, proc>>

-----------------------------------------------------------------------------
SessionRequest(p, o) ==
    \E s \in Sessions :
        \/ \E op \in {"root", "asset"} : Visit(p, s, op, o)
        \/ QueuePage(p, s, o)
        \/ PollPosition(p, s, o)
        \/ Heartbeat(p, s, o)
        \/ Leave(p, s, o)

AdminRequest(p, o) ==
    \/ \E n \in Capacities : SetCapacity(p, n, o)
    \/ \E n \in Releases   : ReleaseSlots(p, n, o)

HandlerStep(p, o) ==
    \/ CheckMember(p, o) \/ DropSession(p, o) \/ TryAdmit(p, o)
    \/ JoinQueue(p, o)   \/ Refresh(p, o)

Environment ==
    \/ \E p \in Requests : Cancel(p)
    \/ \E s \in Sessions : ExpireHeartbeat(s) \/ ExpireHash(s)
    \/ Crash
    \/ \E n \in Capacities : Start(n)
    \/ RedisLosesData

Next ==
    \/ \E o \in Outcomes :
          \/ \E p \in Requests : \/ SessionRequest(p, o) \/ AdminRequest(p, o)
                                 \/ HandlerStep(p, o)
          \/ \E p \in Procs : AdmitPending(p, o)
          \/ ReapStale(o)
    \/ AdmitTick
    \/ Environment

Spec == Init /\ [][Next]_vars

-----------------------------------------------------------------------------
(* Fairness. The worker's ticker fires for ever and its loop keeps making  *)
(* calls; select chooses at random between two ready ticks, so neither     *)
(* tick is passed over for ever. A TTL runs out unless it is refreshed.    *)
(* No request need ever arrive or finish. *)

WorkerCall == AdmitPending(Worker, "replied")

Fairness ==
    /\ WF_vars(WorkerCall)
    /\ SF_vars(AdmitTick)
    /\ SF_vars(ReapStale("replied"))

FairSpec == Spec /\ Fairness

-----------------------------------------------------------------------------
(* Safety. *)

\* A hash that says "active" belongs to a slot holder: every script that takes
\* a slot away deletes the hash in the same breath (gate.go:19-26 relies on it).
ActiveHashHoldsSlot ==
    \A s \in Sessions : db.status[s] = "active" => s \in db.active

\* Nobody is told to wait without being in the list: a session whose hash says
\* "queued" has an entry, although entries are removed one at a time, may be
\* duplicated, and are popped by several goroutines.
QueuedHashIsListed ==
    \A s \in Sessions : db.status[s] = "queued" => s \in Range(db.queue)

\* The number of slot holders grows only up to the limit in force, whatever
\* handlers, worker and administrator do concurrently; only lowering the limit
\* leaves more holders than it allows.
NeverGrowsPastLimit ==
    [][Cardinality(db'.active) > Limit(db')
          => Cardinality(db'.active) <= Cardinality(db.active)]_vars

\* The place of a session in line is that of its first entry (GetPosition).
Place(d, s) == Min({i \in 1 .. Len(d.queue) : d.queue[i] = s})

\* Who keeps waiting never moves back (README: refreshing the queue page
\* preserves the position), whoever joins, leaves, is reaped or admitted.
PlaceNeverWorsens ==
    [][\A s \in Sessions :
          db.status[s] = "queued" /\ db'.status[s] = "queued"
             => Place(db', s) <= Place(db, s)]_vars

-----------------------------------------------------------------------------
(* The abstract room: the slot holders are inside; the sessions that are   *)
(* told to wait and hold no slot are waiting.                              *)

Room == INSTANCE WaitingRoom WITH
            Visitors <- Sessions,
            Limits   <- Capacities \cup {DefaultCapacity},
            limit    <- Limit(db),
            inside   <- db.active,
            waiting  <- {s \in Sessions : db.status[s] = "queued"} \ db.active

\* The service implements the abstract room: a handler, a worker tick, an
\* expiry or a crash lets in at most one visitor, below the limit, and never
\* turns a holder who loses the slot into a waiter.
ImplementsRoom == Room!Spec

-----------------------------------------------------------------------------
(* Liveness. *)

SlotToGive == ~Full(db) /\ \E s \in Range(db.queue) : db.status[s] # "none"

\* A free slot and a waiting session do not coexist for ever, even when every
\* handler that should have called admitPending was cancelled: the worker
\* fills the room or empties the line.
FreeSlotIsFilled == []<>up => (SlotToGive ~> ~SlotToGive)

\* Unless admitPending never runs dry, a slot holder without a heartbeat is
\* reaped or heard of again (README: evicted within ~35 s).
GhostIsReaped ==
    []<>(up /\ proc[Worker] = Idle) =>
        \A s \in Sessions :
            (s \in db.active /\ s \notin db.beat)
                ~> (s \notin db.active \/ s \in db.beat)
=============================================================================
