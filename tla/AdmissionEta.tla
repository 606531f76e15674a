--------------------------- MODULE AdmissionEta ---------------------------
(***************************************************************************)
(* The estimated wait of the queue page: queue:timing_history and          *)
(* CalculateETA (queue-service/internal/queue/store.go).                   *)
(*                                                                         *)
(* A goroutine takes the time before it calls luaTryAdmit or luaAdmitNext  *)
(* and the script pushes that time when it runs, so times may enter the    *)
(* list out of order.  Time counts in seconds.                             *)
(***************************************************************************)
EXTENDS Integers, Sequences, SequencesExt, FiniteSetsExt, TLC

CONSTANTS
    Callers,      \* goroutines that admit sessions
    NoTime,       \* a goroutine between two calls
    MinHistory,   \* entries an estimate needs, 5
    HistoryMax,   \* entries LTRIM keeps, 100
    MaxTime,      \* bound on the clock
    MaxPosition   \* bound on the positions asked for

ASSUME EtaAssumption ==
    /\ NoTime \notin 0 .. MaxTime
    /\ MinHistory \in Nat /\ MinHistory >= 2
    /\ HistoryMax \in Nat /\ HistoryMax >= MinHistory
    /\ MaxTime \in Nat /\ MaxPosition \in Nat

VARIABLES
    clock,     \* time.Now().Unix()
    stamp,     \* per goroutine, the time its call carries
    history    \* queue:timing_history, newest push first

vars == <<clock, stamp, history>>

TypeOK ==
    /\ clock \in 0 .. MaxTime
    /\ stamp \in [Callers -> 0 .. MaxTime \cup {NoTime}]
    /\ history \in Seq(0 .. MaxTime) /\ Len(history) <= HistoryMax

Init ==
    /\ clock = 0
    /\ stamp = [p \in Callers |-> NoTime]
    /\ history = << >>

Tick ==
    /\ clock < MaxTime
    /\ clock' = clock + 1
    /\ UNCHANGED <<stamp, history>>

TakeTime(p) ==
    /\ stamp[p] = NoTime
    /\ stamp' = [stamp EXCEPT ![p] = clock]
    /\ UNCHANGED <<clock, history>>

\* Faulty: the list keeps one entry too many.
PushLoose(h, t) == SubSeq(<<t>> \o h, 1, Min({HistoryMax + 1, Len(h) + 1}))

\* LPUSH and LTRIM 0 99.
Push(h, t) == SubSeq(<<t>> \o h, 1, Min({HistoryMax, Len(h) + 1}))

\* The script admits a session: luaTryAdmit once, luaAdmitNext as often as the
\* loop of admitPending comes round, all with the same time.
Record(p) ==
    /\ stamp[p] # NoTime
    /\ history' = Push(history, stamp[p])
    /\ UNCHANGED <<clock, stamp>>

\* The call finds no slot or no one to admit, or the loop is over.
Return(p) ==
    /\ stamp[p] # NoTime
    /\ stamp' = [stamp EXCEPT ![p] = NoTime]
    /\ UNCHANGED <<clock, history>>

Next == Tick \/ \E p \in Callers : TakeTime(p) \/ Record(p) \/ Return(p)

Spec == Init /\ [][Next]_vars

-----------------------------------------------------------------------------
\* The sorted list: its i-th entry has fewer than i entries below it and at
\* least i entries up to it.
Timestamps(h) ==
    [i \in 1 .. Len(h) |->
        CHOOSE x \in Range(h) :
            /\ Cardinality({j \in 1 .. Len(h) : h[j] < x}) < i
            /\ i <= Cardinality({j \in 1 .. Len(h) : h[j] <= x})]

\* The loop over the list adds the gap to the entry before, from the second on.
Total(ts) ==
    LET total[i \in 1 .. Len(ts)] ==
            IF i = 1 THEN 0 ELSE total[i - 1] + (ts[i] - ts[i - 1])
    IN  total[Len(ts)]

\* Faulty: the gaps are taken from the list in the order of its pushes.
CalculateUnsorted(h, position) ==
    IF Len(h) < MinHistory THEN -1
    ELSE (Total(Reverse(h)) \div (Len(h) - 1)) * (position - 1)

CalculateETA(h, position) ==
    IF Len(h) < MinHistory THEN -1
    ELSE (Total(Timestamps(h)) \div (Len(h) - 1)) * (position - 1)

Times == {history[i] : i \in 1 .. Len(history)}

\* An estimate is never below zero, never shrinks with the position, is zero at
\* the head of the line and counts, for each place ahead, the mean distance
\* of the recorded admissions, whatever the order in which they were pushed.
EtaIsMeanGap ==
    \A position \in 1 .. MaxPosition :
        CalculateETA(history, position) =
            IF Len(history) < MinHistory THEN -1
            ELSE ((Max(Times) - Min(Times)) \div (Len(history) - 1)) * (position - 1)
=============================================================================
