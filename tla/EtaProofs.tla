----------------------------- MODULE EtaProofs -----------------------------
(***************************************************************************)
(* Proofs about AdmissionEta for every number of goroutines, every length  *)
(* of the history and every time.                                          *)
(***************************************************************************)
EXTENDS AdmissionEta, SequenceTheorems, FiniteSetTheorems, WellFoundedInduction, TLAPS

\* The lesser of two numbers.
LEMMA MinOfTwo ==
    ASSUME NEW a \in Nat, NEW b \in Nat
    PROVE  Min({a, b}) \in {a, b} /\ Min({a, b}) <= a /\ Min({a, b}) <= b
<1>1. \E x \in {a, b} : \A y \in {a, b} : x <= y
  <2>1. CASE a <= b
    BY <2>1
  <2>2. CASE b <= a
    BY <2>2
  <2> QED BY <2>1, <2>2
<1> QED BY <1>1 DEF Min

\* LPUSH and LTRIM put the time at the head, keep the order of the others and
\* hold the list to HistoryMax entries: only the oldest push is lost.
LEMMA PushProperties ==
    ASSUME NEW S, NEW h \in Seq(S), NEW t \in S
    PROVE  /\ Push(h, t) \in Seq(S)
           /\ Len(Push(h, t)) = IF Len(h) < HistoryMax THEN Len(h) + 1 ELSE HistoryMax
           /\ \A i \in 1 .. Len(Push(h, t)) :
                 Push(h, t)[i] = IF i = 1 THEN t ELSE h[i - 1]
<1> DEFINE n == Min({HistoryMax, Len(h) + 1})
           g == <<t>> \o h
<1>1. HistoryMax \in Nat /\ Len(h) \in Nat
  BY EtaAssumption
<1>2. /\ n \in Nat /\ n <= Len(h) + 1
      /\ n = IF Len(h) < HistoryMax THEN Len(h) + 1 ELSE HistoryMax
  <2>1. n \in {HistoryMax, Len(h) + 1} /\ n <= HistoryMax /\ n <= Len(h) + 1
    BY <1>1, MinOfTwo
  <2> HIDE DEF n
  <2> QED BY <1>1, <2>1
<1>3. /\ g \in Seq(S) /\ Len(g) = Len(h) + 1
      /\ \A i \in 1 .. Len(h) + 1 : g[i] = IF i = 1 THEN t ELSE h[i - 1]
  BY <1>1
<1> HIDE DEF n, g
<1>4. /\ SubSeq(g, 1, n) \in Seq(S) /\ Len(SubSeq(g, 1, n)) = n
      /\ \A i \in 1 .. n : SubSeq(g, 1, n)[i] = g[i]
  BY <1>1, <1>2, <1>3
<1>5. Push(h, t) = SubSeq(g, 1, n)
  BY DEF Push, g, n
<1> QED BY <1>1, <1>2, <1>3, <1>4, <1>5

\* Every recorded time is a time of the clock, and the history never outgrows
\* the bound LTRIM keeps, whichever goroutine pushes when.
THEOREM EtaTypeCorrect == Spec => []TypeOK
<1>1. Init => TypeOK
  BY EtaAssumption DEF Init, TypeOK
<1>2. TypeOK /\ [Next]_vars => TypeOK'
  <2> SUFFICES ASSUME TypeOK, [Next]_vars PROVE TypeOK'
    OBVIOUS
  <2>1. CASE Tick
    BY <2>1, EtaAssumption DEF Tick, TypeOK
  <2>2. ASSUME NEW p \in Callers, TakeTime(p) \/ Return(p)
        PROVE  TypeOK'
    BY <2>2 DEF TakeTime, Return, TypeOK
  <2>3. ASSUME NEW p \in Callers, Record(p)
        PROVE  TypeOK'
    <3> DEFINE S == 0 .. MaxTime
    <3>1. PICK t \in S : t = stamp[p]
      BY <2>3 DEF Record, TypeOK
    <3>2. history \in Seq(S)
      BY DEF TypeOK
    <3>3. history' = Push(history, t) /\ clock' = clock /\ stamp' = stamp
      BY <2>3, <3>1 DEF Record
    <3> HIDE DEF S
    <3>4. \A h \in Seq(S) : \A x \in S :
             /\ Push(h, x) \in Seq(S)
             /\ Len(Push(h, x)) = IF Len(h) < HistoryMax THEN Len(h) + 1 ELSE HistoryMax
      BY PushProperties
    <3>5. Len(history) \in Nat /\ HistoryMax \in Nat
      BY <3>2, EtaAssumption
    <3>6. history' \in Seq(S) /\ Len(history') <= HistoryMax
      BY <3>2, <3>3, <3>4, <3>5
    <3> QED BY <3>3, <3>6 DEF TypeOK, S
  <2>4. CASE UNCHANGED vars
    BY <2>4 DEF vars, TypeOK
  <2> QED BY <2>1, <2>2, <2>3, <2>4 DEF Next
<1> QED BY <1>1, <1>2, PTL DEF Spec

-----------------------------------------------------------------------------
\* A property that some natural number has, a least one has.
LEMMA LeastNatural ==
    ASSUME NEW I, I # {}, \A x \in I : x \in Nat
    PROVE  \E x \in I : \A y \in I : x <= y
<1> DEFINE R == {ss \in Nat \X Nat : ss[1] < ss[2]}
<1>1. IsWellFoundedOn(R, Nat)
  BY NatLessThanWellFounded DEF OpToRel
<1>2. I \subseteq Nat
  OBVIOUS
<1>3. PICK x \in I : \A y \in I : <<y, x>> \notin R
  <2> HIDE DEF R
  <2> QED BY <1>1, <1>2, WFMin
<1>4. ASSUME NEW y \in I PROVE x <= y
  <2>1. x \in Nat /\ y \in Nat /\ ~(y < x)
    BY <1>3
  <2> QED BY <2>1
<1> QED BY <1>4

\* The entries of a list that are below, or not above, a number.
Below(h, x) == {j \in 1 .. Len(h) : h[j] < x}
UpTo(h, x) == {j \in 1 .. Len(h) : h[j] <= x}

\* There are at most as many of them as entries.
LEMMA CountBounds ==
    ASSUME NEW n \in Nat, NEW A \in SUBSET (1 .. n)
    PROVE  /\ IsFiniteSet(A) /\ Cardinality(A) \in 0 .. n
           /\ Cardinality(A) = 0 <=> A = {}
           /\ Cardinality(A) = n => A = 1 .. n
<1>1. IsFiniteSet(1 .. n) /\ Cardinality(1 .. n) = n
  BY FS_Interval
<1>2. /\ IsFiniteSet(A) /\ Cardinality(A) <= n
      /\ Cardinality(A) = n => A = 1 .. n
  BY <1>1, FS_Subset
<1>3. Cardinality(A) \in Nat
  BY <1>2, FS_CardinalityType
<1>4. Cardinality(A) = 0 <=> A = {}
  BY <1>2, FS_EmptySet
<1>5. Cardinality(A) \in 0 .. n
  BY <1>2, <1>3
<1> QED BY <1>2, <1>4, <1>5

\* Every place of the sorted list has an entry: the least number with so many
\* entries up to it is one of them, and has fewer below it.
LEMMA EveryPlaceIsTaken ==
    ASSUME NEW h \in Seq(Nat), NEW i \in 1 .. Len(h), NEW m \in Nat,
           \A j \in 1 .. Len(h) : h[j] <= m
    PROVE  \E x \in Range(h) :
              Cardinality(Below(h, x)) < i /\ i <= Cardinality(UpTo(h, x))
<1> DEFINE n == Len(h)
           I == {x \in Nat : i <= Cardinality(UpTo(h, x))}
<1>1. n \in Nat /\ DOMAIN h = 1 .. n /\ \A j \in 1 .. n : h[j] \in Nat
  BY ElementOfSeq
<1>2. \A x \in Nat : /\ Below(h, x) \in SUBSET (1 .. n)
                     /\ UpTo(h, x) \in SUBSET (1 .. n)
  BY DEF Below, UpTo
<1> HIDE DEF n
<1>3. m \in I
  <2>1. UpTo(h, m) = 1 .. n
    BY DEF UpTo, n
  <2>2. Cardinality(UpTo(h, m)) = n
    BY <1>1, <2>1, FS_Interval
  <2> QED BY <1>1, <2>2 DEF n
<1>4. PICK x \in I : \A y \in I : x <= y
  <2>1. I # {} /\ \A y \in I : y \in Nat
    BY <1>3
  <2> HIDE DEF I
  <2> QED BY <2>1, LeastNatural
<1>5. x \in Nat /\ i <= Cardinality(UpTo(h, x))
  OBVIOUS
<1>6. Cardinality(Below(h, x)) < i
  <2>1. CASE x = 0
    <3>1. Below(h, x) = {}
      BY <2>1, <1>1 DEF Below, n
    <3>2. Cardinality(Below(h, x)) = 0
      BY <3>1, FS_EmptySet
    <3> QED BY <3>2, <1>1 DEF n
  <2>2. CASE x # 0
    <3>1. x - 1 \in Nat /\ ~(x <= x - 1)
      BY <1>5, <2>2
    <3>2. x - 1 \notin I
      BY <1>4, <3>1
    <3>3. ~(i <= Cardinality(UpTo(h, x - 1)))
      BY <3>1, <3>2
    <3>4. Below(h, x) = UpTo(h, x - 1)
      BY <1>1, <1>5 DEF Below, UpTo, n
    <3>5. Cardinality(UpTo(h, x - 1)) \in 0 .. n
      BY <1>1, <1>2, <3>1, CountBounds
    <3> QED BY <1>1, <3>3, <3>4, <3>5 DEF n
  <2> QED BY <2>1, <2>2
<1>7. x \in Range(h)
  <2>1. SUFFICES ASSUME x \notin Range(h) PROVE FALSE
    OBVIOUS
  <2>2. \A j \in 1 .. n : h[j] # x
    BY <1>1, <2>1 DEF Range
  <2>3. Below(h, x) = UpTo(h, x)
    BY <1>1, <1>5, <2>2 DEF Below, UpTo, n
  <2>4. Cardinality(Below(h, x)) \in 0 .. n
    BY <1>1, <1>2, <1>5, CountBounds
  <2> QED BY <1>1, <1>5, <1>6, <2>3, <2>4 DEF n
<1> QED BY <1>5, <1>6, <1>7

\* CalculateETA sorts the recorded times: the list keeps its length, holds
\* recorded times only, starts with an earliest one and ends with a latest one.
LEMMA TimestampsProperties ==
    ASSUME NEW h \in Seq(Nat), Len(h) >= 1, NEW m \in Nat,
           \A j \in 1 .. Len(h) : h[j] <= m
    PROVE  /\ Timestamps(h) \in Seq(Nat) /\ Len(Timestamps(h)) = Len(h)
           /\ \A i \in 1 .. Len(h) : Timestamps(h)[i] \in Range(h)
           /\ \A x \in Range(h) : /\ Timestamps(h)[1] <= x
                                  /\ x <= Timestamps(h)[Len(h)]
<1> DEFINE n == Len(h)
           ok(x, i) == Cardinality(Below(h, x)) < i /\ i <= Cardinality(UpTo(h, x))
           at(i) == CHOOSE x \in Range(h) : ok(x, i)
           ts == [i \in 1 .. n |-> at(i)]
<1>1. n \in Nat /\ n >= 1 /\ DOMAIN h = 1 .. n /\ \A j \in 1 .. n : h[j] \in Nat
  BY ElementOfSeq
<1>2. Timestamps(h) = ts
  BY DEF Timestamps, Below, UpTo
<1>3. \A i \in 1 .. n : \E x \in Range(h) : ok(x, i)
  BY EveryPlaceIsTaken
<1> HIDE DEF ok
<1>4. \A i \in 1 .. n : at(i) \in Range(h) /\ ok(at(i), i)
  BY <1>3
<1>5. Range(h) = {h[j] : j \in 1 .. n}
  BY <1>1 DEF Range
<1> HIDE DEF n, at
<1>6. \A i \in 1 .. n : at(i) \in Nat
  BY <1>1, <1>4, <1>5
<1>7. /\ ts \in Seq(Nat) /\ Len(ts) = n
      /\ \A i \in 1 .. n : ts[i] = at(i)
  <2>1. ts \in [1 .. n -> Nat]
    BY <1>6
  <2> QED BY <2>1, <1>1
<1> HIDE DEF ts
<1>8. ASSUME NEW x \in Range(h) PROVE at(1) <= x
  <2>1. 1 \in 1 .. n
    BY <1>1
  <2>2. PICK a \in Nat : a = at(1)
    BY <1>6, <2>1
  <2>3. Below(h, a) \in SUBSET (1 .. n)
    BY DEF Below, n
  <2>4. Cardinality(Below(h, a)) < 1
    BY <1>4, <2>1, <2>2 DEF ok
  <2>5. Below(h, a) = {}
    BY <1>1, <2>3, <2>4, CountBounds
  <2>6. PICK j \in 1 .. n : x = h[j]
    BY <1>5
  <2>7. ~(h[j] < a)
    BY <2>5 DEF Below, n
  <2> QED BY <1>1, <2>2, <2>6, <2>7
<1>9. ASSUME NEW x \in Range(h) PROVE x <= at(n)
  <2>1. n \in 1 .. n
    BY <1>1
  <2>2. PICK a \in Nat : a = at(n)
    BY <1>6, <2>1
  <2>3. UpTo(h, a) \in SUBSET (1 .. n)
    BY DEF UpTo, n
  <2>4. n <= Cardinality(UpTo(h, a))
    BY <1>4, <2>1, <2>2 DEF ok
  <2>5. UpTo(h, a) = 1 .. n
    BY <1>1, <2>3, <2>4, CountBounds
  <2>6. PICK j \in 1 .. n : x = h[j]
    BY <1>5
  <2>7. h[j] <= a
    BY <2>5 DEF UpTo
  <2> QED BY <2>2, <2>6, <2>7
<1>10. ts[1] = at(1) /\ ts[n] = at(n)
  BY <1>1, <1>7
<1> QED BY <1>2, <1>4, <1>7, <1>8, <1>9, <1>10 DEF n

\* The gaps of a list, added from the second entry on, leave the distance of the
\* last entry to the first.
LEMMA TotalTelescopes ==
    ASSUME NEW ts \in Seq(Nat), Len(ts) >= 1
    PROVE  Total(ts) = ts[Len(ts)] - ts[1]
<1> DEFINE n == Len(ts)
           F(t) == [i \in 1 .. n |->
                      IF i = 1 THEN 0 ELSE t[i - 1] + (ts[i] - ts[i - 1])]
           g == [i \in 1 .. n |-> ts[i] - ts[1]]
           total == CHOOSE t : t = F(t)
<1>1. n \in Nat /\ n >= 1 /\ \A i \in 1 .. n : ts[i] \in Nat
  BY ElementOfSeq
<1>2. Total(ts) = total[n]
  BY DEF Total
<1> HIDE DEF n
<1>3. g = F(g)
  <2>1. ASSUME NEW i \in 1 .. n
        PROVE  g[i] = IF i = 1 THEN 0 ELSE g[i - 1] + (ts[i] - ts[i - 1])
    <3>1. CASE i = 1
      BY <1>1, <3>1
    <3>2. CASE i # 1
      <4>1. i - 1 \in 1 .. n
        BY <1>1, <3>2
      <4>2. g[i - 1] = ts[i - 1] - ts[1] /\ g[i] = ts[i] - ts[1]
        BY <4>1
      <4>3. ts[1] \in Nat /\ ts[i] \in Nat /\ ts[i - 1] \in Nat
        BY <1>1, <4>1
      <4> HIDE DEF g
      <4> QED BY <3>2, <4>2, <4>3
    <3> QED BY <3>1, <3>2
  <2> QED BY <2>1
<1>4. total = F(total)
  <2> HIDE DEF F
  <2> QED BY <1>3
<1> HIDE DEF total
<1>5. \A i \in 1 .. n :
         total[i] = IF i = 1 THEN 0 ELSE total[i - 1] + (ts[i] - ts[i - 1])
  BY <1>4
<1>6. \A i \in 1 .. n : total[i] = ts[i] - ts[1]
  <2> DEFINE I == {i \in 1 .. n : total[i] # ts[i] - ts[1]}
  <2>1. SUFFICES ASSUME I # {} PROVE FALSE
    OBVIOUS
  <2>2. PICK k \in I : \A j \in I : k <= j
    <3>1. \A j \in I : j \in Nat
      BY <1>1
    <3> HIDE DEF I
    <3> QED BY <2>1, <3>1, LeastNatural
  <2>3. k \in 1 .. n /\ total[k] # ts[k] - ts[1]
    OBVIOUS
  <2>4. k # 1
    BY <1>1, <1>5, <2>3
  <2>5. k - 1 \in 1 .. n /\ ~(k <= k - 1)
    BY <1>1, <2>3, <2>4
  <2>6. total[k - 1] = ts[k - 1] - ts[1]
    BY <2>2, <2>5
  <2>7. total[k] = total[k - 1] + (ts[k] - ts[k - 1])
    BY <1>5, <2>3, <2>4
  <2>8. ts[1] \in Nat /\ ts[k] \in Nat /\ ts[k - 1] \in Nat
    BY <1>1, <2>3, <2>5
  <2> QED BY <2>3, <2>6, <2>7, <2>8
<1> QED BY <1>1, <1>2, <1>6 DEF n

\* What the page shows for a position, from the list alone: no estimate for a
\* short list, else the mean distance of the recorded times for each place ahead.
LEMMA EtaOfHistory ==
    ASSUME TypeOK, NEW position \in 1 .. MaxPosition
    PROVE  CalculateETA(history, position) =
              IF Len(history) < MinHistory THEN -1
              ELSE ((Max(Times) - Min(Times)) \div (Len(history) - 1)) * (position - 1)
<1> DEFINE n == Len(history)
           ts == Timestamps(history)
<1>1. CASE n < MinHistory
  BY <1>1 DEF CalculateETA
<1>2. CASE ~(n < MinHistory)
  <2>1. /\ history \in Seq(Nat) /\ n \in Nat /\ n >= 2
        /\ MaxTime \in Nat /\ \A j \in 1 .. n : history[j] <= MaxTime
    <3>1. history \in Seq(0 .. MaxTime) /\ n \in Nat
      BY DEF TypeOK
    <3>2. \A j \in 1 .. n : history[j] \in 0 .. MaxTime
      BY <3>1, ElementOfSeq
    <3>3. history \in Seq(Nat)
      BY <3>1, <3>2, EtaAssumption
    <3> QED BY <3>1, <3>2, <3>3, <1>2, EtaAssumption
  <2>2. Range(history) = Times
    BY <2>1 DEF Range, Times
  <2>3. /\ ts \in Seq(Nat) /\ Len(ts) = n
        /\ \A i \in 1 .. n : ts[i] \in Times
        /\ \A x \in Times : ts[1] <= x /\ x <= ts[n]
    <3>1. \A h \in Seq(Nat) :
             Len(h) >= 1 /\ (\A j \in 1 .. Len(h) : h[j] <= MaxTime) =>
                /\ Timestamps(h) \in Seq(Nat) /\ Len(Timestamps(h)) = Len(h)
                /\ \A i \in 1 .. Len(h) : Timestamps(h)[i] \in Range(h)
                /\ \A x \in Range(h) : /\ Timestamps(h)[1] <= x
                                       /\ x <= Timestamps(h)[Len(h)]
      BY <2>1, TimestampsProperties
    <3> QED BY <2>1, <2>2, <3>1
  <2>4. Total(ts) = ts[n] - ts[1]
    <3> HIDE DEF ts, n
    <3>1. \A u \in Seq(Nat) : Len(u) >= 1 => Total(u) = u[Len(u)] - u[1]
      BY TotalTelescopes
    <3> QED BY <2>1, <2>3, <3>1
  <2>5. ts[1] = Min(Times) /\ ts[n] = Max(Times)
    <3>1. 1 \in 1 .. n /\ n \in 1 .. n
      BY <2>1
    <3>2. ts[1] \in Times /\ ts[n] \in Times
      BY <2>3, <3>1
    <3>3. \A x \in Times : x \in Nat
      BY <2>1, ElementOfSeq DEF Times
    <3> HIDE DEF ts, n
    <3>4. /\ Min(Times) \in Times /\ \A x \in Times : Min(Times) <= x
          /\ Max(Times) \in Times /\ \A x \in Times : Max(Times) >= x
      BY <2>3, <3>2, <3>3 DEF Min, Max
    <3> QED BY <2>3, <3>2, <3>3, <3>4
  <2>6. CalculateETA(history, position) = (Total(ts) \div (n - 1)) * (position - 1)
    BY <1>2 DEF CalculateETA
  <2> QED BY <1>2, <2>4, <2>5, <2>6
<1> QED BY <1>1, <1>2

\* The estimate of the queue page is the mean distance of the recorded
\* admissions for each place ahead, in whatever order the goroutines that took
\* the times got to push them, and whatever LTRIM has dropped.
THEOREM EtaIsMean == Spec => []EtaIsMeanGap
<1>1. TypeOK => EtaIsMeanGap
  BY EtaOfHistory DEF EtaIsMeanGap
<1> QED BY <1>1, EtaTypeCorrect, PTL
=============================================================================
