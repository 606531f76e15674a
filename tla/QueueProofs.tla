---------------------------- MODULE QueueProofs ----------------------------
(***************************************************************************)
(* Proofs about QueueService for every number of sessions, requests and    *)
(* faults, every capacity and every length of the list: the invariants of  *)
(* the hashes, the limit, the places in line, and that every step is a     *)
(* step of WaitingRoom or a stutter of it.                                 *)
(***************************************************************************)
EXTENDS QueueService, FiniteSetTheorems, SequenceTheorems, TLAPS

(* The inductive invariant, as a predicate of a Redis state.               *)
Sound(d) ==
    /\ d \in Store
    /\ \A s \in Sessions : d.status[s] = "active" => s \in d.active
    /\ \A s \in Sessions : d.status[s] = "queued" =>
          \E i \in 1 .. Len(d.queue) : d.queue[i] = s

-----------------------------------------------------------------------------
(* Sequences. *)

\* A set of naturals with an element has a least one.
LEMMA MinProperties ==
    ASSUME NEW I, I # {}, \A x \in I : x \in Nat
    PROVE  Min(I) \in I /\ \A y \in I : Min(I) <= y
<1> DEFINE R == {ss \in Nat \X Nat : ss[1] < ss[2]}
<1>1. IsWellFoundedOn(R, Nat)
  BY NatLessThanWellFounded DEF OpToRel
<1>2. I \subseteq Nat
  OBVIOUS
<1>3. PICK x \in I : \A y \in I : <<y, x>> \notin R
  <2> HIDE DEF R
  <2> QED BY <1>1, <1>2, WFMin
<1>4. \A y \in I : x <= y
  <2> TAKE y \in I
  <2>1. x \in Nat /\ y \in Nat /\ ~(y < x)
    BY <1>3
  <2> QED BY <2>1
<1>5. \E z \in I : \A y \in I : z <= y
  BY <1>4
<1> QED BY <1>5 DEF Min

\* The rank of an index among finitely many grows strictly.
LEMMA RankStrict ==
    ASSUME NEW K, IsFiniteSet(K), \A x \in K : x \in Nat,
           NEW i \in K, NEW j \in K, i < j
    PROVE  Rank(K, i) < Rank(K, j)
<1> DEFINE A == {k \in K : k <= i}
           B == {k \in K : k <= j}
<1>1. IsFiniteSet(B) /\ A \subseteq B /\ A # B
  <2>1. B \subseteq K
    OBVIOUS
  <2>2. IsFiniteSet(B)
    BY <2>1, FS_Subset
  <2>3. A \subseteq B /\ j \in B /\ j \notin A
    OBVIOUS
  <2> QED BY <2>2, <2>3
<1>2. /\ IsFiniteSet(A)
      /\ Cardinality(A) <= Cardinality(B) /\ Cardinality(A) # Cardinality(B)
  <2>1. A \in SUBSET B
    BY <1>1
  <2> HIDE DEF A, B
  <2> QED BY <2>1, <1>1, FS_Subset
<1>3. Cardinality(A) \in Nat /\ Cardinality(B) \in Nat
  BY <1>1, <1>2, FS_CardinalityType
<1> QED BY <1>2, <1>3 DEF Rank

\* Every number up to the size of a finite set of naturals is the rank of an
\* element: ranks are different and there are as many as elements.
LEMMA RankOnto ==
    ASSUME NEW K, IsFiniteSet(K), \A x \in K : x \in Nat,
           NEW j \in 1 .. Cardinality(K)
    PROVE  \E i \in K : Rank(K, i) = j
<1> DEFINE n == Cardinality(K)
           r == [i \in K |-> Rank(K, i)]
           R == {r[i] : i \in K}
<1>1. n \in Nat
  BY FS_CardinalityType
<1>2. ASSUME NEW i \in K PROVE Rank(K, i) \in 1 .. n
  <2> DEFINE A == {k \in K : k <= i}
  <2>1. A \subseteq K /\ i \in A
    OBVIOUS
  <2>2. IsFiniteSet(A) /\ Cardinality(A) \in Nat /\ Cardinality(A) <= n
    BY <2>1, FS_Subset, FS_CardinalityType
  <2>3. Cardinality(A) # 0
    BY <2>1, <2>2, FS_EmptySet
  <2> QED BY <2>2, <2>3, <1>1 DEF Rank
<1>3. \A x, y \in K : r[x] = r[y] => x = y
  <2> SUFFICES ASSUME NEW x \in K, NEW y \in K, Rank(K, x) = Rank(K, y), x # y
               PROVE  FALSE
    OBVIOUS
  <2>1. x < y \/ y < x
    OBVIOUS
  <2>2. Rank(K, x) < Rank(K, y) \/ Rank(K, y) < Rank(K, x)
    BY <2>1, RankStrict
  <2>3. Rank(K, x) \in Nat /\ Rank(K, y) \in Nat
    BY <1>1, <1>2
  <2> QED BY <2>2, <2>3
<1>4. r \in Bijection(K, R)
  BY <1>3 DEF Bijection, Injection, Surjection, IsInjective
<1>5. IsFiniteSet(R) /\ Cardinality(R) = n
  BY <1>4, FS_Bijection DEF ExistsBijection
<1>6. R \subseteq 1 .. n
  BY <1>2
<1>7. IsFiniteSet(1 .. n) /\ Cardinality(1 .. n) = n
  BY <1>1, FS_Interval
<1>8. R = 1 .. n
  BY <1>5, <1>6, <1>7, <1>1, FS_Subset
<1> QED BY <1>8

\* Filtering a list gives a list, of the elements asked for, none of which moves
\* back.
LEMMA KeepInProperties ==
    ASSUME NEW S, NEW q \in Seq(S), NEW T
    PROVE  /\ KeepIn(q, T) \in Seq(S)
           /\ \A i \in 1 .. Len(q) : q[i] \in T =>
                 \E j \in 1 .. Len(KeepIn(q, T)) : j <= i /\ KeepIn(q, T)[j] = q[i]
<1> DEFINE K == PlacesIn(q, T)
           n == Cardinality(K)
           at(j) == CHOOSE i \in K : Rank(K, i) = j
<1>1. K \subseteq 1 .. Len(q) /\ Len(q) \in Nat /\ DOMAIN q = 1 .. Len(q)
  BY DEF PlacesIn
<1>2. IsFiniteSet(K) /\ n \in Nat /\ \A x \in K : x \in Nat
  <2>1. IsFiniteSet(1 .. Len(q))
    BY <1>1, FS_Interval
  <2>2. IsFiniteSet(K)
    BY <1>1, <2>1, FS_Subset
  <2> QED BY <1>1, <2>2, FS_CardinalityType
<1>3. \A j \in 1 .. n : at(j) \in K /\ Rank(K, at(j)) = j
  BY <1>2, RankOnto
<1>4. KeepIn(q, T) = [j \in 1 .. n |-> q[at(j)]]
  BY DEF KeepIn
<1>5. \A j \in 1 .. n : q[at(j)] \in S
  BY <1>1, <1>3, ElementOfSeq
<1>6. KeepIn(q, T) \in Seq(S) /\ Len(KeepIn(q, T)) = n
  <2> HIDE DEF n, at
  <2>1. [j \in 1 .. n |-> q[at(j)]] \in [1 .. n -> S]
    BY <1>5
  <2> QED BY <2>1, <1>2, <1>4
<1>7. ASSUME NEW i \in 1 .. Len(q), q[i] \in T
      PROVE  \E j \in 1 .. n : j <= i /\ KeepIn(q, T)[j] = q[i]
  <2>1. i \in K
    BY <1>1, <1>7 DEF PlacesIn
  <2>2. Rank(K, i) \in 1 .. n /\ Rank(K, i) <= i
    <3> DEFINE A == {k \in K : k <= i}
    <3>1. A \subseteq K /\ i \in A
      BY <2>1, <1>2
    <3>2. IsFiniteSet(A) /\ Cardinality(A) \in Nat /\ Cardinality(A) <= n
      BY <3>1, <1>2, FS_Subset, FS_CardinalityType
    <3>3. Cardinality(A) # 0
      BY <3>1, <3>2, FS_EmptySet
    <3>4. Cardinality(A) <= i
      <4>1. A \subseteq 1 .. i
        BY <1>1
      <4>2. IsFiniteSet(1 .. i) /\ Cardinality(1 .. i) = i
        BY <1>1, FS_Interval
      <4> QED BY <4>1, <4>2, FS_Subset
    <3> QED BY <3>2, <3>3, <3>4, <1>2 DEF Rank
  <2>3. at(Rank(K, i)) = i
    <3> DEFINE x == at(Rank(K, i))
    <3>1. x \in K /\ Rank(K, x) = Rank(K, i)
      BY <2>2, <1>3
    <3> HIDE DEF x, K, n
    <3>2. Rank(K, i) \in Nat
      BY <2>2, <1>2
    <3>a. x < i => Rank(K, x) < Rank(K, i)
      BY <3>1, <2>1, <1>2, RankStrict
    <3>b. i < x => Rank(K, i) < Rank(K, x)
      BY <3>1, <2>1, <1>2, RankStrict
    <3>3. ~(x < i) /\ ~(i < x)
      BY <3>1, <3>2, <3>a, <3>b
    <3>4. x \in Nat /\ i \in Nat
      BY <3>1, <2>1, <1>2
    <3> QED BY <3>3, <3>4 DEF x
  <2> HIDE DEF n, at
  <2> QED BY <2>2, <2>3, <1>4
<1> QED BY <1>6, <1>7

\* Taking one place out of a list keeps the elements at the other places.
LEMMA RemoveAtProperties ==
    ASSUME NEW S, NEW q \in Seq(S), NEW m \in 1 .. Len(q)
    PROVE  /\ RemoveAt(q, m) \in Seq(S)
           /\ \A i \in 1 .. Len(q) : i # m =>
                 \E j \in 1 .. Len(RemoveAt(q, m)) : j <= i /\ RemoveAt(q, m)[j] = q[i]
<1> DEFINE a == SubSeq(q, 1, m - 1)
           b == SubSeq(q, m + 1, Len(q))
<1>1. Len(q) \in Nat
  OBVIOUS
<1>2. /\ a \in Seq(S) /\ Len(a) = m - 1
      /\ \A i \in 1 .. m - 1 : a[i] = q[i]
  BY <1>1
<1>3. /\ b \in Seq(S) /\ Len(b) = Len(q) - m
      /\ \A i \in 1 .. Len(q) - m : b[i] = q[m + i]
  BY <1>1
<1> HIDE DEF a, b
<1>4. /\ a \o b \in Seq(S) /\ Len(a \o b) = Len(q) - 1
      /\ \A i \in 1 .. Len(q) - 1 :
            (a \o b)[i] = IF i <= m - 1 THEN q[i] ELSE q[i + 1]
  <2>1. /\ a \o b \in Seq(S) /\ Len(a \o b) = Len(a) + Len(b)
        /\ \A i \in 1 .. Len(a) + Len(b) :
              (a \o b)[i] = IF i <= Len(a) THEN a[i] ELSE b[i - Len(a)]
    BY <1>2, <1>3, ConcatProperties
  <2>2. Len(a) + Len(b) = Len(q) - 1
    BY <1>1, <1>2, <1>3
  <2>3. ASSUME NEW i \in 1 .. Len(q) - 1
        PROVE  (a \o b)[i] = IF i <= m - 1 THEN q[i] ELSE q[i + 1]
    <3>1. CASE i <= m - 1
      BY <1>1, <1>2, <2>1, <2>2, <3>1
    <3>2. CASE ~(i <= m - 1)
      <4>1. i - (m - 1) \in 1 .. Len(q) - m /\ m + (i - (m - 1)) = i + 1
        BY <1>1, <3>2
      <4>2. (a \o b)[i] = b[i - (m - 1)]
        BY <1>1, <1>2, <2>1, <2>2, <3>2
      <4> QED BY <1>3, <3>2, <4>1, <4>2
    <3> QED BY <3>1, <3>2
  <2> QED BY <2>1, <2>2, <2>3
<1>5. RemoveAt(q, m) = a \o b
  BY DEF RemoveAt, a, b
<1>6. ASSUME NEW i \in 1 .. Len(q), i # m
      PROVE  \E j \in 1 .. Len(q) - 1 : j <= i /\ (a \o b)[j] = q[i]
  <2>1. CASE i < m
    <3>1. i \in 1 .. Len(q) - 1 /\ i <= m - 1
      BY <2>1, <1>1
    <3> QED BY <3>1, <1>4
  <2>2. CASE i > m
    <3>1. /\ i - 1 \in 1 .. Len(q) - 1 /\ ~(i - 1 <= m - 1) /\ (i - 1) + 1 = i
          /\ i - 1 <= i
      BY <2>2, <1>1
    <3>2. (a \o b)[i - 1] = q[i]
      BY <3>1, <1>4
    <3> QED BY <3>1, <3>2
  <2>3. i \in Nat /\ m \in Nat /\ i # m
    BY <1>1, <1>6
  <2>4. i < m \/ i > m
    BY <2>3
  <2> QED BY <2>1, <2>2, <2>4
<1> QED BY <1>4, <1>5, <1>6

\* Taking the first occurrence of e out of a list keeps every other element.
LEMMA RemoveFirstProperties ==
    ASSUME NEW S, NEW q \in Seq(S), NEW e
    PROVE  /\ RemoveFirst(q, e) \in Seq(S)
           /\ \A i \in 1 .. Len(q) : q[i] # e =>
                 \E j \in 1 .. Len(RemoveFirst(q, e)) : j <= i /\ RemoveFirst(q, e)[j] = q[i]
<1> DEFINE I == {i \in 1 .. Len(q) : q[i] = e}
           m == Min(I)
<1>1. CASE I = {}
  <2>1. ~\E i \in 1 .. Len(q) : q[i] = e
    BY <1>1
  <2>2. RemoveFirst(q, e) = q
    BY <2>1 DEF RemoveFirst
  <2> QED BY <2>2
<1>2. CASE I # {}
  <2>1. m \in 1 .. Len(q) /\ q[m] = e
    BY <1>2, MinProperties
  <2>2. RemoveFirst(q, e) = RemoveAt(q, m)
    BY <1>2 DEF RemoveFirst, SelectInSeq
  <2> HIDE DEF m
  <2> QED BY <2>1, <2>2, RemoveAtProperties
<1> QED BY <1>1, <1>2

\* Dropping the first k elements of a list keeps the others.
LEMMA DropProperties ==
    ASSUME NEW S, NEW q \in Seq(S), NEW k \in Nat
    PROVE  /\ SubSeq(q, k + 1, Len(q)) \in Seq(S)
           /\ \A i \in 1 .. Len(q) : i > k =>
                 \E j \in 1 .. Len(SubSeq(q, k + 1, Len(q))) :
                    j <= i /\ SubSeq(q, k + 1, Len(q))[j] = q[i]
<1> DEFINE b == SubSeq(q, k + 1, Len(q))
<1>1. Len(q) \in Nat
  OBVIOUS
<1>2. b \in Seq(S)
  BY <1>1
<1>3. ASSUME NEW i \in 1 .. Len(q), i > k
      PROVE  \E j \in 1 .. Len(b) : j <= i /\ b[j] = q[i]
  <2>1. Len(b) = Len(q) - k
    BY <1>1, <1>3
  <2>2. i - k \in 1 .. Len(b) /\ i - k <= i /\ b[i - k] = q[i]
    BY <1>1, <1>3, <2>1
  <2> QED BY <2>2
<1> QED BY <1>2, <1>3

-----------------------------------------------------------------------------
(* Every command and script keeps the Redis state sound.                   *)

LEMMA SoundEmpty == Sound(EmptyStore)
BY StoreAssumption DEF Sound, EmptyStore, Store, Statuses

\* Deleting hashes is always harmless.
LEMMA SoundForget ==
    ASSUME NEW d, Sound(d), NEW S
    PROVE  Sound([d EXCEPT !.status = Forget(@, S)])
BY DEF Sound, Store, Forget, Statuses

LEMMA SoundCommands ==
    ASSUME NEW d, Sound(d), NEW s \in Sessions, NEW n \in Capacities
    PROVE  /\ Sound(InitCapacity(d, n))
           /\ Sound(StoreCapacity(d, n))
           /\ Sound(DeleteSession(d, s))
           /\ Sound(SetHeartbeat(d, s))
           /\ Sound(HeartbeatExpires(d, s))
           /\ Sound(HashExpires(d, s))
<1>1. Sound(InitCapacity(d, n)) /\ Sound(StoreCapacity(d, n))
  BY StoreAssumption DEF Sound, Store, InitCapacity, StoreCapacity
<1>2. Sound(DeleteSession(d, s)) /\ Sound(HashExpires(d, s))
  BY SoundForget DEF DeleteSession, HashExpires
<1>3. Sound(SetHeartbeat(d, s)) /\ Sound(HeartbeatExpires(d, s))
  BY DEF Sound, Store, SetHeartbeat, HeartbeatExpires
<1> QED BY <1>1, <1>2, <1>3

\* An admission may use up the entry of the admitted session, nobody else's.
LEMMA SoundAdmit ==
    ASSUME NEW d, d \in Store, NEW s \in Sessions,
           \A t \in Sessions : d.status[t] = "active" => t \in d.active,
           \A t \in Sessions \ {s} : d.status[t] = "queued" =>
              \E i \in 1 .. Len(d.queue) : d.queue[i] = t
    PROVE  Sound(Admit(d, s))
<1> DEFINE h == IF d.history < HistoryMax THEN d.history + 1 ELSE HistoryMax
<1>1. h \in 0 .. HistoryMax
  BY StoreAssumption DEF Store
<1>2. Admit(d, s) = [d EXCEPT !.active = @ \cup {s}, !.status[s] = "active",
                              !.history = h]
  BY DEF Admit, Store
<1> HIDE DEF h
<1>3. Admit(d, s) \in Store
  <2>1. [d.status EXCEPT ![s] = "active"] \in [Sessions -> Statuses]
    BY DEF Store, Statuses
  <2>2. d.active \cup {s} \in SUBSET Sessions
    BY DEF Store
  <2> QED BY <1>1, <1>2, <2>1, <2>2 DEF Store
<1>4. /\ Admit(d, s).active = d.active \cup {s}
      /\ Admit(d, s).queue = d.queue
      /\ \A t \in Sessions :
            Admit(d, s).status[t] = IF t = s THEN "active" ELSE d.status[t]
  BY <1>2 DEF Store
<1> QED BY <1>3, <1>4 DEF Sound

LEMMA SoundTryAdmit ==
    ASSUME NEW d, Sound(d), NEW s \in Sessions
    PROVE  Sound(LuaTryAdmit(d, s))
BY SoundAdmit DEF LuaTryAdmit, Sound

LEMMA SoundJoinQueue ==
    ASSUME NEW d, Sound(d), NEW s \in Sessions
    PROVE  Sound(LuaJoinQueue(d, s))
<1>1. CASE d.status[s] \in {"queued", "active"}
  BY <1>1 DEF LuaJoinQueue
<1>2. CASE d.status[s] \notin {"queued", "active"}
  <2> DEFINE q == Append(d.queue, s)
             e == LuaJoinQueue(d, s)
  <2>1. d.queue \in Seq(Sessions)
    BY DEF Sound, Store
  <2>2. /\ q \in Seq(Sessions) /\ Len(q) = Len(d.queue) + 1
        /\ q[Len(d.queue) + 1] = s
        /\ \A i \in 1 .. Len(d.queue) : i \in 1 .. Len(q) /\ q[i] = d.queue[i]
        /\ Len(d.queue) + 1 \in 1 .. Len(q)
    BY <2>1
  <2>3. e = [d EXCEPT !.queue = q, !.status[s] = "queued"]
    BY <1>2 DEF LuaJoinQueue, Sound, Store
  <2> HIDE DEF q, e
  <2>4. /\ e \in Store /\ e.active = d.active /\ e.queue = q
        /\ \A t \in Sessions : e.status[t] = IF t = s THEN "queued" ELSE d.status[t]
    BY <2>2, <2>3 DEF Sound, Store, Statuses
  <2>5. ASSUME NEW t \in Sessions, e.status[t] = "queued"
        PROVE  \E i \in 1 .. Len(q) : q[i] = t
    BY <2>2, <2>4, <2>5 DEF Sound
  <2>6. Sound(e)
    BY <2>4, <2>5 DEF Sound
  <2> QED BY <2>6 DEF e
<1> QED BY <1>1, <1>2

\* The entries that luaAdmitNext drops belong to nobody who waits.
LEMMA SoundAdmitNext ==
    ASSUME NEW d, Sound(d)
    PROVE  Sound(LuaAdmitNext(d))
<1> DEFINE L == LivePlaces(d)
<1>1. d \in Store /\ d.queue \in Seq(Sessions) /\ Len(d.queue) \in Nat
  BY DEF Sound, Store
<1>2. \A i \in L : i \in 1 .. Len(d.queue) /\ i \in Nat
  BY <1>1 DEF LivePlaces
<1>3. CASE Full(d)
  BY <1>3 DEF LuaAdmitNext
<1>4. CASE ~Full(d) /\ L = {}
  <2> DEFINE q == SubSeq(d.queue, MaxScan + 1, Len(d.queue))
             e == [d EXCEPT !.queue = q]
  <2>1. q \in Seq(Sessions)
    BY <1>1, StoreAssumption, DropProperties
  <2>2. ASSUME NEW t \in Sessions, d.status[t] = "queued"
        PROVE  \E j \in 1 .. Len(q) : q[j] = t
    <3>1. PICK i \in 1 .. Len(d.queue) : d.queue[i] = t
      BY <2>2 DEF Sound
    <3>2. i > MaxScan
      BY <1>1, <1>4, <2>2, <3>1, StoreAssumption DEF LivePlaces
    <3>3. MaxScan \in Nat
      BY StoreAssumption
    <3> QED BY <1>1, <3>1, <3>2, <3>3, DropProperties
  <2> HIDE DEF q
  <2>3. e \in Store /\ e.queue = q /\ e.status = d.status /\ e.active = d.active
    BY <1>1, <2>1 DEF Store
  <2>4. Sound(e)
    BY <2>2, <2>3 DEF Sound
  <2>5. LuaAdmitNext(d) = e
    BY <1>4 DEF LuaAdmitNext, q
  <2> QED BY <2>4, <2>5
<1>5. CASE ~Full(d) /\ L # {}
  <2> DEFINE m == Min(L)
             q == SubSeq(d.queue, m + 1, Len(d.queue))
             e == [d EXCEPT !.queue = q]
             s == NextInLine(d)
  <2>1. m \in L /\ \A i \in L : m <= i
    BY <1>2, <1>5, MinProperties
  <2>2. m \in Nat /\ m \in 1 .. Len(d.queue) /\ m <= MaxScan
    BY <2>1, <1>2 DEF LivePlaces
  <2>3. s \in Sessions /\ s = d.queue[m]
    BY <1>1, <2>2, ElementOfSeq DEF NextInLine
  <2>4. q \in Seq(Sessions)
    BY <1>1, <2>2, DropProperties
  <2> HIDE DEF m
  <2>5. ASSUME NEW t \in Sessions \ {s}, d.status[t] = "queued"
        PROVE  \E j \in 1 .. Len(q) : q[j] = t
    <3>1. PICK i \in 1 .. Len(d.queue) : d.queue[i] = t
      BY <2>5 DEF Sound
    <3>2. i \in Nat /\ i # m
      BY <1>1, <2>3, <2>5, <3>1
    <3>3. ~(i < m)
      <4> SUFFICES ASSUME i < m PROVE FALSE
        OBVIOUS
      <4>1. i <= MaxScan
        BY <2>2, <3>2, StoreAssumption
      <4>2. i \in L
        BY <2>5, <3>1, <4>1 DEF LivePlaces
      <4> QED BY <2>1, <2>2, <3>2, <4>2
    <3>4. i > m
      BY <2>2, <3>2, <3>3
    <3> QED BY <1>1, <2>2, <3>1, <3>4, DropProperties
  <2> HIDE DEF q, s
  <2>6. e \in Store /\ e.queue = q /\ e.status = d.status /\ e.active = d.active
    BY <1>1, <2>4 DEF Store
  <2>7. Sound(Admit(e, s))
    <3> HIDE DEF e
    <3>1. \A t \in Sessions : e.status[t] = "active" => t \in e.active
      BY <2>6 DEF Sound
    <3> QED BY <2>3, <2>5, <2>6, <3>1, SoundAdmit
  <2>8. LuaAdmitNext(d) = Admit(e, s)
    BY <1>5 DEF LuaAdmitNext, q, s, m
  <2> QED BY <2>7, <2>8
<1> QED BY <1>3, <1>4, <1>5

\* Who loses the slot loses the hash.
LEMMA SoundRelease ==
    ASSUME NEW d, Sound(d), NEW V
    PROVE  Sound(LuaRelease(d, V))
<1> DEFINE e == LuaRelease(d, V)
<1>1. /\ e \in Store /\ e.active = d.active \ V /\ e.queue = d.queue
      /\ \A t \in Sessions : e.status[t] = IF t \in V THEN "none" ELSE d.status[t]
  BY DEF LuaRelease, Forget, Sound, Store, Statuses
<1> QED BY <1>1 DEF Sound

LEMMA SoundLeave ==
    ASSUME NEW d, Sound(d), NEW s \in Sessions
    PROVE  Sound(LuaLeave(d, s))
<1> DEFINE q == IF s \in d.active THEN d.queue ELSE RemoveFirst(d.queue, s)
           e == LuaLeave(d, s)
<1>1. d \in Store /\ d.queue \in Seq(Sessions)
  BY DEF Sound, Store
<1>2. /\ q \in Seq(Sessions)
      /\ \A i \in 1 .. Len(d.queue) : d.queue[i] # s =>
            \E j \in 1 .. Len(q) : q[j] = d.queue[i]
  BY <1>1, RemoveFirstProperties
<1> HIDE DEF q
<1>3. /\ e \in Store /\ e.active = d.active \ {s} /\ e.queue = q
      /\ \A t \in Sessions : e.status[t] = IF t = s THEN "none" ELSE d.status[t]
  <2>1. e = [d EXCEPT !.active = @ \ {s}, !.queue = q,
                      !.status = Forget(d.status, {s}), !.beat = @ \ {s}]
    BY <1>1 DEF LuaLeave, q, Store
  <2>2. Forget(d.status, {s}) \in [Sessions -> Statuses]
    BY <1>1 DEF Forget, Store, Statuses
  <2>3. e \in Store
    BY <1>1, <1>2, <2>1, <2>2 DEF Store
  <2>4. e.active = d.active \ {s} /\ e.queue = q /\ e.status = Forget(d.status, {s})
    BY <1>1, <2>1 DEF Store
  <2> QED BY <2>3, <2>4 DEF Forget
<1>4. ASSUME NEW t \in Sessions, e.status[t] = "queued"
      PROVE  \E j \in 1 .. Len(q) : q[j] = t
  <2>1. t # s /\ d.status[t] = "queued"
    BY <1>3, <1>4
  <2>2. PICK i \in 1 .. Len(d.queue) : d.queue[i] = t
    BY <2>1 DEF Sound
  <2> QED BY <1>2, <2>1, <2>2
<1> QED BY <1>3, <1>4 DEF Sound

\* Whose entries the reaper removes loses the hash too.
LEMMA SoundReapStale ==
    ASSUME NEW d, Sound(d)
    PROVE  Sound(LuaReapStale(d))
<1> DEFINE q == KeepIn(d.queue, d.beat)
           e == LuaReapStale(d)
<1>1. d \in Store /\ d.queue \in Seq(Sessions)
  BY DEF Sound, Store
<1>2. /\ q \in Seq(Sessions)
      /\ \A i \in 1 .. Len(d.queue) : d.queue[i] \in d.beat =>
            \E j \in 1 .. Len(q) : q[j] = d.queue[i]
  BY <1>1, KeepInProperties
<1> HIDE DEF q
<1>3. Forget(d.status, Stale(d)) \in [Sessions -> Statuses]
  BY <1>1 DEF Forget, Store, Statuses
<1>4. e = [d EXCEPT !.active = @ \cap d.beat, !.queue = q,
                    !.status = Forget(d.status, Stale(d))]
  BY <1>1 DEF LuaReapStale, q, Store
<1>5. /\ e \in Store /\ e.active = d.active \cap d.beat /\ e.queue = q
      /\ \A t \in Sessions :
            e.status[t] = IF t \in Stale(d) THEN "none" ELSE d.status[t]
  <2>1. e \in Store
    BY <1>1, <1>2, <1>3, <1>4 DEF Store
  <2>2. /\ e.active = d.active \cap d.beat /\ e.queue = q
        /\ e.status = Forget(d.status, Stale(d))
    BY <1>1, <1>4 DEF Store
  <2> QED BY <2>1, <2>2 DEF Forget
<1> HIDE DEF e
<1>6. ASSUME NEW t \in Sessions, e.status[t] = "active"
      PROVE  t \in e.active
  <2>1. t \notin Stale(d) /\ t \in d.active
    BY <1>5, <1>6 DEF Sound
  <2> QED BY <1>5, <2>1 DEF Stale
<1>7. ASSUME NEW t \in Sessions, e.status[t] = "queued"
      PROVE  \E j \in 1 .. Len(q) : q[j] = t
  <2>1. t \notin Stale(d) /\ d.status[t] = "queued"
    BY <1>5, <1>7
  <2>2. PICK i \in 1 .. Len(d.queue) : d.queue[i] = t
    BY <2>1 DEF Sound
  <2>3. t \in Range(d.queue)
    BY <1>1, <2>2 DEF Range
  <2>4. t \in d.beat
    BY <2>1, <2>3 DEF Stale
  <2> QED BY <1>2, <2>2, <2>4
<1>8. Sound(e)
  BY <1>5, <1>6, <1>7 DEF Sound
<1> QED BY <1>8 DEF e

-----------------------------------------------------------------------------
(* The specification. *)

IInv == TypeOK /\ Sound(db)

\* A round trip keeps the invariant when the command keeps the state sound and
\* the goroutine has somewhere to go.
LEMMA CallKeepsIInv ==
    ASSUME IInv, NEW p \in Procs, NEW o \in Outcomes, NEW after, NEW g, NEW h,
           Sound(after), g \in Goroutine, h \in Goroutine,
           Call(p, o, after, g, h)
    PROVE  IInv'
<1>1. Sound(db')
  BY DEF Call, IInv
<1>2. faults' \in 0 .. MaxFaults /\ up' \in BOOLEAN
  BY ServiceAssumption DEF Call, IInv, TypeOK
<1>3. proc' \in [Procs -> Goroutine]
  <2>1. proc' = [proc EXCEPT ![p] = g] \/ proc' = [proc EXCEPT ![p] = h] \/ proc' = proc
    BY DEF Call, IInv, TypeOK, Outcomes
  <2> QED BY <2>1 DEF IInv, TypeOK
<1> QED BY <1>1, <1>2, <1>3 DEF IInv, TypeOK, Sound

\* The goroutine states the handlers move to.
LEMMA Destinations ==
    /\ Idle \in Goroutine /\ Admitting \in Goroutine
    /\ \A s \in Sessions, op \in Ops :
          /\ Gate(op, s) \in Goroutine
          /\ \A l \in {"member", "delete", "try", "join", "beat", "seed"} :
                At(l, op, s) \in Goroutine
BY DEF Idle, Admitting, Gate, At, Goroutine, Ops

\* A goroutine that is neither at rest nor admitting serves a session.
LEMMA SessionAtHand ==
    ASSUME TypeOK, NEW p \in Procs, proc[p].at \notin {"idle", "admit"}
    PROVE  proc[p].sid \in Sessions /\ proc[p].op \in Ops
<1>1. proc[p] \in Goroutine
  BY DEF TypeOK
<1> QED BY <1>1 DEF Goroutine

\* Requests that arrive.
LEMMA ArrivalsKeepIInv ==
    ASSUME IInv, NEW p \in Requests, NEW o \in Outcomes,
           SessionRequest(p, o) \/ AdminRequest(p, o)
    PROVE  IInv'
<1> USE Destinations, CallKeepsIInv
<1>1. p \in Procs /\ Sound(db)
  BY DEF Procs, IInv
<1>2. ASSUME NEW s \in Sessions, NEW op \in {"root", "asset"}, Visit(p, s, op, o)
      PROVE  IInv'
  <2>1. op \in Ops
    BY DEF Ops
  <2> QED BY <1>1, <1>2, <2>1 DEF Visit
<1>3. ASSUME NEW s \in Sessions, QueuePage(p, s, o)
      PROVE  IInv'
  BY <1>1, <1>3 DEF QueuePage, Ops
<1>4. ASSUME NEW s \in Sessions, PollPosition(p, s, o)
      PROVE  IInv'
  BY <1>1, <1>4 DEF PollPosition, Ops
<1>5. ASSUME NEW s \in Sessions, Heartbeat(p, s, o)
      PROVE  IInv'
  BY <1>1, <1>5 DEF Heartbeat, Ops
<1>6. ASSUME NEW s \in Sessions, Leave(p, s, o)
      PROVE  IInv'
  BY <1>1, <1>6, SoundLeave DEF Leave
<1>7. ASSUME NEW n \in Capacities, SetCapacity(p, n, o)
      PROVE  IInv'
  <2>1. Sound(StoreCapacity(db, n))
    BY <1>1, StoreAssumption DEF StoreCapacity, Sound, Store
  <2> QED BY <1>1, <1>7, <2>1 DEF SetCapacity
<1>8. ASSUME NEW n \in Releases, ReleaseSlots(p, n, o)
      PROVE  IInv'
  BY <1>1, <1>8, SoundRelease DEF ReleaseSlots
<1> QED BY <1>2, <1>3, <1>4, <1>5, <1>6, <1>7, <1>8
        DEF SessionRequest, AdminRequest

\* Handlers and the worker go on.
LEMMA StepsKeepIInv ==
    ASSUME IInv, NEW p \in Procs, NEW o \in Outcomes,
           HandlerStep(p, o) \/ AdmitPending(p, o) \/ ReapStale(o)
    PROVE  IInv'
<1> DEFINE s == proc[p].sid
           op == proc[p].op
<1>1. TypeOK /\ Sound(db)
  BY DEF IInv
<1>2. CASE CheckMember(p, o)
  <2>1. s \in Sessions /\ op \in Ops
    BY <1>1, <1>2, SessionAtHand DEF CheckMember, Stands
  <2> QED BY <1>1, <1>2, <2>1, Destinations, CallKeepsIInv DEF CheckMember, Ops
<1>3. CASE DropSession(p, o)
  <2>1. s \in Sessions /\ op \in Ops
    BY <1>1, <1>3, SessionAtHand DEF DropSession, Stands
  <2>2. Sound(DeleteSession(db, s))
    BY <1>1, SoundForget DEF DeleteSession
  <2> QED BY <1>3, <2>1, <2>2, Destinations, CallKeepsIInv DEF DropSession
<1>4. CASE TryAdmit(p, o)
  <2>1. s \in Sessions /\ op \in Ops
    BY <1>1, <1>4, SessionAtHand DEF TryAdmit, Stands
  <2> QED BY <1>1, <1>4, <2>1, SoundTryAdmit, Destinations, CallKeepsIInv DEF TryAdmit
<1>5. CASE JoinQueue(p, o)
  <2>1. s \in Sessions /\ op \in Ops
    BY <1>1, <1>5, SessionAtHand DEF JoinQueue, Stands
  <2> QED BY <1>1, <1>5, <2>1, SoundJoinQueue, Destinations, CallKeepsIInv DEF JoinQueue
<1>6. CASE Refresh(p, o)
  <2>1. s \in Sessions
    BY <1>1, <1>6, SessionAtHand DEF Refresh, Stands
  <2>2. Sound(SetHeartbeat(db, s))
    BY <1>1, <2>1 DEF Sound, Store, SetHeartbeat
  <2> QED BY <1>6, <2>2, Destinations, CallKeepsIInv DEF Refresh
<1>7. CASE AdmitNext(p, o)
  <2>1. CanAdmitNext(db) => NextInLine(db) \in Sessions
    <3>1. db.queue \in Seq(Sessions) /\ \A i \in LivePlaces(db) : i \in 1 .. Len(db.queue) /\ i \in Nat
      BY <1>1 DEF Sound, Store, LivePlaces
    <3>2. CanAdmitNext(db) => Min(LivePlaces(db)) \in 1 .. Len(db.queue)
      BY <3>1, MinProperties DEF CanAdmitNext
    <3> QED BY <3>1, <3>2, ElementOfSeq DEF NextInLine
  <2>2. Sound(LuaAdmitNext(db)) /\ "none" \in Ops
    BY <1>1, SoundAdmitNext DEF Ops
  <2> QED BY <1>7, <2>1, <2>2, Destinations, CallKeepsIInv DEF AdmitNext
<1>8. CASE SeedHeartbeat(p, o)
  <2>1. s \in Sessions
    BY <1>1, <1>8, SessionAtHand DEF SeedHeartbeat, Stands
  <2>2. Sound(SetHeartbeat(db, s))
    BY <1>1, <2>1 DEF Sound, Store, SetHeartbeat
  <2> QED BY <1>8, <2>2, Destinations, CallKeepsIInv DEF SeedHeartbeat
<1>9. CASE ReapStale(o)
  <2>1. Worker \in Procs
    BY DEF Procs
  <2> QED BY <1>1, <1>9, <2>1, SoundReapStale, Destinations, CallKeepsIInv DEF ReapStale
<1> QED BY <1>2, <1>3, <1>4, <1>5, <1>6, <1>7, <1>8, <1>9
        DEF HandlerStep, AdmitPending

\* Ticks, cancellations, expiry, crashes, restarts and losses.
LEMMA EnvironmentKeepsIInv ==
    ASSUME IInv, AdmitTick \/ Environment
    PROVE  IInv'
<1>1. TypeOK /\ Sound(db)
  BY DEF IInv
<1>2. CASE AdmitTick
  BY <1>1, <1>2, Destinations DEF AdmitTick, IInv, TypeOK
<1>3. ASSUME NEW p \in Requests, Cancel(p)
      PROVE  IInv'
  BY <1>1, <1>3, Destinations DEF Cancel, IInv, TypeOK
<1>4. ASSUME NEW s \in Sessions, ExpireHeartbeat(s)
      PROVE  IInv'
  <2>1. Sound(db')
    BY <1>1, <1>4 DEF ExpireHeartbeat, HeartbeatExpires, Sound, Store
  <2> QED BY <1>1, <1>4, <2>1 DEF ExpireHeartbeat, IInv, TypeOK, Sound
<1>5. ASSUME NEW s \in Sessions, ExpireHash(s)
      PROVE  IInv'
  <2>1. Sound(db')
    BY <1>1, <1>5, SoundForget DEF ExpireHash, HashExpires
  <2> QED BY <1>1, <1>5, <2>1 DEF ExpireHash, IInv, TypeOK, Sound
<1>6. CASE Crash
  <2>1. proc' = [q \in Procs |-> Idle] /\ Idle \in Goroutine
    BY <1>6, Destinations DEF Crash
  <2>2. faults' \in 0 .. MaxFaults /\ db' = db
    BY <1>1, <1>6, ServiceAssumption DEF Crash, Fault, TypeOK
  <2>b. up' \in BOOLEAN
    BY <1>6 DEF Crash
  <2>3. proc' \in [Procs -> Goroutine]
    BY <2>1
  <2> QED BY <1>1, <2>2, <2>3, <2>b DEF IInv, TypeOK
<1>7. ASSUME NEW n \in Capacities, Start(n)
      PROVE  IInv'
  <2>1. Sound(InitCapacity(db, n))
    BY <1>1, StoreAssumption DEF InitCapacity, Sound, Store
  <2>2. Sound(db') /\ faults' \in 0 .. MaxFaults
    BY <1>1, <1>7, <2>1, ServiceAssumption DEF Start, Fault, TypeOK
  <2> QED BY <1>1, <1>7, <2>2 DEF Start, IInv, TypeOK, Sound
<1>8. CASE RedisLosesData
  <2>1. Sound(db')
    BY <1>8, SoundEmpty DEF RedisLosesData
  <2> QED BY <1>1, <1>8, <2>1, ServiceAssumption
          DEF RedisLosesData, Fault, IInv, TypeOK, Sound
<1> QED BY <1>2, <1>3, <1>4, <1>5, <1>6, <1>7, <1>8 DEF Environment

\* The inductive invariant holds in every reachable state.
THEOREM Invariance == Spec => []IInv
<1>1. Init => IInv
  <2> SUFFICES ASSUME Init PROVE IInv
    OBVIOUS
  <2>1. Sound(db)
    BY SoundEmpty DEF Init
  <2>a. proc = [q \in Procs |-> Idle] /\ Idle \in Goroutine
    BY Destinations DEF Init
  <2>2. proc \in [Procs -> Goroutine]
    BY <2>a
  <2>3. faults \in 0 .. MaxFaults
    BY ServiceAssumption DEF Init
  <2>b. up \in BOOLEAN
    BY DEF Init
  <2> QED BY <2>1, <2>2, <2>3, <2>b DEF IInv, TypeOK, Sound
<1>2. IInv /\ [Next]_vars => IInv'
  <2> SUFFICES ASSUME IInv, [Next]_vars PROVE IInv'
    OBVIOUS
  <2>1. CASE UNCHANGED vars
    BY <2>1 DEF vars, IInv, TypeOK, Sound
  <2>2. CASE Next
    <3>1. \A p \in Requests : p \in Procs
      BY DEF Procs
    <3>2. ASSUME NEW o \in Outcomes, NEW p \in Requests,
                 SessionRequest(p, o) \/ AdminRequest(p, o)
          PROVE  IInv'
      BY <3>2, ArrivalsKeepIInv
    <3>3. ASSUME NEW o \in Outcomes, NEW p \in Procs,
                 HandlerStep(p, o) \/ AdmitPending(p, o) \/ ReapStale(o)
          PROVE  IInv'
      BY <3>3, StepsKeepIInv
    <3>4. CASE AdmitTick \/ Environment
      BY <3>4, EnvironmentKeepsIInv
    <3>5. Worker \in Procs
      BY DEF Procs
    <3> QED BY <2>2, <3>1, <3>2, <3>3, <3>4, <3>5 DEF Next
  <2> QED BY <2>1, <2>2
<1> QED BY <1>1, <1>2, PTL DEF Spec

\* Type correctness, including that every goroutine about to act for a session
\* has one at hand.
THEOREM TypeCorrect == Spec => []TypeOK
BY Invariance, PTL DEF IInv

\* A hash that says "active" always belongs to a slot holder.
THEOREM ActiveHashTheorem == Spec => []ActiveHashHoldsSlot
<1>1. IInv => ActiveHashHoldsSlot
  BY DEF IInv, Sound, ActiveHashHoldsSlot
<1> QED BY <1>1, Invariance, PTL

\* A hash that says "queued" always has an entry in the list.
THEOREM QueuedHashTheorem == Spec => []QueuedHashIsListed
<1>1. IInv => QueuedHashIsListed
  <2> SUFFICES ASSUME IInv, NEW s \in Sessions, db.status[s] = "queued"
               PROVE  s \in Range(db.queue)
    BY DEF QueuedHashIsListed
  <2>1. db.queue \in Seq(Sessions)
    BY DEF IInv, Sound, Store
  <2>2. PICK i \in 1 .. Len(db.queue) : db.queue[i] = s
    BY DEF IInv, Sound
  <2> QED BY <2>1, <2>2 DEF Range
<1> QED BY <1>1, Invariance, PTL

-----------------------------------------------------------------------------
(* What a step does to the Redis state.                                    *)

\* The commands and scripts that take the state d to e.
Effect(d, e) ==
    \/ e = d
    \/ \E s \in Sessions : \/ e = LuaTryAdmit(d, s) \/ e = LuaJoinQueue(d, s)
                           \/ e = LuaLeave(d, s)    \/ e = DeleteSession(d, s)
                           \/ e = SetHeartbeat(d, s) \/ e = HeartbeatExpires(d, s)
                           \/ e = HashExpires(d, s)
    \/ \E n \in Capacities : e = StoreCapacity(d, n) \/ e = InitCapacity(d, n)
    \/ \E V \in SUBSET d.active : e = LuaRelease(d, V)
    \/ e = LuaAdmitNext(d)
    \/ e = LuaReapStale(d)
    \/ e = EmptyStore

\* Whatever a goroutine does and however its call fares, the state changes by
\* one command or script, or by none.
LEMMA StoreStep ==
    ASSUME IInv, [Next]_vars
    PROVE  Effect(db, db')
<1>1. TypeOK /\ Sound(db) /\ db \in Store
  BY DEF IInv, Sound
<1>2. Effect(db, db)
  BY DEF Effect
<1>3. ASSUME NEW p, NEW o, NEW after, NEW g, NEW h, Call(p, o, after, g, h),
             Effect(db, after)
      PROVE  Effect(db, db')
  BY <1>2, <1>3 DEF Call
<1>a. \A s \in Sessions : /\ Effect(db, LuaTryAdmit(db, s)) /\ Effect(db, LuaJoinQueue(db, s))
                          /\ Effect(db, LuaLeave(db, s)) /\ Effect(db, DeleteSession(db, s))
                          /\ Effect(db, SetHeartbeat(db, s))
  BY DEF Effect
<1>b. Effect(db, LuaAdmitNext(db)) /\ Effect(db, LuaReapStale(db))
  BY DEF Effect
<1>4. ASSUME NEW p \in Requests, NEW o \in Outcomes, SessionRequest(p, o)
      PROVE  Effect(db, db')
  <2>1. PICK s \in Sessions : \/ \E op \in {"root", "asset"} : Visit(p, s, op, o)
                              \/ QueuePage(p, s, o) \/ PollPosition(p, s, o)
                              \/ Heartbeat(p, s, o) \/ Leave(p, s, o)
    BY <1>4 DEF SessionRequest
  <2>2. CASE Leave(p, s, o)
    BY <1>3, <1>a, <2>2 DEF Leave
  <2>3. CASE ~Leave(p, s, o)
    <3>1. db' = db
      BY <2>1, <2>3 DEF Visit, QueuePage, PollPosition, Heartbeat, Call
    <3> QED BY <1>2, <3>1
  <2> QED BY <2>2, <2>3
<1>5. ASSUME NEW p \in Requests, NEW o \in Outcomes, AdminRequest(p, o)
      PROVE  Effect(db, db')
  <2>1. ASSUME NEW n \in Capacities, SetCapacity(p, n, o)
        PROVE  Effect(db, db')
    <3>1. Effect(db, StoreCapacity(db, n))
      BY DEF Effect
    <3> QED BY <1>3, <2>1, <3>1 DEF SetCapacity
  <2>2. ASSUME NEW n \in Releases, ReleaseSlots(p, n, o)
        PROVE  Effect(db, db')
    <3>1. \A V \in ReleaseChoices(db, n) : Effect(db, LuaRelease(db, V))
      BY DEF Effect, ReleaseChoices
    <3> QED BY <1>3, <2>2, <3>1 DEF ReleaseSlots
  <2> QED BY <1>5, <2>1, <2>2 DEF AdminRequest
<1>6. ASSUME NEW p \in Procs, NEW o \in Outcomes, HandlerStep(p, o)
      PROVE  Effect(db, db')
  <2> DEFINE s == proc[p].sid
  <2>1. s \in Sessions
    BY <1>1, <1>6, SessionAtHand
       DEF HandlerStep, CheckMember, DropSession, TryAdmit, JoinQueue, Refresh, Stands
  <2>2. CASE CheckMember(p, o)
    BY <1>2, <1>3, <2>2 DEF CheckMember
  <2>3. CASE DropSession(p, o)
    BY <1>3, <1>a, <2>1, <2>3 DEF DropSession
  <2>4. CASE TryAdmit(p, o)
    BY <1>3, <1>a, <2>1, <2>4 DEF TryAdmit
  <2>5. CASE JoinQueue(p, o)
    BY <1>3, <1>a, <2>1, <2>5 DEF JoinQueue
  <2>6. CASE Refresh(p, o)
    BY <1>3, <1>a, <2>1, <2>6 DEF Refresh
  <2> QED BY <1>6, <2>2, <2>3, <2>4, <2>5, <2>6 DEF HandlerStep
<1>7. ASSUME NEW p \in Procs, NEW o \in Outcomes, AdmitPending(p, o) \/ ReapStale(o)
      PROVE  Effect(db, db')
  <2>1. CASE AdmitNext(p, o)
    BY <1>3, <1>b, <2>1 DEF AdmitNext
  <2>2. CASE SeedHeartbeat(p, o)
    <3>1. proc[p].sid \in Sessions
      BY <1>1, <2>2, SessionAtHand DEF SeedHeartbeat, Stands
    <3> QED BY <1>3, <1>a, <2>2, <3>1 DEF SeedHeartbeat
  <2>3. CASE ReapStale(o)
    BY <1>3, <1>b, <2>3 DEF ReapStale
  <2> QED BY <1>7, <2>1, <2>2, <2>3 DEF AdmitPending
<1>8. CASE AdmitTick \/ Environment
  <2>1. ASSUME NEW s \in Sessions, ExpireHeartbeat(s) \/ ExpireHash(s)
        PROVE  Effect(db, db')
    BY <2>1 DEF ExpireHeartbeat, ExpireHash, Effect
  <2>2. ASSUME NEW n \in Capacities, Start(n)
        PROVE  Effect(db, db')
    BY <2>2 DEF Start, Effect
  <2>3. CASE RedisLosesData
    BY <2>3 DEF RedisLosesData, Effect
  <2>4. CASE AdmitTick \/ Crash \/ \E p \in Requests : Cancel(p)
    BY <1>2, <2>4 DEF AdmitTick, Crash, Cancel
  <2> QED BY <1>8, <2>1, <2>2, <2>3, <2>4 DEF Environment
<1>9. Worker \in Procs /\ \A p \in Requests : p \in Procs
  BY DEF Procs
<1>10. CASE UNCHANGED vars
  BY <1>2, <1>10 DEF vars
<1> QED BY <1>4, <1>5, <1>6, <1>7, <1>8, <1>9, <1>10 DEF Next

-----------------------------------------------------------------------------
(* The limit. *)

\* From d to e the room does not grow, or it stays within the limit.
WithinLimit(d, e) ==
    e.active \subseteq d.active \/ Cardinality(e.active) <= Limit(e)

LEMMA AdmitWithinLimit ==
    ASSUME NEW d, d \in Store, ~Full(d), NEW s \in Sessions
    PROVE  Cardinality(Admit(d, s).active) <= Limit(Admit(d, s))
<1> DEFINE e == Admit(d, s)
<1>1. e.active = d.active \cup {s} /\ e.capacity = d.capacity
  BY DEF Admit, Store
<1>2. IsFiniteSet(d.active)
  BY StoreAssumption, FS_Subset DEF Store
<1>3. /\ Cardinality(d.active) \in Nat /\ Cardinality(e.active) \in Nat
      /\ Cardinality(e.active) <= Cardinality(d.active) + 1
  <2> DEFINE a == d.active
             b == d.active \cup {s}
  <2>1. IsFiniteSet(a) /\ e.active = b
    BY <1>1, <1>2
  <2>2. IsFiniteSet(b) /\ Cardinality(b) = IF s \in a THEN Cardinality(a) ELSE Cardinality(a) + 1
    BY <2>1, FS_AddElement
  <2>3. Cardinality(a) \in Nat /\ Cardinality(b) \in Nat
    BY <2>1, <2>2, FS_CardinalityType
  <2> HIDE DEF a, b, e
  <2>4. Cardinality(b) <= Cardinality(a) + 1
    BY <2>2, <2>3
  <2> QED BY <2>1, <2>3, <2>4 DEF a
<1>4. Limit(d) \in Nat /\ Limit(e) = Limit(d)
  BY <1>1, StoreAssumption DEF Limit, Store
<1>5. Cardinality(d.active) < Limit(d)
  BY <1>3, <1>4 DEF Full
<1> HIDE DEF e
<1>6. Cardinality(e.active) <= Limit(e)
  BY <1>3, <1>4, <1>5
<1> QED BY <1>6 DEF e

LEMMA ScriptsWithinLimit ==
    ASSUME NEW d, Sound(d), NEW s \in Sessions
    PROVE  /\ WithinLimit(d, LuaTryAdmit(d, s))
           /\ WithinLimit(d, LuaJoinQueue(d, s))
           /\ WithinLimit(d, LuaLeave(d, s))
           /\ WithinLimit(d, DeleteSession(d, s))
           /\ WithinLimit(d, SetHeartbeat(d, s))
<1>1. d \in Store
  BY DEF Sound
<1>2. WithinLimit(d, LuaTryAdmit(d, s))
  BY <1>1, AdmitWithinLimit DEF LuaTryAdmit, WithinLimit
<1>3. WithinLimit(d, LuaJoinQueue(d, s))
  BY <1>1 DEF LuaJoinQueue, WithinLimit, Store
<1>4. WithinLimit(d, LuaLeave(d, s))
  BY <1>1 DEF LuaLeave, WithinLimit, Store
<1>5. WithinLimit(d, DeleteSession(d, s)) /\ WithinLimit(d, SetHeartbeat(d, s))
  BY <1>1 DEF DeleteSession, SetHeartbeat, WithinLimit, Store
<1> QED BY <1>2, <1>3, <1>4, <1>5

LEMMA WorkerWithinLimit ==
    ASSUME NEW d, Sound(d)
    PROVE  /\ WithinLimit(d, LuaAdmitNext(d))
           /\ WithinLimit(d, LuaReapStale(d))
<1>1. d \in Store /\ d.queue \in Seq(Sessions)
  BY DEF Sound, Store
<1>2. WithinLimit(d, LuaReapStale(d))
  BY <1>1 DEF LuaReapStale, WithinLimit, Store
<1>3. CASE Full(d) \/ LivePlaces(d) = {}
  <2>1. LuaAdmitNext(d).active = d.active
    BY <1>1, <1>3 DEF LuaAdmitNext, Store
  <2> QED BY <1>2, <2>1 DEF WithinLimit
<1>4. CASE ~Full(d) /\ LivePlaces(d) # {}
  <2> DEFINE m == Min(LivePlaces(d))
             e == [d EXCEPT !.queue = SubSeq(@, m + 1, Len(@))]
  <2>1. \A i \in LivePlaces(d) : i \in 1 .. Len(d.queue) /\ i \in Nat
    BY <1>1 DEF LivePlaces
  <2>2. m \in 1 .. Len(d.queue) /\ m \in Nat
    BY <1>4, <2>1, MinProperties
  <2>3. NextInLine(d) \in Sessions
    BY <1>1, <2>2, ElementOfSeq DEF NextInLine
  <2>4. LuaAdmitNext(d) = Admit(e, NextInLine(d))
    BY <1>1, <1>4 DEF LuaAdmitNext
  <2> HIDE DEF m
  <2>5. SubSeq(d.queue, m + 1, Len(d.queue)) \in Seq(Sessions)
    BY <1>1, <2>2, DropProperties
  <2>6. e \in Store /\ e.active = d.active /\ e.capacity = d.capacity
    BY <1>1, <2>5 DEF Store
  <2>7. ~Full(e)
    BY <1>4, <2>6 DEF Full, Limit
  <2> HIDE DEF e
  <2>8. Cardinality(Admit(e, NextInLine(d)).active) <= Limit(Admit(e, NextInLine(d)))
    BY <2>3, <2>6, <2>7, AdmitWithinLimit
  <2>9. WithinLimit(d, LuaAdmitNext(d))
    BY <2>4, <2>8 DEF WithinLimit
  <2> QED BY <1>2, <2>9
<1> QED BY <1>2, <1>3, <1>4

\* A step of the service keeps the room within the limit, or does not grow it.
LEMMA StepWithinLimit ==
    ASSUME NEW d, Sound(d), NEW e, Effect(d, e)
    PROVE  WithinLimit(d, e)
<1>1. d \in Store
  BY DEF Sound
<1>2. ASSUME NEW s \in Sessions, \/ e = LuaTryAdmit(d, s) \/ e = LuaJoinQueue(d, s)
                                 \/ e = LuaLeave(d, s)    \/ e = DeleteSession(d, s)
                                 \/ e = SetHeartbeat(d, s)
      PROVE  WithinLimit(d, e)
  BY <1>2, ScriptsWithinLimit
<1>3. ASSUME NEW s \in Sessions, e = HeartbeatExpires(d, s) \/ e = HashExpires(d, s)
      PROVE  WithinLimit(d, e)
  BY <1>1, <1>3 DEF HeartbeatExpires, HashExpires, WithinLimit, Store
<1>4. ASSUME NEW n \in Capacities, e = StoreCapacity(d, n) \/ e = InitCapacity(d, n)
      PROVE  WithinLimit(d, e)
  BY <1>1, <1>4 DEF StoreCapacity, InitCapacity, WithinLimit, Store
<1>5. ASSUME NEW V \in SUBSET d.active, e = LuaRelease(d, V)
      PROVE  WithinLimit(d, e)
  BY <1>1, <1>5 DEF WithinLimit, LuaRelease, Store
<1>6. CASE e = LuaAdmitNext(d) \/ e = LuaReapStale(d)
  BY <1>6, WorkerWithinLimit
<1>7. CASE e = d \/ e = EmptyStore
  BY <1>7 DEF WithinLimit, EmptyStore
<1> QED BY <1>2, <1>3, <1>4, <1>5, <1>6, <1>7 DEF Effect

\* The number of slot holders never grows past the limit in force.
THEOREM LimitTheorem == Spec => NeverGrowsPastLimit
<1>1. IInv /\ IInv' /\ [Next]_vars =>
         [Cardinality(db'.active) > Limit(db')
             => Cardinality(db'.active) <= Cardinality(db.active)]_vars
  <2> SUFFICES ASSUME IInv, IInv', Next, Cardinality(db'.active) > Limit(db')
               PROVE  Cardinality(db'.active) <= Cardinality(db.active)
    OBVIOUS
  <2>1. /\ IsFiniteSet(db.active) /\ IsFiniteSet(db'.active)
        /\ Cardinality(db'.active) \in Nat /\ Limit(db') \in Nat
    <3>1. db \in Store /\ db' \in Store
      BY DEF IInv, TypeOK
    <3>2. db.active \in SUBSET Sessions /\ db'.active \in SUBSET Sessions
      BY <3>1 DEF Store
    <3>3. IsFiniteSet(db.active) /\ IsFiniteSet(db'.active)
      BY <3>2, StoreAssumption, FS_Subset
    <3>4. Limit(db') \in Nat
      BY <3>1, StoreAssumption DEF Limit, Store
    <3> QED BY <3>3, <3>4, FS_CardinalityType
  <2>2. db'.active \subseteq db.active
    <3>1. Sound(db) /\ Effect(db, db')
      BY StoreStep DEF IInv
    <3>2. WithinLimit(db, db')
      BY <3>1, StepWithinLimit
    <3> QED BY <2>1, <3>2 DEF WithinLimit
  <2> QED BY <2>1, <2>2, FS_Subset
<1> QED BY <1>1, Invariance, PTL DEF Spec, NeverGrowsPastLimit

-----------------------------------------------------------------------------
(* Places in line.                                                         *)

\* From d to e, who keeps waiting keeps every entry, at the same place or
\* further ahead.
KeepsPlaces(d, e) ==
    \A s \in Sessions : d.status[s] = "queued" /\ e.status[s] = "queued" =>
        \A i \in 1 .. Len(d.queue) : d.queue[i] = s =>
            \E j \in 1 .. Len(e.queue) : j <= i /\ e.queue[j] = s

LEMMA SameQueueKeepsPlaces ==
    ASSUME NEW d, d \in Store, NEW e, e.queue = d.queue
    PROVE  KeepsPlaces(d, e)
<1>1. Len(d.queue) \in Nat
  BY DEF Store
<1> QED BY <1>1 DEF KeepsPlaces

\* Who joins goes behind everybody.
LEMMA JoinKeepsPlaces ==
    ASSUME NEW d, d \in Store, NEW s \in Sessions
    PROVE  KeepsPlaces(d, LuaJoinQueue(d, s))
<1> DEFINE q == Append(d.queue, s)
           e == LuaJoinQueue(d, s)
<1>1. CASE e = d
  BY <1>1, SameQueueKeepsPlaces
<1>2. CASE e # d
  <2>1. d.queue \in Seq(Sessions) /\ Len(d.queue) \in Nat
    BY DEF Store
  <2>2. \A i \in 1 .. Len(d.queue) : i \in 1 .. Len(q) /\ i <= i /\ q[i] = d.queue[i]
    BY <2>1
  <2>3. e.queue = q
    BY <1>2 DEF LuaJoinQueue, Store
  <2> HIDE DEF q, e
  <2>4. KeepsPlaces(d, e)
    BY <2>2, <2>3 DEF KeepsPlaces
  <2> QED BY <2>4 DEF e
<1> QED BY <1>1, <1>2

\* Who leaves takes nobody else's entry away.
LEMMA LeaveKeepsPlaces ==
    ASSUME NEW d, d \in Store, NEW s \in Sessions
    PROVE  KeepsPlaces(d, LuaLeave(d, s))
<1> DEFINE q == IF s \in d.active THEN d.queue ELSE RemoveFirst(d.queue, s)
           e == LuaLeave(d, s)
<1>1. d.queue \in Seq(Sessions) /\ Len(d.queue) \in Nat
  BY DEF Store
<1>2. \A i \in 1 .. Len(d.queue) : d.queue[i] # s =>
         \E j \in 1 .. Len(q) : j <= i /\ q[j] = d.queue[i]
  <2>1. CASE s \in d.active
    BY <1>1, <2>1
  <2>2. CASE s \notin d.active
    BY <1>1, <2>2, RemoveFirstProperties
  <2> QED BY <2>1, <2>2
<1>3. e.queue = q
  BY DEF LuaLeave, Store
<1>4. e.status[s] = "none"
  BY DEF LuaLeave, Forget, Store
<1> HIDE DEF q, e
<1>5. KeepsPlaces(d, e)
  BY <1>2, <1>3, <1>4 DEF KeepsPlaces
<1> QED BY <1>5 DEF e

\* luaAdmitNext drops the entry of the admitted session, which no longer waits,
\* and entries before it, whose sessions do not wait.
LEMMA AdmitNextKeepsPlaces ==
    ASSUME NEW d, d \in Store
    PROVE  KeepsPlaces(d, LuaAdmitNext(d))
<1> DEFINE L == LivePlaces(d)
<1>1. d.queue \in Seq(Sessions) /\ Len(d.queue) \in Nat /\ MaxScan \in Nat
  BY StoreAssumption DEF Store
<1>2. \A i \in L : i \in Nat /\ i \in 1 .. Len(d.queue)
  BY <1>1 DEF LivePlaces
<1>3. CASE Full(d)
  BY <1>3, SameQueueKeepsPlaces DEF LuaAdmitNext
<1>4. CASE ~Full(d) /\ L = {}
  <2> DEFINE q == SubSeq(d.queue, MaxScan + 1, Len(d.queue))
             e == LuaAdmitNext(d)
  <2>1. e.queue = q
    BY <1>4 DEF LuaAdmitNext, Store
  <2>2. ASSUME NEW t \in Sessions, d.status[t] = "queued",
               NEW i \in 1 .. Len(d.queue), d.queue[i] = t
        PROVE  \E j \in 1 .. Len(q) : j <= i /\ q[j] = t
    <3>1. i > MaxScan
      BY <1>1, <1>4, <2>2 DEF LivePlaces
    <3> QED BY <1>1, <2>2, <3>1, DropProperties
  <2> HIDE DEF q, e
  <2>3. KeepsPlaces(d, e)
    BY <2>1, <2>2 DEF KeepsPlaces
  <2> QED BY <2>3 DEF e
<1>5. CASE ~Full(d) /\ L # {}
  <2> DEFINE m == Min(L)
             q == SubSeq(d.queue, m + 1, Len(d.queue))
             e == LuaAdmitNext(d)
  <2>1. m \in L /\ \A i \in L : m <= i
    BY <1>2, <1>5, MinProperties
  <2>2. m \in Nat /\ m \in 1 .. Len(d.queue) /\ m <= MaxScan
    BY <2>1, <1>2 DEF LivePlaces
  <2>3. NextInLine(d) = d.queue[m] /\ d.queue[m] \in Sessions
    BY <1>1, <2>2, ElementOfSeq DEF NextInLine
  <2>4. e.queue = q /\ e.status[d.queue[m]] = "active"
    BY <1>5, <2>3 DEF LuaAdmitNext, Admit, NextInLine, Store
  <2> HIDE DEF m, e
  <2>5. ASSUME NEW t \in Sessions, d.status[t] = "queued", e.status[t] = "queued",
               NEW i \in 1 .. Len(d.queue), d.queue[i] = t
        PROVE  \E j \in 1 .. Len(q) : j <= i /\ q[j] = t
    <3>1. i \in Nat /\ i # m
      BY <1>1, <2>4, <2>5
    <3>2. ~(i < m)
      <4> SUFFICES ASSUME i < m PROVE FALSE
        OBVIOUS
      <4>1. i <= MaxScan
        BY <1>1, <2>2, <3>1
      <4>2. i \in L
        BY <2>5, <4>1 DEF LivePlaces
      <4> QED BY <2>1, <2>2, <3>1, <4>2
    <3>3. i > m
      BY <2>2, <3>1, <3>2
    <3> QED BY <1>1, <2>2, <2>5, <3>3, DropProperties
  <2> HIDE DEF q
  <2>6. KeepsPlaces(d, e)
    BY <2>4, <2>5 DEF KeepsPlaces
  <2> QED BY <2>6 DEF e
<1> QED BY <1>3, <1>4, <1>5

\* The reaper takes away the entries of sessions that lose the hash as well.
LEMMA ReapKeepsPlaces ==
    ASSUME NEW d, d \in Store
    PROVE  KeepsPlaces(d, LuaReapStale(d))
<1> DEFINE q == KeepIn(d.queue, d.beat)
           e == LuaReapStale(d)
<1>1. d.queue \in Seq(Sessions) /\ Len(d.queue) \in Nat
  BY DEF Store
<1>2. \A i \in 1 .. Len(d.queue) : d.queue[i] \in d.beat =>
         \E j \in 1 .. Len(q) : j <= i /\ q[j] = d.queue[i]
  BY <1>1, KeepInProperties
<1>3. e.queue = q /\ \A t \in Sessions : t \in Stale(d) => e.status[t] = "none"
  BY DEF LuaReapStale, Forget, Store
<1> HIDE DEF q, e
<1>4. ASSUME NEW t \in Sessions, e.status[t] = "queued",
             NEW i \in 1 .. Len(d.queue), d.queue[i] = t
      PROVE  d.queue[i] \in d.beat
  <2>1. t \notin Stale(d) /\ t \in Range(d.queue)
    BY <1>1, <1>3, <1>4 DEF Range
  <2> QED BY <1>4, <2>1 DEF Stale
<1>5. KeepsPlaces(d, e)
  BY <1>2, <1>3, <1>4 DEF KeepsPlaces
<1> QED BY <1>5 DEF e

LEMMA StepKeepsPlaces ==
    ASSUME NEW d, d \in Store, NEW e, Effect(d, e)
    PROVE  KeepsPlaces(d, e)
<1>1. ASSUME NEW s \in Sessions, \/ e = LuaTryAdmit(d, s)  \/ e = DeleteSession(d, s)
                                 \/ e = SetHeartbeat(d, s) \/ e = HeartbeatExpires(d, s)
                                 \/ e = HashExpires(d, s)
      PROVE  KeepsPlaces(d, e)
  <2>1. LuaTryAdmit(d, s).queue = d.queue
    BY DEF LuaTryAdmit, Admit, Store
  <2>2. DeleteSession(d, s).queue = d.queue /\ HashExpires(d, s).queue = d.queue
    BY DEF DeleteSession, HashExpires, Store
  <2>3. SetHeartbeat(d, s).queue = d.queue /\ HeartbeatExpires(d, s).queue = d.queue
    BY DEF SetHeartbeat, HeartbeatExpires, Store
  <2>4. e.queue = d.queue
    BY <1>1, <2>1, <2>2, <2>3
  <2> QED BY <2>4, SameQueueKeepsPlaces
<1>2. ASSUME NEW s \in Sessions, e = LuaJoinQueue(d, s) \/ e = LuaLeave(d, s)
      PROVE  KeepsPlaces(d, e)
  BY <1>2, JoinKeepsPlaces, LeaveKeepsPlaces
<1>3. ASSUME NEW n \in Capacities, e = StoreCapacity(d, n) \/ e = InitCapacity(d, n)
      PROVE  KeepsPlaces(d, e)
  BY <1>3, SameQueueKeepsPlaces DEF StoreCapacity, InitCapacity, Store
<1>4. ASSUME NEW V \in SUBSET d.active, e = LuaRelease(d, V)
      PROVE  KeepsPlaces(d, e)
  <2>1. LuaRelease(d, V).queue = d.queue
    BY DEF LuaRelease, Store
  <2> QED BY <1>4, <2>1, SameQueueKeepsPlaces
<1>5. CASE e = LuaAdmitNext(d) \/ e = LuaReapStale(d)
  BY <1>5, AdmitNextKeepsPlaces, ReapKeepsPlaces
<1>6. CASE e = d
  BY <1>6, SameQueueKeepsPlaces
<1>7. CASE e = EmptyStore
  BY <1>7 DEF KeepsPlaces, EmptyStore
<1> QED BY <1>1, <1>2, <1>3, <1>4, <1>5, <1>6, <1>7 DEF Effect

\* The first entry of who keeps waiting moves ahead or stays.
LEMMA PlaceMovesAhead ==
    ASSUME NEW d, Sound(d), NEW e, Sound(e), KeepsPlaces(d, e),
           NEW s \in Sessions, d.status[s] = "queued", e.status[s] = "queued"
    PROVE  Place(e, s) <= Place(d, s)
<1> DEFINE I == {i \in 1 .. Len(d.queue) : d.queue[i] = s}
           J == {i \in 1 .. Len(e.queue) : e.queue[i] = s}
<1>1. Len(d.queue) \in Nat /\ Len(e.queue) \in Nat
  BY DEF Sound, Store
<1>2. I # {} /\ \A x \in I : x \in Nat
  BY <1>1 DEF Sound
<1>3. J # {} /\ \A x \in J : x \in Nat
  BY <1>1 DEF Sound
<1>4. \A i \in I : \E j \in J : j <= i
  BY DEF KeepsPlaces
<1>5. Place(d, s) = Min(I) /\ Place(e, s) = Min(J)
  BY DEF Place
<1> HIDE DEF I, J
<1>6. Min(I) \in I /\ Min(J) \in J /\ \A y \in J : Min(J) <= y
  BY <1>2, <1>3, MinProperties
<1>7. PICK j \in J : j <= Min(I)
  BY <1>4, <1>6
<1>8. Min(J) <= j /\ Min(J) \in Nat /\ j \in Nat /\ Min(I) \in Nat
  BY <1>2, <1>3, <1>6
<1>9. Min(J) <= Min(I)
  BY <1>7, <1>8
<1> QED BY <1>5, <1>9

\* Who keeps waiting never moves back in line, whatever the handlers, the worker,
\* the administrator and the TTLs do.
THEOREM PlaceTheorem == Spec => PlaceNeverWorsens
<1>1. IInv /\ IInv' /\ [Next]_vars =>
         [\A s \in Sessions : db.status[s] = "queued" /\ db'.status[s] = "queued"
             => Place(db', s) <= Place(db, s)]_vars
  <2> SUFFICES ASSUME IInv, IInv', Next, NEW s \in Sessions,
                      db.status[s] = "queued", db'.status[s] = "queued"
               PROVE  Place(db', s) <= Place(db, s)
    OBVIOUS
  <2>1. Sound(db) /\ Sound(db') /\ db \in Store
    BY DEF IInv, Sound
  <2>2. Effect(db, db')
    BY StoreStep
  <2>3. KeepsPlaces(db, db')
    BY <2>1, <2>2, StepKeepsPlaces
  <2> QED BY <2>1, <2>3, PlaceMovesAhead
<1> QED BY <1>1, Invariance, PTL DEF Spec, PlaceNeverWorsens

-----------------------------------------------------------------------------
(* The abstract room.                                                      *)

\* The sessions the refinement mapping takes to be waiting.
Waiters(d) == {s \in Sessions : d.status[s] = "queued"} \ d.active

\* The steps of the abstract room, from the image of d to the image of e.
Enters(d, e, v) ==
    /\ Cardinality(d.active) < Limit(d)
    /\ v \notin d.active
    /\ e.active = d.active \cup {v}
    /\ Waiters(e) = Waiters(d) \ {v}
    /\ Limit(e) = Limit(d)

Waits(d, e, v) ==
    /\ v \notin d.active
    /\ e.active = d.active
    /\ Waiters(e) = Waiters(d) \cup {v}
    /\ Limit(e) = Limit(d)

Departs(d, e, V) ==
    /\ e.active = d.active \ V
    /\ Waiters(e) = Waiters(d) \ V
    /\ Limit(e) = Limit(d)

SetsLimit(d, e) ==
    /\ Limit(e) \in Capacities \cup {DefaultCapacity}
    /\ e.active = d.active
    /\ Waiters(e) = Waiters(d)

Resets(d, e) ==
    /\ Limit(e) \in Capacities \cup {DefaultCapacity}
    /\ e.active = {}
    /\ Waiters(e) = {}

RoomStep(d, e) ==
    \/ \E v \in Sessions : Enters(d, e, v) \/ Waits(d, e, v)
    \/ \E V \in SUBSET Sessions : Departs(d, e, V)
    \/ SetsLimit(d, e)
    \/ Resets(d, e)

\* Sessions that lose their slot or their hash depart.
LEMMA Departure ==
    ASSUME NEW d, NEW e, NEW V \in SUBSET Sessions,
           e.active = d.active \ V, e.capacity = d.capacity,
           \A t \in Sessions \ e.active :
              (e.status[t] = "queued") <=> (d.status[t] = "queued" /\ t \notin V)
    PROVE  RoomStep(d, e)
<1>1. Limit(e) = Limit(d)
  BY DEF Limit
<1>2. Waiters(e) = Waiters(d) \ V
  BY DEF Waiters
<1> QED BY <1>1, <1>2 DEF RoomStep, Departs

\* A step that touches no slot, no limit and no hash of a session without a slot
\* is no step of the room.
LEMMA NothingHappens ==
    ASSUME NEW d, NEW e, e.active = d.active, e.capacity = d.capacity,
           \A t \in Sessions \ d.active :
              (e.status[t] = "queued") <=> (d.status[t] = "queued")
    PROVE  RoomStep(d, e)
<1>1. {} \in SUBSET Sessions /\ e.active = d.active \ {}
  OBVIOUS
<1>2. \A t \in Sessions \ e.active :
         (e.status[t] = "queued") <=> (d.status[t] = "queued" /\ t \notin {})
  OBVIOUS
<1> QED BY <1>1, <1>2, Departure

\* An admission below the limit lets one visitor in, or repeats itself.
LEMMA Entrance ==
    ASSUME NEW d, d \in Store, ~Full(d), NEW e, NEW s \in Sessions,
           e.active = d.active \cup {s}, e.capacity = d.capacity,
           \A t \in Sessions : e.status[t] = IF t = s THEN "active" ELSE d.status[t]
    PROVE  RoomStep(d, e)
<1>1. CASE s \in d.active
  <2>1. e.active = d.active
    BY <1>1
  <2>2. \A t \in Sessions \ d.active :
           (e.status[t] = "queued") <=> (d.status[t] = "queued")
    BY <1>1
  <2> QED BY <2>1, <2>2, NothingHappens
<1>2. CASE s \notin d.active
  <2>1. Cardinality(d.active) < Limit(d)
    <3>1. IsFiniteSet(d.active)
      BY StoreAssumption, FS_Subset DEF Store
    <3>2. Cardinality(d.active) \in Nat /\ Limit(d) \in Nat
      BY <3>1, FS_CardinalityType, StoreAssumption DEF Limit, Store
    <3> QED BY <3>2 DEF Full
  <2>2. Waiters(e) = Waiters(d) \ {s} /\ Limit(e) = Limit(d)
    BY DEF Waiters, Limit
  <2>3. Enters(d, e, s)
    BY <1>2, <2>1, <2>2 DEF Enters
  <2> QED BY <2>3 DEF RoomStep
<1> QED BY <1>1, <1>2

LEMMA TryAdmitIsRoomStep ==
    ASSUME NEW d, d \in Store, NEW s \in Sessions
    PROVE  RoomStep(d, LuaTryAdmit(d, s))
<1>1. CASE Full(d)
  <2>1. LuaTryAdmit(d, s) = d
    BY <1>1 DEF LuaTryAdmit
  <2> QED BY <2>1, NothingHappens
<1>2. CASE ~Full(d)
  <2> DEFINE e == Admit(d, s)
  <2>1. LuaTryAdmit(d, s) = e
    BY <1>2 DEF LuaTryAdmit
  <2>2. /\ e.active = d.active \cup {s} /\ e.capacity = d.capacity
        /\ \A t \in Sessions : e.status[t] = IF t = s THEN "active" ELSE d.status[t]
    BY DEF Admit, Store
  <2> HIDE DEF e
  <2>3. RoomStep(d, e)
    BY <1>2, <2>2, Entrance
  <2> QED BY <2>1, <2>3
<1> QED BY <1>1, <1>2

\* A slot holder without a hash may join; the room does not notice.
LEMMA JoinIsRoomStep ==
    ASSUME NEW d, d \in Store, NEW s \in Sessions
    PROVE  RoomStep(d, LuaJoinQueue(d, s))
<1> DEFINE e == LuaJoinQueue(d, s)
<1>1. CASE d.status[s] \in {"queued", "active"}
  <2>1. e = d
    BY <1>1 DEF LuaJoinQueue
  <2> QED BY <2>1, NothingHappens
<1>2. CASE d.status[s] \notin {"queued", "active"}
  <2>1. /\ e.active = d.active /\ e.capacity = d.capacity
        /\ \A t \in Sessions : e.status[t] = IF t = s THEN "queued" ELSE d.status[t]
    BY <1>2 DEF LuaJoinQueue, Store
  <2> HIDE DEF e
  <2>2. CASE s \in d.active
    <3>1. \A t \in Sessions \ d.active :
             (e.status[t] = "queued") <=> (d.status[t] = "queued")
      BY <2>1, <2>2
    <3>2. RoomStep(d, e)
      BY <2>1, <3>1, NothingHappens
    <3> QED BY <3>2 DEF e
  <2>3. CASE s \notin d.active
    <3>1. Waiters(e) = Waiters(d) \cup {s} /\ Limit(e) = Limit(d)
      BY <2>1, <2>3 DEF Waiters, Limit
    <3>2. Waits(d, e, s)
      BY <2>1, <2>3, <3>1 DEF Waits
    <3>3. RoomStep(d, e)
      BY <3>2 DEF RoomStep
    <3> QED BY <3>3 DEF e
  <2> QED BY <2>2, <2>3
<1> QED BY <1>1, <1>2

LEMMA LeaveIsRoomStep ==
    ASSUME NEW d, d \in Store, NEW s \in Sessions
    PROVE  RoomStep(d, LuaLeave(d, s))
<1> DEFINE e == LuaLeave(d, s)
<1>1. /\ e.active = d.active \ {s} /\ e.capacity = d.capacity
      /\ \A t \in Sessions : e.status[t] = IF t \in {s} THEN "none" ELSE d.status[t]
  BY DEF LuaLeave, Forget, Store
<1>2. {s} \in SUBSET Sessions
  OBVIOUS
<1> HIDE DEF e
<1>3. RoomStep(d, e)
  BY <1>1, <1>2, Departure
<1> QED BY <1>3 DEF e

\* A hash is deleted or expires: a waiter departs, a slot holder stays inside.
LEMMA ForgettingIsRoomStep ==
    ASSUME NEW d, d \in Store, NEW s \in Sessions
    PROVE  RoomStep(d, [d EXCEPT !.status = Forget(@, {s})])
<1> DEFINE e == [d EXCEPT !.status = Forget(@, {s})]
           V == {s} \ d.active
<1>1. /\ e.active = d.active /\ e.capacity = d.capacity
      /\ \A t \in Sessions : e.status[t] = IF t = s THEN "none" ELSE d.status[t]
  BY DEF Forget, Store
<1> HIDE DEF e
<1>2. V \in SUBSET Sessions /\ e.active = d.active \ V
  BY <1>1
<1>3. \A t \in Sessions \ e.active :
         (e.status[t] = "queued") <=> (d.status[t] = "queued" /\ t \notin V)
  BY <1>1
<1>4. RoomStep(d, e)
  BY <1>1, <1>2, <1>3, Departure
<1> QED BY <1>4 DEF e

LEMMA HeartbeatsAreNoRoomSteps ==
    ASSUME NEW d, d \in Store, NEW s \in Sessions
    PROVE  RoomStep(d, SetHeartbeat(d, s)) /\ RoomStep(d, HeartbeatExpires(d, s))
<1> DEFINE e == SetHeartbeat(d, s)
           f == HeartbeatExpires(d, s)
<1>1. e.active = d.active /\ e.capacity = d.capacity /\ e.status = d.status
  BY DEF SetHeartbeat, Store
<1>2. f.active = d.active /\ f.capacity = d.capacity /\ f.status = d.status
  BY DEF HeartbeatExpires, Store
<1> HIDE DEF e, f
<1>3. RoomStep(d, e) /\ RoomStep(d, f)
  BY <1>1, <1>2, NothingHappens
<1> QED BY <1>3 DEF e, f

LEMMA CapacityIsRoomStep ==
    ASSUME NEW d, d \in Store, NEW n \in Capacities
    PROVE  RoomStep(d, StoreCapacity(d, n)) /\ RoomStep(d, InitCapacity(d, n))
<1> DEFINE e == StoreCapacity(d, n)
<1>1. e.active = d.active /\ e.status = d.status /\ e.capacity = n
  BY DEF StoreCapacity, Store
<1> HIDE DEF e
<1>2. Limit(e) \in Capacities /\ Waiters(e) = Waiters(d)
  BY <1>1, StoreAssumption DEF Limit, Waiters
<1>3. RoomStep(d, e)
  BY <1>1, <1>2 DEF RoomStep, SetsLimit
<1>4. InitCapacity(d, n) = e \/ InitCapacity(d, n) = d
  BY DEF InitCapacity, StoreCapacity, e
<1>5. RoomStep(d, d)
  BY NothingHappens
<1> QED BY <1>3, <1>4, <1>5 DEF e

LEMMA ReleaseIsRoomStep ==
    ASSUME NEW d, d \in Store, NEW V \in SUBSET d.active
    PROVE  RoomStep(d, LuaRelease(d, V))
<1> DEFINE e == LuaRelease(d, V)
<1>1. /\ e.active = d.active \ V /\ e.capacity = d.capacity
      /\ \A t \in Sessions : e.status[t] = IF t \in V THEN "none" ELSE d.status[t]
  BY DEF LuaRelease, Forget, Store
<1>2. V \in SUBSET Sessions
  BY DEF Store
<1> HIDE DEF e
<1>3. RoomStep(d, e)
  BY <1>1, <1>2, Departure
<1> QED BY <1>3 DEF e

\* Dropping entries is invisible in the room; what is left is an admission.
LEMMA AdmitNextIsRoomStep ==
    ASSUME NEW d, d \in Store
    PROVE  RoomStep(d, LuaAdmitNext(d))
<1> DEFINE L == LivePlaces(d)
           e == LuaAdmitNext(d)
<1>1. d.queue \in Seq(Sessions) /\ Len(d.queue) \in Nat
  BY DEF Store
<1>2. CASE Full(d) \/ L = {}
  <2>1. e.active = d.active /\ e.capacity = d.capacity /\ e.status = d.status
    BY <1>2 DEF LuaAdmitNext, Store
  <2> HIDE DEF e
  <2>2. RoomStep(d, e)
    BY <2>1, NothingHappens
  <2> QED BY <2>2 DEF e
<1>3. CASE ~Full(d) /\ L # {}
  <2> DEFINE q == SubSeq(d.queue, Min(L) + 1, Len(d.queue))
             s == NextInLine(d)
  <2>1. \A i \in L : i \in 1 .. Len(d.queue) /\ i \in Nat
    BY <1>1 DEF LivePlaces
  <2>2. Min(L) \in 1 .. Len(d.queue)
    BY <1>3, <2>1, MinProperties
  <2>3. s \in Sessions
    BY <1>1, <2>2, ElementOfSeq DEF NextInLine
  <2>4. e = Admit([d EXCEPT !.queue = q], s)
    BY <1>3 DEF LuaAdmitNext
  <2> HIDE DEF q, s, e
  <2>5. /\ e.active = d.active \cup {s} /\ e.capacity = d.capacity
        /\ \A t \in Sessions : e.status[t] = IF t = s THEN "active" ELSE d.status[t]
    BY <2>4 DEF Admit, Store
  <2>6. RoomStep(d, e)
    BY <1>3, <2>3, <2>5, Entrance
  <2> QED BY <2>6 DEF e
<1> QED BY <1>2, <1>3

\* Reaped holders and reaped waiters depart together.
LEMMA ReapIsRoomStep ==
    ASSUME NEW d, d \in Store
    PROVE  RoomStep(d, LuaReapStale(d))
<1> DEFINE e == LuaReapStale(d)
           V == Stale(d)
<1>1. d.queue \in Seq(Sessions) /\ d.active \in SUBSET Sessions
  BY DEF Store
<1>2. Range(d.queue) \subseteq Sessions
  BY <1>1, ElementOfSeq DEF Range
<1>3. V \in SUBSET Sessions
  BY <1>1, <1>2 DEF Stale
<1>4. /\ e.active = d.active \cap d.beat /\ e.capacity = d.capacity
      /\ \A t \in Sessions : e.status[t] = IF t \in V THEN "none" ELSE d.status[t]
  BY DEF LuaReapStale, Forget, Store
<1> HIDE DEF e
<1>5. e.active = d.active \ V
  BY <1>4 DEF Stale
<1> HIDE DEF V
<1>6. RoomStep(d, e)
  BY <1>3, <1>4, <1>5, Departure
<1> QED BY <1>6 DEF e

\* Every command and script is a step of the abstract room.
LEMMA EffectIsRoomStep ==
    ASSUME NEW d, d \in Store, NEW e, Effect(d, e)
    PROVE  RoomStep(d, e)
<1>1. ASSUME NEW s \in Sessions, \/ e = LuaTryAdmit(d, s) \/ e = LuaJoinQueue(d, s)
                                 \/ e = LuaLeave(d, s)
      PROVE  RoomStep(d, e)
  BY <1>1, TryAdmitIsRoomStep, JoinIsRoomStep, LeaveIsRoomStep
<1>2. ASSUME NEW s \in Sessions, e = DeleteSession(d, s) \/ e = HashExpires(d, s)
      PROVE  RoomStep(d, e)
  BY <1>2, ForgettingIsRoomStep DEF DeleteSession, HashExpires
<1>3. ASSUME NEW s \in Sessions, e = SetHeartbeat(d, s) \/ e = HeartbeatExpires(d, s)
      PROVE  RoomStep(d, e)
  BY <1>3, HeartbeatsAreNoRoomSteps
<1>4. ASSUME NEW n \in Capacities, e = StoreCapacity(d, n) \/ e = InitCapacity(d, n)
      PROVE  RoomStep(d, e)
  BY <1>4, CapacityIsRoomStep
<1>5. ASSUME NEW V \in SUBSET d.active, e = LuaRelease(d, V)
      PROVE  RoomStep(d, e)
  BY <1>5, ReleaseIsRoomStep
<1>6. CASE e = LuaAdmitNext(d) \/ e = LuaReapStale(d)
  BY <1>6, AdmitNextIsRoomStep, ReapIsRoomStep
<1>7. CASE e = d
  BY <1>7, NothingHappens
<1>8. CASE e = EmptyStore
  <2>1. e.capacity = 0 /\ e.active = {} /\ \A s \in Sessions : e.status[s] = "none"
    BY <1>8 DEF EmptyStore
  <2>2. Resets(d, e)
    BY <2>1 DEF Resets, Limit, Waiters
  <2> QED BY <2>2 DEF RoomStep
<1> QED BY <1>1, <1>2, <1>3, <1>4, <1>5, <1>6, <1>7, <1>8 DEF Effect

\* The service implements the abstract waiting room, for every number of
\* sessions, requests and faults.
THEOREM RefinementTheorem == Spec => ImplementsRoom
<1>1. Init => Room!Init
  <2> SUFFICES ASSUME Init PROVE Room!Init
    OBVIOUS
  <2>1. db.capacity = 0 /\ db.active = {} /\ \A s \in Sessions : db.status[s] = "none"
    BY DEF Init, EmptyStore
  <2>2. Limit(db) = DefaultCapacity
    BY <2>1 DEF Limit
  <2> QED BY <2>1, <2>2 DEF Room!Init
<1>2. IInv /\ [Next]_vars => [Room!Next]_(Room!vars)
  <2> SUFFICES ASSUME IInv, [Next]_vars PROVE Room!Next
    OBVIOUS
  <2>1. db \in Store
    BY DEF IInv, TypeOK
  <2>2. Effect(db, db')
    BY StoreStep
  <2>3. RoomStep(db, db')
    BY <2>1, <2>2, EffectIsRoomStep
  <2>4. ASSUME NEW v \in Sessions, Enters(db, db', v)
        PROVE  Room!Enter(v)
    <3>1. Room!Cardinality(db.active) = Cardinality(db.active)
      BY DEF Room!Cardinality, Cardinality
    <3> QED BY <2>4, <3>1 DEF Enters, Waiters, Room!Enter
  <2>5. ASSUME NEW v \in Sessions, Waits(db, db', v)
        PROVE  Room!Wait(v)
    BY <2>5 DEF Waits, Waiters, Room!Wait
  <2>6. ASSUME NEW V \in SUBSET Sessions, Departs(db, db', V)
        PROVE  Room!Depart(V)
    BY <2>6 DEF Departs, Waiters, Room!Depart
  <2>7. SetsLimit(db, db') => Room!SetLimit
    BY DEF SetsLimit, Waiters, Room!SetLimit
  <2>8. Resets(db, db') => Room!Reset
    BY DEF Resets, Waiters, Room!Reset
  <2> QED BY <2>3, <2>4, <2>5, <2>6, <2>7, <2>8 DEF RoomStep, Room!Next
<1> QED BY <1>1, <1>2, Invariance, PTL DEF Spec, ImplementsRoom, Room!Spec
=============================================================================
