------------------------- MODULE WorkQueueProofs -------------------------
(***************************************************************************)
(* For any number of consumers, messages, lost connections and crashes:    *)
(* the types, that no message is lost but what a crash found unwritten,    *)
(* that the producer reports what the broker has, and what prefetch_count=1*)
(* is for: how many messages are printed again, and how many are passed    *)
(* over.                                                                   *)
(*                                                                         *)
(* NothingIsLost needs to know what the broker may forget: an acknowledged *)
(* message was printed (Handled), and a crash goes back to the disk, which *)
(* has what was stored and is not printed (OnDisk).                        *)
(*                                                                         *)
(* The two bounds rest on Prefetch and InOrder. For the repeats, count the *)
(* places where messages wait, beyond one for each that was never printed: *)
(* a lost connection makes one more such place, a repeat takes one away.   *)
(* For the overtaking, what is smaller than a message that is delivered is *)
(* with the other consumers, and what the broker gets later is larger.     *)
(***************************************************************************)
EXTENDS WorkQueue, WellFoundedInduction, FiniteSetTheorems, TLAPS

Handled ==
    \A c \in Consumers :
        /\ \A m \in acks[c] : printed[m] > 0
        /\ consumer[c].busy # 0 => printed[consumer[c].busy] > 0

Books == Held \subseteq accepted /\ stored \subseteq accepted /\ disk \subseteq accepted

OnDisk == \A m \in stored : printed[m] > 0 \/ m \in disk

Sending ==
    /\ producer.at = "start" => producer.next = 1
    /\ producer.at = "publish" => /\ declared
                                  /\ \A m \in Messages : m < producer.next =>
                                         m \in wire \cup accepted
    /\ SentIsAccepted

Kept == Books /\ OnDisk /\ NothingIsLost

IInv == TypeOK /\ Handled /\ Kept /\ Sending

-----------------------------------------------------------------------------
\* A set of messages that is not empty has a first one.
LEMMA FirstMessage ==
    ASSUME NEW S \in SUBSET Messages, S # {}
    PROVE  Min(S) \in S /\ \A m \in S : Min(S) <= m
<1> DEFINE R == {ss \in Nat \X Nat : ss[1] < ss[2]}
<1>1. IsWellFoundedOn(R, Nat)
    BY NatLessThanWellFounded DEF OpToRel
<1>2. S \subseteq Nat
    BY WorkQueueAssumption DEF Messages
<1>3. PICK x \in S : \A y \in S : <<y, x>> \notin R
    <2> HIDE DEF R
    <2> QED BY <1>1, <1>2, WFMin
<1>4. \A y \in S : x <= y
    <2> TAKE y \in S
    <2>1. x \in Nat /\ y \in Nat /\ ~ (y < x)
        BY <1>2, <1>3
    <2>2. QED
        BY <2>1
<1>5. QED
    BY <1>4 DEF Min

LEMMA HeldElement ==
    ASSUME NEW m
    PROVE  m \in Held <=> m \in ready \/ \E c \in Consumers : m \in unacked[c]
BY DEF Held

\* A step that leaves the broker the same messages, on disk too.
LEMMA QuietStep ==
    ASSUME TypeOK, Kept, Held' = Held,
           \A m \in Messages : printed[m] > 0 => printed'[m] > 0,
           UNCHANGED <<accepted, stored, disk, crashes>>
    PROVE  Kept'
<1>1. accepted \subseteq Messages /\ stored \subseteq Messages
    BY DEF TypeOK
<1>2. QED
    BY <1>1 DEF Kept, Books, OnDisk, NothingIsLost

\* A step of consumer c that leaves its acknowledgements and its message alone.
LEMMA Untouched ==
    ASSUME TypeOK, Handled, UNCHANGED <<acks, printed>>,
           \A c \in Consumers : consumer'[c].busy \in {0, consumer[c].busy}
    PROVE  Handled'
BY DEF Handled

-----------------------------------------------------------------------------
LEMMA InitIInv == Init => IInv
<1> SUFFICES ASSUME Init PROVE IInv
    OBVIOUS
<1> USE WorkQueueAssumption DEF Init
<1>1. TypeOK
    <2>1. Down \in Program
        BY DEF Down, Program
    <2>2. producer \in [at : {"start", "publish", "done", "failed"}, next : 1 .. Count + 1]
        OBVIOUS
    <2>3. consumer \in [Consumers -> Program]
        BY <2>1
    <2>4. unacked \in [Consumers -> SUBSET Messages] /\ acks \in [Consumers -> SUBSET Messages]
        BY DEF Nobody
    <2>5. printed \in [Messages -> Nat]
        OBVIOUS
    <2>6. losses \in 0 .. MaxLosses /\ crashes \in 0 .. MaxCrashes
        OBVIOUS
    <2>7. QED
        BY <2>2, <2>3, <2>4, <2>5, <2>6 DEF TypeOK
<1>2. Handled
    BY DEF Handled, Nobody, Down
<1>3. Held = {}
    BY DEF Held, Nobody
<1>4. Kept
    BY <1>3 DEF Kept, Books, OnDisk, NothingIsLost
<1>5. Sending
    BY DEF Sending, SentIsAccepted
<1>6. QED
    BY <1>1, <1>2, <1>4, <1>5 DEF IInv

-----------------------------------------------------------------------------
(* Types *)

LEMMA NextTypes == TypeOK /\ [Next]_vars => TypeOK'
<1> SUFFICES ASSUME TypeOK, [Next]_vars PROVE TypeOK'
    OBVIOUS
<1> USE WorkQueueAssumption
<1>1. CASE ProducerConnects
    BY <1>1 DEF ProducerConnects, Declare, TypeOK, record
<1>2. CASE Publish
    <2>1. producer.next \in Messages
        BY <1>2 DEF Publish, MorePending, TypeOK, Messages
    <2>2. producer' \in [at : {"start", "publish", "done", "failed"}, next : 1 .. Count + 1]
        <3>1. producer.next + 1 \in 1 .. Count + 1
            BY <2>1 DEF Messages
        <3>2. QED
            BY <1>2, <3>1 DEF Publish, TypeOK
    <2>3. wire' \subseteq Messages
        BY <1>2, <2>1 DEF Publish, TypeOK
    <2>4. QED
        BY <1>2, <2>2, <2>3 DEF Publish, TypeOK, queue, record
<1>3. CASE Close
    BY <1>3 DEF Close, TypeOK, queue, record
<1>4. CASE ProducerFails
    BY <1>4 DEF ProducerFails, TypeOK, queue, record
<1>5. CASE Receive
    <2>1. Min(wire) \in Messages
        BY <1>5, FirstMessage DEF Receive, TypeOK
    <2>2. QED
        BY <1>5, <2>1 DEF Receive, TypeOK
<1>6. CASE Flush
    <2>1. Held \subseteq Messages
        BY DEF Held, TypeOK
    <2>2. QED
        BY <1>6, <2>1 DEF Flush, TypeOK
<1>7. CASE BrokerCrashes
    <2>1. consumer' \in [Consumers -> Program]
        BY <1>7 DEF BrokerCrashes, TypeOK, Program
    <2>2. QED
        BY <1>7, <2>1 DEF BrokerCrashes, TypeOK, Nobody, record
<1>8. ASSUME NEW c \in Consumers, ConsumerConnects(c) PROVE TypeOK'
    <2>1. [Down EXCEPT !.conn = "up"] \in Program
        BY DEF Down, Program
    <2>2. QED
        BY <1>8, <2>1 DEF ConsumerConnects, Declare, TypeOK, record
<1>9. ASSUME NEW c \in Consumers, Deliver(c) PROVE TypeOK'
    <2>1. Min(ready) \in Messages
        BY <1>9, FirstMessage DEF Deliver, TypeOK
    <2>2. consumer' \in [Consumers -> Program]
        <3>1. consumer[c] \in Program
            BY DEF TypeOK
        <3> DEFINE q == [consumer[c] EXCEPT !.inbox = consumer[c].inbox \cup {Min(ready)}]
        <3>2. q \in Program
            BY <2>1, <3>1 DEF Program
        <3>3. consumer' = [consumer EXCEPT ![c] = q]
            BY <1>9 DEF Deliver
        <3> HIDE DEF q
        <3>4. QED
            BY <3>2, <3>3 DEF TypeOK
    <2>3. unacked' \in [Consumers -> SUBSET Messages]
        BY <1>9, <2>1 DEF Deliver, TypeOK
    <2>4. QED
        BY <1>9, <2>2, <2>3 DEF Deliver, TypeOK, record
<1>10. ASSUME NEW c \in Consumers, OnMessage(c) PROVE TypeOK'
    <2>1. consumer[c] \in Program
        BY DEF TypeOK
    <2>2. Min(consumer[c].inbox) \in Messages
        BY <1>10, <2>1, FirstMessage DEF OnMessage, Program
    <2>3. consumer' \in [Consumers -> Program]
        <3> DEFINE m == Min(consumer[c].inbox)
        <3>1. [consumer[c] EXCEPT !.inbox = consumer[c].inbox \ {m}, !.busy = m] \in Program
            BY <2>1, <2>2 DEF Program
        <3> DEFINE q == [consumer[c] EXCEPT !.inbox = consumer[c].inbox \ {m}, !.busy = m]
        <3>2. q \in Program /\ consumer' = [consumer EXCEPT ![c] = q]
            BY <1>10, <3>1 DEF OnMessage
        <3> HIDE DEF q
        <3>3. QED
            BY <3>2 DEF TypeOK
    <2>4. printed' \in [Messages -> Nat]
        BY <1>10, <2>2 DEF OnMessage, TypeOK
    <2>5. QED
        BY <1>10, <2>3, <2>4 DEF OnMessage, TypeOK, queue
<1>11. ASSUME NEW c \in Consumers, BasicAck(c) PROVE TypeOK'
    <2>1. consumer[c] \in Program
        BY DEF TypeOK
    <2>2. consumer[c].busy \in Messages
        BY <1>11, <2>1 DEF BasicAck, Program
    <2>3. consumer' \in [Consumers -> Program]
        <3> DEFINE q == [consumer[c] EXCEPT !.busy = 0]
        <3>1. q \in Program /\ consumer' = [consumer EXCEPT ![c] = q]
            BY <1>11, <2>1 DEF BasicAck, Program
        <3> HIDE DEF q
        <3>2. QED
            BY <3>1 DEF TypeOK
    <2>4. acks' \in [Consumers -> SUBSET Messages]
        BY <1>11, <2>2 DEF BasicAck, TypeOK
    <2>5. QED
        BY <1>11, <2>3, <2>4 DEF BasicAck, TypeOK, queue, record
<1>12. ASSUME NEW c \in Consumers, AckArrives(c) PROVE TypeOK'
    BY <1>12 DEF AckArrives, TypeOK, record
<1>13. ASSUME NEW c \in Consumers, Notice(c) PROVE TypeOK'
    <2>1. Down \in Program
        BY DEF Down, Program
    <2>2. QED
        BY <1>13, <2>1 DEF Notice, TypeOK, queue, record
<1>14. ASSUME NEW c \in Consumers, Cut(c) PROVE TypeOK'
    <2>1. consumer' \in [Consumers -> Program]
        BY <1>14 DEF Cut, TypeOK, Program
    <2>2. QED
        BY <1>14, <2>1 DEF Cut, Requeue, TypeOK, record
<1>15. ASSUME NEW c \in Consumers, ConsumerEnds(c) PROVE TypeOK'
    <2>1. Down \in Program
        BY DEF Down, Program
    <2>2. QED
        BY <1>15, <2>1 DEF ConsumerEnds, Requeue, TypeOK, record
<1>16. CASE UNCHANGED vars
    BY <1>16 DEF vars, queue, record, TypeOK
<1>17. QED
    BY <1>1, <1>2, <1>3, <1>4, <1>5, <1>6, <1>7, <1>8, <1>9, <1>10, <1>11, <1>12, <1>13,
       <1>14, <1>15, <1>16 DEF Next, Work

-----------------------------------------------------------------------------
(* What the broker holds *)

LEMMA NextHandled == IInv /\ [Next]_vars => Handled'
<1> SUFFICES ASSUME IInv, [Next]_vars PROVE Handled'
    OBVIOUS
<1> USE DEF IInv
<1>1. CASE ProducerConnects \/ Publish \/ Close \/ ProducerFails \/ Receive \/ Flush
    BY <1>1, Untouched DEF ProducerConnects, Publish, Close, ProducerFails, Receive, Flush, record
<1>2. CASE BrokerCrashes
    <2>1. \A c \in Consumers : consumer'[c].busy = consumer[c].busy /\ acks'[c] = {}
        BY <1>2 DEF BrokerCrashes, Nobody, TypeOK, Program
    <2>2. QED
        BY <1>2, <2>1 DEF BrokerCrashes, Handled, record
<1>3. ASSUME NEW c \in Consumers, ConsumerConnects(c) \/ Notice(c) PROVE Handled'
    <2>1. \A d \in Consumers : consumer'[d].busy \in {0, consumer[d].busy}
        BY <1>3 DEF ConsumerConnects, Notice, Down, TypeOK
    <2>2. QED
        BY <1>3, <2>1, Untouched DEF ConsumerConnects, Notice, record
<1>4. ASSUME NEW c \in Consumers, Deliver(c) PROVE Handled'
    <2>1. \A d \in Consumers : consumer'[d].busy = consumer[d].busy
        BY <1>4 DEF Deliver, TypeOK, Program
    <2>2. QED
        BY <1>4, <2>1, Untouched DEF Deliver, record
<1>5. ASSUME NEW c \in Consumers, OnMessage(c) PROVE Handled'
    <2> DEFINE m == Min(consumer[c].inbox)
    <2>1. consumer[c] \in Program
        BY DEF TypeOK
    <2>2. m \in Messages
        BY <1>5, <2>1, FirstMessage DEF OnMessage, Program
    <2>3. /\ UNCHANGED acks
          /\ \A d \in Consumers : consumer'[d].busy = IF d = c THEN m ELSE consumer[d].busy
        BY <1>5, <2>1 DEF OnMessage, TypeOK, Program
    <2>4. \A k \in Messages : /\ printed[k] > 0 => printed'[k] > 0
                              /\ printed'[m] > 0
        BY <1>5, <2>2 DEF OnMessage, TypeOK
    <2>5. \A d \in Consumers : acks[d] \subseteq Messages /\ consumer[d].busy \in {0} \cup Messages
        BY DEF TypeOK, Program
    <2> HIDE DEF m
    <2>6. QED
        BY <2>2, <2>3, <2>4, <2>5 DEF Handled
<1>6. ASSUME NEW c \in Consumers, BasicAck(c) PROVE Handled'
    <2>1. \A d \in Consumers : consumer'[d].busy \in {0, consumer[d].busy}
        BY <1>6 DEF BasicAck, TypeOK, Program
    <2>2. \A d \in Consumers : acks'[d] \subseteq acks[d] \cup {consumer[d].busy}
        BY <1>6 DEF BasicAck, TypeOK
    <2>3. consumer[c].busy # 0 /\ \A d \in Consumers \ {c} : acks'[d] = acks[d]
        BY <1>6 DEF BasicAck, TypeOK
    <2>4. UNCHANGED printed
        BY <1>6 DEF BasicAck, record
    <2>5. QED
        BY <2>1, <2>2, <2>3, <2>4 DEF Handled
<1>7. ASSUME NEW c \in Consumers, AckArrives(c) \/ Cut(c) \/ ConsumerEnds(c) PROVE Handled'
    <2>1. \A d \in Consumers : consumer'[d].busy \in {0, consumer[d].busy}
        <3>1. CASE AckArrives(c)
            BY <3>1 DEF AckArrives
        <3>2. CASE Cut(c)
            BY <3>2 DEF Cut, TypeOK, Program
        <3>3. CASE ConsumerEnds(c)
            BY <3>3 DEF ConsumerEnds, Down, TypeOK, Program
        <3>4. QED
            BY <1>7, <3>1, <3>2, <3>3
    <2>2. \A d \in Consumers : acks'[d] \subseteq acks[d]
        BY <1>7 DEF AckArrives, Cut, ConsumerEnds, Requeue, TypeOK
    <2>3. UNCHANGED printed
        BY <1>7 DEF AckArrives, Cut, ConsumerEnds, record
    <2>4. QED
        BY <2>1, <2>2, <2>3 DEF Handled
<1>8. CASE UNCHANGED vars
    BY <1>8 DEF vars, record, Handled
<1>9. QED
    BY <1>1, <1>2, <1>3, <1>4, <1>5, <1>6, <1>7, <1>8 DEF Next, Work

LEMMA NextKept == IInv /\ [Next]_vars => Kept'
<1> SUFFICES ASSUME IInv, [Next]_vars PROVE Kept'
    OBVIOUS
<1> USE DEF IInv
<1>t. /\ accepted \subseteq Messages /\ stored \subseteq Messages
      /\ unacked \in [Consumers -> SUBSET Messages] /\ printed \in [Messages -> Nat]
      /\ crashes \in Nat /\ MaxCrashes \in Nat
    BY WorkQueueAssumption DEF TypeOK
<1>1. CASE ProducerConnects \/ Publish \/ Close \/ ProducerFails
    <2>1. UNCHANGED <<ready, unacked, disk, record, crashes>>
        BY <1>1 DEF ProducerConnects, Publish, Close, ProducerFails, queue, record
    <2>2. QED
        BY <2>1, QuietStep DEF Held, record
<1>2. CASE Receive
    <2>1. CASE UNCHANGED <<ready, accepted>>
        <3>1. UNCHANGED <<ready, unacked, disk, accepted, stored, printed, crashes>>
            BY <1>2, <2>1 DEF Receive
        <3>2. QED
            BY <3>1, QuietStep DEF Held
    <2>2. CASE ready' = ready \cup {Min(wire)} /\ accepted' = accepted \cup {Min(wire)}
        <3>1. Held' = Held \cup {Min(wire)}
            BY <1>2, <2>2 DEF Receive, Held
        <3>2. UNCHANGED <<disk, stored, printed, crashes>>
            BY <1>2 DEF Receive
        <3>3. QED
            BY <2>2, <3>1, <3>2 DEF Kept, Books, OnDisk, NothingIsLost
    <2>3. QED
        BY <1>2, <2>1, <2>2 DEF Receive
<1>3. CASE Flush
    <2>1. /\ disk' = Held /\ stored' = stored \cup Held /\ Held' = Held
          /\ UNCHANGED <<accepted, printed, crashes>>
        BY <1>3 DEF Flush, Held
    <2>2. QED
        BY <2>1 DEF Kept, Books, OnDisk, NothingIsLost
<1>4. CASE BrokerCrashes
    <2>1. Held' = disk
        BY <1>4 DEF BrokerCrashes, Held, Nobody
    <2>2. /\ UNCHANGED <<disk, stored, accepted, printed>>
          /\ crashes' = crashes + 1
        BY <1>4 DEF BrokerCrashes, record
    <2>3. QED
        BY <1>t, <2>1, <2>2 DEF Kept, Books, OnDisk, NothingIsLost
<1>5. ASSUME NEW c \in Consumers, ConsumerConnects(c) \/ Notice(c) \/ BasicAck(c) PROVE Kept'
    <2>1. UNCHANGED <<ready, unacked, disk, record, crashes>>
        BY <1>5 DEF ConsumerConnects, Notice, BasicAck, queue
    <2>2. QED
        BY <2>1, QuietStep DEF Held, record
<1>6. ASSUME NEW c \in Consumers, Deliver(c) PROVE Kept'
    <2>1. /\ Min(ready) \in ready /\ ready' = ready \ {Min(ready)}
          /\ unacked' = [unacked EXCEPT ![c] = unacked[c] \cup {Min(ready)}]
        BY <1>6, FirstMessage DEF Deliver, TypeOK
    <2>2. Held' = Held
        <3> DEFINE m == Min(ready)
        <3>1. \A d \in Consumers : unacked'[d] = IF d = c THEN unacked[c] \cup {m} ELSE unacked[d]
            BY <1>t, <2>1
        <3>2. m \in ready /\ ready' = ready \ {m}
            BY <2>1
        <3> HIDE DEF m
        <3>3. QED
            BY <3>1, <3>2 DEF Held
    <2>3. UNCHANGED <<disk, accepted, stored, printed, crashes>>
        BY <1>6 DEF Deliver, record
    <2>4. QED
        BY <2>2, <2>3, QuietStep
<1>7. ASSUME NEW c \in Consumers, OnMessage(c) PROVE Kept'
    <2>1. consumer[c] \in Program
        BY DEF TypeOK
    <2>2. Min(consumer[c].inbox) \in Messages
        BY <1>7, <2>1, FirstMessage DEF OnMessage, Program
    <2>3. \A m \in Messages : printed[m] > 0 => printed'[m] > 0
        BY <1>7, <1>t, <2>2 DEF OnMessage
    <2>4. UNCHANGED <<ready, unacked, disk, accepted, stored, crashes>>
        BY <1>7 DEF OnMessage, queue
    <2>5. QED
        BY <2>3, <2>4, QuietStep DEF Held
<1>8. ASSUME NEW c \in Consumers, AckArrives(c) PROVE Kept'
    <2>1. /\ \A d \in Consumers : unacked'[d] = IF d = c THEN unacked[c] \ acks[c] ELSE unacked[d]
          /\ UNCHANGED <<ready, disk, accepted, stored, printed, crashes>>
        BY <1>8, <1>t DEF AckArrives, record
    <2>2. Held' \subseteq Held /\ \A m \in Held \ Held' : m \in acks[c]
        BY <2>1 DEF Held
    <2>3. \A m \in Held \ Held' : printed[m] > 0
        BY <2>2 DEF Handled
    <2>4. QED
        BY <2>1, <2>2, <2>3 DEF Kept, Books, OnDisk, NothingIsLost
<1>9. ASSUME NEW c \in Consumers, Cut(c) \/ ConsumerEnds(c) PROVE Kept'
    <2>1. /\ ready' = ready \cup unacked[c]
          /\ unacked' = [unacked EXCEPT ![c] = {}]
          /\ UNCHANGED <<disk, accepted, stored, printed, crashes>>
        BY <1>9 DEF Cut, ConsumerEnds, Requeue, record
    <2>2. \A d \in Consumers : unacked'[d] = IF d = c THEN {} ELSE unacked[d]
        BY <1>t, <2>1
    <2>3. Held' = Held
        BY <2>1, <2>2 DEF Held
    <2>4. QED
        BY <2>1, <2>3, QuietStep
<1>10. CASE UNCHANGED vars
    BY <1>10, QuietStep DEF vars, queue, record, Held
<1>11. QED
    BY <1>1, <1>2, <1>3, <1>4, <1>5, <1>6, <1>7, <1>8, <1>9, <1>10 DEF Next, Work

-----------------------------------------------------------------------------
(* What the producer reports *)

LEMMA NextSending == IInv /\ [Next]_vars => Sending'
<1> SUFFICES ASSUME IInv, [Next]_vars PROVE Sending'
    OBVIOUS
<1> USE DEF IInv
<1>t. /\ producer.next \in 1 .. Count + 1 /\ Count \in Nat /\ wire \subseteq Messages
      /\ accepted \subseteq Messages
      /\ producer \in [at : {"start", "publish", "done", "failed"}, next : 1 .. Count + 1]
    BY WorkQueueAssumption DEF TypeOK
<1>1. CASE ProducerConnects
    <2>1. producer.at = "start" /\ producer'.at = "publish" /\ declared'
          /\ producer'.next = producer.next
        BY <1>1, <1>t DEF ProducerConnects, Declare
    <2>2. \A m \in Messages : ~ (m < producer.next)
        BY <2>1 DEF Sending, Messages
    <2>3. QED
        BY <2>1, <2>2 DEF Sending, SentIsAccepted
<1>2. CASE Publish
    <2>1. /\ producer.at = "publish" /\ producer'.at = "publish"
          /\ producer'.next = producer.next + 1 /\ wire' = wire \cup {producer.next}
          /\ UNCHANGED <<accepted, declared>>
        BY <1>2, <1>t DEF Publish, queue, record
    <2>2. \A m \in Messages : m < producer.next + 1 => m < producer.next \/ m = producer.next
        BY <1>t DEF Messages
    <2>3. QED
        BY <2>1, <2>2 DEF Sending, SentIsAccepted
<1>3. CASE Close
    <2>1. /\ producer.at = "publish" /\ wire = {} /\ producer.next > Count
          /\ producer'.at = "done" /\ UNCHANGED accepted
        BY <1>3, <1>t DEF Close, MorePending, record
    <2>2. \A m \in Messages : m < producer.next
        BY <1>t, <2>1 DEF Messages
    <2>3. accepted = Messages
        BY <1>t, <2>1, <2>2 DEF Sending
    <2>4. QED
        BY <2>1, <2>3 DEF Sending, SentIsAccepted
<1>4. CASE ProducerFails
    BY <1>4, <1>t DEF ProducerFails, Sending, SentIsAccepted
<1>5. CASE Receive
    <2>1. UNCHANGED <<producer, declared>> /\ wire' = wire \ {Min(wire)}
          /\ accepted \subseteq accepted' /\ (declared => accepted' = accepted \cup {Min(wire)})
        BY <1>5 DEF Receive
    <2>2. accepted' \subseteq Messages
        BY NextTypes DEF TypeOK
    <2>3. QED
        BY <2>1, <2>2 DEF Sending, SentIsAccepted
<1>6. CASE BrokerCrashes
    <2>1. producer'.at # "publish" /\ (producer'.at = "done" => producer.at = "done")
          /\ (producer'.at = "start" => producer' = producer) /\ UNCHANGED accepted
        BY <1>6, <1>t DEF BrokerCrashes, record
    <2>2. QED
        BY <2>1 DEF Sending, SentIsAccepted
<1>7. CASE Flush \/ \E c \in Consumers : Work(c) \/ Cut(c) \/ ConsumerEnds(c)
    <2>1. UNCHANGED <<producer, wire, accepted>> /\ (declared => declared')
        <3>1. CASE Flush
            BY <3>1 DEF Flush
        <3>2. ASSUME NEW c \in Consumers, Cut(c) \/ ConsumerEnds(c)
              PROVE UNCHANGED <<producer, wire, accepted, declared>>
            BY <3>2 DEF Cut, ConsumerEnds, record
        <3>3. ASSUME NEW c \in Consumers, Work(c)
              PROVE UNCHANGED <<producer, wire, accepted>> /\ (declared => declared')
            <4>1. CASE ConsumerConnects(c)
                BY <4>1 DEF ConsumerConnects, Declare, record
            <4>2. CASE Deliver(c) \/ AckArrives(c)
                BY <4>2 DEF Deliver, AckArrives, record
            <4>3. CASE OnMessage(c)
                BY <4>3 DEF OnMessage, queue
            <4>4. CASE BasicAck(c) \/ Notice(c)
                BY <4>4 DEF BasicAck, Notice, queue, record
            <4>5. QED
                BY <3>3, <4>1, <4>2, <4>3, <4>4 DEF Work
        <3>4. QED
            BY <1>7, <3>1, <3>2, <3>3
    <2>2. QED
        BY <2>1 DEF Sending, SentIsAccepted
<1>8. CASE UNCHANGED vars
    BY <1>8 DEF vars, queue, record, Sending, SentIsAccepted
<1>9. QED
    BY <1>1, <1>2, <1>3, <1>4, <1>5, <1>6, <1>7, <1>8 DEF Next

LEMMA SpecIInv == Spec => []IInv
<1>1. IInv /\ [Next]_vars => IInv'
    BY NextTypes, NextHandled, NextKept, NextSending DEF IInv
<1>2. QED
    BY <1>1, InitIInv, PTL DEF Spec

-----------------------------------------------------------------------------
(* Messages in order, one to a consumer *)

\* No message is published before a smaller one, and the broker reads them in
\* that order.
InOrder ==
    /\ \A w \in wire, a \in accepted : a < w
    /\ \A m \in wire \cup accepted : m < producer.next
    /\ \A m \in Messages : printed[m] > 0 => m \in accepted

\* basic_qos(prefetch_count=1): a connected consumer has at most the message
\* that the broker counts for it, which is to be printed, being printed or on
\* its way to be acknowledged; one that was cut off may have one in vain.
OneMessage(c) ==
    /\ \A m, k \in unacked[c] : m = k
    /\ \A m, k \in consumer[c].inbox : m = k
    /\ consumer[c].inbox \subseteq accepted
    /\ consumer[c].conn = "up" =>
           /\ consumer[c].inbox \cup acks[c] \subseteq unacked[c]
           /\ consumer[c].busy \in {0} \cup unacked[c]
           /\ consumer[c].inbox \cap acks[c] = {}
           /\ consumer[c].busy \notin consumer[c].inbox \cup acks[c]
    /\ consumer[c].conn # "up" => acks[c] = {}
    /\ consumer[c].conn = "down" => consumer[c].inbox = {}

Prefetch == \A c \in Consumers : OneMessage(c)

\* A crash brings back nothing that is not printed.
DiskIsHeld == \A m \in disk : printed[m] > 0 \/ m \in Held

\* Where a message waits to be printed: the queue, or what a consumer was sent.
Places ==
    {p \in Messages \X SUBSET Consumers :
        \/ p[2] = {} /\ p[1] \in ready
        \/ \E c \in Consumers : p[2] = {c} /\ p[1] \in consumer[c].inbox}

\* The messages that wait in P to be printed for the first time, and the
\* number of places in P that are not needed for that.
Waiting(P, pr) ==
    {m \in Messages : pr[m] = 0 /\ \E s \in SUBSET Consumers : <<m, s>> \in P}
Spare(P, pr) == Cardinality(P) - Cardinality(Waiting(P, pr))

SpareIsPaid == crashes = 0 => repeats + Spare(Places, printed) <= losses

\* The messages that a consumer passes over when it prints m.
Behind(m) == {k \in Held : k < m /\ printed[k] = 0}

BehindIsBounded ==
    \A c \in Consumers : \A m \in consumer[c].inbox :
        Cardinality(Behind(m)) < Cardinality(Consumers)

PInv == IInv /\ InOrder /\ Prefetch /\ DiskIsHeld

LEMMA FinitePlaces ==
    ASSUME NEW P \in SUBSET (Messages \X SUBSET Consumers)
    PROVE  IsFiniteSet(P) /\ Cardinality(P) \in Nat
<1>1. IsFiniteSet(Messages)
    BY FS_Interval, WorkQueueAssumption DEF Messages
<1>2. IsFiniteSet(SUBSET Consumers)
    BY FS_SUBSET, WorkQueueAssumption
<1>3. IsFiniteSet(Messages \X SUBSET Consumers)
    BY <1>1, <1>2, FS_Product
<1>4. QED
    BY <1>3, FS_Subset, FS_CardinalityType

LEMMA FiniteMessages ==
    ASSUME NEW S \in SUBSET Messages
    PROVE  IsFiniteSet(S) /\ Cardinality(S) \in Nat
<1>1. IsFiniteSet(Messages)
    BY FS_Interval, WorkQueueAssumption DEF Messages
<1>2. QED
    BY <1>1, FS_Subset, FS_CardinalityType

\* Every waiting message has a place of its own.
LEMMA SpareIsNat ==
    ASSUME NEW P \in SUBSET (Messages \X SUBSET Consumers), NEW pr \in [Messages -> Nat]
    PROVE  Spare(P, pr) \in Nat
<1> DEFINE W == Waiting(P, pr)
           f == [m \in W |-> CHOOSE p \in P : p[1] = m]
<1>1. W \subseteq Messages
    BY DEF Waiting
<1>2. \A m \in W : f[m] \in P /\ f[m][1] = m
    <2> TAKE m \in W
    <2>1. \E p \in P : p[1] = m
        BY DEF Waiting
    <2>2. QED
        BY <2>1
<1> HIDE DEF W
<1>3. f \in Injection(W, P)
    <2>1. f \in [W -> P]
        BY <1>2
    <2>2. \A a, b \in W : f[a] = f[b] => a = b
        BY <1>2
    <2> HIDE DEF f
    <2>3. QED
        BY <2>1, <2>2 DEF Injection, IsInjective
<1>4. IsFiniteSet(P) /\ Cardinality(P) \in Nat /\ Cardinality(W) \in Nat
    BY <1>1, FinitePlaces, FiniteMessages
<1>5. Cardinality(W) <= Cardinality(P)
    BY <1>3, <1>4, FS_Injection
<1>6. QED
    BY <1>4, <1>5 DEF Spare, W

\* What leaves P takes at most one waiting message for each place with it.
LEMMA SpareShrinks ==
    ASSUME NEW P \in SUBSET (Messages \X SUBSET Consumers), NEW pr \in [Messages -> Nat],
           NEW Q \in SUBSET P
    PROVE  Spare(Q, pr) <= Spare(P, pr)
<1> DEFINE R == P \ Q
           V == Waiting(P, pr) \ Waiting(Q, pr)
<1>1. Waiting(Q, pr) \subseteq Waiting(P, pr) /\ Waiting(P, pr) \subseteq Messages
    BY DEF Waiting
<1>2. V \subseteq Waiting(R, pr) /\ Waiting(R, pr) \subseteq Messages
    BY DEF Waiting
<1>3. /\ Cardinality(V) \in Nat /\ Cardinality(Waiting(R, pr)) \in Nat
      /\ IsFiniteSet(Waiting(R, pr)) /\ IsFiniteSet(Waiting(P, pr))
      /\ Cardinality(Waiting(P, pr)) \in Nat /\ Cardinality(Waiting(Q, pr)) \in Nat
    BY <1>1, <1>2, FiniteMessages
<1>4. Cardinality(V) <= Cardinality(Waiting(R, pr))
    BY <1>2, <1>3, FS_Subset
<1>5. Cardinality(V) = Cardinality(Waiting(P, pr)) - Cardinality(Waiting(Q, pr))
    <2>1. Waiting(P, pr) \cap Waiting(Q, pr) = Waiting(Q, pr)
        BY <1>1
    <2>2. QED
        BY <2>1, <1>3, FS_Difference
<1>6. /\ R \in SUBSET (Messages \X SUBSET Consumers)
      /\ IsFiniteSet(P) /\ Cardinality(P) \in Nat /\ Cardinality(Q) \in Nat
      /\ Cardinality(R) \in Nat
    BY FinitePlaces
<1>7. Cardinality(R) = Cardinality(P) - Cardinality(Q)
    <2>1. P \cap Q = Q
        OBVIOUS
    <2>2. QED
        BY <2>1, <1>6, FS_Difference
<1>8. Cardinality(Waiting(R, pr)) <= Cardinality(R)
    <2> HIDE DEF R
    <2>1. Spare(R, pr) \in Nat
        BY <1>6, SpareIsNat
    <2>2. QED
        BY <2>1, <1>3, <1>6 DEF Spare
<1> HIDE DEF R, V
<1>9. QED
    BY <1>3, <1>4, <1>5, <1>6, <1>7, <1>8 DEF Spare

\* A new place for a message costs one, unless it is its first.
LEMMA SpareGrows ==
    ASSUME NEW P \in SUBSET (Messages \X SUBSET Consumers), NEW pr \in [Messages -> Nat],
           NEW m \in Messages, NEW s \in SUBSET Consumers
    PROVE  /\ Spare(P \cup {<<m, s>>}, pr) <= Spare(P, pr) + 1
           /\ pr[m] = 0 /\ (\A t \in SUBSET Consumers : <<m, t>> \notin P) =>
                  Spare(P \cup {<<m, s>>}, pr) <= Spare(P, pr)
<1> DEFINE Q == P \cup {<<m, s>>}
<1>1. Waiting(P, pr) \subseteq Waiting(Q, pr) /\ Waiting(Q, pr) \subseteq Messages
    BY DEF Waiting
<1>2. /\ Cardinality(Waiting(P, pr)) \in Nat /\ Cardinality(Waiting(Q, pr)) \in Nat
      /\ IsFiniteSet(Waiting(Q, pr)) /\ IsFiniteSet(Waiting(P, pr))
    BY <1>1, FiniteMessages
<1>3. Cardinality(Waiting(P, pr)) <= Cardinality(Waiting(Q, pr))
    BY <1>1, <1>2, FS_Subset
<1>4. IsFiniteSet(P) /\ Cardinality(P) \in Nat
    BY FinitePlaces
<1>5. Cardinality(Q) \in Nat /\ Cardinality(Q) <= Cardinality(P) + 1
    <2>1. Cardinality(Q) \in {Cardinality(P), Cardinality(P) + 1}
        BY <1>4, FS_AddElement
    <2> HIDE DEF Q
    <2>2. QED
        BY <1>4, <2>1
<1>6. ASSUME pr[m] = 0, \A t \in SUBSET Consumers : <<m, t>> \notin P
      PROVE  Cardinality(Waiting(Q, pr)) = Cardinality(Waiting(P, pr)) + 1
    <2>1. Waiting(Q, pr) = Waiting(P, pr) \cup {m} /\ m \notin Waiting(P, pr)
        BY <1>6 DEF Waiting
    <2>2. QED
        BY <2>1, <1>2, FS_AddElement
<1> HIDE DEF Q
<1>7. Spare(Q, pr) <= Spare(P, pr) + 1
    BY <1>2, <1>3, <1>4, <1>5 DEF Spare
<1>8. ASSUME pr[m] = 0, \A t \in SUBSET Consumers : <<m, t>> \notin P
      PROVE  Spare(Q, pr) <= Spare(P, pr)
    BY <1>2, <1>4, <1>5, <1>6, <1>8 DEF Spare
<1>9. QED
    BY <1>7, <1>8 DEF Q

\* A message goes from one place to another.
LEMMA SpareMoves ==
    ASSUME NEW P \in SUBSET (Messages \X SUBSET Consumers), NEW pr \in [Messages -> Nat],
           NEW m \in Messages, NEW s \in SUBSET Consumers, NEW t \in SUBSET Consumers,
           <<m, s>> \in P
    PROVE  Spare((P \ {<<m, s>>}) \cup {<<m, t>>}, pr) <= Spare(P, pr)
<1> DEFINE Q == P \ {<<m, s>>}
           R == Q \cup {<<m, t>>}
<1>1. Waiting(R, pr) = Waiting(P, pr)
    BY DEF Waiting
<1>2. IsFiniteSet(P) /\ Cardinality(P) \in Nat
    BY FinitePlaces
<1>3. Waiting(P, pr) \subseteq Messages
    BY DEF Waiting
<1>4. Cardinality(Waiting(P, pr)) \in Nat
    BY <1>3, FiniteMessages
<1>5. IsFiniteSet(Q) /\ Cardinality(Q) = Cardinality(P) - 1
    BY <1>2, FS_RemoveElement
<1> HIDE DEF Q
<1>6. Cardinality(R) \in {Cardinality(Q), Cardinality(Q) + 1}
    BY <1>5, FS_AddElement
<1> HIDE DEF R
<1>7. Spare(R, pr) <= Spare(P, pr)
    BY <1>1, <1>2, <1>4, <1>5, <1>6 DEF Spare
<1>8. QED
    BY <1>7 DEF Q, R

\* Printing takes a place away, and a spare one if the message was printed
\* before.
LEMMA SpareIsPrinted ==
    ASSUME NEW P \in SUBSET (Messages \X SUBSET Consumers), NEW pr \in [Messages -> Nat],
           NEW m \in Messages, NEW s \in SUBSET Consumers, <<m, s>> \in P
    PROVE  (IF pr[m] > 0 THEN 1 ELSE 0)
               + Spare(P \ {<<m, s>>}, [pr EXCEPT ![m] = pr[m] + 1]) <= Spare(P, pr)
<1> DEFINE Q == P \ {<<m, s>>}
           qr == [pr EXCEPT ![m] = pr[m] + 1]
<1>1. IsFiniteSet(P) /\ Cardinality(P) \in Nat
    BY FinitePlaces
<1>2. Cardinality(Q) = Cardinality(P) - 1
    BY <1>1, FS_RemoveElement
<1>3. Waiting(P, pr) \subseteq Messages
    BY DEF Waiting
<1>4. IsFiniteSet(Waiting(P, pr)) /\ Cardinality(Waiting(P, pr)) \in Nat
    BY <1>3, FiniteMessages
<1>5. \A k \in Messages : qr[k] = IF k = m THEN pr[m] + 1 ELSE pr[k]
    OBVIOUS
<1>6. pr[m] \in Nat
    OBVIOUS
<1>7. Waiting(Q, qr) = Waiting(P, pr) \ {m}
    <2> HIDE DEF qr
    <2>1. ASSUME NEW k \in Messages, k # m
          PROVE  k \in Waiting(Q, qr) <=> k \in Waiting(P, pr)
        BY <1>5, <2>1 DEF Waiting
    <2>2. m \notin Waiting(Q, qr)
        BY <1>5, <1>6 DEF Waiting
    <2>3. Waiting(Q, qr) \subseteq Messages
        BY DEF Waiting
    <2>4. QED
        BY <1>3, <2>1, <2>2, <2>3
<1>8. m \in Waiting(P, pr) <=> pr[m] = 0
    BY DEF Waiting
<1>9. Cardinality(Waiting(Q, qr)) =
          IF pr[m] = 0 THEN Cardinality(Waiting(P, pr)) - 1 ELSE Cardinality(Waiting(P, pr))
    <2> DEFINE W == Waiting(P, pr)
    <2>1. Cardinality(W \ {m}) = IF m \in W THEN Cardinality(W) - 1 ELSE Cardinality(W)
        <3> HIDE DEF W
        <3>1. IsFiniteSet(W)
            BY <1>4 DEF W
        <3>2. QED
            BY <3>1, FS_RemoveElement
    <2> HIDE DEF W
    <2>2. QED
        BY <1>7, <1>8, <2>1 DEF W
<1> HIDE DEF Q, qr
<1>10. (IF pr[m] > 0 THEN 1 ELSE 0) + Spare(Q, qr) <= Spare(P, pr)
    BY <1>1, <1>2, <1>4, <1>6, <1>9 DEF Spare
<1>11. QED
    BY <1>10 DEF Q, qr

-----------------------------------------------------------------------------
LEMMA InitPInv == Init => PInv /\ SpareIsPaid /\ BehindIsBounded
<1> SUFFICES ASSUME Init PROVE PInv /\ SpareIsPaid /\ BehindIsBounded
    OBVIOUS
<1>1. \A c \in Consumers : /\ consumer[c].inbox = {} /\ consumer[c].conn = "down"
                           /\ unacked[c] = {} /\ acks[c] = {}
    BY DEF Init, Down, Nobody
<1>2. InOrder /\ DiskIsHeld
    BY DEF InOrder, DiskIsHeld, Init
<1>3. Prefetch
    BY <1>1 DEF Prefetch, OneMessage
<1>4. BehindIsBounded
    BY <1>1 DEF BehindIsBounded
<1>5. SpareIsPaid
    <2>1. Places = {}
        BY <1>1 DEF Places, Init
    <2>2. Waiting({}, printed) = {}
        BY DEF Waiting
    <2>3. Spare(Places, printed) = 0
        BY <2>1, <2>2, FS_EmptySet DEF Spare
    <2>4. QED
        BY <2>3 DEF SpareIsPaid, Init
<1>6. QED
    BY <1>2, <1>3, <1>4, <1>5, InitIInv DEF PInv

LEMMA NextInOrder == PInv /\ [Next]_vars => InOrder'
<1> SUFFICES ASSUME PInv, [Next]_vars PROVE InOrder'
    OBVIOUS
<1>t. /\ producer.next \in 1 .. Count + 1 /\ Count \in Nat /\ wire \subseteq Messages
      /\ accepted \subseteq Messages /\ Messages \subseteq Nat
      /\ producer \in [at : {"start", "publish", "done", "failed"}, next : 1 .. Count + 1]
      /\ printed \in [Messages -> Nat] /\ consumer \in [Consumers -> Program]
    BY WorkQueueAssumption DEF PInv, IInv, TypeOK, Messages
<1>i. InOrder
    BY DEF PInv
<1>1. ASSUME UNCHANGED <<wire, accepted, printed>>, producer'.next = producer.next
      PROVE  InOrder'
    BY <1>1, <1>i DEF InOrder
<1>2. CASE ProducerConnects \/ Close \/ ProducerFails
    <2>1. producer'.next = producer.next /\ UNCHANGED <<wire, accepted, printed>>
        BY <1>2, <1>t DEF ProducerConnects, Close, ProducerFails, record
    <2>2. QED
        BY <1>1, <2>1
<1>3. CASE Publish
    <2>1. /\ producer'.next = producer.next + 1 /\ wire' = wire \cup {producer.next}
          /\ UNCHANGED <<accepted, printed>>
        BY <1>3, <1>t DEF Publish, record
    <2>2. \A m \in wire \cup accepted : m \in Nat /\ m < producer.next
        BY <1>i, <1>t DEF InOrder
    <2>3. \A m \in (wire \cup accepted)' : m < producer.next + 1
        BY <1>t, <2>1, <2>2
    <2>4. QED
        BY <1>i, <2>1, <2>2, <2>3 DEF InOrder
<1>4. CASE Receive
    <2> DEFINE m == Min(wire)
    <2>1. m \in wire /\ \A w \in wire : m <= w
        BY <1>4, <1>t, FirstMessage DEF Receive
    <2>2. /\ wire' = wire \ {m} /\ accepted' \subseteq accepted \cup {m}
          /\ accepted \subseteq accepted' /\ UNCHANGED <<producer, printed>>
        BY <1>4 DEF Receive
    <2> HIDE DEF m
    <2>3. \A w \in wire \ {m} : m < w
        BY <1>t, <2>1
    <2>4. \A w \in wire', a \in accepted' : a < w
        BY <1>i, <2>1, <2>2, <2>3 DEF InOrder
    <2>5. \A k \in (wire \cup accepted)' : k < producer'.next
        BY <1>i, <2>1, <2>2 DEF InOrder
    <2>6. QED
        BY <1>i, <2>2, <2>4, <2>5 DEF InOrder
<1>5. CASE BrokerCrashes
    <2>1. producer'.next = producer.next /\ wire' = {} /\ UNCHANGED <<accepted, printed>>
        BY <1>5, <1>t DEF BrokerCrashes, record
    <2>2. QED
        BY <1>i, <2>1 DEF InOrder
<1>6. CASE Flush
    BY <1>1, <1>6 DEF Flush
<1>7. ASSUME NEW c \in Consumers,
             \/ ConsumerConnects(c) \/ Deliver(c) \/ BasicAck(c) \/ AckArrives(c) \/ Notice(c)
             \/ Cut(c) \/ ConsumerEnds(c)
      PROVE  InOrder'
    <2>1. UNCHANGED <<producer, wire, accepted, printed>>
        BY <1>7 DEF ConsumerConnects, Deliver, BasicAck, AckArrives, Notice, Cut, ConsumerEnds,
                    record
    <2>2. QED
        BY <1>1, <2>1
<1>8. ASSUME NEW c \in Consumers, OnMessage(c) PROVE InOrder'
    <2> DEFINE m == Min(consumer[c].inbox)
    <2>1. m \in consumer[c].inbox
        BY <1>8, <1>t, FirstMessage DEF OnMessage, Program
    <2>2. m \in accepted
        BY <2>1 DEF PInv, Prefetch, OneMessage
    <2>3. /\ UNCHANGED <<producer, wire, accepted>>
          /\ printed' = [printed EXCEPT ![m] = printed[m] + 1]
        BY <1>8 DEF OnMessage
    <2> HIDE DEF m
    <2>4. \A k \in Messages : printed'[k] > 0 => k = m \/ printed[k] > 0
        BY <1>t, <2>3
    <2>5. QED
        BY <1>i, <2>2, <2>3, <2>4 DEF InOrder
<1>9. CASE UNCHANGED vars
    BY <1>1, <1>9 DEF vars, record
<1>10. QED
    BY <1>2, <1>3, <1>4, <1>5, <1>6, <1>7, <1>8, <1>9 DEF Next, Work

LEMMA Elsewhere ==
    ASSUME NEW d, OneMessage(d), unacked'[d] = unacked[d], acks'[d] = acks[d],
           consumer'[d] = consumer[d], accepted \subseteq accepted'
    PROVE  OneMessage(d)'
BY DEF OneMessage

LEMMA NextPrefetch == PInv /\ [Next]_vars => Prefetch'
<1> SUFFICES ASSUME PInv, [Next]_vars PROVE Prefetch'
    OBVIOUS
<1>t. /\ consumer \in [Consumers -> Program] /\ unacked \in [Consumers -> SUBSET Messages]
      /\ acks \in [Consumers -> SUBSET Messages] /\ ready \subseteq Messages
      /\ ready \subseteq accepted /\ 0 \notin Messages
    BY WorkQueueAssumption DEF PInv, IInv, TypeOK, Kept, Books, Held, Messages
<1>i. \A d \in Consumers : OneMessage(d)
    BY DEF PInv, Prefetch
<1>1. CASE ProducerConnects \/ Publish \/ Close \/ ProducerFails \/ Receive \/ Flush
    <2>1. UNCHANGED <<unacked, acks, consumer>> /\ accepted \subseteq accepted'
        BY <1>1 DEF ProducerConnects, Publish, Close, ProducerFails, Receive, Flush, queue, record
    <2>2. QED
        BY <1>i, <2>1, Elsewhere DEF Prefetch
<1>2. CASE BrokerCrashes
    <2>1. \A d \in Consumers : /\ unacked'[d] = {} /\ acks'[d] = {}
                               /\ consumer'[d].inbox = consumer[d].inbox
                               /\ consumer'[d].conn # "up"
                               /\ consumer'[d].conn = "down" => consumer[d].conn = "down"
        BY <1>2, <1>t DEF BrokerCrashes, Nobody, Program
    <2>2. UNCHANGED accepted
        BY <1>2 DEF BrokerCrashes, record
    <2>3. QED
        BY <1>i, <2>1, <2>2 DEF Prefetch, OneMessage
<1>3. ASSUME NEW c \in Consumers, Work(c) \/ Cut(c) \/ ConsumerEnds(c)
      PROVE  /\ UNCHANGED accepted
             /\ \A d \in Consumers \ {c} : /\ unacked'[d] = unacked[d] /\ acks'[d] = acks[d]
                                           /\ consumer'[d] = consumer[d]
    <2>1. CASE ConsumerConnects(c) \/ Notice(c)
        BY <1>t, <2>1 DEF ConsumerConnects, Notice, queue, record
    <2>2. CASE Deliver(c)
        BY <1>t, <2>2 DEF Deliver, record
    <2>3. CASE OnMessage(c)
        BY <1>t, <2>3 DEF OnMessage, queue
    <2>4. CASE BasicAck(c)
        BY <1>t, <2>4 DEF BasicAck, queue, record
    <2>5. CASE AckArrives(c)
        BY <1>t, <2>5 DEF AckArrives, record
    <2>6. CASE Cut(c) \/ ConsumerEnds(c)
        BY <1>t, <2>6 DEF Cut, ConsumerEnds, Requeue, record
    <2>7. QED
        BY <1>3, <2>1, <2>2, <2>3, <2>4, <2>5, <2>6 DEF Work
<1>4. ASSUME NEW c \in Consumers, Work(c) \/ Cut(c) \/ ConsumerEnds(c), OneMessage(c)'
      PROVE  Prefetch'
    <2>1. \A d \in Consumers \ {c} : OneMessage(d)'
        BY <1>i, <1>3, <1>4, Elsewhere
    <2>2. QED
        BY <1>4, <2>1 DEF Prefetch
<1>5. ASSUME NEW c \in Consumers, ConsumerConnects(c) PROVE OneMessage(c)'
    <2>1. /\ consumer[c].conn = "down" /\ UNCHANGED <<unacked, acks, accepted>>
          /\ consumer'[c].inbox = {} /\ consumer'[c].busy = 0 /\ consumer'[c].conn = "up"
        BY <1>5, <1>t DEF ConsumerConnects, Down, record
    <2>2. acks[c] = {}
        BY <1>i, <2>1 DEF OneMessage
    <2>3. QED
        BY <1>i, <2>1, <2>2 DEF OneMessage
<1>6. ASSUME NEW c \in Consumers, Deliver(c) PROVE OneMessage(c)'
    <2> DEFINE m == Min(ready)
    <2>1. m \in ready
        BY <1>6, <1>t, FirstMessage DEF Deliver
    <2>2. consumer[c].conn = "up" /\ unacked[c] = {} /\ UNCHANGED <<acks, accepted>>
        BY <1>6 DEF Deliver, MayTake, record
    <2>3. unacked'[c] = {m}
        BY <1>6, <1>t, <2>2 DEF Deliver
    <2>4. consumer[c].inbox = {} /\ acks[c] = {} /\ consumer[c].busy = 0
        BY <1>i, <2>2 DEF OneMessage
    <2>5. /\ consumer'[c].inbox = {m} /\ consumer'[c].busy = 0 /\ consumer'[c].conn = "up"
        BY <1>6, <1>t, <2>2, <2>4 DEF Deliver, Program
    <2> HIDE DEF m
    <2>6. m \in accepted /\ m # 0
        BY <1>t, <2>1
    <2>7. QED
        BY <2>2, <2>3, <2>4, <2>5, <2>6 DEF OneMessage
<1>7. ASSUME NEW c \in Consumers, OnMessage(c) PROVE OneMessage(c)'
    <2> DEFINE m == Min(consumer[c].inbox)
    <2>1. m \in consumer[c].inbox
        BY <1>7, <1>t, FirstMessage DEF OnMessage, Program
    <2>2. /\ consumer'[c].inbox = consumer[c].inbox \ {m} /\ consumer'[c].busy = m
          /\ consumer'[c].conn = consumer[c].conn /\ UNCHANGED <<unacked, acks, accepted>>
        BY <1>7, <1>t DEF OnMessage, Program, queue
    <2> HIDE DEF m
    <2>3. QED
        BY <1>i, <2>1, <2>2 DEF OneMessage
<1>8. ASSUME NEW c \in Consumers, BasicAck(c) PROVE OneMessage(c)'
    <2> DEFINE b == consumer[c].busy
    <2>1. /\ consumer[c].conn = "up" /\ b # 0
          /\ UNCHANGED <<unacked, accepted>>
          /\ acks'[c] = acks[c] \cup {b}
        BY <1>8, <1>t DEF BasicAck, queue, record
    <2>2. consumer'[c].inbox = consumer[c].inbox /\ consumer'[c].busy = 0
          /\ consumer'[c].conn = "up"
        BY <1>8, <1>t DEF BasicAck, Program
    <2>3. 0 \notin unacked[c]
        BY <1>t
    <2>4. QED
        BY <1>i, <2>1, <2>2, <2>3 DEF OneMessage
<1>9. ASSUME NEW c \in Consumers, AckArrives(c) PROVE OneMessage(c)'
    <2>1. /\ unacked'[c] = unacked[c] \ acks[c] /\ acks'[c] = {}
          /\ UNCHANGED <<consumer, accepted>>
        BY <1>9, <1>t DEF AckArrives, record
    <2>2. QED
        BY <1>i, <2>1 DEF OneMessage
<1>10. ASSUME NEW c \in Consumers, Notice(c) PROVE OneMessage(c)'
    <2>1. /\ consumer[c].conn = "cut" /\ UNCHANGED <<unacked, acks, accepted>>
          /\ consumer'[c].inbox = {} /\ consumer'[c].conn = "down"
        BY <1>10, <1>t DEF Notice, Down, queue, record
    <2>2. QED
        BY <1>i, <2>1 DEF OneMessage
<1>11. ASSUME NEW c \in Consumers, Cut(c) \/ ConsumerEnds(c) PROVE OneMessage(c)'
    <2>1. unacked'[c] = {} /\ acks'[c] = {} /\ UNCHANGED accepted
        BY <1>11, <1>t DEF Cut, ConsumerEnds, Requeue, record
    <2>2. \/ consumer'[c].inbox = consumer[c].inbox /\ consumer'[c].conn = "cut"
          \/ consumer'[c].inbox = {} /\ consumer'[c].conn = "down"
        BY <1>11, <1>t DEF Cut, ConsumerEnds, Down, Program
    <2>3. QED
        BY <1>i, <2>1, <2>2 DEF OneMessage
<1>12. CASE UNCHANGED vars
    <2>1. UNCHANGED <<unacked, acks, consumer, accepted>>
        BY <1>12 DEF vars, queue, record
    <2>2. QED
        BY <1>i, <2>1, Elsewhere DEF Prefetch
<1>13. QED
    BY <1>1, <1>2, <1>4, <1>5, <1>6, <1>7, <1>8, <1>9, <1>10, <1>11, <1>12 DEF Next, Work

-----------------------------------------------------------------------------
(* Overtaking *)

\* What a step may do to the messages that the broker holds: it gets new ones
\* from the wire only, and after a crash none that was never printed.
LEMMA HeldStep ==
    ASSUME PInv, [Next]_vars
    PROVE  /\ \A m \in Messages : printed[m] > 0 => printed'[m] > 0
           /\ \A m \in Held' : m \in Held \/ m \in wire \/ printed[m] > 0
           /\ DiskIsHeld'
<1>t. /\ unacked \in [Consumers -> SUBSET Messages] /\ printed \in [Messages -> Nat]
      /\ disk \subseteq Messages /\ ready \subseteq Messages /\ wire \subseteq Messages
      /\ consumer \in [Consumers -> Program]
    BY DEF PInv, IInv, TypeOK
<1>i. DiskIsHeld
    BY DEF PInv
<1>1. ASSUME UNCHANGED <<ready, unacked, disk, printed>>
      PROVE  /\ \A m \in Messages : printed[m] > 0 => printed'[m] > 0
             /\ \A m \in Held' : m \in Held \/ m \in wire \/ printed[m] > 0
             /\ DiskIsHeld'
    BY <1>1, <1>i DEF Held, DiskIsHeld
<1>2. CASE ProducerConnects \/ Publish \/ Close \/ ProducerFails
    <2>1. UNCHANGED <<ready, unacked, disk, printed>>
        BY <1>2 DEF ProducerConnects, Publish, Close, ProducerFails, queue, record
    <2>2. QED
        BY <1>1, <2>1
<1>3. CASE Receive
    <2>1. Min(wire) \in wire
        BY <1>3, <1>t, FirstMessage DEF Receive
    <2>2. /\ ready \subseteq ready' /\ ready' \subseteq ready \cup wire
          /\ UNCHANGED <<unacked, disk, printed>>
        BY <1>3, <2>1 DEF Receive
    <2>3. Held \subseteq Held' /\ Held' \subseteq Held \cup wire
        BY <2>2 DEF Held
    <2>4. QED
        BY <1>i, <2>2, <2>3 DEF DiskIsHeld
<1>4. CASE Flush
    <2>1. disk' = Held /\ Held' = Held /\ UNCHANGED printed
        BY <1>4 DEF Flush, Held
    <2>2. QED
        BY <2>1 DEF DiskIsHeld
<1>5. CASE BrokerCrashes
    <2>1. Held' = disk
        BY <1>5 DEF BrokerCrashes, Held, Nobody
    <2>2. UNCHANGED <<disk, printed>>
        BY <1>5 DEF BrokerCrashes, record
    <2>3. QED
        BY <1>i, <2>1, <2>2 DEF DiskIsHeld
<1>6. ASSUME NEW c \in Consumers, ConsumerConnects(c) \/ Notice(c) \/ BasicAck(c)
      PROVE  UNCHANGED <<ready, unacked, disk, printed>>
    BY <1>6 DEF ConsumerConnects, Notice, BasicAck, queue, record
<1>7. ASSUME NEW c \in Consumers, Deliver(c)
      PROVE  Held' = Held /\ UNCHANGED <<disk, printed>>
    <2> DEFINE m == Min(ready)
    <2>1. m \in ready
        BY <1>7, <1>t, FirstMessage DEF Deliver
    <2>2. /\ ready' = ready \ {m} /\ UNCHANGED <<disk, printed>>
          /\ \A d \in Consumers : unacked'[d] = IF d = c THEN unacked[c] \cup {m} ELSE unacked[d]
        BY <1>7, <1>t DEF Deliver, record
    <2> HIDE DEF m
    <2>3. QED
        BY <2>1, <2>2 DEF Held
<1>8. ASSUME NEW c \in Consumers, Cut(c) \/ ConsumerEnds(c)
      PROVE  Held' = Held /\ UNCHANGED <<disk, printed>>
    <2>1. /\ ready' = ready \cup unacked[c] /\ UNCHANGED <<disk, printed>>
          /\ \A d \in Consumers : unacked'[d] = IF d = c THEN {} ELSE unacked[d]
        BY <1>8, <1>t DEF Cut, ConsumerEnds, Requeue, record
    <2>2. QED
        BY <2>1 DEF Held
<1>9. ASSUME NEW c \in Consumers, AckArrives(c)
      PROVE  /\ \A m \in Messages : printed[m] > 0 => printed'[m] > 0
             /\ \A m \in Held' : m \in Held \/ m \in wire \/ printed[m] > 0
             /\ DiskIsHeld'
    <2>1. /\ \A d \in Consumers : unacked'[d] = IF d = c THEN unacked[c] \ acks[c] ELSE unacked[d]
          /\ UNCHANGED <<ready, disk, printed>>
        BY <1>9, <1>t DEF AckArrives, record
    <2>2. Held' \subseteq Held /\ \A m \in Held \ Held' : m \in acks[c]
        BY <2>1 DEF Held
    <2>3. \A m \in Held \ Held' : printed[m] > 0
        BY <2>2 DEF PInv, IInv, Handled
    <2>4. QED
        BY <1>i, <2>1, <2>2, <2>3 DEF DiskIsHeld
<1>10. ASSUME NEW c \in Consumers, OnMessage(c)
       PROVE  /\ \A m \in Messages : printed[m] > 0 => printed'[m] > 0
              /\ \A m \in Held' : m \in Held \/ m \in wire \/ printed[m] > 0
              /\ DiskIsHeld'
    <2>1. Min(consumer[c].inbox) \in Messages
        BY <1>10, <1>t, FirstMessage DEF OnMessage, Program
    <2>2. \A m \in Messages : printed[m] > 0 => printed'[m] > 0
        BY <1>10, <1>t, <2>1 DEF OnMessage
    <2>3. Held' = Held /\ UNCHANGED disk
        BY <1>10 DEF OnMessage, queue, Held
    <2>4. QED
        BY <1>i, <1>t, <2>2, <2>3 DEF DiskIsHeld
<1>11. CASE UNCHANGED vars
    BY <1>1, <1>11 DEF vars, queue, record
<1>12. ASSUME Held' = Held, UNCHANGED <<disk, printed>>
       PROVE  /\ \A m \in Messages : printed[m] > 0 => printed'[m] > 0
              /\ \A m \in Held' : m \in Held \/ m \in wire \/ printed[m] > 0
              /\ DiskIsHeld'
    BY <1>12, <1>i DEF DiskIsHeld
<1>13. QED
    BY <1>1, <1>2, <1>3, <1>4, <1>5, <1>6, <1>7, <1>8, <1>9, <1>10, <1>11, <1>12
    DEF Next, Work

\* A consumer gets a message from the broker, or nothing new.
LEMMA InboxStep ==
    ASSUME PInv, [Next]_vars, NEW c \in Consumers
    PROVE  \/ consumer'[c].inbox \subseteq consumer[c].inbox
           \/ /\ Deliver(c)
              /\ consumer'[c].inbox = consumer[c].inbox \cup {Min(ready)}
<1>t. consumer \in [Consumers -> Program]
    BY DEF PInv, IInv, TypeOK
<1>1. CASE ProducerConnects \/ Publish \/ Close \/ ProducerFails \/ Receive \/ Flush
    BY <1>1 DEF ProducerConnects, Publish, Close, ProducerFails, Receive, Flush
<1>2. CASE BrokerCrashes
    BY <1>2, <1>t DEF BrokerCrashes, Program
<1>3. ASSUME NEW d \in Consumers, ConsumerConnects(d) \/ Notice(d) \/ ConsumerEnds(d)
      PROVE  consumer'[c].inbox \subseteq consumer[c].inbox
    BY <1>3, <1>t DEF ConsumerConnects, Notice, ConsumerEnds, Down
<1>4. ASSUME NEW d \in Consumers, OnMessage(d)
      PROVE  consumer'[c].inbox \subseteq consumer[c].inbox
    BY <1>4, <1>t DEF OnMessage, Program
<1>5. ASSUME NEW d \in Consumers, BasicAck(d) \/ AckArrives(d) \/ Cut(d)
      PROVE  consumer'[c].inbox \subseteq consumer[c].inbox
    BY <1>5, <1>t DEF BasicAck, AckArrives, Cut, Program
<1>6. ASSUME NEW d \in Consumers, Deliver(d)
      PROVE  \/ consumer'[c].inbox \subseteq consumer[c].inbox
             \/ Deliver(c) /\ consumer'[c].inbox = consumer[c].inbox \cup {Min(ready)}
    BY <1>6, <1>t DEF Deliver, Program
<1>7. CASE UNCHANGED vars
    BY <1>7 DEF vars
<1>8. QED
    BY <1>1, <1>2, <1>3, <1>4, <1>5, <1>6, <1>7 DEF Next, Work

\* What is smaller than all that is ready is with the other consumers, one
\* message each.
LEMMA OneEach ==
    ASSUME PInv, NEW c \in Consumers, Deliver(c)
    PROVE  Cardinality(Behind(Min(ready))) < Cardinality(Consumers)
<1> DEFINE m == Min(ready)
           B == Behind(m)
           T == Consumers \ {c}
           f == [k \in B |-> CHOOSE d \in T : k \in unacked[d]]
<1>t. /\ ready \subseteq Messages /\ Messages \subseteq Nat
      /\ unacked \in [Consumers -> SUBSET Messages]
    BY WorkQueueAssumption DEF PInv, IInv, TypeOK, Messages
<1>1. m \in ready /\ \A k \in ready : m <= k
    BY <1>t, FirstMessage DEF Deliver
<1>2. unacked[c] = {}
    BY DEF Deliver, MayTake
<1> HIDE DEF m
<1>3. \A k \in B : \E d \in T : k \in unacked[d]
    <2> SUFFICES ASSUME NEW k \in B PROVE \E d \in T : k \in unacked[d]
        OBVIOUS
    <2>1. k \in Held /\ k < m
        BY DEF Behind
    <2>2. k \notin ready
        <3> SUFFICES ASSUME k \in ready PROVE FALSE
            OBVIOUS
        <3>1. k \in Nat /\ m \in Nat /\ m <= k
            BY <1>t, <1>1
        <3>2. QED
            BY <2>1, <3>1
    <2>3. PICK d \in Consumers : k \in unacked[d]
        BY <2>1, <2>2, HeldElement
    <2>4. QED
        BY <1>2, <2>3
<1>4. \A k \in B : f[k] \in T /\ k \in unacked[f[k]]
    BY <1>3
<1> HIDE DEF B
<1>5. f \in Injection(B, T)
    <2>1. f \in [B -> T]
        BY <1>4
    <2>2. \A j, k \in B : f[j] = f[k] => j = k
        BY <1>4 DEF PInv, Prefetch, OneMessage
    <2> HIDE DEF f
    <2>3. QED
        BY <2>1, <2>2 DEF Injection, IsInjective
<1>6. /\ IsFiniteSet(Consumers) /\ Cardinality(Consumers) \in Nat
      /\ IsFiniteSet(T) /\ Cardinality(T) = Cardinality(Consumers) - 1
    BY WorkQueueAssumption, FS_CardinalityType, FS_RemoveElement
<1>7. B \subseteq Messages
    <2>1. Held \subseteq Messages
        BY <1>t DEF Held
    <2>2. QED
        BY <2>1 DEF B, Behind
<1>8. Cardinality(B) \in Nat
    BY <1>7, FiniteMessages
<1>9. Cardinality(B) <= Cardinality(T)
    BY <1>5, <1>6, FS_Injection
<1> HIDE DEF T
<1>10. Cardinality(B) < Cardinality(Consumers)
    BY <1>6, <1>8, <1>9
<1>11. QED
    BY <1>10 DEF B, m

LEMMA NextBehind == PInv /\ BehindIsBounded /\ [Next]_vars => BehindIsBounded'
<1> SUFFICES ASSUME PInv, BehindIsBounded, [Next]_vars,
                    NEW c \in Consumers, NEW m \in consumer'[c].inbox
             PROVE  Cardinality(Behind(m)') < Cardinality(Consumers)
    BY DEF BehindIsBounded
<1>t. /\ ready \subseteq Messages /\ unacked \in [Consumers -> SUBSET Messages]
      /\ wire \subseteq Messages /\ accepted \subseteq Messages /\ Messages \subseteq Nat
      /\ printed \in [Messages -> Nat] /\ Held \subseteq accepted
    BY WorkQueueAssumption DEF PInv, IInv, TypeOK, Messages, Kept, Books
<1>0. TypeOK'
    BY NextTypes DEF PInv, IInv
<1>1. m \in accepted /\ Cardinality(Behind(m)) < Cardinality(Consumers)
    <2>1. CASE m \in consumer[c].inbox
        BY <2>1 DEF BehindIsBounded, PInv, Prefetch, OneMessage
    <2>2. CASE Deliver(c) /\ m = Min(ready)
        <3>1. m \in ready
            BY <1>t, <2>2, FirstMessage DEF Deliver
        <3>2. m \in accepted
            BY <1>t, <3>1 DEF Held
        <3>3. QED
            BY <2>2, <3>2, OneEach
    <2>3. QED
        BY <2>1, <2>2, InboxStep
<1>2. Behind(m)' \subseteq Behind(m)
    <2> SUFFICES ASSUME NEW k \in Held', k < m, printed'[k] = 0
                 PROVE  k \in Held /\ printed[k] = 0
        BY DEF Behind
    <2>1. k \in Messages
        BY <1>0 DEF TypeOK, Held
    <2>2. ~ (printed[k] > 0)
        BY <2>1, HeldStep
    <2>3. k \notin wire
        BY <1>1, <1>t, <2>1 DEF PInv, InOrder
    <2>4. QED
        BY <1>t, <2>1, <2>2, <2>3, HeldStep
<1>3. Behind(m) \subseteq Messages
    BY <1>t DEF Behind
<1>4. IsFiniteSet(Behind(m)) /\ Cardinality(Behind(m)) \in Nat
    BY <1>3, FiniteMessages
<1>5. Cardinality(Behind(m)') \in Nat /\ Cardinality(Behind(m)') <= Cardinality(Behind(m))
    BY <1>2, <1>4, FS_Subset, FS_CardinalityType
<1>6. Cardinality(Consumers) \in Nat
    BY WorkQueueAssumption, FS_CardinalityType
<1>7. QED
    BY <1>1, <1>4, <1>5, <1>6

-----------------------------------------------------------------------------
(* Repeats *)

LEMMA PlacesType == Places \in SUBSET (Messages \X SUBSET Consumers)
BY DEF Places

LEMMA PlaceInQueue ==
    ASSUME NEW m \in Messages, NEW s \in SUBSET Consumers
    PROVE  <<m, s>> \in Places <=> \/ s = {} /\ m \in ready
                                   \/ \E c \in Consumers : s = {c} /\ m \in consumer[c].inbox
BY DEF Places

\* Without a crash a step pays for a spare place with a lost connection, and
\* takes one for what is printed again.
LEMMA NextSpare == PInv /\ SpareIsPaid /\ [Next]_vars => SpareIsPaid'
<1> SUFFICES ASSUME PInv, SpareIsPaid, [Next]_vars, crashes' = 0
             PROVE  repeats' + Spare(Places', printed') <= losses'
    BY DEF SpareIsPaid
<1> DEFINE P == Places
<1>t. /\ ready \subseteq Messages /\ wire \subseteq Messages /\ accepted \subseteq Messages
      /\ unacked \in [Consumers -> SUBSET Messages] /\ consumer \in [Consumers -> Program]
      /\ printed \in [Messages -> Nat] /\ repeats \in Nat /\ losses \in Nat
      /\ crashes \in Nat
    BY WorkQueueAssumption DEF PInv, IInv, TypeOK
<1>0. /\ P \in SUBSET (Messages \X SUBSET Consumers) /\ Spare(P, printed) \in Nat
      /\ P' \in SUBSET (Messages \X SUBSET Consumers)
      /\ printed' \in [Messages -> Nat] /\ Spare(P', printed') \in Nat
    <2>1. P \in SUBSET (Messages \X SUBSET Consumers)
        BY PlacesType
    <2>2. P' \in SUBSET (Messages \X SUBSET Consumers)
        BY DEF Places
    <2>3. printed' \in [Messages -> Nat]
        BY NextTypes DEF PInv, IInv, TypeOK
    <2> HIDE DEF P
    <2>4. QED
        BY <1>t, <2>1, <2>2, <2>3, SpareIsNat
<1>c. crashes = 0 => repeats + Spare(P, printed) <= losses
    BY DEF SpareIsPaid
<1>1. ASSUME P' \subseteq P, UNCHANGED <<printed, repeats, crashes>>, losses' >= losses,
             losses' \in Nat
      PROVE  repeats' + Spare(P', printed') <= losses'
    <2> HIDE DEF P
    <2>1. Spare(P', printed) <= Spare(P, printed)
        BY <1>0, <1>1, <1>t, SpareShrinks
    <2>2. Spare(P', printed) = Spare(P', printed')
        BY <1>1
    <2>3. QED
        BY <1>0, <1>1, <1>c, <1>t, <2>1, <2>2
<1>2. CASE ProducerConnects \/ Publish \/ Close \/ ProducerFails
    <2>1. UNCHANGED <<ready, consumer, printed, repeats, losses, crashes>>
        BY <1>2 DEF ProducerConnects, Publish, Close, ProducerFails, queue, record
    <2>2. QED
        BY <1>1, <1>t, <2>1 DEF Places
<1>3. CASE Flush
    <2>1. UNCHANGED <<ready, consumer, printed, repeats, losses, crashes>>
        BY <1>3 DEF Flush
    <2>2. QED
        BY <1>1, <1>t, <2>1 DEF Places
<1>4. CASE Receive
    <2> DEFINE m == Min(wire)
    <2>1. m \in wire
        BY <1>4, <1>t, FirstMessage DEF Receive
    <2>2. /\ UNCHANGED <<consumer, printed, repeats, losses, crashes>>
          /\ ready' = ready \/ ready' = ready \cup {m}
        BY <1>4 DEF Receive
    <2> HIDE DEF m
    <2>3. CASE ready' = ready
        BY <1>1, <1>t, <2>2, <2>3 DEF Places
    <2>4. CASE ready' = ready \cup {m}
        <3>1. P' \subseteq P \cup {<<m, {}>>}
            BY <2>2, <2>4 DEF Places
        <3>2. m \in Messages /\ m \notin accepted
            <4>1. \A a \in accepted : a < m
                BY <2>1 DEF PInv, InOrder
            <4>2. m \in Nat
                BY <1>t, <2>1, WorkQueueAssumption DEF Messages
            <4>3. QED
                BY <1>t, <2>1, <4>1, <4>2
        <3>3. printed[m] = 0
            BY <1>t, <3>2 DEF PInv, InOrder
        <3>4. \A s \in SUBSET Consumers : <<m, s>> \notin P
            <4>1. m \notin ready
                BY <3>2 DEF PInv, IInv, Kept, Books, Held
            <4>2. \A c \in Consumers : m \notin consumer[c].inbox
                BY <3>2 DEF PInv, Prefetch, OneMessage
            <4>3. QED
                BY <3>2, <4>1, <4>2, PlaceInQueue
        <3> DEFINE Q == P \cup {<<m, {}>>}
        <3> HIDE DEF P
        <3>5. Spare(Q, printed) <= Spare(P, printed)
            BY <1>0, <1>t, <3>2, <3>3, <3>4, SpareGrows
        <3>6. Q \in SUBSET (Messages \X SUBSET Consumers) /\ P' \subseteq Q
            BY <1>0, <3>1, <3>2
        <3> HIDE DEF Q
        <3>7. Spare(P', printed) <= Spare(Q, printed) /\ Spare(Q, printed) \in Nat
            BY <1>t, <3>6, SpareShrinks, SpareIsNat
        <3>8. Spare(P', printed') = Spare(P', printed)
            BY <2>2
        <3>9. Spare(P', printed') <= Spare(P, printed)
            BY <1>0, <3>5, <3>7, <3>8
        <3>10. repeats' + Spare(P', printed') <= losses'
            BY <1>0, <1>c, <1>t, <2>2, <3>9
        <3>11. QED
            BY <3>10 DEF P
    <2>5. QED
        BY <2>2, <2>3, <2>4
<1>5. CASE BrokerCrashes
    BY <1>5, <1>t DEF BrokerCrashes
<1>6. ASSUME NEW c \in Consumers, ConsumerConnects(c) \/ Notice(c) \/ BasicAck(c)
      PROVE  repeats' + Spare(P', printed') <= losses'
    <2>1. /\ \A d \in Consumers : consumer'[d].inbox \subseteq consumer[d].inbox
          /\ UNCHANGED <<ready, printed, repeats, losses, crashes>>
        BY <1>6, <1>t DEF ConsumerConnects, Notice, BasicAck, Down, Program, queue, record
    <2>2. P' \subseteq P
        BY <2>1 DEF Places
    <2>3. QED
        BY <1>1, <1>t, <2>1, <2>2
<1>7. ASSUME NEW c \in Consumers, AckArrives(c)
      PROVE  repeats' + Spare(P', printed') <= losses'
    <2>1. UNCHANGED <<ready, consumer, printed, repeats, losses, crashes>>
        BY <1>7 DEF AckArrives, record
    <2>2. QED
        BY <1>1, <1>t, <2>1 DEF Places
<1>8. ASSUME NEW c \in Consumers, Deliver(c)
      PROVE  repeats' + Spare(P', printed') <= losses'
    <2> DEFINE m == Min(ready)
    <2>1. m \in ready
        BY <1>8, <1>t, FirstMessage DEF Deliver
    <2>2. /\ ready' = ready \ {m} /\ UNCHANGED <<printed, repeats, losses, crashes>>
          /\ \A d \in Consumers :
                 consumer'[d].inbox = IF d = c THEN consumer[c].inbox \cup {m}
                                               ELSE consumer[d].inbox
        BY <1>8, <1>t DEF Deliver, Program, record
    <2> HIDE DEF m
    <2>3. m \in Messages /\ <<m, {}>> \in P
        BY <1>t, <2>1, PlaceInQueue
    <2> DEFINE Q == (P \ {<<m, {}>>}) \cup {<<m, {c}>>}
    <2>4. P' \subseteq Q
        BY <2>2 DEF Places
    <2> HIDE DEF P
    <2>5. Spare(Q, printed) <= Spare(P, printed)
        BY <1>0, <1>t, <2>3, SpareMoves
    <2>6. Q \in SUBSET (Messages \X SUBSET Consumers)
        BY <1>0, <2>3
    <2> HIDE DEF Q
    <2>7. Spare(P', printed) <= Spare(Q, printed) /\ Spare(Q, printed) \in Nat
        BY <1>t, <2>4, <2>6, SpareShrinks, SpareIsNat
    <2>8. Spare(P', printed') = Spare(P', printed)
        BY <2>2
    <2>9. QED
        BY <1>0, <1>c, <1>t, <2>2, <2>5, <2>7, <2>8
<1>9. ASSUME NEW c \in Consumers, OnMessage(c)
      PROVE  repeats' + Spare(P', printed') <= losses'
    <2> DEFINE m == Min(consumer[c].inbox)
               pr == [printed EXCEPT ![m] = printed[m] + 1]
               x == IF printed[m] > 0 THEN 1 ELSE 0
    <2>1. m \in consumer[c].inbox /\ m \in Messages
        BY <1>9, <1>t, FirstMessage DEF OnMessage, Program
    <2>2. /\ printed' = pr /\ repeats' = repeats + x
          /\ UNCHANGED <<ready, losses, crashes>>
          /\ \A d \in Consumers :
                 consumer'[d].inbox = IF d = c THEN consumer[c].inbox \ {m} ELSE consumer[d].inbox
        BY <1>9, <1>t DEF OnMessage, Program, queue
    <2> HIDE DEF m
    <2>3. <<m, {c}>> \in P
        BY <2>1, PlaceInQueue
    <2> DEFINE Q == P \ {<<m, {c}>>}
    <2>4. P' \subseteq Q
        BY <2>2 DEF Places
    <2> HIDE DEF P
    <2>5. x + Spare(Q, pr) <= Spare(P, printed)
        BY <1>0, <1>t, <2>1, <2>3, SpareIsPrinted
    <2>6. Q \in SUBSET (Messages \X SUBSET Consumers) /\ pr \in [Messages -> Nat] /\ x \in Nat
        BY <1>0, <1>t, <2>1
    <2> HIDE DEF Q, pr, x
    <2>7. Spare(P', pr) <= Spare(Q, pr) /\ Spare(Q, pr) \in Nat
        BY <2>4, <2>6, SpareShrinks, SpareIsNat
    <2>8. Spare(P', printed') = Spare(P', pr)
        BY <2>2
    <2>9. QED
        BY <1>0, <1>c, <1>t, <2>2, <2>5, <2>6, <2>7, <2>8
<1>10. ASSUME NEW c \in Consumers, Cut(c) \/ ConsumerEnds(c)
       PROVE  repeats' + Spare(P', printed') <= losses'
    <2>1. /\ ready' = ready \cup unacked[c] /\ UNCHANGED <<printed, repeats, crashes>>
          /\ losses' = losses + 1
        BY <1>10 DEF Cut, ConsumerEnds, Requeue, record
    <2>2. \A d \in Consumers : consumer'[d].inbox \subseteq consumer[d].inbox
        BY <1>10, <1>t DEF Cut, ConsumerEnds, Down, Program
    <2>3. CASE unacked[c] = {}
        <3>1. P' \subseteq P
            BY <2>1, <2>2, <2>3 DEF Places
        <3>2. QED
            BY <1>1, <1>t, <2>1, <3>1
    <2>4. CASE unacked[c] # {}
        <3>1. PICK m \in Messages : unacked[c] = {m}
            BY <1>t, <2>4 DEF PInv, Prefetch, OneMessage
        <3> DEFINE Q == P \cup {<<m, {}>>}
        <3>2. P' \subseteq Q
            BY <2>1, <2>2, <3>1 DEF Places
        <3> HIDE DEF P
        <3>3. Spare(Q, printed) <= Spare(P, printed) + 1
            BY <1>0, <1>t, SpareGrows
        <3>4. Q \in SUBSET (Messages \X SUBSET Consumers)
            BY <1>0
        <3> HIDE DEF Q
        <3>5. Spare(P', printed) <= Spare(Q, printed) /\ Spare(Q, printed) \in Nat
            BY <1>t, <3>2, <3>4, SpareShrinks, SpareIsNat
        <3>6. Spare(P', printed') = Spare(P', printed)
            BY <2>1
        <3>7. QED
            BY <1>0, <1>c, <1>t, <2>1, <3>3, <3>5, <3>6
    <2>5. QED
        BY <2>3, <2>4
<1>11. CASE UNCHANGED vars
    BY <1>1, <1>11, <1>t DEF vars, queue, record, Places
<1>12. QED
    BY <1>2, <1>3, <1>4, <1>5, <1>6, <1>7, <1>8, <1>9, <1>10, <1>11 DEF Next, Work

LEMMA SpecPInv == Spec => [](PInv /\ SpareIsPaid /\ BehindIsBounded)
<1>1. PInv /\ [Next]_vars => PInv'
    <2>1. IInv /\ [Next]_vars => IInv'
        BY NextTypes, NextHandled, NextKept, NextSending DEF IInv
    <2>2. QED
        BY <2>1, NextInOrder, NextPrefetch, HeldStep DEF PInv
<1>2. QED
    BY <1>1, InitPInv, NextSpare, NextBehind, PTL DEF Spec

-----------------------------------------------------------------------------
\* The types of the producer, the broker and the consumers.
THEOREM TypeCorrect == Spec => []TypeOK
<1>1. IInv => TypeOK
    BY DEF IInv
<1>2. QED
    BY <1>1, SpecIInv, PTL

\* consumer.py acknowledges after it has printed: however connections are lost,
\* consumers killed and messages put back, what the broker took is printed or
\* still in its hands, and after a crash so is all that was on disk.
THEOREM NothingIsLostTheorem == Spec => []NothingIsLost
<1>1. IInv => NothingIsLost
    BY DEF IInv, Kept
<1>2. QED
    BY <1>1, SpecIInv, PTL

\* producer.py says that all messages are sent only when the broker took them.
THEOREM SentTheorem == Spec => []SentIsAccepted
<1>1. IInv => SentIsAccepted
    BY DEF IInv, Sending
<1>2. QED
    BY <1>1, SpecIInv, PTL

\* With prefetch_count=1 each lost connection costs at most one message that is
\* printed again, as long as the broker does not crash.
THEOREM RepeatsTheorem == Spec => []RepeatsAreBounded
<1>1. PInv /\ SpareIsPaid => RepeatsAreBounded
    <2> SUFFICES ASSUME PInv, SpareIsPaid, crashes = 0 PROVE repeats <= losses
        BY DEF RepeatsAreBounded
    <2>1. repeats \in Nat /\ losses \in Nat /\ printed \in [Messages -> Nat]
        BY WorkQueueAssumption DEF PInv, IInv, TypeOK
    <2>2. Spare(Places, printed) \in Nat
        BY <2>1, PlacesType, SpareIsNat
    <2>3. QED
        BY <2>1, <2>2 DEF SpareIsPaid
<1>2. QED
    BY <1>1, SpecPInv, PTL

\* With prefetch_count=1 a message that is printed has passed over fewer others
\* than there are consumers, whatever was put back and whoever is slow.
THEOREM OvertakingTheorem == Spec => OvertakingIsBounded
<1>1. ASSUME PInv, BehindIsBounded, [Next]_vars, NEW m \in Messages, printed'[m] > printed[m]
      PROVE  Cardinality({k \in Held : k < m /\ printed[k] = 0}) < Cardinality(Consumers)
    <2>1. printed \in [Messages -> Nat] /\ consumer \in [Consumers -> Program]
        BY <1>1 DEF PInv, IInv, TypeOK
    <2>2. printed' # printed
        BY <1>1, <2>1
    <2>3. PICK c \in Consumers : OnMessage(c)
        <3>1. CASE ProducerConnects \/ Publish \/ Close \/ ProducerFails \/ Receive \/ Flush
                   \/ BrokerCrashes
            BY <2>2, <3>1 DEF ProducerConnects, Publish, Close, ProducerFails, Receive, Flush,
                              BrokerCrashes, record
        <3>2. ASSUME NEW c \in Consumers,
                     \/ ConsumerConnects(c) \/ Deliver(c) \/ BasicAck(c) \/ AckArrives(c)
                     \/ Notice(c) \/ Cut(c) \/ ConsumerEnds(c)
              PROVE  FALSE
            BY <2>2, <3>2 DEF ConsumerConnects, Deliver, BasicAck, AckArrives, Notice, Cut,
                              ConsumerEnds, record
        <3>3. CASE UNCHANGED vars
            BY <2>2, <3>3 DEF vars, record
        <3>4. QED
            BY <1>1, <3>1, <3>2, <3>3 DEF Next, Work
    <2>4. m = Min(consumer[c].inbox)
        BY <1>1, <2>1, <2>3 DEF OnMessage
    <2>5. m \in consumer[c].inbox
        BY <2>1, <2>3, <2>4, FirstMessage DEF OnMessage, Program
    <2>6. QED
        BY <1>1, <2>5 DEF BehindIsBounded, Behind
<1>2. PInv /\ BehindIsBounded /\ [Next]_vars =>
          [\A m \in Messages : printed'[m] > printed[m] =>
              Cardinality({k \in Held : k < m /\ printed[k] = 0}) < Cardinality(Consumers)]_vars
    BY <1>1
<1>3. QED
    BY <1>2, SpecPInv, PTL DEF Spec, OvertakingIsBounded
=============================================================================
