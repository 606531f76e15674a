---------------------------- MODULE WorkQueue ----------------------------
(***************************************************************************)
(* The RabbitMQ demo: producer.py publishes numbered messages to a durable *)
(* queue, consumers (consumer.py, which compose restarts when it ends)     *)
(* print each one and acknowledge it after that.                           *)
(*                                                                         *)
(* A message is its number, and a broker delivers the lowest number first: *)
(* it puts a message back where it was.  Neither a published message nor   *)
(* an acknowledgement has reached the broker when the call that sends it   *)
(* returns, and the broker writes both to disk some time later.            *)
(***************************************************************************)
EXTENDS Integers, FiniteSets, FiniteSetsExt

CONSTANTS
    Consumers,
    Count,                  \* MESSAGE_COUNT
    MaxLosses, MaxCrashes   \* bounds on lost connections and broker crashes

ASSUME WorkQueueAssumption ==
    /\ IsFiniteSet(Consumers)
    /\ Count \in Nat /\ MaxLosses \in Nat /\ MaxCrashes \in Nat

VARIABLES
    producer,   \* where producer.py is, and the next message
    wire,       \* published messages that the broker has not read yet
    declared,   \* whether the queue exists
    ready,      \* messages in the queue
    unacked,    \* per consumer, messages it was sent and has not acknowledged
    disk,       \* messages that a crash of the broker leaves
    acks,       \* per consumer, acknowledgements that are under way
    consumer,   \* the consumers
    printed,    \* per message, how often a consumer has printed it
    repeats,    \* how often a consumer has printed what was printed before
    accepted,   \* messages that were ever in the queue
    stored,     \* messages that were ever on disk
    losses,     \* lost connections of consumers so far
    crashes     \* crashes of the broker so far

queue  == <<ready, unacked, disk, declared>>
record == <<printed, repeats, accepted, stored>>
vars   == <<producer, wire, queue, acks, consumer, record, losses, crashes>>

Messages == 1 .. Count

\* inbox holds the deliveries that pika has not passed to on_message yet, busy
\* the one that was printed and not yet acknowledged. The broker has closed a
\* connection that is "cut", but the consumer does not know.
Program == [conn : {"down", "up", "cut"}, inbox : SUBSET Messages, busy : {0} \cup Messages]
Down    == [conn |-> "down", inbox |-> {}, busy |-> 0]

Nobody == [c \in Consumers |-> {}]

TypeOK ==
    /\ producer \in [at : {"start", "publish", "done", "failed"}, next : 1 .. Count + 1]
    /\ wire \subseteq Messages /\ ready \subseteq Messages /\ disk \subseteq Messages
    /\ declared \in BOOLEAN
    /\ unacked \in [Consumers -> SUBSET Messages]
    /\ acks \in [Consumers -> SUBSET Messages]
    /\ consumer \in [Consumers -> Program]
    /\ printed \in [Messages -> Nat] /\ repeats \in Nat
    /\ accepted \subseteq Messages /\ stored \subseteq Messages
    /\ losses \in 0 .. MaxLosses /\ crashes \in 0 .. MaxCrashes

Init ==
    /\ producer = [at |-> "start", next |-> 1]
    /\ wire = {} /\ ready = {} /\ disk = {} /\ declared = FALSE
    /\ unacked = Nobody /\ acks = Nobody
    /\ consumer = [c \in Consumers |-> Down]
    /\ printed = [m \in Messages |-> 0] /\ repeats = 0
    /\ accepted = {} /\ stored = {}
    /\ losses = 0 /\ crashes = 0

Held == ready \cup UNION {unacked[c] : c \in Consumers}

-----------------------------------------------------------------------------
(* producer.py *)

\* Faulty: both programs expect that somebody else has declared the queue.
DeclareNothing == UNCHANGED declared

\* queue_declare, in both programs.
Declare == declared' = TRUE

ProducerConnects ==
    /\ producer.at = "start"
    /\ producer' = [producer EXCEPT !.at = "publish"]
    /\ Declare
    /\ UNCHANGED <<wire, ready, unacked, disk, acks, consumer, record, losses, crashes>>

\* Faulty: range(1, COUNT + 2).
MorePendingLoose == producer.next <= Count + 1

\* range(1, COUNT + 1)
MorePending == producer.next <= Count

\* basic_publish returns once the frame is written.
Publish ==
    /\ producer.at = "publish"
    /\ MorePending
    /\ wire' = wire \cup {producer.next}
    /\ producer' = [producer EXCEPT !.next = @ + 1]
    /\ UNCHANGED <<queue, acks, consumer, record, losses, crashes>>

\* connection.close() returns with the broker's answer, which has read all that
\* came before; then "All N messages sent" is printed.
Close ==
    /\ producer.at = "publish"
    /\ ~ MorePending
    /\ wire = {}
    /\ producer' = [producer EXCEPT !.at = "done"]
    /\ UNCHANGED <<wire, queue, acks, consumer, record, losses, crashes>>

\* The broker cannot be reached, or the producer is stopped: compose does not
\* start it again. What it wrote still arrives; if it does not, that is as if
\* it had failed earlier.
ProducerFails ==
    /\ producer.at \in {"start", "publish"}
    /\ producer' = [producer EXCEPT !.at = "failed"]
    /\ UNCHANGED <<wire, queue, acks, consumer, record, losses, crashes>>

-----------------------------------------------------------------------------
(* The broker *)

\* A message for a queue that does not exist is dropped.
Receive ==
    /\ wire # {}
    /\ wire' = wire \ {Min(wire)}
    /\ IF declared THEN /\ ready' = ready \cup {Min(wire)}
                        /\ accepted' = accepted \cup {Min(wire)}
                   ELSE UNCHANGED <<ready, accepted>>
    /\ UNCHANGED <<producer, unacked, disk, declared, acks, consumer, printed, repeats,
                   stored, losses, crashes>>

Flush ==
    /\ disk # Held
    /\ disk' = Held
    /\ stored' = stored \cup Held
    /\ UNCHANGED <<producer, wire, ready, unacked, declared, acks, consumer, printed, repeats,
                   accepted, losses, crashes>>

\* Faulty: no basic_qos.
MayTakeAny(c) == TRUE

\* basic_qos(prefetch_count=1)
MayTake(c) == unacked[c] = {}

\* Faulty: basic_consume with auto_ack=True.
DeliverAutoAck(c) ==
    /\ consumer[c].conn = "up"
    /\ ready # {}
    /\ ready' = ready \ {Min(ready)}
    /\ consumer' = [consumer EXCEPT ![c] = [@ EXCEPT !.inbox = consumer[c].inbox \cup {Min(ready)}]]
    /\ UNCHANGED <<producer, wire, unacked, disk, declared, acks, record, losses, crashes>>

\* basic_consume: the broker sends what is ready.
Deliver(c) ==
    /\ consumer[c].conn = "up"
    /\ ready # {}
    /\ MayTake(c)
    /\ ready' = ready \ {Min(ready)}
    /\ unacked' = [unacked EXCEPT ![c] = @ \cup {Min(ready)}]
    /\ consumer' = [consumer EXCEPT ![c] = [@ EXCEPT !.inbox = consumer[c].inbox \cup {Min(ready)}]]
    /\ UNCHANGED <<producer, wire, disk, declared, acks, record, losses, crashes>>

AckArrives(c) ==
    /\ acks[c] # {}
    /\ unacked' = [unacked EXCEPT ![c] = @ \ acks[c]]
    /\ acks' = [acks EXCEPT ![c] = {}]
    /\ UNCHANGED <<producer, wire, ready, disk, declared, consumer, record, losses, crashes>>

\* The connection of c is gone: its messages go back to the queue.
Requeue(c) ==
    /\ ready' = ready \cup unacked[c]
    /\ unacked' = [unacked EXCEPT ![c] = {}]
    /\ acks' = [acks EXCEPT ![c] = {}]

Cut(c) ==
    /\ consumer[c].conn = "up"
    /\ losses < MaxLosses
    /\ losses' = losses + 1
    /\ Requeue(c)
    /\ consumer' = [consumer EXCEPT ![c] = [@ EXCEPT !.conn = "cut"]]
    /\ UNCHANGED <<producer, wire, disk, declared, record, crashes>>

\* The broker comes back with what is on disk, the durable queue included. A
\* producer that was connected ends with an error.
BrokerCrashes ==
    /\ crashes < MaxCrashes
    /\ crashes' = crashes + 1
    /\ ready' = disk
    /\ unacked' = Nobody /\ acks' = Nobody
    /\ consumer' = [c \in Consumers |->
           IF consumer[c].conn = "up" THEN [consumer[c] EXCEPT !.conn = "cut"] ELSE consumer[c]]
    /\ producer' = IF producer.at = "publish" THEN [producer EXCEPT !.at = "failed"] ELSE producer
    /\ wire' = {}
    /\ UNCHANGED <<disk, declared, record, losses>>

-----------------------------------------------------------------------------
(* consumer.py *)

\* As long as the broker is not there the program ends and is started again.
ConsumerConnects(c) ==
    /\ consumer[c].conn = "down"
    /\ consumer' = [consumer EXCEPT ![c] = [Down EXCEPT !.conn = "up"]]
    /\ Declare
    /\ UNCHANGED <<producer, wire, ready, unacked, disk, acks, record, losses, crashes>>

\* on_message prints the message ...
OnMessage(c) ==
    LET m == Min(consumer[c].inbox)
    IN  /\ consumer[c].inbox # {}
        /\ consumer[c].busy = 0
        /\ printed' = [printed EXCEPT ![m] = @ + 1]
        /\ repeats' = repeats + (IF printed[m] > 0 THEN 1 ELSE 0)
        /\ consumer' = [consumer EXCEPT ![c] = [@ EXCEPT !.inbox = consumer[c].inbox \ {m}, !.busy = m]]
        /\ UNCHANGED <<producer, wire, queue, acks, accepted, stored, losses, crashes>>

\* Faulty: on_message returns without an acknowledgement.
BasicAckForgotten(c) ==
    /\ consumer[c].conn = "up"
    /\ consumer[c].busy # 0
    /\ consumer' = [consumer EXCEPT ![c] = [@ EXCEPT !.busy = 0]]
    /\ UNCHANGED <<producer, wire, queue, acks, record, losses, crashes>>

\* ... and acknowledges it, if there is still a connection.
BasicAck(c) ==
    /\ consumer[c].conn = "up"
    /\ consumer[c].busy # 0
    /\ acks' = [acks EXCEPT ![c] = @ \cup {consumer[c].busy}]
    /\ consumer' = [consumer EXCEPT ![c] = [@ EXCEPT !.busy = 0]]
    /\ UNCHANGED <<producer, wire, queue, record, losses, crashes>>

\* pika notices that the connection is gone: the program ends.
Notice(c) ==
    /\ consumer[c].conn = "cut"
    /\ consumer' = [consumer EXCEPT ![c] = Down]
    /\ UNCHANGED <<producer, wire, queue, acks, record, losses, crashes>>

\* The consumer is killed or interrupted, within on_message too.
ConsumerEnds(c) ==
    /\ consumer[c].conn = "up"
    /\ losses < MaxLosses
    /\ losses' = losses + 1
    /\ Requeue(c)
    /\ consumer' = [consumer EXCEPT ![c] = Down]
    /\ UNCHANGED <<producer, wire, disk, declared, record, crashes>>

-----------------------------------------------------------------------------
Work(c) == \/ ConsumerConnects(c) \/ Deliver(c) \/ OnMessage(c) \/ BasicAck(c)
           \/ AckArrives(c) \/ Notice(c)

Next ==
    \/ ProducerConnects \/ Publish \/ Close \/ ProducerFails
    \/ Receive \/ Flush \/ BrokerCrashes
    \/ \E c \in Consumers : Work(c) \/ Cut(c) \/ ConsumerEnds(c)

Spec == Init /\ [][Next]_vars

\* Compose restarts consumers, which run on; the producer may stop any time.
FairSpec == Spec /\ WF_vars(Receive) /\ \A c \in Consumers : WF_vars(Work(c))

-----------------------------------------------------------------------------
\* "acknowledges each message only after processing it" (consumer.py:5): what
\* the broker has taken is printed or still in its hands, whatever fails, but
\* for what a crash of the broker found unwritten. (README.md:73 knows no
\* such exception.)
NothingIsLost ==
    \A m \in accepted :
        m \in stored \/ crashes = 0 => printed[m] > 0 \/ m \in Held

\* "All N messages sent" (producer.py:80): the producer says so only when the
\* broker has taken them all.
SentIsAccepted ==
    producer.at = "done" => accepted = Messages

\* "prevents one slow consumer from hoarding the queue" (consumer.py:12): when
\* a message is printed, fewer earlier ones are still to be printed than
\* there are consumers, whatever was put back to the queue meanwhile.
OvertakingIsBounded ==
    [][\A m \in Messages :
          printed'[m] > printed[m] =>
              Cardinality({k \in Held : k < m /\ printed[k] = 0}) < Cardinality(Consumers)]_vars

\* A message is printed again only for a lost connection, one message each:
\* with prefetch_count=1 a consumer never has two to acknowledge.
RepeatsAreBounded ==
    crashes = 0 => repeats <= losses

\* "RabbitMQ requeues the message" (consumer.py:6): what was written to disk is
\* printed in the end.
StoredIsPrinted ==
    \A m \in Messages : m \in stored ~> printed[m] > 0
=============================================================================
