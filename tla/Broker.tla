------------------------------- MODULE Broker -------------------------------
(***************************************************************************)
(* RabbitMQ as the application uses it: durable queues, published through  *)
(* the default exchange, read with basic_get and acknowledged by hand.     *)
(* The broker is not part of the repository: it is modelled from the calls *)
(* Worker, ReTester, AmqpQueueHelper and Storage make.                     *)
(*                                                                         *)
(* A message carries a URL id and always travels through that URL's queue, *)
(* so the contents of all queues are one bag.  The order of a queue is     *)
(* left out: basic_get may return any message of it, which covers every    *)
(* order that publishers and redeliveries can produce.                     *)
(***************************************************************************)
EXTENDS Deployment

VARIABLES
  declared,  \* the queues that exist
  ready,     \* how many copies of each message wait in its queue
  unacked    \* the delivery each worker's channel has not acknowledged

brokerVars == <<declared, ready, unacked>>

BrokerTypeOK ==
  /\ declared \subseteq Queues
  /\ ready \in [Messages -> Nat]
  /\ unacked \in [Workers -> Messages \cup {NoMessage}]

In(q) == {m \in Messages : QueueOf[m] = q}

(* Everything that was there when the workers start has been published. *)
BrokerInit ==
  /\ declared = {QueueOf[m] : m \in Messages \ Late}
  /\ ready = [m \in Messages |-> IF m \in Late THEN 0 ELSE 1]
  /\ unacked = [w \in Workers |-> NoMessage]

(* queue_declare: creates the queue unless it exists. *)
Declare(q) == declared' = declared \cup {q}

(* queue_delete with its default arguments: neither if-unused nor if-empty, *)
(* so waiting messages and unacknowledged deliveries go with the queue.     *)
DeleteQueue(q) ==
  /\ declared' = declared \ {q}
  /\ ready' = [m \in Messages |-> IF m \in In(q) THEN 0 ELSE ready[m]]
  /\ unacked' = [w \in Workers |-> IF unacked[w] \in In(q) THEN NoMessage ELSE unacked[w]]

(* basic_publish to the default exchange, without the mandatory flag: a    *)
(* message for a queue that does not exist is dropped without an error.    *)
Publish(m) ==
  ready' = IF QueueOf[m] \in declared THEN [ready EXCEPT ![m] = @ + 1] ELSE ready

(* basic_get returns message m to worker w. *)
Deliver(w, m) ==
  /\ ready[m] > 0
  /\ ready' = [ready EXCEPT ![m] = @ - 1]
  /\ unacked' = [unacked EXCEPT ![w] = m]

Empty(q) == \A m \in In(q) : ready[m] = 0

(* basic_ack: a tag whose queue is gone is acknowledged without effect. *)
Acknowledge(w) == unacked' = [unacked EXCEPT ![w] = NoMessage]

(* The connection of worker w closes: its delivery goes back to the queue. *)
Disconnect(w) ==
  /\ unacked' = [unacked EXCEPT ![w] = NoMessage]
  /\ ready' = IF unacked[w] = NoMessage THEN ready
              ELSE [ready EXCEPT ![unacked[w]] = @ + 1]

=============================================================================
