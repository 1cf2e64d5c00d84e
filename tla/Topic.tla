------------------------------- MODULE Topic --------------------------------
(***************************************************************************)
(* mq/rabbitmq: one producer and the consumers of one RegisterConsumers    *)
(* call on a topic exchange.  The broker, the sockets and what the amqp    *)
(* library does of its own are external: modelled as the code uses them.   *)
(*                                                                         *)
(* A message is its number in the order of Publish; Route gives its key.   *)
(***************************************************************************)
EXTENDS Naturals, Sequences, FiniteSets

CONSTANTS
  Consumers,        \* the length of cQueue
  Binding,          \* Binding[c]: the keys that match the RoutingKey of consumer c
  Keys,             \* routing keys of messages
  MaxMessages,      \* bound: calls of Publish
  SetupMayFail      \* calls to the broker while registering may fail

ASSUME TopicAssumption ==
  /\ Consumers \in Nat \ {0} /\ Binding \in [1..Consumers -> SUBSET Keys]
  /\ MaxMessages \in Nat /\ SetupMayFail \in BOOLEAN

Clients == 1..Consumers

VARIABLES
  producer,         \* the producer's connection: "up" or "down"
  sent,             \* history: the keys of the messages Publish returned nil for
  outgoing,         \* messages written to the producer's socket
  routed,           \* history: messages that reached the exchange
  conn,             \* the consumers' connection: "up" or "down"
  register, at,     \* RegisterConsumers: where it is, and for which consumer
  queue,            \* at the broker: "none", "declared" or "bound"
  backlog,          \* the messages in the queue
  boundAt,          \* history: how many messages had been routed when it was bound
  consumer,         \* consume: "none", "consume", "consuming" or "failed"
  msgs,             \* msgs: messages delivered, and acknowledged thereby
  work,             \* the message CallBack is called with, 0 for none
  called            \* history: the messages CallBack was called with

publishing  == <<producer, sent, outgoing>>
registering == <<register, at>>
broker      == <<queue, backlog, boundAt, routed>>
consuming   == <<consumer, msgs, work, called>>
vars        == <<publishing, conn, registering, broker, consuming>>

Init ==
  /\ producer = "up" /\ sent = <<>> /\ outgoing = <<>>
  /\ conn = "up" /\ register = "queue" /\ at = 1
  /\ queue = [c \in Clients |-> "none"] /\ backlog = [c \in Clients |-> <<>>]
  /\ boundAt = [c \in Clients |-> 0] /\ routed = <<>>
  /\ consumer = [c \in Clients |-> "none"] /\ msgs = [c \in Clients |-> <<>>]
  /\ work = [c \in Clients |-> 0] /\ called = [c \in Clients |-> <<>>]

-----------------------------------------------------------------------------
(* The producer and the broker.                                            *)

(* Publish returns nil as soon as the message is in the socket's buffer. *)
Publish(k) ==
  /\ producer = "up" /\ Len(sent) < MaxMessages
  /\ sent' = Append(sent, k)
  /\ outgoing' = Append(outgoing, Len(sent) + 1)
  /\ UNCHANGED <<producer, conn, registering, broker, consuming>>

(* The connection breaks; some of what was written may still arrive. *)
ProducerDown ==
  /\ producer = "up"
  /\ producer' = "down"
  /\ \E n \in 0..Len(outgoing) : outgoing' = SubSeq(outgoing, 1, n)
  /\ UNCHANGED <<sent, conn, registering, broker, consuming>>

Matches(c, m) == sent[m] \in Binding[c]

(* The exchange gives the message to every queue bound with a matching key. *)
RouteMessage ==
  /\ outgoing # <<>>
  /\ LET m == Head(outgoing)
     IN /\ backlog' = [c \in Clients |->
             IF queue[c] = "bound" /\ Matches(c, m) THEN Append(backlog[c], m) ELSE backlog[c]]
        /\ routed' = Append(routed, m)
  /\ outgoing' = Tail(outgoing)
  /\ UNCHANGED <<producer, sent, conn, registering, queue, boundAt, consuming>>

(* The queues are exclusive: they go with the connection, durable or not. *)
ConsumersDown ==
  /\ conn = "up"
  /\ conn' = "down"
  /\ queue' = [c \in Clients |-> "none"] /\ backlog' = [c \in Clients |-> <<>>]
  /\ UNCHANGED <<publishing, registering, boundAt, routed, consuming>>

-----------------------------------------------------------------------------
(* RegisterConsumers, consumer by consumer.                                *)

(* A channel, the exchange and an exclusive queue ... *)
DeclareQueue ==
  /\ register = "queue" /\ conn = "up"
  /\ queue' = [queue EXCEPT ![at] = "declared"]
  /\ register' = "bind"
  /\ UNCHANGED <<publishing, conn, at, backlog, boundAt, routed, consuming>>

(* Slip: RegisterConsumers binds the queue after it started its consumer,  *)
(* and returns before.                                                     *)
BindLater ==
  /\ register = "bind" /\ conn = "up"
  /\ consumer' = [consumer EXCEPT ![at] = "consume"]
  /\ at' = at + 1
  /\ register' = IF at = Consumers THEN "returned" ELSE "queue"
  /\ UNCHANGED <<publishing, conn, broker, msgs, work, called>>

(* ... its binding, and go consume(). *)
Bind ==
  /\ register = "bind" /\ conn = "up"
  /\ queue' = [queue EXCEPT ![at] = "bound"]
  /\ boundAt' = [boundAt EXCEPT ![at] = Len(routed)]
  /\ consumer' = [consumer EXCEPT ![at] = "consume"]
  /\ at' = at + 1
  /\ register' = IF at = Consumers THEN "returned" ELSE "queue"
  /\ UNCHANGED <<publishing, conn, backlog, routed, msgs, work, called>>

(* Any of these calls fails: the error is returned, and the consumers      *)
(* registered so far go on on the same connection.                         *)
RegisterFails ==
  /\ register \in {"queue", "bind"} /\ (SetupMayFail \/ conn = "down")
  /\ register' = "failed"
  /\ UNCHANGED <<publishing, conn, at, broker, consuming>>

-----------------------------------------------------------------------------
(* consume: the worker goroutine runs while the broker delivers; consume   *)
(* itself returns at once, as nothing is in errChannel yet.                *)

Consume(c) ==
  /\ consumer[c] = "consume" /\ conn = "up"
  /\ consumer' = [consumer EXCEPT ![c] = "consuming"]
  /\ UNCHANGED <<publishing, conn, registering, broker, msgs, work, called>>

(* The error is the result of a goroutine: nobody sees it. *)
ConsumeFails(c) ==
  /\ consumer[c] = "consume" /\ (SetupMayFail \/ conn = "down")
  /\ consumer' = [consumer EXCEPT ![c] = "failed"]
  /\ UNCHANGED <<publishing, conn, registering, broker, msgs, work, called>>

(* Slip: what is delivered while the worker is busy is lost. *)
DeliverOrDrop(c) ==
  /\ consumer[c] = "consuming" /\ backlog[c] # <<>>
  /\ msgs' = [msgs EXCEPT ![c] = IF work[c] = 0 THEN Append(@, Head(backlog[c])) ELSE @]
  /\ backlog' = [backlog EXCEPT ![c] = Tail(@)]
  /\ UNCHANGED <<publishing, conn, registering, queue, boundAt, routed, consumer, work, called>>

(* The broker delivers without waiting for an acknowledgement. *)
Deliver(c) ==
  /\ consumer[c] = "consuming" /\ backlog[c] # <<>>
  /\ msgs' = [msgs EXCEPT ![c] = Append(@, Head(backlog[c]))]
  /\ backlog' = [backlog EXCEPT ![c] = Tail(@)]
  /\ UNCHANGED <<publishing, conn, registering, queue, boundAt, routed, consumer, work, called>>

(* Slip: a goroutine per message: callbacks start in any order. *)
CallBackAny(c) ==
  /\ work[c] = 0 /\ msgs[c] # <<>>
  /\ \E i \in 1..Len(msgs[c]) :
       /\ work' = [work EXCEPT ![c] = msgs[c][i]]
       /\ called' = [called EXCEPT ![c] = Append(@, msgs[c][i])]
       /\ msgs' = [msgs EXCEPT ![c] = SubSeq(@, 1, i - 1) \o SubSeq(@, i + 1, Len(@))]
  /\ UNCHANGED <<publishing, conn, registering, broker, consumer>>

(* for d := range msgs: CallBack is called whether or not the body could   *)
(* be decoded.                                                             *)
CallBack(c) ==
  /\ work[c] = 0 /\ msgs[c] # <<>>
  /\ work' = [work EXCEPT ![c] = Head(msgs[c])]
  /\ called' = [called EXCEPT ![c] = Append(@, Head(msgs[c]))]
  /\ msgs' = [msgs EXCEPT ![c] = Tail(@)]
  /\ UNCHANGED <<publishing, conn, registering, broker, consumer>>

(* Slip: a message whose callback failed is taken again. *)
CallBackRequeues(c) ==
  /\ work[c] # 0
  /\ work' = [work EXCEPT ![c] = 0]
  /\ \E again \in {<<>>, <<work[c]>>} : msgs' = [msgs EXCEPT ![c] = again \o @]
  /\ UNCHANGED <<publishing, conn, registering, broker, consumer, called>>

(* With or without an error, which is printed. *)
CallBackReturns(c) ==
  /\ work[c] # 0
  /\ work' = [work EXCEPT ![c] = 0]
  /\ UNCHANGED <<publishing, conn, registering, broker, consumer, msgs, called>>

Register == DeclareQueue \/ Bind
Consumer(c) == Consume(c) \/ Deliver(c) \/ CallBack(c) \/ CallBackReturns(c)

Next ==
  \/ \E k \in Keys : Publish(k)
  \/ ProducerDown \/ RouteMessage \/ ConsumersDown
  \/ Register \/ RegisterFails
  \/ \E c \in Clients : Consumer(c) \/ ConsumeFails(c)

Spec == Init /\ [][Next]_vars

(* The broker routes and delivers, Go runs the goroutines, and callbacks   *)
(* return.                                                                 *)
FairSpec ==
  Spec /\ WF_vars(RouteMessage) /\ WF_vars(Register)
       /\ \A c \in Clients : WF_vars(Consumer(c))

-----------------------------------------------------------------------------
(* Properties.                                                             *)

(* Every variable keeps its type. *)
TypeOK ==
  /\ producer \in {"up", "down"} /\ conn \in {"up", "down"}
  /\ sent \in Seq(Keys) /\ Len(sent) <= MaxMessages
  /\ outgoing \in Seq(DOMAIN sent) /\ routed \in Seq(DOMAIN sent)
  /\ register \in {"queue", "bind", "returned", "failed"} /\ at \in 1..(Consumers + 1)
  /\ queue \in [Clients -> {"none", "declared", "bound"}]
  /\ backlog \in [Clients -> Seq(DOMAIN sent)] /\ boundAt \in [Clients -> Nat]
  /\ consumer \in [Clients -> {"none", "consume", "consuming", "failed"}]
  /\ msgs \in [Clients -> Seq(DOMAIN sent)] /\ called \in [Clients -> Seq(DOMAIN sent)]
  /\ work \in [Clients -> {0} \cup DOMAIN sent]

(* The exchange sees the messages in the order of Publish, and every       *)
(* consumer's callback is called, in that order, once with each message    *)
(* routed since its queue was bound that matches its key, and with no      *)
(* other, whatever failed meanwhile: none is lost between the queue, the   *)
(* delivery and the worker while the connection is up, and when it breaks  *)
(* only the last ones are (RegisterConsumers, consume).                    *)
Due(c)  == {m \in (boundAt[c] + 1)..Len(routed) : Matches(c, m)}
Held(c) == called[c] \o msgs[c] \o backlog[c]

Reaches(h, m) == \E i \in 1..Len(h) : h[i] = m

InOrder(h, due) ==
  /\ \A i, j \in 1..Len(h) : i < j => h[i] < h[j]
  /\ \A i \in 1..Len(h) : h[i] \in due /\ \A m \in due : m < h[i] => Reaches(h, m)

Routed == \A i \in 1..Len(routed) : routed[i] = i

OncePerConsumer ==
  /\ Routed
  /\ \A c \in Clients :
       /\ InOrder(Held(c), Due(c))
       /\ queue[c] = "bound" => \A m \in Due(c) : Reaches(Held(c), m)

(* The inductive invariant behind it: what is on its way to the exchange   *)
(* comes next, and is all there is as long as the producer's connection is *)
(* up (Outgoing); a consumer has nothing before its queue is bound, and a  *)
(* queue that is not bound has no messages (Registered).                   *)
Outgoing ==
  /\ \A i \in 1..Len(outgoing) : outgoing[i] = Len(routed) + i
  /\ Len(routed) + Len(outgoing) <= Len(sent)
  /\ producer = "up" => Len(routed) + Len(outgoing) = Len(sent)

Registered ==
  /\ register \in {"queue", "bind"} => at <= Consumers
  /\ \A c \in Clients :
       /\ c >= at => consumer[c] = "none"
       /\ consumer[c] = "none" => called[c] = <<>> /\ msgs[c] = <<>> /\ queue[c] # "bound"
       /\ queue[c] # "bound" => backlog[c] = <<>>
       /\ boundAt[c] <= Len(routed)

Inv == TypeOK /\ Outgoing /\ Registered /\ OncePerConsumer

(* Where a sequence of messages ends that began after the message m. *)
EndOf(h, m) == IF h = <<>> THEN m ELSE h[Len(h)]

(* The topic keeps the promises of Subscription: a consumer joins when its *)
(* queue is bound, and is left by a connection that breaks with what has   *)
(* been delivered and acknowledged (RegisterConsumers, consume).           *)
Joined ==
  [c \in Clients |-> IF consumer[c] = "none" THEN "no" ELSE IF queue[c] = "bound" THEN "yes" ELSE "left"]

Upto ==
  [c \in Clients |-> IF queue[c] = "bound" THEN Len(routed) ELSE EndOf(called[c] \o msgs[c], boundAt[c])]

Promised == INSTANCE Subscription WITH
  published <- sent, accepted <- Len(routed), joined <- Joined, from <- boundAt, upto <- Upto

ImplementsSubscription == Promised!Spec

(* A message still on its way to the exchange when RegisterConsumers has   *)
(* returned reaches every matching consumer, also if consume has not       *)
(* subscribed yet, unless a connection breaks or the subscription fails    *)
(* unseen.                                                                 *)
OnItsWay(c, m) ==
  register = "returned" /\ (\E i \in DOMAIN outgoing : outgoing[i] = m) /\ Matches(c, m)

PublishedIsCalled ==
  \A c \in Clients, m \in 1..MaxMessages :
    OnItsWay(c, m) ~> \/ \E i \in DOMAIN called[c] : called[c][i] = m
                      \/ conn = "down" \/ producer = "down" \/ consumer[c] = "failed"
=============================================================================
