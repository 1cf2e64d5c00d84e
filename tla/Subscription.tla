---------------------------- MODULE Subscription ----------------------------
(***************************************************************************)
(* What mq/rabbitmq promises those who publish and those who consume: the  *)
(* messages form one stream, and every consumer joins it somewhere.  From  *)
(* there on its callback is called with the next message it is bound to,   *)
(* and then the next.  A lost connection ends the stream for its consumers *)
(* at a message of its choice, and leaves no gap before it.  There are no  *)
(* queues here, only how far everyone is.  Topic is shown to implement it. *)
(*                                                                         *)
(* A message is its number; published gives its key.                       *)
(***************************************************************************)
EXTENDS Naturals, Sequences

CONSTANTS
  Clients,          \* the consumers
  Binding,          \* Binding[c]: the keys consumer c takes
  Keys              \* routing keys of messages

VARIABLES
  published,        \* the keys of the messages, in the order of Publish
  accepted,         \* how many of them are in the stream
  joined,           \* per consumer: "no", "yes", or "left" with the connection
  from,             \* where in the stream it joined
  upto,             \* what has been set aside for it ends here
  called            \* the messages its callback was called with

vars == <<published, accepted, joined, from, upto, called>>

Init ==
  /\ published = <<>> /\ accepted = 0
  /\ joined = [c \in Clients |-> "no"]
  /\ from = [c \in Clients |-> 0] /\ upto = [c \in Clients |-> 0]
  /\ called = [c \in Clients |-> <<>>]

Publish(k) ==
  /\ published' = Append(published, k)
  /\ UNCHANGED <<accepted, joined, from, upto, called>>

(* The next message enters the stream, for all who have joined it. *)
Accept ==
  /\ accepted < Len(published)
  /\ accepted' = accepted + 1
  /\ upto' = [c \in Clients |-> IF joined[c] = "yes" THEN accepted + 1 ELSE upto[c]]
  /\ UNCHANGED <<published, joined, from, called>>

Join(c) ==
  /\ joined[c] = "no"
  /\ joined' = [joined EXCEPT ![c] = "yes"]
  /\ from' = [from EXCEPT ![c] = accepted]
  /\ upto' = [upto EXCEPT ![c] = accepted]
  /\ UNCHANGED <<published, accepted, called>>

(* Where a consumer is: at the last message its callback was called with. *)
Position(c) == IF called[c] = <<>> THEN from[c] ELSE called[c][Len(called[c])]

Ahead(c) == {m \in (Position(c) + 1)..upto[c] : published[m] \in Binding[c]}

(* The callback takes the next message, none skipped and none twice. *)
Call(c) ==
  /\ \E m \in Ahead(c) :
       /\ \A n \in Ahead(c) : m <= n
       /\ called' = [called EXCEPT ![c] = Append(@, m)]
  /\ UNCHANGED <<published, accepted, joined, from, upto>>

(* The consumers' connection is lost, and for each of them what comes      *)
(* after some message.                                                     *)
Leave ==
  /\ joined' = [c \in Clients |-> IF joined[c] = "yes" THEN "left" ELSE joined[c]]
  /\ \E end \in [Clients -> 0..accepted] :
       /\ \A c \in Clients : IF joined[c] = "yes" THEN end[c] >= Position(c) ELSE end[c] = upto[c]
       /\ upto' = end
  /\ UNCHANGED <<published, accepted, from, called>>

Next ==
  \/ \E k \in Keys : Publish(k)
  \/ Accept \/ Leave
  \/ \E c \in Clients : Join(c) \/ Call(c)

Spec == Init /\ [][Next]_vars
=============================================================================
