---------------------------- MODULE TopicProofs -----------------------------
(***************************************************************************)
(* Proofs about Topic, for any number of consumers, of keys and of         *)
(* messages, and any binding.                                              *)
(***************************************************************************)
EXTENDS Topic, SequenceTheorems, TLAPS

-----------------------------------------------------------------------------
(* Sequences.                                                              *)

(* A message that goes from the front of one queue to the end of the one   *)
(* before it changes nothing of the two together.                          *)
LEMMA MoveHead ==
  ASSUME NEW S, NEW s \in Seq(S), NEW t \in Seq(S), t # <<>>
  PROVE  /\ Append(s, Head(t)) \o Tail(t) = s \o t
         /\ Append(s, Head(t)) \in Seq(S) /\ Tail(t) \in Seq(S) /\ Head(t) \in S
<1>1. /\ Head(t) \in S /\ Tail(t) \in Seq(S) /\ t = <<Head(t)>> \o Tail(t)
  BY HeadTailProperties, HeadTailAppend
<1>2. Append(s, Head(t)) = s \o <<Head(t)>>
  BY <1>1, AppendIsConcat
<1> QED
  BY <1>1, <1>2, ConcatAssociative, AppendProperties

(* Three queues of messages, one behind the other.                         *)
LEMMA Associative ==
  ASSUME NEW s \in Seq(Nat), NEW t \in Seq(Nat), NEW u \in Seq(Nat)
  PROVE  (s \o t) \o u = s \o (t \o u)
<1>1. /\ Len((s \o t) \o u) = Len(s) + Len(t) + Len(u)
      /\ Len(s \o (t \o u)) = Len(s) + Len(t) + Len(u)
      /\ (s \o t) \o u \in Seq(Nat) /\ s \o (t \o u) \in Seq(Nat)
  BY ConcatProperties, LenProperties
<1>2. \A i \in 1..(Len(s) + Len(t) + Len(u)) : ((s \o t) \o u)[i] = (s \o (t \o u))[i]
  BY ConcatProperties, LenProperties
<1> QED
  BY <1>1, <1>2, SeqEqual

(* A message put at the end of the last queue is the last one of all.      *)
LEMMA AppendLast ==
  ASSUME NEW S, NEW s \in Seq(S), NEW t \in Seq(S), NEW x \in S
  PROVE  s \o Append(t, x) = Append(s \o t, x)
<1>1. Append(t, x) = t \o <<x>> /\ <<x>> \in Seq(S) /\ s \o t \in Seq(S)
  BY AppendIsConcat, ConcatProperties
<1> QED
  BY <1>1, ConcatAssociative, AppendIsConcat

(* What precedes an unexpected end is still in order.                      *)
LEMMA InOrderPrefix ==
  ASSUME NEW D, NEW h \in Seq(Nat), NEW b \in Seq(Nat), InOrder(h \o b, D), D \subseteq Nat
  PROVE  InOrder(h, D)
<1> DEFINE u == h \o b
<1>1. /\ Len(h) \in Nat /\ Len(u) \in Nat /\ Len(h) <= Len(u) /\ \A i \in 1..Len(h) : u[i] = h[i]
      /\ u \in Seq(Nat)
  BY ConcatProperties, LenProperties
<1>2. InOrder(u, D)
  OBVIOUS
<1> HIDE DEF u
<1>3. \A i \in 1..Len(h) : i \in 1..Len(u)
  BY <1>1
<1>4. \A i, j \in 1..Len(h) : i < j => h[i] < h[j]
  BY <1>1, <1>2, <1>3 DEF InOrder
<1>5. ASSUME NEW i \in 1..Len(h), NEW m \in D, m < h[i] PROVE Reaches(h, m)
  <2>1. PICK k \in 1..Len(u) : u[k] = m
    BY <1>1, <1>2, <1>3, <1>5 DEF InOrder, Reaches
  <2>2. u[i] = h[i] /\ u[i] \in Nat /\ u[k] \in Nat
    BY <1>1, <1>3, ElementOfSeq
  <2>3. ~(i < k)
    BY <1>2, <1>3, <1>5, <2>1, <2>2 DEF InOrder
  <2>4. k \in 1..Len(h)
    BY <1>1, <2>3
  <2> QED
    BY <1>1, <2>1, <2>4 DEF Reaches
<1> QED
  BY <1>1, <1>2, <1>3, <1>4, <1>5 DEF InOrder

(* The next message goes after all the others.                             *)
LEMMA InOrderNext ==
  ASSUME NEW D, NEW h \in Seq(Nat), InOrder(h, D), \A d \in D : Reaches(h, d),
         NEW m \in Nat, \A d \in D : d < m
  PROVE  /\ InOrder(Append(h, m), D \cup {m})
         /\ \A d \in D \cup {m} : Reaches(Append(h, m), d)
<1> DEFINE u == Append(h, m)
<1>1. /\ Len(h) \in Nat /\ Len(u) = Len(h) + 1 /\ u[Len(h) + 1] = m
      /\ \A i \in 1..Len(h) : u[i] = h[i]
  BY AppendProperties, LenProperties
<1> HIDE DEF u
<1>2. \A i \in 1..Len(u) : i \in 1..Len(h) \/ i = Len(h) + 1
  BY <1>1
<1>3. \A i \in 1..Len(h) : i \in 1..Len(u)
  BY <1>1
<1>4. Len(h) + 1 \in 1..Len(u)
  BY <1>1
<1>5. \A d \in D \cup {m} : Reaches(u, d)
  BY <1>1, <1>3, <1>4 DEF Reaches
<1>6. \A i \in 1..Len(h) : h[i] \in D /\ h[i] < m
  BY DEF InOrder
<1>7. ASSUME NEW i \in 1..Len(u), NEW j \in 1..Len(u), i < j PROVE u[i] < u[j]
  <2>1. i \in 1..Len(h)
    BY <1>1, <1>7
  <2>2. CASE j \in 1..Len(h)
    BY <1>1, <1>7, <2>1, <2>2 DEF InOrder
  <2>3. CASE j = Len(h) + 1
    BY <1>1, <1>6, <2>1, <2>3
  <2> QED
    BY <1>2, <2>2, <2>3
<1>8. \A i \in 1..Len(u) : u[i] \in D \cup {m}
  BY <1>1, <1>2, <1>6
<1>9. InOrder(u, D \cup {m})
  BY <1>5, <1>7, <1>8 DEF InOrder
<1> QED
  BY <1>5, <1>9 DEF u

(* A message a consumer is not given changes nothing for it.               *)
LEMMA InOrderLater ==
  ASSUME NEW D, NEW E, NEW h \in Seq(Nat), InOrder(h, D), D \subseteq E, E \subseteq Nat,
         \A e \in E \ D : \A d \in D : d < e
  PROVE  InOrder(h, E)
<1>1. \A i \in 1..Len(h) : h[i] \in D
  BY DEF InOrder
<1>2. ASSUME NEW i \in 1..Len(h), NEW m \in E, m < h[i] PROVE m \in D
  BY <1>1, <1>2
<1> QED
  BY <1>1, <1>2 DEF InOrder

-----------------------------------------------------------------------------
(* The inductive invariant.                                                *)

LEMMA InvInit == Init => Inv
<1> SUFFICES ASSUME Init PROVE Inv
  OBVIOUS
<1>1. TypeOK
  BY TopicAssumption DEF Init, TypeOK, Clients
<1>2. Outgoing /\ Registered
  BY TopicAssumption DEF Init, Outgoing, Registered, Clients
<1>3. \A c \in Clients : Held(c) = <<>> /\ queue[c] = "none"
  BY DEF Init, Held
<1>4. OncePerConsumer
  BY <1>3 DEF Init, OncePerConsumer, Routed, InOrder
<1> QED
  BY <1>1, <1>2, <1>4 DEF Inv

(* What the messages in a queue are numbers of grows with sent.            *)
LEMMA Wider ==
  ASSUME TypeOK, NEW k \in Keys, sent' = Append(sent, k)
  PROVE  /\ Len(sent') = Len(sent) + 1 /\ sent' \in Seq(Keys)
         /\ DOMAIN sent = 1..Len(sent) /\ DOMAIN sent' = 1..Len(sent')
         /\ Seq(DOMAIN sent) \subseteq Seq(DOMAIN sent')
         /\ \A m \in DOMAIN sent : sent'[m] = sent[m]
<1>1. /\ sent \in Seq(Keys) /\ Len(sent) \in Nat
  BY DEF TypeOK
<1>2. /\ Len(sent') = Len(sent) + 1 /\ sent' \in Seq(Keys)
      /\ \A m \in 1..Len(sent) : sent'[m] = sent[m]
  BY <1>1, AppendProperties
<1>3. DOMAIN sent = 1..Len(sent) /\ DOMAIN sent' = 1..Len(sent')
  BY <1>1, <1>2
<1>4. DOMAIN sent \subseteq DOMAIN sent'
  BY <1>1, <1>2, <1>3
<1>5. Seq(DOMAIN sent) \subseteq Seq(DOMAIN sent')
  <2> SUFFICES ASSUME NEW s \in Seq(DOMAIN sent) PROVE s \in Seq(DOMAIN sent')
    OBVIOUS
  <2> QED
    BY <1>4, SeqMonotonic
<1> QED
  BY <1>2, <1>3, <1>5

(* The connection breaks: a prefix of what was written still arrives.      *)
LEMMA Cut ==
  ASSUME NEW S, NEW s \in Seq(S), NEW n \in 0..Len(s)
  PROVE  /\ SubSeq(s, 1, n) \in Seq(S) /\ Len(SubSeq(s, 1, n)) = n
         /\ \A i \in 1..n : SubSeq(s, 1, n)[i] = s[i]
<1>1. Len(s) \in Nat /\ n \in Int /\ \A i \in 1..n : s[i] \in S
  <2>1. Len(s) \in Nat
    BY LenProperties
  <2>2. \A i \in 1..n : i \in 1..Len(s)
    BY <2>1
  <2> QED
    BY <2>1, <2>2, ElementOfSeq
<1>2. /\ SubSeq(s, 1, n) \in Seq(S)
      /\ Len(SubSeq(s, 1, n)) = IF 1 <= n THEN n - 1 + 1 ELSE 0
      /\ \A i \in 1..(n - 1 + 1) : SubSeq(s, 1, n)[i] = s[1 + i - 1]
  BY <1>1, SubSeqProperties
<1> QED
  BY <1>1, <1>2

LEMMA TypeStep ==
  ASSUME TypeOK, Registered, [Next]_vars
  PROVE  TypeOK'
<1> USE TopicAssumption DEF TypeOK, Clients, publishing, registering, broker, consuming
<1>1. ASSUME NEW k \in Keys, Publish(k) PROVE TypeOK'
  <2>1. /\ Len(sent') = Len(sent) + 1 /\ sent' \in Seq(Keys)
        /\ DOMAIN sent = 1..Len(sent) /\ DOMAIN sent' = 1..Len(sent')
        /\ Seq(DOMAIN sent) \subseteq Seq(DOMAIN sent')
    BY <1>1, Wider DEF Publish
  <2>2. Len(sent) \in Nat /\ Len(sent') <= MaxMessages /\ DOMAIN sent \subseteq DOMAIN sent'
    <3>1. Len(sent) \in Nat /\ Len(sent) < MaxMessages
      BY <1>1 DEF Publish
    <3>2. 1..Len(sent) \subseteq 1..(Len(sent) + 1)
      BY <3>1
    <3> QED
      BY <2>1, <3>1, <3>2
  <2>3. outgoing' \in Seq(DOMAIN sent')
    <3>1. Len(sent) + 1 \in DOMAIN sent'
      BY <2>1, <2>2
    <3> QED
      BY <1>1, <2>1, <3>1, AppendProperties DEF Publish
  <2>4. UNCHANGED <<producer, conn, register, at, queue, backlog, boundAt, routed, consumer, msgs, work, called>>
    BY <1>1 DEF Publish
  <2>5. /\ backlog' \in [Clients -> Seq(DOMAIN sent')] /\ msgs' \in [Clients -> Seq(DOMAIN sent')]
        /\ called' \in [Clients -> Seq(DOMAIN sent')] /\ routed' \in Seq(DOMAIN sent')
    BY <2>1, <2>4
  <2>6. work' \in [Clients -> {0} \cup DOMAIN sent']
    BY <2>2, <2>4
  <2> QED
    BY <2>1, <2>2, <2>3, <2>4, <2>5, <2>6
<1>2. CASE ProducerDown
  <2>1. outgoing' \in Seq(DOMAIN sent)
    <3>1. PICK n \in 0..Len(outgoing) : outgoing' = SubSeq(outgoing, 1, n)
      BY <1>2 DEF ProducerDown
    <3>2. outgoing \in Seq(DOMAIN sent)
      OBVIOUS
    <3> QED
      BY <3>1, <3>2, Cut
  <2> QED
    BY <1>2, <2>1 DEF ProducerDown
<1>3. CASE RouteMessage
  <2>1. Head(outgoing) \in DOMAIN sent /\ outgoing' \in Seq(DOMAIN sent)
    BY <1>3, HeadTailProperties DEF RouteMessage
  <2>2. routed' \in Seq(DOMAIN sent)
    BY <1>3, <2>1, AppendProperties DEF RouteMessage
  <2>3. backlog' \in [Clients -> Seq(DOMAIN sent)]
    <3>1. \A c \in Clients : Append(backlog[c], Head(outgoing)) \in Seq(DOMAIN sent)
      BY <2>1, AppendProperties
    <3> QED
      BY <1>3, <3>1 DEF RouteMessage
  <2> QED
    BY <1>3, <2>1, <2>2, <2>3 DEF RouteMessage
<1>4. CASE ConsumersDown
  BY <1>4 DEF ConsumersDown
<1>5. CASE DeclareQueue
  BY <1>5 DEF DeclareQueue
<1>6. CASE Bind
  <2>1. at \in Clients /\ at' \in 1..(Consumers + 1) /\ Len(routed) \in Nat
    BY <1>6 DEF Bind, Registered
  <2>2. queue' \in [Clients -> {"none", "declared", "bound"}] /\ boundAt' \in [Clients -> Nat]
    BY <1>6, <2>1 DEF Bind
  <2>3. /\ consumer' \in [Clients -> {"none", "consume", "consuming", "failed"}]
        /\ register' \in {"queue", "returned"}
    BY <1>6 DEF Bind
  <2> QED
    BY <1>6, <2>1, <2>2, <2>3 DEF Bind
<1>7. CASE RegisterFails
  BY <1>7 DEF RegisterFails
<1>8. ASSUME NEW c \in Clients, Consume(c) \/ ConsumeFails(c) \/ CallBackReturns(c) PROVE TypeOK'
  BY <1>8 DEF Consume, ConsumeFails, CallBackReturns
<1>9. ASSUME NEW c \in Clients, Deliver(c) PROVE TypeOK'
  BY <1>9, MoveHead DEF Deliver
<1>10. ASSUME NEW c \in Clients, CallBack(c) PROVE TypeOK'
  BY <1>10, MoveHead DEF CallBack
<1>11. CASE UNCHANGED vars
  BY <1>11 DEF vars
<1> QED
  BY <1>1, <1>2, <1>3, <1>4, <1>5, <1>6, <1>7, <1>8, <1>9, <1>10, <1>11
  DEF Next, Register, Consumer

(* The exchange gets the messages in the order of Publish.                 *)
LEMMA OutgoingStep ==
  ASSUME TypeOK, Outgoing, Routed, [Next]_vars
  PROVE  Outgoing' /\ Routed'
<1>a. /\ sent \in Seq(Keys) /\ Len(sent) \in Nat
      /\ outgoing \in Seq(DOMAIN sent) /\ Len(outgoing) \in Nat
      /\ routed \in Seq(DOMAIN sent) /\ Len(routed) \in Nat
  BY DEF TypeOK
<1> USE <1>a DEF Outgoing, Routed, publishing, registering, broker, consuming
<1>1. ASSUME NEW k \in Keys, Publish(k) PROVE Outgoing' /\ Routed'
  <2>1. /\ Len(sent') = Len(sent) + 1 /\ routed' = routed /\ producer' = producer /\ producer = "up"
        /\ Len(outgoing') = Len(outgoing) + 1 /\ outgoing'[Len(outgoing) + 1] = Len(sent) + 1
        /\ \A i \in 1..Len(outgoing) : outgoing'[i] = outgoing[i]
    <3>1. outgoing \in Seq(Nat) /\ Len(sent) + 1 \in Nat
      BY SeqMonotonic
    <3> QED
      BY <1>1, <3>1, AppendProperties DEF Publish
  <2>2. ASSUME NEW i \in 1..Len(outgoing') PROVE outgoing'[i] = Len(routed') + i
    <3>1. i \in 1..Len(outgoing) \/ i = Len(outgoing) + 1
      BY <2>1
    <3>2. CASE i \in 1..Len(outgoing)
      BY <2>1, <3>2
    <3>3. CASE i = Len(outgoing) + 1
      BY <2>1, <3>3
    <3> QED
      BY <3>1, <3>2, <3>3
  <2>3. Len(routed') + Len(outgoing') = Len(sent')
    BY <2>1
  <2> QED
    BY <2>1, <2>2, <2>3
<1>2. CASE ProducerDown
  <2>1. PICK n \in 0..Len(outgoing) : outgoing' = SubSeq(outgoing, 1, n)
    BY <1>2 DEF ProducerDown
  <2>2. Len(outgoing') = n /\ \A i \in 1..n : outgoing'[i] = outgoing[i]
    BY <2>1, Cut
  <2>3. producer' = "down" /\ routed' = routed /\ sent' = sent
    BY <1>2 DEF ProducerDown
  <2>4. n \in Nat /\ n <= Len(outgoing) /\ \A i \in 1..n : i \in 1..Len(outgoing)
    OBVIOUS
  <2>5. \A i \in 1..n : outgoing'[i] = Len(routed) + i
    BY <2>2, <2>4
  <2> QED
    BY <2>2, <2>3, <2>4, <2>5
<1>3. CASE RouteMessage
  <2>1. /\ Len(outgoing') = Len(outgoing) - 1 /\ Len(outgoing) >= 1
        /\ \A i \in 1..Len(outgoing') : outgoing'[i] = outgoing[i + 1]
        /\ Head(outgoing) = outgoing[1] /\ Head(outgoing) \in DOMAIN sent
    BY <1>3, HeadTailProperties DEF RouteMessage
  <2>2. /\ Len(routed') = Len(routed) + 1 /\ routed'[Len(routed) + 1] = Head(outgoing)
        /\ \A i \in 1..Len(routed) : routed'[i] = routed[i]
    BY <1>3, <2>1, AppendProperties DEF RouteMessage
  <2>3. Head(outgoing) = Len(routed) + 1
    BY <2>1
  <2>4. \A i \in 1..Len(routed') : i \in 1..Len(routed) \/ i = Len(routed) + 1
    BY <2>2
  <2>5. \A i \in 1..Len(outgoing') : i + 1 \in 1..Len(outgoing)
    BY <2>1
  <2>6. sent' = sent /\ producer' = producer
    BY <1>3 DEF RouteMessage
  <2>7. \A i \in 1..Len(outgoing') : outgoing'[i] = Len(routed') + i
    <3>1. ASSUME NEW i \in 1..Len(outgoing') PROVE outgoing'[i] = Len(routed') + i
      <4>1. i \in Nat /\ outgoing[i + 1] = Len(routed) + (i + 1)
        BY <2>1, <2>5
      <4> QED
        BY <2>1, <2>2, <4>1
    <3> QED
      BY <3>1
  <2>8. Routed'
    BY <2>2, <2>3, <2>4
  <2>9. Len(routed') + Len(outgoing') = Len(routed) + Len(outgoing)
    BY <2>1, <2>2
  <2> QED
    BY <2>6, <2>7, <2>8, <2>9
<1>4. CASE UNCHANGED <<sent, outgoing, routed, producer>>
  BY <1>4
<1>5. CASE ConsumersDown \/ Register \/ RegisterFails
  BY <1>4, <1>5 DEF ConsumersDown, Register, DeclareQueue, Bind, RegisterFails
<1>6. ASSUME NEW c \in Clients, Consumer(c) \/ ConsumeFails(c) PROVE Outgoing' /\ Routed'
  BY <1>4, <1>6 DEF Consumer, Consume, ConsumeFails, Deliver, CallBack, CallBackReturns
<1>7. CASE UNCHANGED vars
  BY <1>4, <1>7 DEF vars
<1> QED
  BY <1>1, <1>2, <1>3, <1>5, <1>6, <1>7 DEF Next

(* A consumer has nothing before its queue is bound.                       *)
LEMMA RegisteredStep ==
  ASSUME TypeOK, Registered, [Next]_vars
  PROVE  Registered'
<1> USE TopicAssumption DEF TypeOK, Registered, Clients, publishing, registering, broker, consuming
<1>1. ASSUME NEW k \in Keys, Publish(k) PROVE Registered'
  BY <1>1 DEF Publish
<1>2. CASE ProducerDown \/ UNCHANGED vars
  BY <1>2 DEF ProducerDown, vars
<1>3. CASE RouteMessage
  <2>1. Len(routed') = Len(routed) + 1 /\ Len(routed) \in Nat
    BY <1>3, HeadTailProperties, AppendProperties DEF RouteMessage
  <2>2. UNCHANGED <<register, at, queue, boundAt, consumer, called, msgs>>
    BY <1>3 DEF RouteMessage
  <2>3. \A c \in Clients : queue[c] # "bound" => backlog'[c] = backlog[c]
    BY <1>3 DEF RouteMessage
  <2>4. \A c \in Clients : boundAt'[c] <= Len(routed')
    BY <2>1, <2>2
  <2> QED
    BY <2>2, <2>3, <2>4
<1>4. CASE ConsumersDown
  BY <1>4 DEF ConsumersDown
<1>5. CASE DeclareQueue
  <2>1. /\ at \in Clients /\ consumer[at] = "none"
        /\ UNCHANGED <<at, backlog, consumer, msgs, called, boundAt, routed>>
        /\ \A c \in Clients : queue'[c] = IF c = at THEN "declared" ELSE queue[c]
    BY <1>5 DEF DeclareQueue
  <2>2. backlog[at] = <<>> /\ at <= Consumers
    BY <1>5, <2>1 DEF DeclareQueue
  <2>3. ASSUME NEW c \in Clients
        PROVE  /\ c >= at' => consumer'[c] = "none"
               /\ consumer'[c] = "none" => called'[c] = <<>> /\ msgs'[c] = <<>> /\ queue'[c] # "bound"
               /\ queue'[c] # "bound" => backlog'[c] = <<>>
               /\ boundAt'[c] <= Len(routed')
    BY <2>1, <2>2
  <2> QED
    BY <2>1, <2>2, <2>3
<1>6. CASE Bind
  <2>1. at \in Clients /\ consumer[at] = "none" /\ at' = at + 1 /\ UNCHANGED <<backlog, msgs, called>>
    BY <1>6 DEF Bind
  <2>2. \A c \in Clients : /\ queue'[c] = IF c = at THEN "bound" ELSE queue[c]
                           /\ consumer'[c] = IF c = at THEN "consume" ELSE consumer[c]
    BY <1>6, <2>1 DEF Bind
  <2>3. register' \in {"queue", "bind"} => at' <= Consumers
    BY <1>6, <2>1 DEF Bind
  <2>4. \A c \in Clients : c >= at' => c >= at /\ c # at
    BY <2>1
  <2>5. \A c \in Clients : c >= at' => consumer'[c] = "none"
    BY <2>2, <2>4
  <2>6. \A c \in Clients : boundAt'[c] <= Len(routed')
    <3>1. routed' = routed /\ Len(routed) \in Nat /\ boundAt' = [boundAt EXCEPT ![at] = Len(routed)]
      BY <1>6 DEF Bind
    <3> QED
      BY <2>1, <3>1
  <2> QED
    BY <2>1, <2>2, <2>3, <2>5, <2>6
<1>7. CASE RegisterFails
  BY <1>7 DEF RegisterFails
<1>8. ASSUME NEW c \in Clients, Consume(c) \/ ConsumeFails(c) PROVE Registered'
  <2>1. /\ UNCHANGED <<register, at, called, msgs, queue, backlog, boundAt, routed>>
        /\ consumer[c] # "none"
        /\ \E s \in {"consuming", "failed"} : consumer' = [consumer EXCEPT ![c] = s]
    BY <1>8 DEF Consume, ConsumeFails
  <2>2. \A d \in Clients : consumer'[d] = "none" <=> consumer[d] = "none"
    BY <2>1
  <2> QED
    BY <2>1, <2>2
<1>9. ASSUME NEW c \in Clients, Deliver(c) PROVE Registered'
  BY <1>9 DEF Deliver
<1>10. ASSUME NEW c \in Clients, CallBack(c) PROVE Registered'
  BY <1>10 DEF CallBack
<1>11. ASSUME NEW c \in Clients, CallBackReturns(c) PROVE Registered'
  BY <1>11 DEF CallBackReturns
<1> QED
  BY <1>1, <1>2, <1>3, <1>4, <1>5, <1>6, <1>7, <1>8, <1>9, <1>10, <1>11
  DEF Next, Register, Consumer

(* Each consumer's messages: a step adds the next one at the end, moves    *)
(* one from a queue to the one before it, or cuts the end off.             *)
LEMMA OnceStep ==
  ASSUME Inv, [Next]_vars
  PROVE  OncePerConsumer'
<1> DEFINE Once(c) == /\ InOrder(Held(c), Due(c))
                      /\ queue[c] = "bound" => \A m \in Due(c) : Reaches(Held(c), m)
<1>a. /\ TypeOK /\ Outgoing /\ Registered /\ Routed /\ \A c \in Clients : Once(c)
      /\ Len(routed) \in Nat /\ Len(sent) \in Nat /\ Len(outgoing) \in Nat
      /\ DOMAIN sent = 1..Len(sent)
  BY DEF Inv, OncePerConsumer, TypeOK
<1>b. ASSUME NEW c \in Clients
      PROVE  /\ called[c] \in Seq(Nat) /\ msgs[c] \in Seq(Nat) /\ backlog[c] \in Seq(Nat)
             /\ Held(c) \in Seq(Nat) /\ boundAt[c] \in Nat /\ Due(c) \subseteq 1..Len(routed)
  <2>1. /\ called[c] \in Seq(DOMAIN sent) /\ msgs[c] \in Seq(DOMAIN sent)
        /\ backlog[c] \in Seq(DOMAIN sent) /\ boundAt[c] \in Nat
    BY <1>a DEF TypeOK
  <2>2. DOMAIN sent \subseteq Nat
    BY <1>a
  <2>3. called[c] \in Seq(Nat) /\ msgs[c] \in Seq(Nat) /\ backlog[c] \in Seq(Nat)
    BY <2>1, <2>2, SeqMonotonic
  <2>4. Held(c) \in Seq(Nat)
    BY <2>3, ConcatProperties DEF Held
  <2> QED
    BY <1>a, <2>1, <2>3, <2>4 DEF Due
<1>d. \A s, t \in Seq(Nat) :
        t # <<>> => /\ Append(s, Head(t)) \o Tail(t) = s \o t
                    /\ Append(s, Head(t)) \in Seq(Nat) /\ Tail(t) \in Seq(Nat)
  BY MoveHead
<1>e. \A s, t, u \in Seq(Nat) : (s \o t) \o u = s \o (t \o u)
  BY Associative
<1>f. \A s, t \in Seq(Nat) : \A x \in Nat : s \o Append(t, x) = Append(s \o t, x)
  BY AppendLast
<1>c. Routed'
  BY <1>a, OutgoingStep
<1>1. ASSUME NEW c \in Clients, Held(c)' = Held(c), Due(c)' = Due(c),
             queue'[c] = "bound" => queue[c] = "bound"
      PROVE  Once(c)'
  BY <1>a, <1>1 DEF InOrder, Reaches
<1> HIDE DEF Once
<1> USE DEF publishing, registering, broker, consuming
<1>2. ASSUME UNCHANGED <<sent, routed, boundAt, called, msgs, backlog>>,
             \A c \in Clients : queue'[c] = "bound" => queue[c] = "bound"
      PROVE  \A c \in Clients : Once(c)'
  <2>1. \A c \in Clients : Held(c)' = Held(c) /\ Due(c)' = Due(c)
    BY <1>2 DEF Held, Due, Matches
  <2> QED
    BY <1>1, <1>2, <2>1
<1>3. ASSUME ProducerDown \/ RegisterFails \/ UNCHANGED vars PROVE \A c \in Clients : Once(c)'
  BY <1>2, <1>3 DEF ProducerDown, RegisterFails, vars
<1>4. ASSUME DeclareQueue PROVE \A c \in Clients : Once(c)'
  <2>1. \A c \in Clients : queue'[c] = "bound" => queue[c] = "bound"
    BY <1>a, <1>4 DEF DeclareQueue, TypeOK
  <2> QED
    BY <1>2, <1>4, <2>1 DEF DeclareQueue
<1>5. ASSUME NEW c \in Clients, Consume(c) \/ ConsumeFails(c) \/ CallBackReturns(c)
      PROVE  \A d \in Clients : Once(d)'
  <2>1. UNCHANGED <<sent, routed, boundAt, called, msgs, backlog, queue>>
    BY <1>5 DEF Consume, ConsumeFails, CallBackReturns
  <2> QED
    BY <1>2, <2>1
<1>6. ASSUME NEW k \in Keys, Publish(k) PROVE \A c \in Clients : Once(c)'
  <2>1. \A m \in DOMAIN sent : sent'[m] = sent[m]
    BY <1>a, <1>6, Wider DEF Publish
  <2>2. Len(routed) <= Len(sent)
    <3>1. Len(routed) + Len(outgoing) <= Len(sent)
      BY <1>a DEF Outgoing
    <3> QED
      BY <1>a, <3>1
  <2>3. ASSUME NEW c \in Clients PROVE Due(c)' = Due(c) /\ Held(c)' = Held(c)
    <3>1. \A m \in (boundAt[c] + 1)..Len(routed) : m \in DOMAIN sent
      BY <1>a, <1>b, <2>2
    <3>2. UNCHANGED <<boundAt, routed, called, msgs, backlog>>
      BY <1>6 DEF Publish
    <3> QED
      BY <2>1, <3>1, <3>2 DEF Due, Held, Matches
  <2> QED
    BY <1>1, <1>6, <2>3 DEF Publish
<1>7. ASSUME NEW c \in Clients, NEW d \in Clients, Deliver(c) PROVE Once(d)'
  <2>1. UNCHANGED <<sent, queue, routed, boundAt, called>>
    BY <1>7 DEF Deliver
  <2>2. CASE d = c
    <3>1. msgs'[c] = Append(msgs[c], Head(backlog[c])) /\ backlog'[c] = Tail(backlog[c])
      BY <1>a, <1>7 DEF Deliver, TypeOK
    <3>2. /\ called[c] \in Seq(Nat) /\ msgs[c] \in Seq(Nat)
          /\ backlog[c] \in Seq(Nat) /\ backlog[c] # <<>>
      BY <1>b, <1>7 DEF Deliver
    <3>3. /\ msgs'[c] \o backlog'[c] = msgs[c] \o backlog[c]
          /\ msgs'[c] \in Seq(Nat) /\ backlog'[c] \in Seq(Nat)
      BY <1>d, <3>1, <3>2, Zenon
    <3>4. (called[c] \o msgs'[c]) \o backlog'[c] = called[c] \o (msgs'[c] \o backlog'[c])
      BY <1>e, <3>2, <3>3, Zenon
    <3>5. (called[c] \o msgs[c]) \o backlog[c] = called[c] \o (msgs[c] \o backlog[c])
      BY <1>e, <3>2, Zenon
    <3> QED
      BY <1>1, <2>1, <2>2, <3>3, <3>4, <3>5 DEF Held, Due, Matches
  <2>3. CASE d # c
    BY <1>a, <1>1, <1>7, <2>1, <2>3 DEF Deliver, TypeOK, Held, Due, Matches
  <2> QED
    BY <2>2, <2>3
<1>8. ASSUME NEW c \in Clients, NEW d \in Clients, CallBack(c) PROVE Once(d)'
  <2>1. UNCHANGED <<sent, queue, routed, boundAt, backlog>>
    BY <1>8 DEF CallBack
  <2>2. CASE d = c
    <3>1. called'[c] = Append(called[c], Head(msgs[c])) /\ msgs'[c] = Tail(msgs[c])
      BY <1>a, <1>8 DEF CallBack, TypeOK
    <3>2. called[c] \in Seq(Nat) /\ msgs[c] \in Seq(Nat) /\ msgs[c] # <<>>
      BY <1>b, <1>8 DEF CallBack
    <3>3. called'[c] \o msgs'[c] = called[c] \o msgs[c]
      BY <1>d, <3>1, <3>2, Zenon
    <3> QED
      BY <1>1, <2>1, <2>2, <3>3 DEF Held, Due, Matches
  <2>3. CASE d # c
    BY <1>a, <1>1, <1>8, <2>1, <2>3 DEF CallBack, TypeOK, Held, Due, Matches
  <2> QED
    BY <2>2, <2>3
<1>9. ASSUME NEW c \in Clients, Bind PROVE Once(c)'
  <2>1. /\ at \in Clients /\ UNCHANGED <<sent, routed, called, msgs, backlog>>
        /\ \A d \in Clients : /\ queue'[d] = IF d = at THEN "bound" ELSE queue[d]
                              /\ boundAt'[d] = IF d = at THEN Len(routed) ELSE boundAt[d]
    BY <1>a, <1>9, TopicAssumption DEF Bind, Registered, Clients, TypeOK
  <2>2. CASE c = at
    <3>1. Held(c)' = <<>>
      <4>1. consumer[c] = "none"
        BY <1>a, <2>2, TopicAssumption DEF Registered, Clients
      <4>2. called'[c] = <<>> /\ msgs'[c] = <<>> /\ backlog'[c] = <<>>
        BY <1>a, <2>1, <4>1 DEF Registered
      <4> QED
        BY <4>2 DEF Held
    <3>2. Due(c)' = {}
      BY <1>a, <2>1, <2>2 DEF Due
    <3> QED
      BY <3>1, <3>2 DEF Once, InOrder, Reaches
  <2>3. CASE c # at
    BY <1>1, <2>1, <2>3 DEF Held, Due, Matches
  <2> QED
    BY <2>2, <2>3
<1>10. ASSUME NEW c \in Clients, ConsumersDown PROVE Once(c)'
  <2>1. /\ UNCHANGED <<sent, routed, boundAt, called, msgs>>
        /\ queue'[c] = "none" /\ backlog'[c] = <<>>
    BY <1>10 DEF ConsumersDown
  <2>2. called[c] \o msgs[c] \in Seq(Nat)
    BY <1>b, ConcatProperties
  <2>3. Held(c)' = called[c] \o msgs[c]
    BY <2>1, <2>2, ConcatEmptySeq DEF Held
  <2>4. Due(c)' = Due(c)
    BY <2>1 DEF Due, Matches
  <2>5. InOrder(called[c] \o msgs[c], Due(c))
    <3>1. Due(c) \subseteq Nat /\ InOrder((called[c] \o msgs[c]) \o backlog[c], Due(c))
      BY <1>a, <1>b DEF Once, Held
    <3> QED
      BY <1>b, <2>2, <3>1, InOrderPrefix
  <2> QED
    BY <2>1, <2>3, <2>4, <2>5 DEF Once, InOrder, Reaches
<1>11. ASSUME NEW c \in Clients, RouteMessage PROVE Once(c)'
  <2> DEFINE m == Len(routed) + 1
  <2>1. Head(outgoing) = m
    <3>1. outgoing \in Seq(DOMAIN sent) /\ outgoing # <<>>
      BY <1>a, <1>11 DEF RouteMessage, TypeOK
    <3>2. Len(outgoing) >= 1 /\ Head(outgoing) = outgoing[1]
      BY <3>1, HeadTailProperties
    <3>3. 1 \in 1..Len(outgoing)
      BY <1>a, <3>2
    <3> QED
      BY <1>a, <3>2, <3>3 DEF Outgoing
  <2>2. /\ UNCHANGED <<sent, queue, boundAt, called, msgs>>
        /\ backlog'[c] = IF queue[c] = "bound" /\ Matches(c, m) THEN Append(backlog[c], m) ELSE backlog[c]
    BY <1>11, <2>1 DEF RouteMessage
  <2>3. Len(routed') = m
    BY <1>a, <1>11, <2>1, AppendProperties DEF RouteMessage, TypeOK
  <2>4. m \in Nat /\ Due(c) \subseteq Nat /\ \A d \in Due(c) : d < m
    BY <1>a, <1>b
  <2>5. Due(c)' = IF Matches(c, m) THEN Due(c) \cup {m} ELSE Due(c)
    <3>1. boundAt[c] <= Len(routed)
      BY <1>a DEF Registered
    <3>2. (boundAt[c] + 1)..Len(routed') = ((boundAt[c] + 1)..Len(routed)) \cup {m}
      BY <1>a, <1>b, <2>3, <3>1
    <3> HIDE DEF m
    <3> QED
      BY <2>2, <3>2 DEF Due, Matches
  <2> HIDE DEF m
  <2>6. CASE queue[c] = "bound" /\ Matches(c, m)
    <3>1. called[c] \o msgs[c] \in Seq(Nat) /\ backlog[c] \in Seq(Nat)
      BY <1>b, ConcatProperties
    <3>2. Held(c)' = Append(Held(c), m)
      <4>1. Held(c)' = (called[c] \o msgs[c]) \o Append(backlog[c], m)
        BY <2>2, <2>6 DEF Held
      <4> QED
        BY <1>f, <2>4, <3>1, <4>1 DEF Held
    <3>3. /\ InOrder(Held(c), Due(c)) /\ \A d \in Due(c) : Reaches(Held(c), d)
      BY <1>a, <2>6 DEF Once
    <3>4. /\ InOrder(Append(Held(c), m), Due(c) \cup {m})
          /\ \A d \in Due(c) \cup {m} : Reaches(Append(Held(c), m), d)
      BY <1>b, <2>4, <3>3, InOrderNext
    <3> QED
      BY <2>5, <2>6, <3>2, <3>4 DEF Once, InOrder, Reaches
  <2>7. CASE queue[c] = "bound" /\ ~Matches(c, m)
    BY <1>1, <2>2, <2>5, <2>7 DEF Held
  <2>8. CASE queue[c] # "bound"
    <3>1. Held(c)' = Held(c) /\ queue'[c] # "bound"
      BY <2>2, <2>8 DEF Held
    <3>2. InOrder(Held(c), Due(c)')
      <4>1. InOrder(Held(c), Due(c))
        BY <1>a DEF Once
      <4> QED
        BY <1>b, <2>4, <2>5, <4>1, InOrderLater
    <3> QED
      BY <3>1, <3>2 DEF Once, InOrder, Reaches
  <2> QED
    BY <2>6, <2>7, <2>8
<1> QED
  BY <1>c, <1>3, <1>4, <1>5, <1>6, <1>7, <1>8, <1>9, <1>10, <1>11
  DEF OncePerConsumer, Once, Next, Register, Consumer

(* Spec keeps the inductive invariant. *)
THEOREM Invariance == Spec => []Inv
<1>1. Inv /\ [Next]_vars => Inv'
  BY TypeStep, OutgoingStep, RegisteredStep, OnceStep DEF Inv, OncePerConsumer
<1> QED
  BY InvInit, <1>1, PTL DEF Spec

(* Every variable keeps its type (producers.go, consumers.go).             *)
THEOREM TypeCorrect == Spec => []TypeOK
BY Invariance, PTL DEF Inv

(* Every callback is called in the order of Publish, once with each        *)
(* message routed since its queue was bound that matches its key, and with *)
(* no other (RegisterConsumers, consume).                                  *)
THEOREM Delivery == Spec => []OncePerConsumer
BY Invariance, PTL DEF Inv

-----------------------------------------------------------------------------
(* The refinement: a consumer's place in the stream is the last message    *)
(* its callback was called with, and the worker's next message is the next *)
(* one that is due (RegisterConsumers, consume).                           *)

(* Two sequences, one behind the other.                                    *)
LEMMA Joint ==
  ASSUME NEW s \in Seq(Nat), NEW t \in Seq(Nat)
  PROVE  /\ Len(s) \in Nat /\ Len(t) \in Nat
         /\ s \o t \in Seq(Nat) /\ Len(s \o t) \in Nat /\ Len(s) <= Len(s \o t)
         /\ \A i \in 1..Len(s) : i \in 1..Len(s \o t) /\ (s \o t)[i] = s[i]
         /\ s # <<>> => Len(s) \in 1..Len(s)
         /\ t # <<>> => /\ Len(s) + 1 \in 1..Len(s \o t)
                       /\ (s \o t)[Len(s) + 1] = Head(t)
                       /\ Len(s \o t) \in 1..Len(s \o t)
         /\ s \o t = <<>> <=> s = <<>> /\ t = <<>>
<1>1. Len(s) \in Nat /\ Len(t) \in Nat
  BY LenProperties
<1>2. /\ s \o t \in Seq(Nat) /\ Len(s \o t) = Len(s) + Len(t)
      /\ \A i \in 1..Len(s) + Len(t) : (s \o t)[i] = IF i <= Len(s) THEN s[i] ELSE t[i - Len(s)]
  BY ConcatProperties
<1>3. /\ s = <<>> <=> Len(s) = 0
      /\ t = <<>> <=> Len(t) = 0
      /\ s \o t = <<>> <=> Len(s \o t) = 0
  BY <1>2, EmptySeq
<1>4. t # <<>> => Head(t) = t[1]
  BY HeadTailProperties
<1> DEFINE u == s \o t
<1>5. u \in Seq(Nat) /\ Len(u) = Len(s) + Len(t) /\ (u = <<>> <=> Len(u) = 0)
  BY <1>2, <1>3
<1>6. \A i \in 1..Len(s) + Len(t) : u[i] = IF i <= Len(s) THEN s[i] ELSE t[i - Len(s)]
  BY <1>2
<1> HIDE DEF u
<1>7. \A i \in 1..Len(s) : i \in 1..Len(u) /\ u[i] = s[i]
  BY <1>1, <1>5, <1>6
<1>8. ASSUME t # <<>>
      PROVE  Len(s) + 1 \in 1..Len(u) /\ u[Len(s) + 1] = Head(t) /\ Len(u) \in 1..Len(u)
  <2>1. Len(t) >= 1
    BY <1>1, <1>3, <1>8
  <2>2. Len(s) + 1 \in 1..Len(s) + Len(t) /\ ~(Len(s) + 1 <= Len(s)) /\ (Len(s) + 1) - Len(s) = 1
    BY <1>1, <2>1
  <2>3. u[Len(s) + 1] = t[1]
    BY <1>6, <2>2
  <2> QED
    BY <1>1, <1>4, <1>5, <1>8, <2>1, <2>2, <2>3
<1>9. u = <<>> <=> s = <<>> /\ t = <<>>
  BY <1>1, <1>3, <1>5
<1>10. s # <<>> => Len(s) \in 1..Len(s)
  BY <1>1, <1>3
<1>11. Len(u) \in Nat /\ Len(s) <= Len(u)
  BY <1>1, <1>5
<1> QED
  BY <1>1, <1>5, <1>7, <1>8, <1>9, <1>10, <1>11 DEF u

(* The numbers a consumer holds, and where it is.                          *)
LEMMA Holdings ==
  ASSUME Inv, NEW c \in Clients
  PROVE  /\ called[c] \in Seq(Nat) /\ msgs[c] \in Seq(Nat) /\ backlog[c] \in Seq(Nat)
         /\ called[c] \o msgs[c] \in Seq(Nat) /\ Held(c) \in Seq(Nat)
         /\ boundAt[c] \in Nat /\ Len(routed) \in Nat /\ boundAt[c] <= Len(routed)
         /\ Due(c) \subseteq (boundAt[c] + 1)..Len(routed)
         /\ InOrder(Held(c), Due(c)) /\ InOrder(called[c] \o msgs[c], Due(c))
<1>1. /\ called[c] \in Seq(DOMAIN sent) /\ msgs[c] \in Seq(DOMAIN sent)
      /\ backlog[c] \in Seq(DOMAIN sent) /\ boundAt[c] \in Nat /\ Len(routed) \in Nat
      /\ DOMAIN sent \subseteq Nat
  <2>1. TypeOK
    BY DEF Inv
  <2>2. sent \in Seq(Keys) /\ routed \in Seq(DOMAIN sent)
    BY <2>1 DEF TypeOK
  <2>3. DOMAIN sent = 1..Len(sent) /\ Len(sent) \in Nat /\ Len(routed) \in Nat
    BY <2>2
  <2> QED
    BY <2>1, <2>3 DEF TypeOK
<1>2. called[c] \in Seq(Nat) /\ msgs[c] \in Seq(Nat) /\ backlog[c] \in Seq(Nat)
  BY <1>1, SeqMonotonic
<1>3. called[c] \o msgs[c] \in Seq(Nat) /\ Held(c) \in Seq(Nat)
  BY <1>2, ConcatProperties DEF Held
<1>4. boundAt[c] <= Len(routed) /\ Due(c) \subseteq (boundAt[c] + 1)..Len(routed)
  BY DEF Inv, Registered, Due
<1>5. InOrder(Held(c), Due(c))
  BY DEF Inv, OncePerConsumer
<1>6. InOrder(called[c] \o msgs[c], Due(c))
  <2>1. Due(c) \subseteq Nat
    BY <1>1, <1>4
  <2>2. InOrder((called[c] \o msgs[c]) \o backlog[c], Due(c))
    BY <1>5 DEF Held
  <2> QED
    BY <1>2, <1>3, <2>1, <2>2, InOrderPrefix
<1> QED
  BY <1>1, <1>2, <1>3, <1>4, <1>5, <1>6

(* What was delivered to a consumer ends no earlier than where it is, and  *)
(* no later than the stream.                                               *)
LEMMA EndBounds ==
  ASSUME Inv, NEW c \in Clients
  PROVE  LET h == called[c] \o msgs[c]
         IN /\ EndOf(h, boundAt[c]) \in Nat /\ EndOf(h, boundAt[c]) <= Len(routed)
            /\ EndOf(called[c], boundAt[c]) \in Nat /\ boundAt[c] <= EndOf(called[c], boundAt[c])
            /\ EndOf(called[c], boundAt[c]) <= EndOf(h, boundAt[c])
            /\ \A i \in 1..Len(h) : h[i] <= EndOf(h, boundAt[c])
<1> DEFINE h == called[c] \o msgs[c]
<1>1. /\ h \in Seq(Nat) /\ called[c] \in Seq(Nat) /\ msgs[c] \in Seq(Nat)
      /\ boundAt[c] \in Nat /\ Len(routed) \in Nat /\ boundAt[c] <= Len(routed)
      /\ InOrder(h, Due(c)) /\ Due(c) \subseteq (boundAt[c] + 1)..Len(routed)
  BY Holdings
<1>2. /\ Len(h) \in Nat /\ Len(called[c]) \in Nat /\ Len(called[c]) <= Len(h)
      /\ \A i \in 1..Len(called[c]) : h[i] = called[c][i]
  <2>1. \A i \in 1..Len(called[c]) : i \in 1..Len(h) /\ h[i] = called[c][i]
    BY <1>1, Joint
  <2>2. Len(h) \in Nat /\ Len(called[c]) \in Nat /\ Len(called[c]) <= Len(h)
    BY <1>1, Joint
  <2> HIDE DEF h
  <2> QED
    BY <2>1, <2>2
<1>3. /\ h # <<>> => Len(h) \in 1..Len(h)
      /\ called[c] # <<>> => Len(called[c]) \in 1..Len(called[c]) /\ h # <<>>
  <2>1. /\ called[c] # <<>> => Len(called[c]) \in 1..Len(called[c])
        /\ msgs[c] # <<>> => Len(h) \in 1..Len(h)
        /\ h = <<>> <=> called[c] = <<>> /\ msgs[c] = <<>>
    BY <1>1, Joint
  <2> HIDE DEF h
  <2>2. called[c] # <<>> => Len(h) \in 1..Len(h)
    BY <1>2, <2>1
  <2> QED
    BY <2>1, <2>2
<1> HIDE DEF h
<1>4. /\ \A i \in 1..Len(h) : h[i] \in Nat /\ boundAt[c] < h[i] /\ h[i] <= Len(routed)
      /\ \A i, j \in 1..Len(h) : i < j => h[i] < h[j]
  BY <1>1 DEF InOrder
<1>5. EndOf(h, boundAt[c]) \in Nat /\ boundAt[c] <= EndOf(h, boundAt[c]) /\ EndOf(h, boundAt[c]) <= Len(routed)
  BY <1>1, <1>3, <1>4 DEF EndOf
<1>6. \A i \in 1..Len(h) : h[i] <= EndOf(h, boundAt[c])
  <2>1. ASSUME NEW i \in 1..Len(h) PROVE h[i] <= EndOf(h, boundAt[c])
    <3>1. h # <<>> /\ Len(h) \in 1..Len(h) /\ i <= Len(h)
      BY <1>2, <1>3
    <3>2. EndOf(h, boundAt[c]) = h[Len(h)]
      BY <3>1 DEF EndOf
    <3> QED
      BY <1>2, <1>4, <3>1, <3>2
  <2> QED
    BY <2>1
<1>7. /\ EndOf(called[c], boundAt[c]) \in Nat /\ boundAt[c] <= EndOf(called[c], boundAt[c])
      /\ EndOf(called[c], boundAt[c]) <= EndOf(h, boundAt[c])
  <2>1. CASE called[c] = <<>>
    BY <1>1, <1>5, <2>1 DEF EndOf
  <2>2. CASE called[c] # <<>>
    <3>1. EndOf(called[c], boundAt[c]) = h[Len(called[c])] /\ Len(called[c]) \in 1..Len(h)
      BY <1>2, <1>3, <2>2 DEF EndOf
    <3> QED
      BY <1>1, <1>4, <1>5, <1>6, <3>1
  <2> QED
    BY <2>1, <2>2
<1> QED
  BY <1>5, <1>6, <1>7 DEF h

(* The worker's next message is the next one due, and is set aside.        *)
LEMMA NextCall ==
  ASSUME Inv, NEW c \in Clients, msgs[c] # <<>>
  PROVE  /\ Head(msgs[c]) \in Promised!Ahead(c)
         /\ \A n \in Promised!Ahead(c) : Head(msgs[c]) <= n
<1> DEFINE u == called[c] \o msgs[c]
           m == Head(msgs[c])
           k == Len(called[c]) + 1
           P == EndOf(called[c], boundAt[c])
<1>1. /\ u \in Seq(Nat) /\ called[c] \in Seq(Nat) /\ msgs[c] \in Seq(Nat) /\ backlog[c] \in Seq(Nat)
      /\ boundAt[c] \in Nat /\ Len(routed) \in Nat /\ boundAt[c] <= Len(routed)
      /\ Held(c) \in Seq(Nat) /\ InOrder(Held(c), Due(c)) /\ InOrder(u, Due(c))
      /\ Due(c) \subseteq (boundAt[c] + 1)..Len(routed)
  BY Holdings
<1>2. /\ P \in Nat /\ boundAt[c] <= P /\ EndOf(u, boundAt[c]) \in Nat
      /\ \A i \in 1..Len(u) : u[i] <= EndOf(u, boundAt[c])
      /\ EndOf(u, boundAt[c]) <= Len(routed)
  BY EndBounds
<1>3. Promised!Position(c) = P
  BY DEF Promised!Position, EndOf
<1>4. /\ k \in 1..Len(u) /\ u[k] = m /\ Len(u) \in Nat /\ Len(called[c]) \in Nat
      /\ \A i \in 1..Len(called[c]) : i \in 1..Len(u) /\ u[i] = called[c][i]
  BY <1>1, Joint
<1>5. called[c] # <<>> => Len(called[c]) \in 1..Len(called[c])
  BY <1>1, <1>4, EmptySeq
<1> HIDE DEF u, m, k
<1>6. m \in Due(c) /\ m \in Nat
  BY <1>1, <1>4 DEF InOrder
<1>7. \A i \in 1..Len(called[c]) : u[i] < m
  <2>1. ASSUME NEW i \in 1..Len(called[c]) PROVE u[i] < m
    <3>1. i \in 1..Len(u) /\ i < k
      BY <1>4 DEF k
    <3> QED
      BY <1>1, <1>4, <3>1 DEF InOrder
  <2> QED
    BY <2>1
<1>8. P < m
  <2>1. CASE called[c] = <<>>
    BY <1>1, <1>6, <2>1 DEF EndOf
  <2>2. CASE called[c] # <<>>
    <3>1. P = u[Len(called[c])]
      BY <1>4, <1>5, <2>2 DEF EndOf
    <3> QED
      BY <1>5, <1>7, <2>2, <3>1
  <2> QED
    BY <2>1, <2>2
<1>9. Upto[c] \in Nat /\ m <= Upto[c] /\ Upto[c] <= Len(routed)
  <2>1. Upto[c] = IF queue[c] = "bound" THEN Len(routed) ELSE EndOf(u, boundAt[c])
    BY DEF Upto, u
  <2>2. m <= Len(routed) /\ m <= EndOf(u, boundAt[c])
    BY <1>1, <1>2, <1>4, <1>6
  <2> QED
    BY <1>1, <1>2, <2>1, <2>2
<1>10. m \in Promised!Ahead(c)
  <2>1. sent[m] \in Binding[c]
    BY <1>6 DEF Due, Matches
  <2>2. m \in (P + 1)..Upto[c]
    BY <1>2, <1>6, <1>8, <1>9
  <2> QED
    BY <1>3, <2>1, <2>2 DEF Promised!Ahead
<1>11. ASSUME NEW n \in Promised!Ahead(c) PROVE m <= n
  <2>1. n \in (P + 1)..Upto[c] /\ sent[n] \in Binding[c]
    BY <1>3, <1>11 DEF Promised!Ahead
  <2>2. n \in Nat /\ P < n /\ n <= Len(routed)
    BY <1>1, <1>2, <1>9, <2>1
  <2>3. n \in Due(c)
    <3>1. n \in (boundAt[c] + 1)..Len(routed)
      BY <1>1, <1>2, <2>2
    <3> QED
      BY <2>1, <3>1 DEF Due, Matches
  <2>4. SUFFICES ASSUME n < m PROVE FALSE
    BY <1>6, <2>2
  <2>5. PICK i \in 1..Len(u) : u[i] = n
    BY <1>1, <1>4, <2>3, <2>4 DEF InOrder, Reaches
  <2>6. ~(k < i) /\ k # i
    <3>1. k < i => u[k] < u[i]
      BY <1>1, <1>4, <2>5 DEF InOrder
    <3> QED
      BY <1>4, <1>6, <2>2, <2>4, <2>5, <3>1
  <2>7. i \in 1..Len(called[c])
    BY <1>4, <2>6 DEF k
  <2>8. called[c] # <<>> /\ Len(called[c]) \in 1..Len(called[c])
    BY <1>1, <1>5, <2>7, EmptySeq
  <2>9. P = u[Len(called[c])] /\ Len(called[c]) \in 1..Len(u)
    BY <1>4, <2>8 DEF EndOf
  <2>10. u[i] <= P
    <3>1. i = Len(called[c]) \/ i < Len(called[c])
      BY <1>4, <2>7
    <3>2. i < Len(called[c]) => u[i] < u[Len(called[c])]
      BY <1>1, <2>5, <2>9 DEF InOrder
    <3> QED
      BY <1>2, <2>2, <2>5, <2>9, <3>1, <3>2
  <2> QED
    BY <1>2, <2>2, <2>5, <2>10
<1> QED
  BY <1>10, <1>11 DEF m

LEMMA RefinementStep ==
  ASSUME Inv, [Next]_vars
  PROVE  [Promised!Next]_(Promised!vars)
<1> USE DEF Promised!vars, publishing, registering, broker, consuming
<1>a. TypeOK /\ Outgoing /\ Registered /\ Len(routed) \in Nat /\ Len(sent) \in Nat /\ Len(outgoing) \in Nat
  BY DEF Inv, TypeOK
<1>b. ASSUME \A c \in Clients : /\ consumer'[c] = "none" <=> consumer[c] = "none"
                                /\ queue'[c] = "bound" <=> queue[c] = "bound"
                                /\ called'[c] \o msgs'[c] = called[c] \o msgs[c],
             UNCHANGED <<routed, boundAt>>
      PROVE  Joined' = Joined /\ Upto' = Upto
  BY <1>b DEF Joined, Upto
<1>c. \A c \in Clients : Joined[c] = "yes" <=> queue[c] = "bound"
  BY <1>a DEF Joined, Registered
<1>1. ASSUME NEW k \in Keys, Publish(k) PROVE Promised!Next
  <2>1. Promised!Publish(k)
    BY <1>1, <1>b DEF Publish, Promised!Publish
  <2> QED
    BY <2>1 DEF Promised!Next
<1>2. CASE RouteMessage
  <2>1. Len(routed') = Len(routed) + 1 /\ UNCHANGED <<sent, consumer, queue, boundAt, called, msgs>>
    <3>1. Head(outgoing) \in DOMAIN sent
      BY <1>2, <1>a, HeadTailProperties DEF RouteMessage, TypeOK
    <3> QED
      BY <1>2, <1>a, <3>1, AppendProperties DEF RouteMessage, TypeOK
  <2>2. Len(routed) < Len(sent)
    <3>1. Len(outgoing) >= 1
      BY <1>2, <1>a, EmptySeq DEF RouteMessage, TypeOK
    <3> QED
      BY <1>a, <3>1 DEF Outgoing
  <2>3. Joined' = Joined
    BY <2>1 DEF Joined
  <2>4. Upto' = [c \in Clients |-> IF Joined[c] = "yes" THEN Len(routed) + 1 ELSE Upto[c]]
    BY <1>c, <2>1 DEF Upto
  <2>5. Promised!Accept
    BY <2>1, <2>2, <2>3, <2>4 DEF Promised!Accept
  <2> QED
    BY <2>5 DEF Promised!Next
<1>3. CASE ConsumersDown
  <2>1. /\ UNCHANGED <<sent, routed, boundAt, called, msgs, consumer>>
        /\ \A c \in Clients : queue'[c] = "none"
    BY <1>3 DEF ConsumersDown
  <2>2. Joined' = [c \in Clients |-> IF Joined[c] = "yes" THEN "left" ELSE Joined[c]]
    <3>1. \A c \in Clients : consumer[c] = "none" => queue[c] # "bound"
      BY <1>a DEF Registered
    <3> QED
      BY <2>1, <3>1 DEF Joined
  <2>3. \A c \in Clients : Upto'[c] = EndOf(called[c] \o msgs[c], boundAt[c])
    BY <2>1 DEF Upto
  <2>4. Upto' \in [Clients -> 0..Len(routed)]
    <3>1. ASSUME NEW c \in Clients PROVE Upto'[c] \in 0..Len(routed)
      <4>1. /\ EndOf(called[c] \o msgs[c], boundAt[c]) \in Nat
            /\ EndOf(called[c] \o msgs[c], boundAt[c]) <= Len(routed)
        BY EndBounds
      <4> QED
        BY <1>a, <2>3, <4>1
    <3> QED
      BY <3>1 DEF Upto
  <2>5. ASSUME NEW c \in Clients
        PROVE  IF Joined[c] = "yes" THEN Upto'[c] >= Promised!Position(c) ELSE Upto'[c] = Upto[c]
    <3>1. Promised!Position(c) = EndOf(called[c], boundAt[c])
      BY DEF Promised!Position, EndOf
    <3>2. /\ EndOf(called[c], boundAt[c]) <= EndOf(called[c] \o msgs[c], boundAt[c])
          /\ EndOf(called[c], boundAt[c]) \in Nat /\ EndOf(called[c] \o msgs[c], boundAt[c]) \in Nat
      BY EndBounds
    <3>3. queue[c] # "bound" => Upto[c] = EndOf(called[c] \o msgs[c], boundAt[c])
      BY DEF Upto
    <3> QED
      BY <1>c, <2>3, <3>1, <3>2, <3>3
  <2>6. Promised!Leave
    BY <2>1, <2>2, <2>4, <2>5 DEF Promised!Leave
  <2> QED
    BY <2>6 DEF Promised!Next
<1>4. CASE Bind
  <2>1. at \in Clients /\ consumer[at] = "none"
    BY <1>4, <1>a, TopicAssumption DEF Bind, Registered, Clients, TypeOK
  <2>2. /\ UNCHANGED <<sent, routed, called, msgs>>
        /\ \A c \in Clients : /\ queue'[c] = IF c = at THEN "bound" ELSE queue[c]
                              /\ consumer'[c] = IF c = at THEN "consume" ELSE consumer[c]
                              /\ boundAt'[c] = IF c = at THEN Len(routed) ELSE boundAt[c]
        /\ boundAt' = [boundAt EXCEPT ![at] = Len(routed)]
    BY <1>4, <1>a, <2>1 DEF Bind, TypeOK
  <2>3. Joined[at] = "no" /\ Joined' = [Joined EXCEPT ![at] = "yes"]
    BY <2>1, <2>2 DEF Joined
  <2>4. Upto' = [Upto EXCEPT ![at] = Len(routed)]
    <3>1. \A c \in Clients : Upto'[c] = IF c = at THEN Len(routed) ELSE Upto[c]
      BY <2>2 DEF Upto
    <3> QED
      BY <2>1, <3>1 DEF Upto
  <2>5. Promised!Join(at)
    BY <2>2, <2>3, <2>4 DEF Promised!Join
  <2> QED
    BY <2>1, <2>5 DEF Promised!Next
<1>5. ASSUME NEW c \in Clients, CallBack(c) PROVE Promised!Next
  <2>1. /\ msgs[c] # <<>> /\ called' = [called EXCEPT ![c] = Append(@, Head(msgs[c]))]
        /\ called'[c] = Append(called[c], Head(msgs[c])) /\ msgs'[c] = Tail(msgs[c])
        /\ \A d \in Clients \ {c} : called'[d] = called[d] /\ msgs'[d] = msgs[d]
        /\ UNCHANGED <<sent, routed, boundAt, queue, consumer>>
    BY <1>5, <1>a DEF CallBack, TypeOK
  <2>2. called'[c] \o msgs'[c] = called[c] \o msgs[c]
    <3>1. called[c] \in Seq(Nat) /\ msgs[c] \in Seq(Nat)
      BY Holdings
    <3>2. \A s, t \in Seq(Nat) : t # <<>> => Append(s, Head(t)) \o Tail(t) = s \o t
      BY MoveHead
    <3>3. Append(called[c], Head(msgs[c])) \o Tail(msgs[c]) = called[c] \o msgs[c]
      BY <2>1, <3>1, <3>2, Zenon
    <3> QED
      BY <2>1, <3>3
  <2>3. Joined' = Joined /\ Upto' = Upto
    BY <1>b, <2>1, <2>2
  <2>4. /\ Head(msgs[c]) \in Promised!Ahead(c)
        /\ \A n \in Promised!Ahead(c) : Head(msgs[c]) <= n
    BY <2>1, NextCall
  <2>5. Promised!Call(c)
    BY <2>1, <2>3, <2>4 DEF Promised!Call
  <2> QED
    BY <2>5 DEF Promised!Next
<1>6. ASSUME NEW c \in Clients, Deliver(c) PROVE UNCHANGED Promised!vars
  <2>1. /\ UNCHANGED <<sent, routed, boundAt, called, queue, consumer>>
        /\ \A d \in Clients \ {c} : msgs'[d] = msgs[d]
        /\ queue[c] = "bound"
    BY <1>6, <1>a DEF Deliver, TypeOK, Registered
  <2>2. Joined' = Joined /\ Upto' = Upto
    BY <2>1 DEF Joined, Upto
  <2> QED
    BY <2>1, <2>2
<1>7. CASE DeclareQueue
  <2>1. at \in Clients /\ queue[at] # "bound"
    BY <1>7, <1>a, TopicAssumption DEF DeclareQueue, Registered, Clients, TypeOK
  <2>2. \A c \in Clients : queue'[c] = "bound" <=> queue[c] = "bound"
    BY <1>7, <1>a, <2>1 DEF DeclareQueue, TypeOK
  <2> QED
    BY <1>7, <1>b, <2>2 DEF DeclareQueue
<1>8. ASSUME NEW c \in Clients, Consume(c) \/ ConsumeFails(c) PROVE UNCHANGED Promised!vars
  <2>1. /\ UNCHANGED <<sent, routed, boundAt, called, msgs, queue>>
        /\ \A d \in Clients : consumer'[d] = "none" <=> consumer[d] = "none"
    BY <1>8, <1>a DEF Consume, ConsumeFails, TypeOK
  <2> QED
    BY <1>b, <2>1
<1>9. ASSUME \/ ProducerDown \/ RegisterFails \/ UNCHANGED vars
             \/ \E c \in Clients : CallBackReturns(c)
      PROVE  UNCHANGED Promised!vars
  BY <1>9, <1>b DEF ProducerDown, RegisterFails, CallBackReturns, vars
<1> QED
  BY <1>1, <1>2, <1>3, <1>4, <1>5, <1>6, <1>7, <1>8, <1>9 DEF Next, Register, Consumer

(* The topic keeps every promise of Subscription, whatever the number of   *)
(* consumers, of keys and of messages: no callback skips or repeats a      *)
(* message while others come and connections break.                        *)
THEOREM Refinement == Spec => ImplementsSubscription
<1>1. Init => Promised!Init
  <2> SUFFICES ASSUME Init PROVE Promised!Init
    OBVIOUS
  <2>1. Joined = [c \in Clients |-> "no"]
    BY DEF Init, Joined
  <2>2. Upto = [c \in Clients |-> 0]
    <3>1. <<>> \o <<>> = <<>>
      OBVIOUS
    <3> QED
      BY <3>1 DEF Init, Upto, EndOf
  <2> QED
    BY <2>1, <2>2 DEF Init, Promised!Init
<1>2. Inv /\ [Next]_vars => [Promised!Next]_(Promised!vars)
  BY RefinementStep
<1> QED
  BY <1>1, <1>2, Invariance, PTL DEF Spec, ImplementsSubscription, Promised!Spec
=============================================================================
