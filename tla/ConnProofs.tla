----------------------------- MODULE ConnProofs -----------------------------
(***************************************************************************)
(* What the proofs about ClientConn and ClientConnWs share: the steps of   *)
(* the client, of the deliverer, of SendMsg and of the writer's receive    *)
(* keep the invariants of Conn, and what the messages of Session are.      *)
(***************************************************************************)
EXTENDS Conn, SequenceTheorems, TLAPS

(* The actions that Conn defines. *)
Shared == ClientSend \/ ClientRecv \/ LinkDown \/ HandOver \/ Application \/ TakeSend

(* A connection starts with nothing sent, held or offered.                 *)
LEMMA SharedInit ==
  Init => ConnTypeOK /\ Chain /\ LastRequest /\ OneOffer /\ Numbered /\ FifoPerSource
<1> SUFFICES ASSUME Init
             PROVE  ConnTypeOK /\ Chain /\ LastRequest /\ OneOffer /\ Numbered /\ FifoPerSource
  OBVIOUS
<1>1. sendMsg \in Message /\ issued \in [Sources -> 0..(MaxRequests + MaxSends)]
  BY ConnAssumption DEF Init, Message, Sources
<1>2. /\ toServer \in Seq(1..MaxRequests) /\ handled \in Seq(1..MaxRequests)
      /\ sendQueue \in Seq(Message) /\ written \in Seq(Message)
  BY DEF Init
<1>3. /\ sent \in 0..MaxRequests /\ packet \in 0..MaxRequests /\ msg \in 0..MaxRequests
      /\ toClient \in 0..OutCap /\ late \in Nat /\ disconnects \in Nat
  BY ConnAssumption DEF Init
<1>4. link \in {"up", "down"} /\ closed \in BOOLEAN /\ panicked \in BOOLEAN /\ deliver = "recv"
  BY DEF Init
<1>5. ConnTypeOK
  BY <1>1, <1>2, <1>3, <1>4 DEF ConnTypeOK
<1>6. Chain /\ LastRequest
  BY DEF Init, Chain, Fetched, Delivered, LastRequest
<1>7. OneOffer /\ FifoPerSource
  BY DEF Init, OneOffer, FifoPerSource
<1>8. Numbered
  BY DEF Init, Numbered, Sources
<1> QED
  BY <1>5, <1>6, <1>7, <1>8

(* A link that goes down leaves a prefix of what the socket buffers. *)
LEMMA Prefix ==
  ASSUME ConnTypeOK, NEW k \in 0..Len(toServer), toServer' = SubSeq(toServer, 1, k)
  PROVE  /\ toServer' \in Seq(1..MaxRequests)
         /\ Len(toServer') <= Len(toServer)
         /\ \A i \in 1..Len(toServer') : toServer'[i] = toServer[i]
<1>1. toServer \in Seq(1..MaxRequests) /\ Len(toServer) \in Nat
  BY DEF ConnTypeOK
<1>2. k \in Int /\ \A i \in 1..k : toServer[i] \in 1..MaxRequests
  <2>1. ASSUME NEW i \in 1..k PROVE toServer[i] \in 1..MaxRequests
    <3>1. i \in 1..Len(toServer)
      BY <1>1
    <3> QED
      BY <1>1, <3>1, ElementOfSeq
  <2> QED
    BY <1>1, <2>1
<1>3. /\ SubSeq(toServer, 1, k) \in Seq(1..MaxRequests)
      /\ Len(SubSeq(toServer, 1, k)) = IF 1 <= k THEN k ELSE 0
      /\ \A i \in 1..k : SubSeq(toServer, 1, k)[i] = toServer[i]
  <2>1. /\ SubSeq(toServer, 1, k) \in Seq(1..MaxRequests)
        /\ Len(SubSeq(toServer, 1, k)) = IF 1 <= k THEN k - 1 + 1 ELSE 0
        /\ \A i \in 1..(k - 1 + 1) : SubSeq(toServer, 1, k)[i] = toServer[1 + i - 1]
    BY <1>2, SubSeqProperties
  <2> QED
    BY <1>2, <2>1
<1> QED
  BY <1>1, <1>2, <1>3

(* The shared actions keep the types of what they change.                  *)
LEMMA SharedType ==
  ASSUME ConnTypeOK, Chain, Shared
  PROVE  ConnTypeOK'
<1> USE ConnAssumption DEF ConnTypeOK
<1>1. CASE ClientSend
  BY <1>1 DEF ClientSend, reading, delivering, writing, offers, log
<1>2. CASE ClientRecv
  BY <1>2 DEF ClientRecv, reading, delivering, writing, offers, log
<1>3. CASE LinkDown
  <2>1. PICK k \in 0..Len(toServer) : toServer' = SubSeq(toServer, 1, k)
    BY <1>3 DEF LinkDown
  <2>2. toServer' \in Seq(1..MaxRequests)
    BY <2>1, Prefix
  <2> QED
    BY <1>3, <2>2 DEF LinkDown, reading, delivering, writing, offers, log
<1>4. CASE HandOver
  BY <1>4 DEF HandOver, socket, writing, offers, log
<1>5. CASE BeginCallback
  BY <1>5 DEF BeginCallback, Chain, Fetched, Delivered, socket, reading, writing, offers
<1>6. CASE CallbackSend
  BY <1>6 DEF Message, Sources, CallbackSend, socket, reading, writing, log
<1>7. CASE CallbackReply
  BY <1>7 DEF Message, Sources, CallbackReply, socket, reading, writing, log
<1>8. CASE CallbackError \/ CallbackNil
  BY <1>8 DEF CallbackError, CallbackNil, socket, reading, writing, offers, log
<1>9. ASSUME NEW s \in Senders, SendMsg(s) PROVE ConnTypeOK'
  BY <1>9 DEF Message, Sources, SendMsg, socket, reading, delivering, writing, log
<1>10. CASE TakeSend
  BY <1>10, HeadTailProperties DEF TakeSend, socket, reading, log
<1> QED
  BY <1>1, <1>2, <1>3, <1>4, <1>5, <1>6, <1>7, <1>8, <1>9, <1>10 DEF Shared, Application, Callback

-----------------------------------------------------------------------------
(* The chain of requests: a step takes a request from the front of one     *)
(* part of the chain to the end of the one before it, or adds at its end,  *)
(* or, once the link is down, cuts its end off.                            *)

(* The types that the chain is about.                                      *)
LEMMA ChainTypes ==
  ASSUME ConnTypeOK
  PROVE  /\ toServer \in Seq(1..MaxRequests) /\ Len(toServer) \in Nat
         /\ handled \in Seq(1..MaxRequests) /\ Len(handled) \in Nat
         /\ sent \in Nat /\ msg \in 0..MaxRequests
         /\ Delivered \in Nat /\ Fetched \in Nat
<1>1. /\ toServer \in Seq(1..MaxRequests) /\ Len(toServer) \in Nat
      /\ handled \in Seq(1..MaxRequests) /\ Len(handled) \in Nat
      /\ sent \in Nat /\ msg \in 0..MaxRequests
  BY DEF ConnTypeOK
<1>2. Delivered \in Nat
  BY <1>1 DEF Delivered
<1> QED
  BY <1>1, <1>2 DEF Fetched

(* Nothing moves, or the reader leaves its loop. *)
LEMMA ChainKept ==
  ASSUME ConnTypeOK, Chain,
         UNCHANGED <<sent, link, msg, handled>>,
         \/ deliver' = deliver
         \/ deliver \notin {"recv", "call"} /\ deliver' # "call",
         \/ UNCHANGED <<reader, packet, toServer>>
         \/ /\ reader # "offer" /\ reader' \notin {"uncode", "offer"}
            /\ toServer' = toServer \/ (toServer # <<>> /\ toServer' = Tail(toServer))
  PROVE  Chain'
<1>1. Delivered' = Delivered /\ Fetched' = Fetched
  BY DEF Delivered, Fetched
<1>2. toServer # <<>> => Len(Tail(toServer)) <= Len(toServer) /\ Len(Tail(toServer)) \in Nat
  BY ChainTypes, HeadTailProperties
<1> QED
  BY <1>1, <1>2, ChainTypes DEF Chain

(* The link is down, and a part of what the socket buffers is gone. *)
LEMMA ChainCut ==
  ASSUME ConnTypeOK, Chain, NEW k \in 0..Len(toServer), toServer' = SubSeq(toServer, 1, k),
         link' = "down", UNCHANGED <<sent, packet, msg, handled>>,
         reader' = reader \/ (reader # "offer" /\ reader' \notin {"uncode", "offer"}),
         deliver' = deliver \/ (deliver \notin {"recv", "call"} /\ deliver' # "call")
  PROVE  Chain'
<1>1. Delivered' = Delivered /\ Fetched' = Fetched
  BY DEF Delivered, Fetched
<1>2. /\ Len(toServer') <= Len(toServer)
      /\ \A i \in 1..Len(toServer') : toServer'[i] = toServer[i]
      /\ Len(toServer') \in Nat
  BY Prefix
<1>3. ASSUME reader' \in {"uncode", "offer"}, NEW i \in 1..Len(toServer')
      PROVE  toServer'[i] = Fetched' + i
  BY <1>1, <1>2, <1>3, ChainTypes DEF Chain
<1>4. Fetched' + Len(toServer') <= sent'
  BY <1>1, <1>2, ChainTypes DEF Chain
<1> QED
  BY <1>1, <1>3, <1>4 DEF Chain

(* The reader fetches the next request. *)
LEMMA ChainFetch ==
  ASSUME ConnTypeOK, Chain, reader = "uncode", toServer # <<>>,
         packet' = Head(toServer), toServer' = Tail(toServer), reader' = "offer",
         UNCHANGED <<sent, link, deliver, msg, handled>>
  PROVE  Chain' /\ Fetched' = Fetched + 1 /\ Head(toServer) = Fetched + 1
<1> USE ChainTypes DEF Chain
<1>1. /\ Len(toServer') = Len(toServer) - 1
      /\ \A i \in 1..Len(toServer') : toServer'[i] = toServer[i + 1]
      /\ packet' = toServer[1] /\ Len(toServer) >= 1
  BY HeadTailProperties
<1>2. Delivered' = Delivered /\ Fetched' = Fetched + 1
  BY DEF Delivered, Fetched
<1>3. ASSUME NEW i \in 1..Len(toServer') PROVE toServer'[i] = Fetched' + i
  <2>1. i \in Nat /\ i + 1 \in 1..Len(toServer)
    BY <1>1
  <2>2. toServer[i + 1] = Fetched + (i + 1)
    BY <2>1
  <2> QED
    BY <1>1, <1>2, <2>1, <2>2
<1>4. packet' = Fetched'
  <2>1. 1 \in 1..Len(toServer)
    BY <1>1
  <2> QED
    BY <1>1, <1>2, <2>1
<1>5. Fetched' + Len(toServer') = Fetched + Len(toServer)
  BY <1>1, <1>2
<1> QED
  BY <1>2, <1>3, <1>4, <1>5

(* The shared actions keep the chain.                                      *)
LEMMA SharedChain ==
  ASSUME ConnTypeOK, Chain, OneOffer, Shared
  PROVE  Chain'
<1> USE ChainTypes DEF Chain
<1>1. CASE ClientSend
  <2>1. /\ Len(toServer') = Len(toServer) + 1
        /\ \A i \in 1..Len(toServer) : toServer'[i] = toServer[i]
        /\ toServer'[Len(toServer) + 1] = sent + 1
    BY <1>1 DEF ClientSend
  <2>2. Delivered' = Delivered /\ Fetched' = Fetched
    BY <1>1 DEF ClientSend, Delivered, Fetched, reading, delivering, log
  <2>3. reader \in {"uncode", "offer"} => toServer'[Len(toServer) + 1] = Fetched + Len(toServer) + 1
    BY <1>1, <2>1 DEF ClientSend
  <2>4. ASSUME NEW i \in 1..Len(toServer'), reader \in {"uncode", "offer"}
        PROVE  toServer'[i] = Fetched' + i
    <3>1. CASE i \in 1..Len(toServer)
      BY <2>1, <2>2, <2>4, <3>1
    <3>2. CASE i = Len(toServer) + 1
      BY <2>2, <2>3, <2>4, <3>2
    <3> QED
      BY <2>1, <3>1, <3>2
  <2>5. \A i \in 1..Len(handled') : handled'[i] = i
    BY <1>1 DEF ClientSend, log
  <2>6. (deliver' # "recv" => msg' = Delivered') /\ (reader' = "offer" => packet' = Fetched')
    BY <1>1, <2>2 DEF ClientSend, reading, delivering
  <2>7. sent' = sent + 1 /\ reader' = reader /\ link' = link
    BY <1>1 DEF ClientSend, reading
  <2>8. /\ Fetched' + Len(toServer') <= sent'
        /\ reader' \in {"uncode", "offer"} => (link' = "up" => Fetched' + Len(toServer') = sent')
    <3>1. Fetched' + Len(toServer') = Fetched + Len(toServer) + 1
      BY <2>1, <2>2
    <3>2. Fetched + Len(toServer) <= sent
      OBVIOUS
    <3>3. reader \in {"uncode", "offer"} /\ link = "up" => Fetched + Len(toServer) = sent
      OBVIOUS
    <3> HIDE DEF Chain
    <3> QED
      BY <2>7, <3>1, <3>2, <3>3
  <2> QED
    BY <2>4, <2>5, <2>6, <2>7, <2>8
<1>2. CASE LinkDown
  <2> HIDE DEF Chain
  <2>1. PICK k \in 0..Len(toServer) : toServer' = SubSeq(toServer, 1, k)
    BY <1>2 DEF LinkDown
  <2> QED
    BY <1>2, <2>1, ChainCut DEF LinkDown, reading, delivering, log
<1>3. CASE HandOver
  <2>1. Delivered' = Delivered + 1 /\ Fetched' = Fetched /\ Fetched = Delivered + 1
    BY <1>3 DEF HandOver, Delivered, Fetched, log
  <2> QED
    BY <1>3, <2>1 DEF HandOver, socket, log
<1>4. CASE BeginCallback
  <2>1. /\ Len(handled') = Len(handled) + 1
        /\ \A i \in 1..Len(handled) : handled'[i] = handled[i]
        /\ handled'[Len(handled) + 1] = Len(handled) + 1
    BY <1>4 DEF BeginCallback, Delivered
  <2>2. Delivered' = Delivered /\ Fetched' = Fetched
    BY <1>4, <2>1 DEF BeginCallback, Delivered, Fetched, reading
  <2>3. ASSUME NEW i \in 1..Len(handled') PROVE handled'[i] = i
    <3>1. CASE i \in 1..Len(handled)
      BY <2>1, <3>1
    <3>2. CASE i = Len(handled) + 1
      BY <2>1, <3>2
    <3> QED
      BY <2>1, <3>1, <3>2
  <2>4. msg' = msg /\ deliver = "call"
    BY <1>4 DEF BeginCallback
  <2> QED
    BY <1>4, <2>2, <2>3, <2>4 DEF BeginCallback, socket, reading
<1>5. CASE ClientRecv
  BY <1>5, ChainKept DEF ClientRecv, reading, delivering, log
<1>6. CASE CallbackSend \/ CallbackReply \/ CallbackError \/ CallbackNil
  BY <1>6, ChainKept
  DEF CallbackSend, CallbackReply, CallbackError, CallbackNil, socket, reading, log
<1>7. ASSUME NEW s \in Senders, SendMsg(s) PROVE Chain'
  BY <1>7, ChainKept DEF SendMsg, socket, reading, delivering, log
<1>8. CASE TakeSend
  <2>1. sendQueue \in Seq(Message) /\ OneOffer /\ sendQueue # <<>> /\ Head(sendQueue) = sendQueue[1]
    BY <1>8 DEF ConnTypeOK, TakeSend
  <2>2. 1 \in 1..Len(sendQueue)
    BY <2>1
  <2>3. \/ deliver = "offer" /\ deliver' = "recv"
        \/ deliver = "sending" /\ deliver' = "calling"
        \/ deliver' = deliver
    BY <1>8, <2>1, <2>2 DEF TakeSend, OneOffer
  <2> QED
    BY <1>8, ChainKept, <2>3 DEF TakeSend, socket, reading, log
<1> QED
  BY <1>1, <1>2, <1>3, <1>4, <1>5, <1>6, <1>7, <1>8 DEF Shared, Application, Callback

(* Two runs of consecutive numbers, the second starting where the first    *)
(* ends, make one.                                                         *)
LEMMA Consecutive ==
  ASSUME NEW s \in Seq(Nat), NEW t \in Seq(Nat),
         \A i \in 1..Len(s) : s[i] = i,
         \A i \in 1..Len(t) : t[i] = Len(s) + i
  PROVE  /\ s \o t \in Seq(Nat) /\ Len(s \o t) = Len(s) + Len(t)
         /\ \A i \in 1..Len(s \o t) : (s \o t)[i] = i
<1> DEFINE u == s \o t
<1>1. /\ u \in Seq(Nat) /\ Len(u) = Len(s) + Len(t)
      /\ \A i \in 1..Len(s) + Len(t) : u[i] = IF i <= Len(s) THEN s[i] ELSE t[i - Len(s)]
      /\ Len(s) \in Nat /\ Len(t) \in Nat
  BY ConcatProperties, LenProperties
<1> HIDE DEF u
<1>2. ASSUME NEW i \in 1..Len(u) PROVE u[i] = i
  <2>1. CASE i <= Len(s)
    <3>1. i \in 1..Len(s) /\ i \in 1..Len(s) + Len(t)
      BY <1>1, <2>1
    <3>2. u[i] = s[i]
      BY <1>1, <2>1, <3>1
    <3> QED
      BY <3>1, <3>2
  <2>2. CASE i > Len(s)
    <3>1. i - Len(s) \in 1..Len(t)
      BY <1>1, <2>2
    <3>2. t[i - Len(s)] = Len(s) + (i - Len(s))
      BY <3>1
    <3> QED
      BY <1>1, <2>2, <3>2
  <2> QED
    BY <1>1, <2>1, <2>2
<1> QED
  BY <1>1, <1>2 DEF u

(* What Chain says of the requests is RequestsInOrder. *)
LEMMA ChainInOrder ==
  ASSUME ConnTypeOK, Chain
  PROVE  RequestsInOrder /\ Len(Accepted) = Fetched
<1> DEFINE d == IF deliver = "call" THEN <<msg>> ELSE <<>>
           r == IF reader = "offer" THEN <<packet>> ELSE <<>>
           q == IF reader \in {"uncode", "offer"} THEN toServer ELSE <<>>
<1>1. handled \in Seq(Nat) /\ toServer \in Seq(Nat) /\ msg \in Nat /\ packet \in Nat
  <2>1. 1..MaxRequests \subseteq Nat
    BY ConnAssumption
  <2>2. /\ handled \in Seq(1..MaxRequests) /\ toServer \in Seq(1..MaxRequests)
        /\ msg \in 0..MaxRequests /\ packet \in 0..MaxRequests
    BY DEF ConnTypeOK
  <2>3. handled \in Seq(Nat) /\ toServer \in Seq(Nat)
    BY <2>1, <2>2, SeqMonotonic
  <2> QED
    BY <2>2, <2>3, ConnAssumption
<1>2. d \in Seq(Nat) /\ Delivered = Len(handled) + Len(d) /\ \A i \in 1..Len(d) : d[i] = Len(handled) + i
  BY <1>1 DEF Chain, Delivered
<1>3. r \in Seq(Nat) /\ Fetched = Delivered + Len(r) /\ \A i \in 1..Len(r) : r[i] = Delivered + i
  <2>1. Delivered \in Nat
    BY <1>1, LenProperties DEF Delivered
  <2>2. CASE reader = "offer"
    <3>1. r = <<packet>> /\ packet = Delivered + 1 /\ Fetched = Delivered + 1
      BY <2>1, <2>2 DEF Chain, Fetched
    <3>2. r \in Seq(Nat) /\ Len(r) = 1 /\ r[1] = packet
      BY <1>1, <3>1
    <3> QED
      BY <2>1, <3>1, <3>2
  <2>3. CASE reader # "offer"
    BY <2>1, <2>3 DEF Fetched
  <2> QED
    BY <2>2, <2>3
<1>4. q \in Seq(Nat) /\ \A i \in 1..Len(q) : q[i] = Fetched + i
  BY <1>1 DEF Chain
<1>5. InTransit = ((handled \o d) \o r) \o q
  BY DEF InTransit, Accepted
<1> HIDE DEF d, r, q
<1>6. handled \o d \in Seq(Nat) /\ Len(handled \o d) = Delivered
      /\ \A i \in 1..Len(handled \o d) : (handled \o d)[i] = i
  BY <1>1, <1>2, Consecutive DEF Chain
<1> DEFINE e == handled \o d
<1> HIDE DEF e
<1>7. e \o r \in Seq(Nat) /\ Len(e \o r) = Fetched /\ \A i \in 1..Len(e \o r) : (e \o r)[i] = i
  BY <1>3, <1>6, Consecutive DEF e
<1> DEFINE f == e \o r
<1> HIDE DEF f
<1>8. Len(f \o q) = Fetched + Len(q) /\ \A i \in 1..Len(f \o q) : (f \o q)[i] = i
  BY <1>4, <1>7, Consecutive DEF f
<1>9. InTransit = f \o q
  BY <1>5 DEF e, f
<1>10. Len(Accepted) = Fetched
  BY <1>7 DEF Accepted, d, r, e, f
<1> QED
  BY <1>8, <1>9, <1>10 DEF RequestsInOrder, Chain, q

(* The request that the deliverer calls the callback with is the next one. *)
LEMMA NextRequest ==
  ASSUME ConnTypeOK, Chain, BeginCallback
  PROVE  msg = Len(handled) + 1 /\ Len(handled) < sent
<1>1. Delivered = Len(handled) + 1 /\ msg = Delivered
  BY DEF BeginCallback, Chain, Delivered
<1>2. Fetched >= Delivered /\ Fetched + Len(toServer) <= sent
  BY ChainTypes DEF Chain, Fetched
<1> QED
  BY <1>1, <1>2, ChainTypes

(* Once the reader left its loop the deliverer handles what it holds.      *)
LEMMA SharedLast ==
  ASSUME ConnTypeOK, LastRequest, Shared,
         disconnects > 0 /\ deliver = "call" => reader \notin {"uncode", "offer"}
  PROVE  LastRequest'
<1> USE DEF ConnTypeOK, LastRequest
<1>1. CASE ClientSend \/ ClientRecv \/ LinkDown
  BY <1>1 DEF ClientSend, ClientRecv, LinkDown, reading, delivering, log
<1>2. CASE HandOver
  BY <1>2 DEF HandOver, log
<1>3. CASE BeginCallback
  BY <1>3 DEF BeginCallback, reading
<1>4. CASE CallbackSend \/ CallbackReply \/ CallbackError \/ CallbackNil
  BY <1>4 DEF CallbackSend, CallbackReply, CallbackError, CallbackNil, reading, log
<1>5. ASSUME NEW s \in Senders, SendMsg(s) PROVE LastRequest'
  BY <1>5 DEF SendMsg, reading, delivering, log
<1>6. CASE TakeSend
  BY <1>6 DEF TakeSend, reading, log
<1> QED
  BY <1>1, <1>2, <1>3, <1>4, <1>5, <1>6 DEF Shared, Application, Callback

-----------------------------------------------------------------------------
(* sendQueue.                                                              *)

(* A goroutine offers again only once it was received from.                *)
LEMMA SharedOffers ==
  ASSUME ConnTypeOK, OneOffer, Shared
  PROVE  OneOffer'
<1>a. sendQueue \in Seq(Message) /\ Len(sendQueue) \in Nat /\ OneOffer
  BY DEF ConnTypeOK
<1>1. ASSUME UNCHANGED sendQueue, deliver' = deliver \/ deliver \notin {"offer", "sending"}
      PROVE  OneOffer'
  BY <1>a, <1>1 DEF OneOffer
<1>2. ASSUME NEW m \in Message, sendQueue' = Append(sendQueue, m), ~Waiting(m.src),
             m.src = "reply" => deliver' = "offer", m.src = "callback" => deliver' = "sending",
             deliver' = deliver \/ deliver \notin {"offer", "sending"}
      PROVE  OneOffer'
  <2>1. /\ Len(sendQueue') = Len(sendQueue) + 1
        /\ \A i \in 1..Len(sendQueue) : sendQueue'[i] = sendQueue[i]
        /\ sendQueue'[Len(sendQueue) + 1] = m
    BY <1>a, <1>2, AppendProperties
  <2>2. \A i \in 1..Len(sendQueue) : sendQueue[i].src # m.src
    BY <1>2 DEF Waiting
  <2>3. \A i \in 1..Len(sendQueue') : i \in 1..Len(sendQueue) \/ i = Len(sendQueue) + 1
    BY <1>a, <2>1
  <2> QED
    BY <1>a, <1>2, <2>1, <2>2, <2>3 DEF OneOffer
<1>3. CASE CallbackSend
  <2>1. ~Waiting("callback")
    BY <1>a, <1>3 DEF CallbackSend, Waiting, OneOffer
  <2>2. [src |-> "callback", n |-> issued["callback"] + 1] \in Message
    BY <1>3, ConnAssumption DEF CallbackSend, Message, Sources, ConnTypeOK
  <2> QED
    BY <1>2, <1>3, <2>1, <2>2 DEF CallbackSend
<1>4. CASE CallbackReply
  <2>1. ~Waiting("reply")
    BY <1>a, <1>4 DEF CallbackReply, Waiting, OneOffer
  <2>2. [src |-> "reply", n |-> msg] \in Message
    BY ConnAssumption DEF Message, Sources, ConnTypeOK
  <2> QED
    BY <1>2, <1>4, <2>1, <2>2 DEF CallbackReply
<1>5. ASSUME NEW s \in Senders, SendMsg(s) PROVE OneOffer'
  <2>1. [src |-> s, n |-> issued[s] + 1] \in Message /\ s \notin {"reply", "callback"}
    BY <1>5, ConnAssumption DEF SendMsg, Message, Sources, ConnTypeOK
  <2> QED
    BY <1>2, <1>5, <2>1 DEF SendMsg, delivering
<1>6. CASE TakeSend
  <2>1. /\ Len(sendQueue') = Len(sendQueue) - 1 /\ Len(sendQueue) >= 1
        /\ \A i \in 1..Len(sendQueue') : sendQueue'[i] = sendQueue[i + 1]
        /\ Head(sendQueue) = sendQueue[1]
    BY <1>a, <1>6, HeadTailProperties DEF TakeSend
  <2>2. \A i \in 1..Len(sendQueue') : i + 1 \in 1..Len(sendQueue) /\ i + 1 # 1
    BY <1>a, <2>1
  <2>3. \A i \in 1..Len(sendQueue') : sendQueue'[i].src # sendQueue[1].src
    BY <1>a, <2>1, <2>2 DEF OneOffer
  <2>4. deliver' = IF sendQueue[1].src = "reply" THEN "recv"
                   ELSE IF sendQueue[1].src = "callback" THEN "calling" ELSE deliver
    BY <1>6, <2>1 DEF TakeSend
  <2>5. ASSUME NEW i \in 1..Len(sendQueue'), NEW j \in 1..Len(sendQueue'),
               sendQueue'[i].src = sendQueue'[j].src
        PROVE  i = j
    <3>1. i + 1 = j + 1
      BY <1>a, <2>1, <2>2, <2>5 DEF OneOffer
    <3> QED
      BY <3>1
  <2>6. ASSUME NEW i \in 1..Len(sendQueue')
        PROVE  /\ sendQueue'[i].src = "reply" => deliver' = "offer"
               /\ sendQueue'[i].src = "callback" => deliver' = "sending"
    <3>1. 1 \in 1..Len(sendQueue) /\ i + 1 \in 1..Len(sendQueue) /\ sendQueue'[i] = sendQueue[i + 1]
      BY <1>a, <2>1, <2>2
    <3> QED
      BY <1>a, <2>3, <2>4, <3>1 DEF OneOffer
  <2> QED
    BY <2>5, <2>6 DEF OneOffer
<1>7. CASE ClientSend \/ ClientRecv \/ LinkDown
  BY <1>1, <1>7 DEF ClientSend, ClientRecv, LinkDown, delivering, offers
<1>8. CASE HandOver \/ BeginCallback \/ CallbackError \/ CallbackNil
  BY <1>1, <1>8 DEF HandOver, BeginCallback, CallbackError, CallbackNil, offers
<1> QED
  BY <1>3, <1>4, <1>5, <1>6, <1>7, <1>8 DEF Shared, Application, Callback

(* The numbers of what one source hands over only grow on the way to the   *)
(* client.                                                                 *)
LEMMA NumbersKept ==
  ASSUME Numbered, FifoPerSource, UNCHANGED <<sendQueue, issued, handled, written>>,
         UNCHANGED <<writer, sendMsg>>
           \/ (writer # "recv" /\ writer' # "recv" /\ UNCHANGED sendMsg) \/ writer' = "recv",
         deliver' \in {"calling", "sending"} => deliver \in {"calling", "sending"}
  PROVE  (Numbered /\ FifoPerSource)'
BY DEF Numbered, FifoPerSource, Left, Answers

(* The types that the numbers are about.                                   *)
LEMMA NumberTypes ==
  ASSUME ConnTypeOK
  PROVE  /\ sendQueue \in Seq(Message) /\ Len(sendQueue) \in Nat
         /\ written \in Seq(Message) /\ Len(written) \in Nat
         /\ handled \in Seq(1..MaxRequests) /\ Len(handled) \in Nat
         /\ issued \in [Sources -> Nat] /\ sendMsg \in Message
         /\ "reply" \in Sources /\ "callback" \in Sources
         /\ \A m \in Message : m.src \in Sources /\ m.n \in Nat
         /\ \A i \in 1..Len(sendQueue) : sendQueue[i] \in Message
         /\ \A i \in 1..Len(written) : written[i] \in Message
<1>1. /\ sendQueue \in Seq(Message) /\ Len(sendQueue) \in Nat
      /\ written \in Seq(Message) /\ Len(written) \in Nat
      /\ handled \in Seq(1..MaxRequests) /\ Len(handled) \in Nat
      /\ issued \in [Sources -> Nat] /\ sendMsg \in Message
  BY ConnAssumption DEF ConnTypeOK
<1>2. \A m \in Message : m.src \in Sources /\ m.n \in Nat
  BY ConnAssumption DEF Message
<1>3. /\ \A i \in 1..Len(sendQueue) : sendQueue[i] \in Message
      /\ \A i \in 1..Len(written) : written[i] \in Message
  BY <1>1, ElementOfSeq
<1> QED
  BY <1>1, <1>2, <1>3 DEF Sources

(* The shared actions keep the numbers in order.                           *)
LEMMA SharedNumbers ==
  ASSUME ConnTypeOK, Chain, OneOffer, Numbered, FifoPerSource, Shared
  PROVE  (Numbered /\ FifoPerSource)'
<1> USE NumberTypes
<1>2. ASSUME NEW m \in Message, sendQueue' = Append(sendQueue, m), ~Waiting(m.src),
             issued' = [issued EXCEPT ![m.src] = m.n], m.n > issued[m.src],
             m.src = "reply" => m.n >= 1 /\ m.n <= Len(handled),
             deliver' \in {"calling", "sending"} =>
               m.src # "reply" /\ deliver \in {"calling", "sending"},
             UNCHANGED <<handled, written, writer, sendMsg>>
      PROVE  (Numbered /\ FifoPerSource)'
  <2>1. /\ Len(sendQueue') = Len(sendQueue) + 1
        /\ \A i \in 1..Len(sendQueue) : sendQueue'[i] = sendQueue[i]
        /\ sendQueue'[Len(sendQueue) + 1] = m
    BY <1>2, AppendProperties
  <2>2. \A i \in 1..Len(sendQueue) : sendQueue[i].src # m.src
    BY <1>2 DEF Waiting
  <2>3. \A i \in 1..Len(sendQueue') : i \in 1..Len(sendQueue) \/ i = Len(sendQueue) + 1
    BY <2>1
  <2>4. \A s \in Sources : issued'[s] = IF s = m.src THEN m.n ELSE issued[s]
    BY <1>2
  <2>5. ASSUME NEW x \in Message, Left(x) PROVE Left(x)'
    <3>1. x.src \in Sources /\ x.n \in Nat /\ m.n \in Nat /\ issued[x.src] \in Nat
      OBVIOUS
    <3>2. Answers(x)' /\ x.n <= issued'[x.src]
      BY <1>2, <2>4, <2>5, <3>1 DEF Left, Answers
    <3>3. ASSUME NEW i \in 1..Len(sendQueue'), sendQueue'[i].src = x.src PROVE x.n < sendQueue'[i].n
      BY <1>2, <2>1, <2>3, <2>5, <3>1, <3>3 DEF Left
    <3> QED
      BY <3>2, <3>3 DEF Left
  <2>6. ASSUME NEW i \in 1..Len(sendQueue')
        PROVE  Answers(sendQueue'[i]) /\ sendQueue'[i].n = issued'[sendQueue'[i].src]
    <3>1. CASE i \in 1..Len(sendQueue)
      <4>1. sendQueue[i].src \in Sources /\ sendQueue[i].src # m.src /\ sendQueue'[i] = sendQueue[i]
        BY <2>1, <2>2, <3>1
      <4> QED
        BY <2>4, <3>1, <4>1 DEF Numbered, Answers
    <3>2. CASE i = Len(sendQueue) + 1
      BY <1>2, <2>1, <2>4, <3>2 DEF Answers
    <3> QED
      BY <2>3, <3>1, <3>2
  <2>7. issued'["reply"] <= Len(handled) /\ (deliver' \in {"calling", "sending"} => issued'["reply"] < Len(handled))
    BY <1>2, <2>4 DEF Numbered
  <2> QED
    BY <1>2, <2>5, <2>6, <2>7 DEF Numbered, FifoPerSource, Answers
<1>3. CASE CallbackSend
  <2>1. ~Waiting("callback")
    BY <1>3 DEF CallbackSend, Waiting, OneOffer
  <2> DEFINE m == [src |-> "callback", n |-> issued["callback"] + 1]
  <2>2. m \in Message
    BY <1>3, ConnAssumption DEF CallbackSend, Message, Sources, ConnTypeOK
  <2>3. m.n > issued[m.src] /\ issued' = [issued EXCEPT ![m.src] = m.n] /\ m.src = "callback"
    BY <1>3 DEF CallbackSend
  <2> QED
    BY <1>2, <1>3, <2>1, <2>2, <2>3 DEF CallbackSend, writing, log
<1>4. CASE CallbackReply
  <2>1. ~Waiting("reply")
    BY <1>4 DEF CallbackReply, Waiting, OneOffer
  <2> DEFINE m == [src |-> "reply", n |-> msg]
  <2>2. m \in Message
    BY ConnAssumption DEF Message, Sources, ConnTypeOK
  <2>3. msg = Len(handled) /\ issued["reply"] < Len(handled) /\ issued["reply"] \in Nat
    BY <1>4 DEF CallbackReply, Chain, Delivered, Numbered
  <2>4. m.n > issued[m.src] /\ issued' = [issued EXCEPT ![m.src] = m.n]
        /\ m.n >= 1 /\ m.n <= Len(handled)
    BY <1>4, <2>3 DEF CallbackReply
  <2> QED
    BY <1>2, <1>4, <2>1, <2>2, <2>4 DEF CallbackReply, writing, log
<1>5. ASSUME NEW s \in Senders, SendMsg(s) PROVE (Numbered /\ FifoPerSource)'
  <2> DEFINE m == [src |-> s, n |-> issued[s] + 1]
  <2>1. m \in Message /\ s \in Sources /\ s # "reply"
    BY <1>5, ConnAssumption DEF SendMsg, Message, Sources, ConnTypeOK
  <2>2. m.n > issued[m.src] /\ issued' = [issued EXCEPT ![m.src] = m.n] /\ m.src = s
    BY <1>5, <2>1 DEF SendMsg
  <2> QED
    BY <1>2, <1>5, <2>1, <2>2 DEF SendMsg, delivering, writing, log
<1>6. CASE TakeSend
  <2>1. /\ Len(sendQueue') = Len(sendQueue) - 1 /\ Len(sendQueue) >= 1
        /\ \A i \in 1..Len(sendQueue') : sendQueue'[i] = sendQueue[i + 1]
        /\ sendMsg' = sendQueue[1]
    BY <1>6, HeadTailProperties DEF TakeSend
  <2>2. 1 \in 1..Len(sendQueue) /\ \A i \in 1..Len(sendQueue') : i + 1 \in 1..Len(sendQueue) /\ i + 1 # 1
    BY <2>1
  <2>3. \A i \in 1..Len(sendQueue') : sendQueue'[i].src # sendMsg'.src
    BY <2>1, <2>2 DEF OneOffer
  <2>4. UNCHANGED <<issued, handled, written>>
    BY <1>6 DEF TakeSend, log
  <2>5. ASSUME NEW x \in Message, Left(x) PROVE Left(x)'
    BY <2>1, <2>2, <2>4, <2>5 DEF Left, Answers
  <2>6. Left(sendMsg)'
    BY <2>1, <2>2, <2>3, <2>4 DEF Left, Answers, Numbered
  <2>7. \A i \in 1..Len(written) : written[i].src = sendMsg'.src => written[i].n < sendMsg'.n
    BY <2>1, <2>2 DEF Left, Numbered
  <2>8. deliver' \in {"calling", "sending"} => deliver \in {"calling", "sending"}
    BY <1>6, <2>1, <2>2 DEF TakeSend, OneOffer
  <2>9. \A i \in 1..Len(sendQueue') :
          Answers(sendQueue'[i]) /\ sendQueue'[i].n = issued'[sendQueue'[i].src]
    BY <2>1, <2>2, <2>4 DEF Numbered
  <2> QED
    BY <2>4, <2>5, <2>6, <2>7, <2>8, <2>9 DEF Numbered, FifoPerSource
<1>7. CASE BeginCallback
  <2>1. /\ Len(handled') = Len(handled) + 1
        /\ \A i \in 1..Len(handled) : handled'[i] = handled[i]
    <3>1. msg \in Nat /\ handled \in Seq(Nat)
      BY ConnAssumption, SeqMonotonic DEF ConnTypeOK
    <3> QED
      BY <1>7, <3>1, AppendProperties DEF BeginCallback
  <2>2. UNCHANGED <<sendQueue, issued, written, writer, sendMsg>>
    BY <1>7 DEF BeginCallback, offers, writing
  <2>3. issued'["reply"] < Len(handled')
    BY <2>1, <2>2 DEF Numbered
  <2>4. FifoPerSource'
    <3>1. \A k \in 1..Len(handled) : k \in 1..Len(handled')
      BY <2>1
    <3> QED
      BY <2>1, <2>2, <3>1 DEF FifoPerSource
  <2>5. /\ writer # "recv" => Left(sendMsg)'
        /\ \A i \in 1..Len(written) : Left(written[i])'
    BY <2>2 DEF Numbered, Left, Answers
  <2> QED
    BY <2>2, <2>3, <2>4, <2>5 DEF Numbered, Answers
<1>8. CASE ClientSend \/ ClientRecv \/ LinkDown
  BY <1>8, NumbersKept DEF ClientSend, ClientRecv, LinkDown, delivering, offers, writing, log
<1>9. CASE HandOver \/ CallbackError \/ CallbackNil
  BY <1>9, NumbersKept DEF HandOver, CallbackError, CallbackNil, offers, writing, log
<1> QED
  BY <1>3, <1>4, <1>5, <1>6, <1>7, <1>8, <1>9 DEF Shared, Application, Callback

(* What the writer holds reaches the wire.                                 *)
LEMMA NumbersWritten ==
  ASSUME ConnTypeOK, Chain, OneOffer, Numbered, FifoPerSource, writer # "recv", writer' = "recv",
         written' = Append(written, sendMsg), UNCHANGED <<sendQueue, issued, handled, deliver>>
  PROVE  (Numbered /\ FifoPerSource)'
<1> USE NumberTypes
<1>1. /\ Len(written') = Len(written) + 1
      /\ \A i \in 1..Len(written) : written'[i] = written[i]
      /\ written'[Len(written) + 1] = sendMsg
  BY AppendProperties
<1>2. \A i \in 1..Len(written') : i \in 1..Len(written) \/ i = Len(written) + 1
  BY <1>1
<1>3. Left(sendMsg) /\ \A i \in 1..Len(written) : written[i].src = sendMsg.src => written[i].n < sendMsg.n
  BY DEF Numbered
<1>4. UNCHANGED <<sendQueue, issued, handled, deliver>> /\ writer' = "recv"
  OBVIOUS
<1>5. \A i \in 1..Len(written') : Left(written'[i])
  BY <1>1, <1>2, <1>3 DEF Numbered
<1>6. \A i \in 1..Len(written') : Left(written[i])'
  BY <1>4, <1>5 DEF Left, Answers
<1>7. Numbered'
  BY <1>4, <1>6 DEF Numbered, Answers
<1>8. ASSUME NEW i \in 1..Len(written'), NEW j \in 1..Len(written'),
             i < j, written'[i].src = written'[j].src
      PROVE  written'[i].n < written'[j].n
  <2>1. i \in 1..Len(written)
    BY <1>1, <1>8
  <2>2. CASE j \in 1..Len(written)
    BY <1>1, <1>8, <2>1, <2>2 DEF FifoPerSource
  <2>3. CASE j = Len(written) + 1
    BY <1>1, <1>3, <1>8, <2>1, <2>3
  <2> QED
    BY <1>2, <2>2, <2>3
<1>9. ASSUME NEW i \in 1..Len(written'), written'[i].src = "reply"
      PROVE  \E k \in 1..Len(handled') : handled'[k] = written'[i].n
  <2>1. CASE i \in 1..Len(written)
    BY <1>1, <1>4, <1>9, <2>1 DEF FifoPerSource
  <2>2. CASE i = Len(written) + 1
    <3>1. sendMsg.n \in 1..Len(handled)
      BY <1>1, <1>3, <1>9, <2>2 DEF Left, Answers, Numbered
    <3> QED
      BY <1>1, <1>4, <2>2, <3>1 DEF Chain
  <2> QED
    BY <1>2, <2>1, <2>2
<1> QED
  BY <1>7, <1>8, <1>9 DEF FifoPerSource

-----------------------------------------------------------------------------
(* The messages of Session: what a goroutine offers is handed over, the    *)
(* writer's receive keeps it, and what leaves the writer is the oldest of  *)
(* its source.                                                             *)

(* An offer adds its message to what was handed over.                      *)
LEMMA Pushed ==
  ASSUME ConnTypeOK, NEW m \in Message, sendQueue' = Append(sendQueue, m),
         UNCHANGED writing
  PROVE  Pending' = Pending \cup {m}
<1>1. /\ Len(sendQueue') = Len(sendQueue) + 1
      /\ \A i \in 1..Len(sendQueue) : sendQueue'[i] = sendQueue[i]
      /\ sendQueue'[Len(sendQueue) + 1] = m
  BY NumberTypes, AppendProperties
<1>2. {sendQueue'[i] : i \in 1..Len(sendQueue')} = {sendQueue[i] : i \in 1..Len(sendQueue)} \cup {m}
  <2>1. \A i \in 1..Len(sendQueue') : i \in 1..Len(sendQueue) \/ i = Len(sendQueue) + 1
    BY NumberTypes, <1>1
  <2>2. Len(sendQueue) + 1 \in 1..Len(sendQueue') /\ \A i \in 1..Len(sendQueue) : i \in 1..Len(sendQueue')
    BY NumberTypes, <1>1
  <2> QED
    BY <1>1, <2>1, <2>2
<1> QED
  BY <1>2 DEF Pending, writing

(* The three ways to hand over a message: each hands over a later one of   *)
(* its source.                                                             *)
LEMMA HandedOver ==
  ASSUME ConnTypeOK, Chain, Numbered,
         CallbackSend \/ CallbackReply \/ \E s \in Senders : SendMsg(s)
  PROVE  /\ \E m \in Message :
              /\ m.n > issued[m.src] /\ (m.src = "reply" => m.n = Len(handled))
              /\ issued' = [issued EXCEPT ![m.src] = m.n] /\ Pending' = Pending \cup {m}
         /\ \A pc \in {"panic", "closing", "dead"} : deliver' = pc <=> deliver = pc
         /\ UNCHANGED <<socket, reading, writing, log, panicked>>
<1>1. CASE CallbackSend
  <2> DEFINE m == [src |-> "callback", n |-> issued["callback"] + 1]
  <2>1. m \in Message
    BY <1>1, ConnAssumption DEF CallbackSend, Message, Sources, ConnTypeOK
  <2>2. m.n > issued[m.src] /\ issued' = [issued EXCEPT ![m.src] = m.n] /\ m.src # "reply"
    BY <1>1, NumberTypes DEF CallbackSend
  <2>3. Pending' = Pending \cup {m}
    BY <1>1, <2>1, Pushed DEF CallbackSend
  <2> QED
    BY <1>1, <2>1, <2>2, <2>3 DEF CallbackSend
<1>2. CASE CallbackReply
  <2> DEFINE m == [src |-> "reply", n |-> msg]
  <2>1. m \in Message
    BY ConnAssumption DEF Message, Sources, ConnTypeOK
  <2>2. msg = Len(handled) /\ issued["reply"] < Len(handled)
    BY <1>2, ChainTypes DEF CallbackReply, Chain, Delivered, Numbered
  <2>3. m.n > issued[m.src] /\ issued' = [issued EXCEPT ![m.src] = m.n] /\ m.n = Len(handled)
    BY <1>2, <2>2, NumberTypes DEF CallbackReply
  <2>4. Pending' = Pending \cup {m}
    BY <1>2, <2>1, Pushed DEF CallbackReply
  <2> QED
    BY <1>2, <2>1, <2>3, <2>4 DEF CallbackReply
<1>3. ASSUME NEW s \in Senders, SendMsg(s)
      PROVE  /\ \E m \in Message :
                  /\ m.n > issued[m.src] /\ (m.src = "reply" => m.n = Len(handled))
                  /\ issued' = [issued EXCEPT ![m.src] = m.n] /\ Pending' = Pending \cup {m}
             /\ deliver' = deliver
             /\ UNCHANGED <<socket, reading, writing, log, panicked>>
  <2> DEFINE m == [src |-> s, n |-> issued[s] + 1]
  <2>1. m \in Message /\ s \in Sources /\ s # "reply"
    BY <1>3, ConnAssumption DEF SendMsg, Message, Sources, ConnTypeOK
  <2>2. m.n > issued[m.src] /\ issued' = [issued EXCEPT ![m.src] = m.n]
    BY <1>3, <2>1, NumberTypes DEF SendMsg
  <2>3. Pending' = Pending \cup {m}
    BY <1>3, <2>1, Pushed DEF SendMsg
  <2> QED
    BY <1>3, <2>1, <2>2, <2>3 DEF SendMsg, delivering
<1> QED
  BY <1>1, <1>2, <1>3

(* The writer receives a message, which stays handed over.                 *)
LEMMA Taken ==
  ASSUME ConnTypeOK, OneOffer, TakeSend
  PROVE  Pending' = Pending /\ \A pc \in {"panic", "closing", "dead"} : deliver' = pc <=> deliver = pc
<1>1. /\ Len(sendQueue') = Len(sendQueue) - 1 /\ Len(sendQueue) >= 1
      /\ \A i \in 1..Len(sendQueue') : sendQueue'[i] = sendQueue[i + 1]
      /\ sendMsg' = sendQueue[1]
  BY NumberTypes, HeadTailProperties DEF TakeSend
<1>2. {sendQueue[i] : i \in 1..Len(sendQueue)} = {sendQueue'[i] : i \in 1..Len(sendQueue')} \cup {sendMsg'}
  <2>1. \A i \in 1..Len(sendQueue) : i = 1 \/ (i - 1 \in 1..Len(sendQueue') /\ (i - 1) + 1 = i)
    BY NumberTypes, <1>1
  <2>2. 1 \in 1..Len(sendQueue) /\ \A i \in 1..Len(sendQueue') : i + 1 \in 1..Len(sendQueue)
    BY NumberTypes, <1>1
  <2>3. ASSUME NEW i \in 1..Len(sendQueue)
        PROVE  sendQueue[i] \in {sendQueue'[j] : j \in 1..Len(sendQueue')} \cup {sendMsg'}
    <3>1. CASE i = 1
      BY <1>1, <3>1
    <3>2. CASE i # 1
      <4>1. i - 1 \in 1..Len(sendQueue') /\ sendQueue'[i - 1] = sendQueue[i]
        BY <1>1, <2>1, <3>2
      <4> QED
        BY <4>1
    <3> QED
      BY <3>1, <3>2
  <2> QED
    BY <1>1, <2>2, <2>3
<1>3. \A pc \in {"panic", "closing", "dead"} : deliver' = pc <=> deliver = pc
  <2>1. 1 \in 1..Len(sendQueue) /\ Head(sendQueue) = sendQueue[1]
    BY <1>1, NumberTypes DEF TakeSend
  <2> QED
    BY <2>1 DEF TakeSend, OneOffer
<1> QED
  BY <1>2, <1>3 DEF TakeSend, Pending

(* The writer is done with its message, the oldest of its source.          *)
LEMMA Dropped ==
  ASSUME ConnTypeOK, Numbered, writer # "recv", writer' = "recv", UNCHANGED sendQueue
  PROVE  /\ sendMsg \in Pending /\ Pending' = Pending \ {sendMsg}
         /\ \A p \in Pending : p.src = sendMsg.src => sendMsg.n <= p.n
<1>1. ASSUME NEW i \in 1..Len(sendQueue)
      PROVE  sendQueue[i].src = sendMsg.src => sendMsg.n < sendQueue[i].n
  BY DEF Numbered, Left
<1>2. sendMsg.n \in Nat /\ \A i \in 1..Len(sendQueue) : sendQueue[i].n \in Nat
  BY NumberTypes
<1>3. \A i \in 1..Len(sendQueue) : sendQueue[i] # sendMsg
  BY <1>1, <1>2
<1> QED
  BY <1>1, <1>2, <1>3 DEF Pending
=============================================================================
