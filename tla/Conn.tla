-------------------------------- MODULE Conn --------------------------------
(***************************************************************************)
(* What the two kinds of client connection of net/clientConn share: the    *)
(* client and its socket, the deliverer, the goroutines of the application *)
(* that call SendMsg, and the unbuffered channels recvQueue and sendQueue  *)
(* between the reader, the deliverer and the writer.  ClientConn and       *)
(* ClientConnWs add the reader and the writer.                             *)
(*                                                                         *)
(* A request is named by its place in what the client sent.  A message to  *)
(* the client is named by the goroutine that handed it over and a number:  *)
(* the request it answers, or how many that goroutine sent.                *)
(***************************************************************************)
EXTENDS Naturals, Sequences

CONSTANTS
  Senders,          \* application goroutines that call SendMsg
  MaxRequests,      \* bound: requests the client sends
  MaxSends,         \* bound: SendMsg calls of one goroutine
  InCap,            \* frames the socket buffers towards the server
  OutCap,           \* frames the socket buffers towards the client
  CallbackResults   \* what RequestCallBack may return

ASSUME ConnAssumption ==
  /\ Senders \cap {"reply", "callback"} = {}
  /\ MaxRequests \in Nat /\ MaxSends \in Nat
  /\ InCap \in Nat \ {0} /\ OutCap \in Nat \ {0}
  /\ CallbackResults \subseteq {"reply", "undecodable", "error", "nil"}

VARIABLES
  sent,             \* requests sent by the client so far
  toServer,         \* requests in the socket and its read buffer
  toClient,         \* how many frames were written and not yet read
  link,             \* "up", or "down" once the client is gone or the path broke
  closed,           \* c.conn.Close() was called
  reader, packet,   \* ReadRecvMsg: where it is, the packet it holds
  deliver, msg,     \* DeliverRecvMsg: where it is, the request it works on
  writer, sendMsg,  \* WriteMsg: where it is, the buffer it holds
  sendQueue,        \* goroutines blocked in sendQueue <- buf, as Go wakes them
  issued,           \* the number of the last message of each source
  disconnects,      \* how often DisConnectCallBack was called
  handled,          \* history: the requests RequestCallBack was called with
  late,             \* history: how many of them after DisConnectCallBack
  written,          \* history: the messages put on the wire
  panicked          \* a goroutine panicked, the process is gone

socket     == <<sent, toServer, toClient, link, closed>>
reading    == <<reader, packet>>
delivering == <<deliver, msg>>
writing    == <<writer, sendMsg>>
offers     == <<sendQueue, issued>>
log        == <<disconnects, handled, late, written>>
connVars   == <<socket, reading, delivering, writing, offers, log, panicked>>

Sources == Senders \cup {"reply", "callback"}
Message == [src : Sources, n : 0..(MaxRequests + MaxSends)]

Init ==
  /\ sent = 0 /\ toServer = <<>> /\ toClient = 0 /\ link = "up" /\ closed = FALSE
  /\ reader = "uncode" /\ packet = 0
  /\ deliver = "recv" /\ msg = 0
  /\ writer = "recv" /\ sendMsg = [src |-> "reply", n |-> 0]
  /\ sendQueue = <<>> /\ issued = [s \in Sources |-> 0]
  /\ disconnects = 0
  /\ handled = <<>> /\ late = 0 /\ written = <<>>
  /\ panicked = FALSE

(* c.session.DisConnectCallBack(c); nothing ever calls ConnectCallBack. *)
DisConnectCallBack == disconnects' = disconnects + 1

-----------------------------------------------------------------------------
(* The client and the path to it.  It may close the connection (all it     *)
(* sent can still be read) or the connection is reset (only what was       *)
(* already buffered can).                                                  *)

ClientSend ==
  /\ link = "up" /\ sent < MaxRequests /\ Len(toServer) < InCap
  /\ sent' = sent + 1
  /\ toServer' = Append(toServer, sent + 1)
  /\ UNCHANGED <<toClient, link, closed, reading, delivering, writing, offers, log, panicked>>

ClientRecv ==
  /\ link = "up" /\ toClient > 0
  /\ toClient' = toClient - 1
  /\ UNCHANGED <<sent, toServer, link, closed, reading, delivering, writing, offers, log, panicked>>

LinkDown ==
  /\ link = "up"
  /\ link' = "down"
  /\ \E k \in 0..Len(toServer) : toServer' = SubSeq(toServer, 1, k)
  /\ UNCHANGED <<sent, toClient, closed, reading, delivering, writing, offers, log, panicked>>

-----------------------------------------------------------------------------
(* The deliverer.                                                          *)

(* Slip: the reader drops a packet while the deliverer is busy. *)
HandOverOrDrop ==
  /\ ~panicked /\ reader = "offer"
  /\ IF deliver = "recv" THEN msg' = packet /\ deliver' = "call" ELSE UNCHANGED delivering
  /\ reader' = "uncode"
  /\ UNCHANGED <<socket, packet, writing, offers, log, panicked>>

(* c.recvQueue <- packet meets <-c.recvQueue: the channel has no buffer. *)
HandOver ==
  /\ ~panicked /\ reader = "offer" /\ deliver = "recv"
  /\ msg' = packet
  /\ deliver' = "call"
  /\ reader' = "uncode"
  /\ UNCHANGED <<socket, packet, writing, offers, log, panicked>>

BeginCallback ==
  /\ ~panicked /\ deliver = "call"
  /\ handled' = Append(handled, msg)
  /\ late' = late + (IF disconnects > 0 THEN 1 ELSE 0)
  /\ deliver' = "calling"
  /\ UNCHANGED <<socket, reading, msg, writing, offers, disconnects, written, panicked>>

(* The callback sends to its own connection with SendMsg. *)
CallbackSend ==
  /\ ~panicked /\ deliver = "calling" /\ issued["callback"] < MaxSends
  /\ issued' = [issued EXCEPT !["callback"] = @ + 1]
  /\ sendQueue' = Append(sendQueue, [src |-> "callback", n |-> issued["callback"] + 1])
  /\ deliver' = "sending"
  /\ UNCHANGED <<socket, reading, msg, writing, log, panicked>>

(* It returns a message, which is encoded and offered to the writer ... *)
CallbackReply ==
  /\ ~panicked /\ deliver = "calling" /\ "reply" \in CallbackResults
  /\ issued' = [issued EXCEPT !["reply"] = msg]
  /\ sendQueue' = Append(sendQueue, [src |-> "reply", n |-> msg])
  /\ deliver' = "offer"
  /\ UNCHANGED <<socket, reading, msg, writing, log, panicked>>

(* ... or an error, or a message that cannot be encoded: both are printed ... *)
CallbackError ==
  /\ ~panicked /\ deliver = "calling" /\ CallbackResults \cap {"error", "undecodable"} # {}
  /\ deliver' = "recv"
  /\ UNCHANGED <<socket, reading, msg, writing, offers, log, panicked>>

(* ... or neither, and res.Tag panics. *)
CallbackNil ==
  /\ ~panicked /\ deliver = "calling" /\ "nil" \in CallbackResults
  /\ deliver' = "panic"
  /\ UNCHANGED <<socket, reading, msg, writing, offers, log, panicked>>

Callback == BeginCallback \/ CallbackReply \/ CallbackError \/ CallbackNil

-----------------------------------------------------------------------------
(* SendMsg, and the writer's end of sendQueue.                             *)

Waiting(s) == \E i \in 1..Len(sendQueue) : sendQueue[i].src = s

SendMsg(s) ==
  /\ ~panicked /\ ~Waiting(s) /\ issued[s] < MaxSends
  /\ issued' = [issued EXCEPT ![s] = @ + 1]
  /\ sendQueue' = Append(sendQueue, [src |-> s, n |-> issued[s] + 1])
  /\ UNCHANGED <<socket, reading, delivering, writing, log, panicked>>

(* The writer receives from the goroutine that waited longest, whose send  *)
(* returns: SendMsg to its caller, the deliverer's to the next request.    *)
TakeSend ==
  /\ ~panicked /\ writer = "recv" /\ sendQueue # <<>>
  /\ sendMsg' = Head(sendQueue)
  /\ sendQueue' = Tail(sendQueue)
  /\ deliver' = IF Head(sendQueue).src = "reply" THEN "recv"
                ELSE IF Head(sendQueue).src = "callback" THEN "calling" ELSE deliver
  /\ writer' = "write"
  /\ UNCHANGED <<socket, reading, msg, issued, log, panicked>>

Application == Callback \/ CallbackSend \/ \E s \in Senders : SendMsg(s)

-----------------------------------------------------------------------------
(* Properties of every connection.                                         *)

ConnTypeOK ==
  /\ sent \in 0..MaxRequests
  /\ toServer \in Seq(1..MaxRequests) /\ toClient \in 0..OutCap
  /\ link \in {"up", "down"} /\ closed \in BOOLEAN
  /\ packet \in 0..MaxRequests /\ msg \in 0..MaxRequests
  /\ deliver \in {"recv", "call", "calling", "sending", "offer", "panic", "closing", "dead"}
  /\ sendMsg \in Message /\ sendQueue \in Seq(Message)
  /\ issued \in [Sources -> 0..(MaxRequests + MaxSends)]
  /\ disconnects \in Nat
  /\ handled \in Seq(1..MaxRequests) /\ late \in Nat
  /\ written \in Seq(Message) /\ panicked \in BOOLEAN

(* Requests are handled in the order the client sent them, none lost and   *)
(* none twice, across the socket, the reader and the deliverer: what was   *)
(* handled, what each goroutine holds and what the socket still buffers    *)
(* are the requests 1, 2, ... in a row, up to the last one sent as long as *)
(* the link is up (ReadRecvMsg, DeliverRecvMsg).                           *)
Accepted ==
  handled \o (IF deliver = "call" THEN <<msg>> ELSE <<>>)
          \o (IF reader = "offer" THEN <<packet>> ELSE <<>>)

InTransit == Accepted \o (IF reader \in {"uncode", "offer"} THEN toServer ELSE <<>>)

RequestsInOrder ==
  /\ \A i \in 1..Len(InTransit) : InTransit[i] = i
  /\ link = "up" /\ reader \in {"uncode", "offer"} => Len(InTransit) = sent

(* What the client reads of one goroutine is in the order that goroutine   *)
(* handed it over, and nothing is repeated; replies answer requests that   *)
(* were handled (SendMsg, DeliverRecvMsg, WriteMsg).                       *)
FifoPerSource ==
  /\ \A i, j \in 1..Len(written) :
       i < j /\ written[i].src = written[j].src => written[i].n < written[j].n
  /\ \A i \in 1..Len(written) :
       written[i].src = "reply" => \E k \in 1..Len(handled) : handled[k] = written[i].n

(* The reader does not wait for the deliverer before it calls              *)
(* DisConnectCallBack, so a request can be handled after it; only the one  *)
(* the deliverer already holds, as recvQueue has no buffer.                *)
OneLateRequest == late <= 1

-----------------------------------------------------------------------------
(* The inductive invariant behind these properties, as far as both kinds   *)
(* of connection share it.  The requests are numbered along the deliverer, *)
(* the reader and the socket (Chain); once the reader has left its loop no *)
(* second request reaches the deliverer (LastRequest); a goroutine offers  *)
(* one message at a time, the deliverer's only while it waits (OneOffer);  *)
(* a message that left sendQueue is older than any its source has queued   *)
(* or in the writer's hands (Numbered).                                    *)
Delivered == Len(handled) + (IF deliver = "call" THEN 1 ELSE 0)
Fetched   == Delivered + (IF reader = "offer" THEN 1 ELSE 0)

Chain ==
  /\ \A i \in 1..Len(handled) : handled[i] = i
  /\ deliver # "recv" => msg = Delivered
  /\ reader = "offer" => packet = Fetched
  /\ Fetched + Len(toServer) <= sent
  /\ reader \in {"uncode", "offer"} =>
       /\ \A i \in 1..Len(toServer) : toServer[i] = Fetched + i
       /\ link = "up" => Fetched + Len(toServer) = sent

LastRequest == late <= IF reader \in {"uncode", "offer"} \/ deliver = "call" THEN 0 ELSE 1

OneOffer ==
  /\ \A i, j \in 1..Len(sendQueue) : sendQueue[i].src = sendQueue[j].src => i = j
  /\ \A i \in 1..Len(sendQueue) :
       /\ sendQueue[i].src = "reply" => deliver = "offer"
       /\ sendQueue[i].src = "callback" => deliver = "sending"

Answers(m) == m.src = "reply" => m.n >= 1

Left(m) ==
  /\ Answers(m) /\ m.n <= issued[m.src]
  /\ \A i \in 1..Len(sendQueue) : sendQueue[i].src = m.src => m.n < sendQueue[i].n

Numbered ==
  /\ \A i \in 1..Len(sendQueue) :
       Answers(sendQueue[i]) /\ sendQueue[i].n = issued[sendQueue[i].src]
  /\ writer # "recv" => Left(sendMsg)
  /\ \A i \in 1..Len(written) :
       /\ Left(written[i])
       /\ writer # "recv" /\ written[i].src = sendMsg.src => written[i].n < sendMsg.n
  /\ issued["reply"] <= Len(handled)
  /\ deliver \in {"calling", "sending"} => issued["reply"] < Len(handled)

(* What was handed over and is neither on the wire nor lost. *)
Pending ==
  {sendQueue[i] : i \in 1..Len(sendQueue)}
    \cup (IF writer # "recv" THEN {sendMsg} ELSE {})
=============================================================================
