---------------------------- MODULE ClientConnWs ----------------------------
(***************************************************************************)
(* One WebSocket connection, net/clientConn/client_conn_http.go, from the  *)
(* three go statements of Http.wsHandler on: Conn with another reader and  *)
(* writer.  The reader answers a malformed message with a Close frame and  *)
(* so writes beside the writer; the socket stays in error after a failed   *)
(* write or a Close frame; and a goroutine that panics still calls         *)
(* DisConnectCallBack, and then closes the connection, before the process  *)
(* ends; the other goroutines go on meanwhile.                             *)
(*                                                                         *)
(* gorilla/websocket forbids overlapping calls of WriteMessage: it panics  *)
(* when it notices one, and a frame may be garbled when it does not.       *)
(***************************************************************************)
EXTENDS Conn

CONSTANT Malformed  \* may the client send what uncode cannot parse

ASSUME ClientConnWsAssumption == Malformed \in BOOLEAN

VARIABLES
  malformed,        \* the requests that uncode cannot parse
  writeErr,         \* every further WriteMessage fails
  overlapped        \* two calls of WriteMessage overlapped

ws   == <<malformed, writeErr, overlapped>>
vars == <<connVars, ws>>

WsInit == Init /\ malformed = {} /\ writeErr = FALSE /\ overlapped = FALSE

WsClientSend ==
  /\ ClientSend
  /\ malformed' \in {malformed} \cup (IF Malformed THEN {malformed \cup {sent'}} ELSE {})
  /\ UNCHANGED <<writeErr, overlapped>>

(* conn.Close(): what ReadMessage has not buffered is gone, and the client *)
(* can send no more.  A second one does nothing.                           *)
Close ==
  /\ closed' = TRUE /\ link' = "down"
  /\ \E k \in (IF closed THEN {Len(toServer)} ELSE 0..Len(toServer)) :
       toServer' = SubSeq(toServer, 1, k)

-----------------------------------------------------------------------------
(* ReadRecvMsg_http.                                                       *)

(* ReadMessage returns a message; it parses, or a Close frame is due. *)
Uncode ==
  /\ ~panicked /\ reader = "uncode" /\ toServer # <<>>
  /\ packet' = Head(toServer)
  /\ toServer' = Tail(toServer)
  /\ reader' = IF Head(toServer) \in malformed THEN "reject" ELSE "offer"
  /\ UNCHANGED <<sent, toClient, link, closed, delivering, writing, offers, log, panicked, ws>>

(* Slip: a Close frame is written after a failed read, too. *)
UncodeFailsRejecting ==
  /\ ~panicked /\ reader = "uncode" /\ toServer = <<>> /\ link = "down"
  /\ reader' = "reject"
  /\ UNCHANGED <<socket, packet, delivering, writing, offers, log, panicked, ws>>

(* ReadMessage fails and uncode closes the connection. *)
UncodeFails ==
  /\ ~panicked /\ reader = "uncode" /\ toServer = <<>> /\ link = "down"
  /\ Close
  /\ reader' = "notify"
  /\ UNCHANGED <<sent, toClient, packet, delivering, writing, offers, log, panicked, ws>>

(* WriteMessage(CloseMessage, ...) begins, or fails at once: the socket is *)
(* in error, or the text is too long for a control frame.                  *)
RejectBegin ==
  /\ ~panicked /\ reader = "reject"
  /\ \/ reader' = "close" /\ UNCHANGED overlapped
     \/ /\ ~writeErr
        /\ reader' = "rejecting"
        /\ overlapped' = (overlapped \/ writer = "writing")
  /\ UNCHANGED <<socket, packet, delivering, writing, offers, log, panicked, malformed, writeErr>>

(* Slip: the reader goes on after the refusal. *)
RejectContinues ==
  /\ ~panicked /\ reader = "rejecting" /\ ~closed /\ ~writeErr /\ toClient < OutCap
  /\ toClient' = toClient + 1
  /\ reader' = "uncode"
  /\ UNCHANGED <<sent, toServer, link, closed, packet, delivering, writing, offers, log, panicked, ws>>

RejectEnd ==
  /\ ~panicked /\ reader = "rejecting"
  /\ \/ ~closed /\ ~writeErr /\ toClient < OutCap /\ toClient' = toClient + 1
     \/ (closed \/ writeErr \/ link = "down") /\ UNCHANGED toClient
  /\ writeErr' = TRUE
  /\ reader' = "close"
  /\ UNCHANGED <<sent, toServer, link, closed, packet, delivering, writing, offers, log, panicked,
                 malformed, overlapped>>

CloseConn ==
  /\ ~panicked /\ reader = "close"
  /\ Close
  /\ reader' = "notify"
  /\ UNCHANGED <<sent, toClient, packet, delivering, writing, offers, log, panicked, ws>>

(* Slip: nothing is called once the connection is closed. *)
NotifyIfOpen ==
  /\ ~panicked /\ reader = "notify"
  /\ IF closed THEN UNCHANGED disconnects ELSE DisConnectCallBack
  /\ reader' = "exited"
  /\ UNCHANGED <<socket, packet, delivering, writing, offers, handled, late, written, panicked, ws>>

(* The deferred function; its Close finds the connection closed. *)
Notify ==
  /\ ~panicked /\ reader = "notify"
  /\ DisConnectCallBack
  /\ reader' = "exited"
  /\ UNCHANGED <<socket, packet, delivering, writing, offers, handled, late, written, panicked, ws>>

-----------------------------------------------------------------------------
(* DeliverRecvMsg_http, SendMsg and WriteMsg_http.                         *)

Deliver == Callback /\ UNCHANGED ws

Send == (CallbackSend \/ \E s \in Senders : SendMsg(s)) /\ UNCHANGED ws

(* WriteMessage(TextMessage, ...) begins, or fails at once. *)
WriteBegin ==
  /\ ~panicked /\ writer = "write"
  /\ writer' = IF writeErr THEN "recv" ELSE "writing"
  /\ overlapped' = (overlapped \/ (~writeErr /\ reader = "rejecting"))
  /\ UNCHANGED <<socket, reading, delivering, sendMsg, offers, log, panicked, malformed, writeErr>>

(* The frame is on the wire; it may be garbled if two calls overlapped. *)
WriteEnd ==
  /\ ~panicked /\ writer = "writing" /\ ~closed /\ ~writeErr /\ toClient < OutCap
  /\ toClient' = toClient + 1
  /\ written' \in {Append(written, sendMsg)} \cup (IF overlapped THEN {written} ELSE {})
  /\ writer' = "recv"
  /\ UNCHANGED <<sent, toServer, link, closed, reading, delivering, sendMsg, offers,
                 disconnects, handled, late, panicked, ws>>

(* Slips: the message is offered again; the writer returns, through its    *)
(* deferred function.                                                      *)
WriteRetries ==
  /\ ~panicked /\ writer = "writing" /\ (closed \/ link = "down")
  /\ sendQueue' = Append(sendQueue, sendMsg)
  /\ writer' = "recv"
  /\ UNCHANGED <<socket, reading, delivering, sendMsg, issued, log, panicked, ws>>

WriteReturns ==
  /\ ~panicked /\ writer = "writing" /\ (closed \/ writeErr \/ link = "down")
  /\ DisConnectCallBack
  /\ closed' = TRUE
  /\ writer' = "exited"
  /\ UNCHANGED <<sent, toServer, toClient, link, reading, delivering, sendMsg, offers,
                 handled, late, written, panicked, ws>>

WriteFails ==
  /\ ~panicked /\ writer = "writing" /\ (closed \/ writeErr \/ link = "down")
  /\ writeErr' = TRUE
  /\ writer' = "recv"
  /\ UNCHANGED <<socket, reading, delivering, sendMsg, offers, log, panicked, malformed, overlapped>>

OverlapPanics ==
  /\ ~panicked /\ overlapped
  /\ \/ reader = "rejecting" /\ reader' = "panic" /\ UNCHANGED writer
     \/ writer = "writing" /\ writer' = "panic" /\ UNCHANGED reader
  /\ UNCHANGED <<socket, packet, delivering, sendMsg, offers, log, panicked, ws>>

-----------------------------------------------------------------------------
(* The deferred functions: any of the goroutines that panics calls         *)
(* DisConnectCallBack, on a connection that may still be open, closes it,  *)
(* and ends the process, three steps that the others see.                  *)

Unwinds(from, to) ==
  /\ ~panicked
  /\ \/ reader = from /\ reader' = to /\ UNCHANGED <<packet, delivering, writing>>
     \/ deliver = from /\ deliver' = to /\ UNCHANGED <<reading, msg, writing>>
     \/ writer = from /\ writer' = to /\ UNCHANGED <<reading, delivering, sendMsg>>

UnwindNotify ==
  /\ Unwinds("panic", "closing")
  /\ DisConnectCallBack
  /\ UNCHANGED <<socket, offers, handled, late, written, panicked, ws>>

(* Slip: the deferred function leaves the connection as it is. *)
UnwindKeepsOpen ==
  /\ Unwinds("closing", "dead")
  /\ UNCHANGED <<socket, offers, log, panicked, ws>>

UnwindClose ==
  /\ Unwinds("closing", "dead")
  /\ Close
  /\ UNCHANGED <<sent, toClient, offers, log, panicked, ws>>

ProcessEnds ==
  /\ ~panicked /\ "dead" \in {reader, deliver, writer}
  /\ panicked' = TRUE
  /\ UNCHANGED <<socket, reading, delivering, writing, offers, log, ws>>

Unwind == UnwindNotify \/ UnwindClose \/ ProcessEnds

-----------------------------------------------------------------------------
Reader == Uncode \/ UncodeFails \/ RejectBegin \/ RejectEnd \/ CloseConn \/ Notify
Writer == (TakeSend /\ UNCHANGED ws) \/ WriteBegin \/ WriteEnd \/ WriteFails

Next ==
  \/ WsClientSend \/ ((ClientRecv \/ LinkDown \/ HandOver) /\ UNCHANGED ws)
  \/ Reader \/ Deliver \/ Send \/ Writer \/ OverlapPanics \/ Unwind

Spec == WsInit /\ [][Next]_vars

(* As in ClientConn: goroutines that can run do, callbacks return. *)
Fairness ==
  /\ WF_vars(Reader) /\ WF_vars(HandOver /\ UNCHANGED ws) /\ WF_vars(Deliver)
  /\ WF_vars(Writer) /\ WF_vars(Unwind)

FairSpec == Spec /\ Fairness

(* A client that keeps reading: a premise of the properties that need it. *)
ClientReads == WF_vars(ClientRecv /\ UNCHANGED ws)

-----------------------------------------------------------------------------
(* Properties.                                                             *)

Panicking(g) == g \in {"panic", "closing", "dead"}

Dying == panicked \/ Panicking(reader) \/ Panicking(deliver) \/ Panicking(writer)

(* Every variable keeps its type (client_conn_http.go). *)
TypeOK ==
  /\ ConnTypeOK
  /\ reader \in {"uncode", "offer", "reject", "rejecting", "close", "notify", "exited",
                 "panic", "closing", "dead"}
  /\ writer \in {"recv", "write", "writing", "panic", "closing", "dead"}
  /\ malformed \subseteq 1..MaxRequests /\ writeErr \in BOOLEAN /\ overlapped \in BOOLEAN

(* Nothing from the first malformed message on is given to the callback    *)
(* (uncode, ReadRecvMsg_http).                                             *)
NothingPastMalformed == \A i \in 1..Len(Accepted), m \in malformed : i < m

(* Three goroutines can call DisConnectCallBack.  Unless a panic is ending *)
(* the process it is the reader, once, on a closed connection.  A panic    *)
(* may tell the user of an open one, which the goroutine that does so then *)
(* closes, and several goroutines may tell, but all three only if the      *)
(* client sent a malformed message (the deferred functions).               *)
DisconnectOnceUnlessPanic ==
  /\ ~Dying => disconnects <= 1 /\ (disconnects = 1 => reader = "exited" /\ closed)
  /\ disconnects > 0 => closed \/ "closing" \in {reader, deliver, writer}
  /\ disconnects <= IF malformed = {} THEN 2 ELSE 3

(* The reader writes only to refuse a malformed message, so as long as the *)
(* client sends none, the reader and the writer never write at once and    *)
(* only a nil reply of the callback ends the process (uncode, decode).     *)
NoOverlapUnlessMalformed ==
  /\ overlapped => malformed # {}
  /\ Dying => malformed # {} \/ Panicking(deliver)

(* The inductive invariant behind these: besides what Conn says of any     *)
(* connection, a goroutine notifies once, the reader on its way out behind *)
(* a Close, each of the three on its way through a panic before one        *)
(* (Shutdown); the reader refuses only what is malformed, which is never   *)
(* behind what it fetched, and a write overlaps, or the reader or the      *)
(* writer panics, only after a refusal, from which the reader does not     *)
(* come back (Refusing).                                                   *)
Notified(g) == IF g \in {"exited", "closing", "dead"} THEN 1 ELSE 0

Shutdown ==
  /\ closed <=> reader \in {"notify", "exited"} \/ "dead" \in {reader, deliver, writer}
  /\ disconnects = Notified(reader) + Notified(deliver) + Notified(writer)

Refusing ==
  /\ \A m \in malformed : Fetched < m /\ m <= sent
  /\ reader \in {"reject", "rejecting"} => malformed # {}
  /\ overlapped => malformed # {} /\ reader \notin {"uncode", "offer"}
  /\ Panicking(reader) \/ Panicking(writer) => overlapped
  /\ panicked => "dead" \in {reader, deliver, writer}

Inv ==
  /\ TypeOK /\ Chain /\ Shutdown /\ Refusing
  /\ LastRequest /\ OneOffer /\ Numbered /\ FifoPerSource

(* The connection keeps the promises of Session. *)
Broken == link = "down" \/ closed \/ writeErr \/ overlapped \/ Dying

Abstract == INSTANCE Session WITH
  Numbers  <- 0..(MaxRequests + MaxSends),
  requests <- sent,
  pending  <- Pending,
  broken   <- Broken,
  notified <- disconnects > 0,
  late     <- late > 0

ImplementsSession == Abstract!Spec

(* The user hears of every disconnection, whatever the goroutines were     *)
(* blocked on.                                                             *)
DisconnectNoticed == link = "down" ~> disconnects > 0

(* If the client reads the frames that precede the Close frame, a refused  *)
(* message ends the session (uncode).                                      *)
RefusalEnds == ClientReads => reader = "reject" ~> disconnects > 0

(* If the client reads, SendMsg returns to every caller, also after the    *)
(* connection is gone.                                                     *)
SendMsgReturns ==
  ClientReads => \A s \in Senders \cup {"callback"} : Waiting(s) ~> ~Waiting(s) \/ Dying
=============================================================================
