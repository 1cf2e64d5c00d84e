------------------------- MODULE ClientConnWsProofs -------------------------
(***************************************************************************)
(* Proofs about ClientConnWs, for every value of its constants.  The steps *)
(* it shares with ClientConn are dealt with in ConnProofs.                 *)
(***************************************************************************)
EXTENDS ClientConnWs, ConnProofs

(* A new connection.                                                       *)
LEMMA InvInit == WsInit => Inv
<1> SUFFICES ASSUME WsInit PROVE Inv
  OBVIOUS
<1>1. ConnTypeOK /\ Chain /\ LastRequest /\ OneOffer /\ Numbered /\ FifoPerSource
  BY SharedInit DEF WsInit
<1>2. TypeOK
  BY <1>1 DEF WsInit, Init, TypeOK
<1>3. Shutdown /\ Refusing
  <2>1. reader = "uncode" /\ deliver = "recv" /\ writer = "recv" /\ ~closed /\ disconnects = 0
        /\ malformed = {} /\ ~overlapped /\ ~panicked
    BY DEF WsInit, Init
  <2> QED
    BY <2>1 DEF Shutdown, Refusing, Notified, Panicking
<1> QED
  BY <1>1, <1>2, <1>3 DEF Inv

(* The actions of Conn leave the variables of the WebSocket alone, but for *)
(* the client, which may send a malformed message.                         *)
LEMMA NextCases ==
  ASSUME Next
  PROVE  \/ WsClientSend
         \/ Shared /\ UNCHANGED ws
         \/ Reader \/ WriteBegin \/ WriteEnd \/ WriteFails \/ OverlapPanics \/ Unwind
BY DEF Next, Deliver, Send, Writer, Shared, Application

(* Close takes the link down and leaves a prefix of what was buffered.     *)
LEMMA Closes ==
  ASSUME ConnTypeOK, Close
  PROVE  /\ closed' = TRUE /\ link' = "down"
         /\ \E k \in 0..Len(toServer) : toServer' = SubSeq(toServer, 1, k)
         /\ toServer' \in Seq(1..MaxRequests)
<1>1. PICK k \in 0..Len(toServer) : toServer' = SubSeq(toServer, 1, k)
  BY DEF Close, ConnTypeOK
<1>2. toServer' \in Seq(1..MaxRequests)
  BY <1>1, Prefix
<1> QED
  BY <1>1, <1>2 DEF Close

(* Every type is kept by every step (client_conn_http.go).                 *)
LEMMA TypeStep == Inv /\ [Next]_vars => TypeOK'
<1> SUFFICES ASSUME Inv, [Next]_vars PROVE TypeOK'
  OBVIOUS
<1> USE ConnAssumption DEF Inv, TypeOK
<1>1. ASSUME Shared
      PROVE  /\ ConnTypeOK'
             /\ (reader' = reader \/ reader' = "uncode") /\ (writer' = writer \/ writer' = "write")
  <2>1. ConnTypeOK'
    BY <1>1, SharedType
  <2> QED
    BY <1>1, <2>1
    DEF Shared, ClientSend, ClientRecv, LinkDown, HandOver, Application, Callback, BeginCallback,
        CallbackSend, CallbackReply, CallbackError, CallbackNil, SendMsg, TakeSend, reading, writing
<1>2. CASE WsClientSend
  <2>1. Shared /\ sent' \in 1..MaxRequests
    BY <1>2 DEF WsClientSend, ClientSend, Shared, ConnTypeOK
  <2> QED
    BY <1>1, <1>2, <2>1 DEF WsClientSend
<1>3. CASE Shared /\ UNCHANGED ws
  BY <1>1, <1>3 DEF ws
<1> USE DEF ConnTypeOK
<1>4. CASE Uncode
  BY <1>4 DEF Uncode, delivering, writing, offers, log, ws
<1>5. CASE UncodeFails \/ CloseConn
  BY <1>5, Closes DEF UncodeFails, CloseConn, delivering, writing, offers, log, ws
<1>6. CASE RejectBegin
  BY <1>6 DEF RejectBegin, socket, delivering, writing, offers, log
<1>7. CASE RejectEnd
  BY <1>7 DEF RejectEnd, delivering, writing, offers, log
<1>8. CASE Notify
  BY <1>8 DEF Notify, DisConnectCallBack, socket, delivering, writing, offers, ws
<1>9. CASE WriteBegin
  BY <1>9 DEF WriteBegin, socket, reading, delivering, offers, log
<1>10. CASE WriteEnd
  <2>1. written' = written \/ written' = Append(written, sendMsg)
    BY <1>10 DEF WriteEnd
  <2>2. written' \in Seq(Message)
    <3>1. written \in Seq(Message) /\ sendMsg \in Message
      BY NumberTypes
    <3> HIDE DEF ConnTypeOK
    <3>2. Append(written, sendMsg) \in Seq(Message)
      BY <3>1, AppendProperties
    <3> QED
      BY <2>1, <3>1, <3>2
  <2> QED
    BY <1>10, <2>2 DEF WriteEnd, reading, delivering, offers, ws
<1>11. CASE WriteFails
  BY <1>11 DEF WriteFails, socket, reading, delivering, offers, log
<1>12. CASE OverlapPanics
  BY <1>12 DEF OverlapPanics, socket, delivering, offers, log, ws
<1>13. CASE Unwind
  <2>1. CASE UnwindNotify
    BY <2>1 DEF UnwindNotify, Unwinds, DisConnectCallBack, socket, reading, delivering, writing, offers, ws
  <2>2. CASE UnwindClose
    BY <2>2, Closes DEF UnwindClose, Unwinds, reading, delivering, writing, offers, log, ws
  <2>3. CASE ProcessEnds
    BY <2>3 DEF ProcessEnds, socket, reading, delivering, writing, offers, log, ws
  <2> QED
    BY <1>13, <2>1, <2>2, <2>3 DEF Unwind
<1>14. CASE UNCHANGED vars
  BY <1>14 DEF vars, connVars, socket, reading, delivering, writing, offers, log, ws
<1> QED
  BY <1>2, <1>3, <1>4, <1>5, <1>6, <1>7, <1>8, <1>9, <1>10, <1>11, <1>12, <1>13, <1>14, NextCases
  DEF Reader

(* The requests from the socket to the callback: a refused one leaves the  *)
(* chain together with everything behind it (uncode, ReadRecvMsg_http).    *)
LEMMA ChainStep == Inv /\ [Next]_vars => Chain'
<1> SUFFICES ASSUME Inv, [Next]_vars PROVE Chain'
  OBVIOUS
<1> USE DEF Inv, TypeOK
<1>1. CASE Shared
  BY <1>1, SharedChain
<1>2. CASE WsClientSend
  BY <1>1, <1>2 DEF WsClientSend, Shared
<1>3. CASE Uncode
  <2>1. CASE Head(toServer) \in malformed
    BY <1>3, <2>1, ChainKept DEF Uncode, delivering, log
  <2>2. CASE Head(toServer) \notin malformed
    BY <1>3, <2>2, ChainFetch DEF Uncode, delivering, log
  <2> QED
    BY <2>1, <2>2
<1>4. CASE UncodeFails \/ CloseConn
  <2>1. PICK k \in 0..Len(toServer) : toServer' = SubSeq(toServer, 1, k)
    BY <1>4, Closes DEF UncodeFails, CloseConn
  <2>2. link' = "down" /\ reader # "offer" /\ reader' \notin {"uncode", "offer"}
        /\ UNCHANGED <<sent, packet, msg, handled, deliver>>
    BY <1>4, Closes DEF UncodeFails, CloseConn, delivering, log
  <2> QED
    BY <2>1, <2>2, ChainCut
<1>10. CASE Notify
  BY <1>10, ChainKept DEF Notify, socket, delivering, log
<1>5. CASE RejectBegin \/ RejectEnd
  BY <1>5, ChainKept DEF RejectBegin, RejectEnd, socket, delivering, log
<1>6. CASE WriteBegin \/ WriteEnd \/ WriteFails
  BY <1>6, ChainKept DEF WriteBegin, WriteEnd, WriteFails, socket, reading, delivering, log
<1>7. CASE OverlapPanics
  BY <1>7, ChainKept DEF OverlapPanics, socket, delivering, log
<1>8. CASE Unwind
  <2>1. CASE UnwindNotify
    BY <2>1, ChainKept DEF UnwindNotify, Unwinds, socket, reading, delivering
  <2>2. CASE UnwindClose
    <3>1. PICK k \in 0..Len(toServer) : toServer' = SubSeq(toServer, 1, k)
      BY <2>2, Closes DEF UnwindClose
    <3>2. link' = "down" /\ UNCHANGED <<sent, packet, msg, handled>>
      BY <2>2, Closes DEF UnwindClose, Unwinds, reading, delivering, log
    <3>3. /\ reader' = reader \/ (reader # "offer" /\ reader' \notin {"uncode", "offer"})
          /\ deliver' = deliver \/ (deliver \notin {"recv", "call"} /\ deliver' # "call")
      BY <2>2 DEF UnwindClose, Unwinds, reading, delivering
    <3> QED
      BY <3>1, <3>2, <3>3, ChainCut
  <2>3. CASE ProcessEnds
    BY <2>3, ChainKept DEF ProcessEnds, socket, reading, delivering, log
  <2> QED
    BY <1>8, <2>1, <2>2, <2>3 DEF Unwind
<1>9. CASE UNCHANGED vars
  BY <1>9, ChainKept DEF vars, connVars, socket, reading, delivering, log
<1> QED
  BY <1>1, <1>2, <1>3, <1>4, <1>5, <1>6, <1>7, <1>8, <1>9, <1>10, NextCases DEF Reader

(* What the reader fetched never reaches a malformed message.              *)
LEMMA FetchedStep ==
  ASSUME Inv, [Next]_vars
  PROVE  Fetched' = Fetched \/ (Uncode /\ Head(toServer) \notin malformed)
<1> USE DEF Inv, TypeOK
<1>1. Delivered \in Nat
  BY ChainTypes
<1>2. ASSUME deliver' = deliver, UNCHANGED handled,
             reader' = reader \/ (reader # "offer" /\ reader' # "offer")
      PROVE  Fetched' = Fetched
  BY <1>2 DEF Fetched, Delivered
<1>3. CASE Shared
  <2>1. CASE ClientSend \/ ClientRecv \/ LinkDown
    BY <1>2, <2>1 DEF ClientSend, ClientRecv, LinkDown, reading, delivering, log
  <2>2. CASE HandOver
    <3>1. Delivered' = Delivered + 1 /\ Fetched = Delivered + 1 /\ reader' = "uncode"
      BY <2>2, ChainTypes DEF HandOver, Delivered, Fetched, log
    <3> QED
      BY <1>1, <3>1 DEF Fetched
  <2>3. CASE BeginCallback
    <3>1. Len(handled') = Len(handled) + 1 /\ deliver = "call" /\ deliver' = "calling"
      BY <2>3, ChainTypes DEF BeginCallback
    <3>2. Delivered' = Delivered
      BY <3>1, ChainTypes DEF Delivered
    <3> QED
      BY <2>3, <3>2 DEF BeginCallback, Fetched, reading
  <2>4. ASSUME UNCHANGED <<handled, reader>>, deliver # "call", deliver' # "call"
        PROVE  Fetched' = Fetched
    BY <2>4 DEF Fetched, Delivered
  <2>5. CASE CallbackSend \/ CallbackReply \/ CallbackError \/ CallbackNil
    BY <2>4, <2>5 DEF CallbackSend, CallbackReply, CallbackError, CallbackNil, reading, log
  <2>6. ASSUME NEW s \in Senders, SendMsg(s) PROVE Fetched' = Fetched
    BY <1>2, <2>6 DEF SendMsg, reading, delivering, log
  <2>7. CASE TakeSend
    <3>1. 1 \in 1..Len(sendQueue) /\ Head(sendQueue) = sendQueue[1]
      BY <2>7, NumberTypes DEF TakeSend
    <3>2. deliver' = deliver \/ (deliver # "call" /\ deliver' # "call")
      BY <2>7, <3>1 DEF TakeSend, OneOffer
    <3> QED
      BY <1>2, <2>4, <2>7, <3>2 DEF TakeSend, reading, log
  <2> QED
    BY <1>3, <2>1, <2>2, <2>3, <2>5, <2>6, <2>7 DEF Shared, Application, Callback
<1>4. CASE WsClientSend
  BY <1>3, <1>4 DEF WsClientSend, Shared
<1>5. CASE Reader
  BY <1>2, <1>5
  DEF Reader, Uncode, UncodeFails, RejectBegin, RejectEnd, CloseConn, Notify, delivering, log
<1>6. CASE WriteBegin \/ WriteEnd \/ WriteFails \/ OverlapPanics
  BY <1>2, <1>6 DEF WriteBegin, WriteEnd, WriteFails, OverlapPanics, reading, delivering, log
<1>8. CASE Unwind
  <2>1. /\ reader' = reader \/ (reader # "offer" /\ reader' # "offer")
        /\ deliver' = deliver \/ (deliver # "call" /\ deliver' # "call")
        /\ UNCHANGED handled
    BY <1>8 DEF Unwind, UnwindNotify, UnwindClose, ProcessEnds, Unwinds, reading, delivering, log
  <2> QED
    BY <2>1 DEF Fetched, Delivered
<1>7. CASE UNCHANGED vars
  BY <1>2, <1>7 DEF vars, connVars, reading, delivering, log
<1> QED
  BY <1>3, <1>4, <1>5, <1>6, <1>7, <1>8, NextCases

(* What is malformed is still to be fetched, or was refused (uncode).      *)
LEMMA MalformedStep ==
  ASSUME Inv, [Next]_vars
  PROVE  \A m \in malformed' : Fetched' < m /\ m <= sent'
<1>a. Fetched \in Nat /\ sent \in Nat /\ Fetched <= sent
  <2>1. Len(toServer) \in Nat /\ Fetched + Len(toServer) <= sent
    BY ChainTypes DEF Inv, TypeOK, Chain
  <2> QED
    BY <2>1, ChainTypes DEF Inv, TypeOK
<1>b. \A m \in malformed : m \in Nat /\ Fetched < m /\ m <= sent
  BY ConnAssumption DEF Inv, TypeOK, Refusing
<1>1. CASE WsClientSend
  <2>1. Fetched' = Fetched /\ sent' = sent + 1 /\ malformed' \subseteq malformed \cup {sent + 1}
    BY <1>1, <1>a, FetchedStep DEF WsClientSend, ClientSend, Uncode
  <2> QED
    BY <1>a, <1>b, <2>1
<1>2. CASE Uncode /\ Head(toServer) \notin malformed
  <2>1. Fetched' = Fetched + 1 /\ Head(toServer) = Fetched + 1
    BY <1>2, ChainFetch DEF Uncode, Inv, TypeOK, delivering, log
  <2>2. UNCHANGED <<sent, malformed>>
    BY <1>2 DEF Uncode, ws
  <2> QED
    BY <1>2, <1>a, <1>b, <2>1, <2>2
<1>3. ASSUME UNCHANGED <<sent, malformed>>, ~(Uncode /\ Head(toServer) \notin malformed)
      PROVE  \A m \in malformed' : Fetched' < m /\ m <= sent'
  BY <1>b, <1>3, FetchedStep
<1>4. ASSUME Shared, UNCHANGED ws, ~(Uncode /\ Head(toServer) \notin malformed)
      PROVE  \A m \in malformed' : Fetched' < m /\ m <= sent'
  <2>1. sent' = sent \/ sent' = sent + 1
    BY <1>4
    DEF Shared, ClientSend, ClientRecv, LinkDown, HandOver, Application, Callback, BeginCallback,
        CallbackSend, CallbackReply, CallbackError, CallbackNil, SendMsg, TakeSend, socket
  <2>2. Fetched' = Fetched /\ malformed' = malformed
    BY <1>4, FetchedStep DEF ws
  <2> QED
    BY <1>a, <1>b, <2>1, <2>2
<1>5. ASSUME Reader PROVE UNCHANGED <<sent, malformed>>
  BY <1>5
  DEF Reader, Uncode, UncodeFails, RejectBegin, RejectEnd, CloseConn, Notify, socket, ws
<1>6. ASSUME WriteBegin \/ WriteEnd \/ WriteFails \/ OverlapPanics \/ Unwind \/ UNCHANGED vars
      PROVE  UNCHANGED <<sent, malformed>>
  BY <1>6
  DEF WriteBegin, WriteEnd, WriteFails, OverlapPanics, Unwind, UnwindNotify, UnwindClose,
      ProcessEnds, vars, connVars, socket, ws
<1> QED
  BY <1>1, <1>2, <1>3, <1>4, <1>5, <1>6, NextCases

(* The ways to the end of the connection and of the process, and what only *)
(* a malformed message brings about (uncode, ReadRecvMsg_http,             *)
(* WriteMsg_http).                                                         *)
LEMMA ShutdownStep == Inv /\ [Next]_vars => (Shutdown /\ Refusing /\ LastRequest)'
<1> SUFFICES ASSUME Inv, [Next]_vars PROVE (Shutdown /\ Refusing /\ LastRequest)'
  OBVIOUS
<1>a. /\ ConnTypeOK /\ OneOffer /\ Shutdown /\ LastRequest
      /\ \A m \in malformed' : Fetched' < m /\ m <= sent'
      /\ overlapped \in BOOLEAN /\ panicked \in BOOLEAN /\ writeErr \in BOOLEAN
      /\ disconnects \in Nat /\ late \in Nat
  BY MalformedStep DEF Inv, TypeOK, ConnTypeOK
<1>c. /\ writer \in {"recv", "write", "writing", "panic", "closing", "dead"}
      /\ deliver # "exited"
  BY DEF Inv, TypeOK, ConnTypeOK
<1>b. /\ reader \in {"reject", "rejecting"} => malformed # {}
      /\ overlapped => malformed # {} /\ reader \notin {"uncode", "offer"}
      /\ Panicking(reader) \/ Panicking(writer) => overlapped
      /\ panicked => "dead" \in {reader, deliver, writer}
  BY DEF Inv, Refusing
<1> USE DEF Notified, Panicking
<1>1. ASSUME Shared
      PROVE  /\ UNCHANGED <<closed, disconnects, panicked>>
             /\ reader' = reader \/ (reader = "offer" /\ reader' = "uncode")
             /\ writer' = writer \/ (writer = "recv" /\ writer' = "write")
             /\ \/ deliver' = deliver
                \/ /\ deliver \notin {"exited", "closing", "dead"}
                   /\ deliver' \notin {"exited", "closing", "dead"}
             /\ LastRequest'
  <2>1. LastRequest'
    <3>1. disconnects > 0 /\ deliver = "call" => reader \notin {"uncode", "offer"}
      BY <1>a, <1>b, <1>c DEF Shutdown
    <3> QED
      BY <1>1, <1>a, <3>1, SharedLast
  <2>2. CASE ClientSend \/ ClientRecv \/ LinkDown
    BY <2>1, <2>2 DEF ClientSend, ClientRecv, LinkDown, reading, delivering, writing, log
  <2>3. CASE HandOver
    BY <2>1, <2>3 DEF HandOver, socket, writing, log
  <2>4. CASE BeginCallback
    BY <2>1, <2>4 DEF BeginCallback, socket, reading, writing
  <2>5. CASE CallbackSend \/ CallbackReply \/ CallbackError \/ CallbackNil
    BY <2>1, <2>5 DEF CallbackSend, CallbackReply, CallbackError, CallbackNil, socket, reading, writing, log
  <2>6. CASE \E s \in Senders : SendMsg(s)
    BY <2>1, <2>6 DEF SendMsg, socket, reading, delivering, writing, log
  <2>7. CASE TakeSend
    <3>1. deliver' \in {"recv", "calling", deliver}
      BY <2>7 DEF TakeSend
    <3>2. deliver \in {"closing", "dead"} => deliver' = deliver
      BY <1>a, <2>7, Taken
    <3> QED
      BY <1>c, <2>1, <2>7, <3>1, <3>2 DEF TakeSend, socket, reading, log
  <2> QED
    BY <1>1, <2>2, <2>3, <2>4, <2>5, <2>6, <2>7 DEF Shared, Application, Callback
<1>2. CASE WsClientSend
  <2>1. Shared /\ (malformed # {} => malformed' # {}) /\ UNCHANGED <<overlapped, writeErr>>
    BY <1>2 DEF WsClientSend, Shared
  <2> QED
    BY <1>1, <1>a, <1>b, <2>1 DEF Shutdown, Refusing
<1>3. CASE Shared /\ UNCHANGED ws
  BY <1>1, <1>3, <1>a, <1>b DEF Shutdown, Refusing, ws
<1> USE DEF Shutdown, Refusing, LastRequest
<1>4. CASE Uncode
  BY <1>4, <1>a, <1>b DEF Uncode, delivering, writing, log, ws
<1>5. CASE UncodeFails \/ CloseConn
  <2>1. closed' /\ reader' = "notify" /\ reader \in {"uncode", "close"}
        /\ UNCHANGED <<deliver, writer, disconnects, late, overlapped, malformed, panicked>>
    BY <1>5, <1>a, Closes DEF UncodeFails, CloseConn, delivering, writing, log, ws
  <2> QED
    BY <1>a, <1>b, <2>1
<1>6. CASE RejectBegin
  BY <1>6, <1>a, <1>b DEF RejectBegin, socket, delivering, writing, log
<1>7. CASE RejectEnd
  BY <1>7, <1>a, <1>b DEF RejectEnd, delivering, writing, log
<1>8. CASE Notify
  BY <1>8, <1>a, <1>b DEF Notify, DisConnectCallBack, socket, delivering, writing, ws
<1>9. CASE WriteBegin
  BY <1>9, <1>a, <1>b DEF WriteBegin, socket, reading, delivering, log
<1>10. CASE WriteEnd
  BY <1>10, <1>a, <1>b DEF WriteEnd, reading, delivering, ws
<1>11. CASE WriteFails
  BY <1>11, <1>a, <1>b DEF WriteFails, socket, reading, delivering, log
<1>12. CASE OverlapPanics
  BY <1>12, <1>a, <1>b DEF OverlapPanics, socket, delivering, log, ws
<1>13. CASE Unwind
  <2>1. CASE UnwindNotify
    BY <2>1, <1>a, <1>b
    DEF UnwindNotify, Unwinds, DisConnectCallBack, socket, reading, delivering, writing, ws
  <2>2. CASE UnwindClose
    BY <2>2, <1>a, <1>b, Closes DEF UnwindClose, Unwinds, reading, delivering, writing, log, ws
  <2>3. CASE ProcessEnds
    BY <2>3, <1>a, <1>b DEF ProcessEnds, socket, reading, delivering, writing, log, ws
  <2> QED
    BY <1>13, <2>1, <2>2, <2>3 DEF Unwind
<1>14. CASE UNCHANGED vars
  BY <1>14, <1>a, <1>b DEF vars, connVars, socket, reading, delivering, writing, log, ws
<1> QED
  BY <1>2, <1>3, <1>4, <1>5, <1>6, <1>7, <1>8, <1>9, <1>10, <1>11, <1>12, <1>13, <1>14, NextCases
  DEF Reader

(* What the goroutines offer, and the numbers of their messages; a garbled *)
(* frame takes its message off the way (SendMsg, DeliverRecvMsg_http,      *)
(* WriteMsg_http).                                                         *)
LEMMA NumberStep == Inv /\ [Next]_vars => (OneOffer /\ Numbered /\ FifoPerSource)'
<1> SUFFICES ASSUME Inv, [Next]_vars PROVE (OneOffer /\ Numbered /\ FifoPerSource)'
  OBVIOUS
<1> USE DEF Inv, TypeOK
<1>1. CASE Shared
  BY <1>1, SharedOffers, SharedNumbers
<1>2. ASSUME UNCHANGED <<sendQueue, deliver>> PROVE OneOffer'
  BY <1>2 DEF OneOffer
<1>3. CASE WsClientSend
  BY <1>1, <1>3 DEF WsClientSend, Shared
<1>4. CASE Reader
  BY <1>2, <1>4, NumbersKept
  DEF Reader, Uncode, UncodeFails, RejectBegin, RejectEnd, CloseConn, Notify,
      delivering, offers, writing, log
<1>5. CASE WriteBegin
  BY <1>2, <1>5, NumbersKept DEF WriteBegin, delivering, offers, log
<1>6. CASE WriteEnd
  <2>1. CASE written' = Append(written, sendMsg)
    BY <1>2, <1>6, <2>1, NumbersWritten DEF WriteEnd, delivering, offers
  <2>2. CASE written' = written
    BY <1>2, <1>6, <2>2, NumbersKept DEF WriteEnd, delivering, offers
  <2> QED
    BY <1>6, <2>1, <2>2 DEF WriteEnd
<1>7. CASE WriteFails
  BY <1>2, <1>7, NumbersKept DEF WriteFails, delivering, offers, log
<1>8. CASE OverlapPanics
  BY <1>2, <1>8, NumbersKept DEF OverlapPanics, delivering, offers, log
<1>9. CASE Unwind
  <2>1. OneOffer'
    BY <1>9 DEF OneOffer, Unwind, UnwindNotify, UnwindClose, ProcessEnds, Unwinds, delivering, offers
  <2> QED
    BY <1>9, <2>1, NumbersKept
    DEF Unwind, UnwindNotify, UnwindClose, ProcessEnds, Unwinds, delivering, offers, writing, log
<1>10. CASE UNCHANGED vars
  BY <1>2, <1>10, NumbersKept DEF vars, connVars, delivering, offers, writing, log
<1> QED
  BY <1>1, <1>3, <1>4, <1>5, <1>6, <1>7, <1>8, <1>9, <1>10, NextCases

-----------------------------------------------------------------------------
(* Spec keeps the inductive invariant. *)
THEOREM Invariance == Spec => []Inv
<1>1. Inv /\ [Next]_vars => Inv'
  BY TypeStep, ChainStep, ShutdownStep, NumberStep DEF Inv
<1> QED
  BY InvInit, <1>1, PTL DEF Spec

(* Every variable keeps its type, whatever the number of goroutines,       *)
(* requests and messages (client_conn_http.go).                            *)
THEOREM TypeCorrect == Spec => []TypeOK
BY Invariance, PTL DEF Inv

(* No request is lost, repeated or handled out of order between the client *)
(* and RequestCallBack (ReadRecvMsg_http, DeliverRecvMsg_http).            *)
THEOREM Order == Spec => []RequestsInOrder
<1>1. Inv => RequestsInOrder
  BY ChainInOrder DEF Inv, TypeOK
<1> QED
  BY <1>1, Invariance, PTL

(* Nothing from the first malformed message on reaches the callback        *)
(* (uncode, ReadRecvMsg_http).                                             *)
THEOREM Refusal == Spec => []NothingPastMalformed
<1>1. Inv => NothingPastMalformed
  <2> SUFFICES ASSUME Inv, NEW i \in 1..Len(Accepted), NEW m \in malformed PROVE i < m
    BY DEF NothingPastMalformed
  <2>1. Len(Accepted) = Fetched /\ Fetched \in Nat
    BY ChainInOrder, ChainTypes DEF Inv, TypeOK
  <2>2. Fetched < m /\ m \in Nat
    BY ConnAssumption DEF Inv, TypeOK, Refusing
  <2> QED
    BY <2>1, <2>2
<1> QED
  BY <1>1, Invariance, PTL

(* Unless a panic is ending the process, DisConnectCallBack is called      *)
(* once, by the reader, on a closed connection.  Through a panic it is     *)
(* called before Close, by each goroutine once, and by all three only      *)
(* after a malformed message (the deferred functions).                     *)
THEOREM Disconnection == Spec => []DisconnectOnceUnlessPanic
<1>1. Inv => DisconnectOnceUnlessPanic
  <2> SUFFICES ASSUME Inv PROVE DisconnectOnceUnlessPanic
    OBVIOUS
  <2> USE DEF Inv, TypeOK, ConnTypeOK, Shutdown, Refusing, Notified, Panicking
  <2>1. ~Dying => disconnects <= 1 /\ (disconnects = 1 => reader = "exited" /\ closed)
    BY DEF Dying, Panicking
  <2>2. disconnects > 0 => closed \/ "closing" \in {reader, deliver, writer}
    OBVIOUS
  <2>3. disconnects <= IF malformed = {} THEN 2 ELSE 3
    <3>1. disconnects = Notified(reader) + Notified(deliver) + Notified(writer)
      OBVIOUS
    <3>2. malformed = {} => Notified(writer) = 0
      OBVIOUS
    <3>3. Notified(reader) \in 0..1 /\ Notified(deliver) \in 0..1 /\ Notified(writer) \in 0..1
      OBVIOUS
    <3> HIDE DEF Inv, Notified
    <3> QED
      BY <3>1, <3>2, <3>3
  <2> QED
    BY <2>1, <2>2, <2>3 DEF DisconnectOnceUnlessPanic
<1> QED
  BY <1>1, Invariance, PTL

(* Without a malformed message no two writes overlap, and only a nil reply *)
(* ends the process (uncode, decode).                                      *)
THEOREM NoOverlap == Spec => []NoOverlapUnlessMalformed
<1>1. Inv => NoOverlapUnlessMalformed
  BY DEF Inv, Refusing, NoOverlapUnlessMalformed, Dying, Panicking
<1> QED
  BY <1>1, Invariance, PTL

-----------------------------------------------------------------------------
(* The refinement.  broken never becomes FALSE again, and becomes TRUE in  *)
(* steps that change nothing else of Session; what the writer drops it     *)
(* drops on a broken connection (WriteMsg_http).                           *)

(* A broken connection stays broken.                                       *)
LEMMA StaysBroken ==
  ASSUME Inv, [Next]_vars, Broken
  PROVE  Broken'
<1> USE DEF Broken, Dying, Panicking
<1>1. CASE Shared /\ UNCHANGED ws
  <2>1. CASE ClientSend \/ ClientRecv \/ LinkDown
    BY <1>1, <2>1 DEF ClientSend, ClientRecv, LinkDown, reading, delivering, writing, ws
  <2>2. CASE HandOver
    BY <1>1, <2>2 DEF HandOver, socket, writing, ws
  <2>3. CASE BeginCallback
    BY <1>1, <2>3 DEF BeginCallback, socket, reading, writing, ws
  <2>4. CASE CallbackError \/ CallbackNil
    BY <1>1, <2>4 DEF CallbackError, CallbackNil, socket, reading, writing, ws
  <2>5. CASE CallbackSend \/ CallbackReply
    BY <1>1, <2>5 DEF CallbackSend, CallbackReply, socket, reading, writing, ws
  <2>6. CASE \E s \in Senders : SendMsg(s)
    BY <1>1, <2>6 DEF SendMsg, socket, reading, delivering, writing, ws
  <2>7. CASE TakeSend
    BY <1>1, <2>7, Taken DEF TakeSend, socket, reading, ws, Inv, TypeOK
  <2> QED
    BY <1>1, <2>1, <2>2, <2>3, <2>4, <2>5, <2>6, <2>7 DEF Shared, Application, Callback
<1>2. CASE WsClientSend
  BY <1>2 DEF WsClientSend, ClientSend, reading, delivering, writing
<1>3. CASE Reader
  BY <1>3
  DEF Reader, Uncode, UncodeFails, RejectBegin, RejectEnd, CloseConn, Close, Notify,
      socket, delivering, writing, ws
<1>4. CASE WriteBegin \/ WriteEnd \/ WriteFails
  BY <1>4 DEF WriteBegin, WriteEnd, WriteFails, socket, reading, delivering, ws
<1>5. CASE OverlapPanics
  BY <1>5 DEF OverlapPanics, socket, delivering, ws
<1>7. CASE Unwind
  <2>1. CASE UnwindNotify
    BY <2>1 DEF UnwindNotify, Unwinds, socket, reading, delivering, writing, ws
  <2>2. CASE UnwindClose
    BY <2>2 DEF UnwindClose, Close
  <2>3. CASE ProcessEnds
    BY <2>3 DEF ProcessEnds
  <2> QED
    BY <1>7, <2>1, <2>2, <2>3 DEF Unwind
<1>6. CASE UNCHANGED vars
  BY <1>6 DEF vars, connVars, socket, reading, delivering, writing, ws
<1> QED
  BY <1>1, <1>2, <1>3, <1>4, <1>5, <1>6, <1>7, NextCases

(* Every step is a step of Session or none.                                *)
LEMMA RefinementStep ==
  ASSUME Inv, Inv', [Next]_vars
  PROVE  [Abstract!Next]_(Abstract!vars)
<1> USE DEF Abstract!vars
<1>a. /\ ConnTypeOK /\ Chain /\ OneOffer /\ Numbered
      /\ disconnects \in Nat /\ late \in Nat /\ (Broken => Broken')
      /\ Broken \in BOOLEAN /\ Broken' \in BOOLEAN
  BY StaysBroken DEF Inv, TypeOK, ConnTypeOK, Broken
<1>b. ASSUME UNCHANGED <<writer, sendMsg, sendQueue>> \/ UNCHANGED <<writing, offers>>
      PROVE  Pending' = Pending
  BY <1>b DEF Pending, writing, offers
<1>c. ASSUME UNCHANGED <<sent, handled, issued, Pending, written, disconnects, late>>
      PROVE  [Abstract!Next]_(Abstract!vars)
  <2>1. CASE Broken' = Broken
    BY <1>c, <2>1 DEF Broken
  <2>2. CASE Broken' # Broken
    <3>1. Abstract!Break
      BY <1>a, <1>c, <2>2 DEF Abstract!Break, Broken
    <3> QED
      BY <3>1 DEF Abstract!Next
  <2> QED
    BY <2>1, <2>2
<1>1. CASE WsClientSend
  <2>1. Broken' = Broken
    BY <1>1 DEF WsClientSend, ClientSend, Broken, Dying, Panicking, reading, delivering, writing
  <2>2. Abstract!Request
    BY <1>1, <1>b, <2>1 DEF WsClientSend, ClientSend, Abstract!Request, Broken, writing, offers, log
  <2> QED
    BY <2>2 DEF Abstract!Next
<1>2. CASE BeginCallback /\ UNCHANGED ws
  <2>1. msg = Len(handled) + 1 /\ Len(handled) < sent
    BY <1>2, <1>a, NextRequest
  <2>2. late = 0
    BY <1>2, <1>a DEF BeginCallback, Inv, LastRequest
  <2>3. (late' > 0) = (disconnects > 0)
    BY <1>2, <2>2 DEF BeginCallback
  <2>4. Broken' = Broken
    BY <1>2 DEF BeginCallback, Broken, Dying, Panicking, socket, reading, writing, ws
  <2>5. Abstract!Handle
    BY <1>2, <1>b, <2>1, <2>2, <2>3, <2>4
    DEF BeginCallback, Abstract!Handle, Broken, socket, writing, offers
  <2> QED
    BY <2>5 DEF Abstract!Next
<1>3. CASE (CallbackSend \/ CallbackReply \/ \E s \in Senders : SendMsg(s)) /\ UNCHANGED ws
  <2>1. /\ \E m \in Message :
             /\ m.n > issued[m.src] /\ (m.src = "reply" => m.n = Len(handled))
             /\ issued' = [issued EXCEPT ![m.src] = m.n] /\ Pending' = Pending \cup {m}
        /\ \A pc \in {"panic", "closing", "dead"} : deliver' = pc <=> deliver = pc
        /\ UNCHANGED <<socket, reading, writing, log, panicked>>
    BY <1>3, <1>a, HandedOver
  <2>2. PICK m \in Message :
             /\ m.n > issued[m.src] /\ (m.src = "reply" => m.n = Len(handled))
             /\ issued' = [issued EXCEPT ![m.src] = m.n] /\ Pending' = Pending \cup {m}
    BY <2>1
  <2>3. Broken' = Broken
    BY <1>3, <2>1 DEF Broken, Dying, Panicking, socket, reading, writing, ws
  <2>4. Abstract!Push(m)
    BY <2>1, <2>2, <2>3 DEF Abstract!Push, Broken, socket, log
  <2> QED
    BY <2>4 DEF Abstract!Next, Abstract!Message, Message
<1>4. CASE TakeSend /\ UNCHANGED ws
  <2>1. Pending' = Pending
    BY <1>4, <1>a, Taken
  <2> QED
    BY <1>4, <1>c, <2>1 DEF TakeSend, socket, log
<1>5. CASE (ClientRecv \/ LinkDown \/ HandOver \/ CallbackError \/ CallbackNil) /\ UNCHANGED ws
  BY <1>5, <1>b, <1>c
  DEF ClientRecv, LinkDown, HandOver, CallbackError, CallbackNil, socket, writing, offers, log
<1>6. CASE Uncode \/ UncodeFails \/ RejectBegin \/ RejectEnd \/ CloseConn \/ OverlapPanics
           \/ UnwindClose \/ ProcessEnds
  <2>1. Pending' = Pending
    <3>1. CASE Uncode \/ UncodeFails \/ RejectBegin \/ RejectEnd \/ CloseConn
      BY <1>b, <3>1 DEF Uncode, UncodeFails, RejectBegin, RejectEnd, CloseConn, writing, offers
    <3>2. CASE OverlapPanics
      BY <3>2 DEF OverlapPanics, Pending, offers
    <3>3. CASE UnwindClose \/ ProcessEnds
      BY <3>3 DEF UnwindClose, ProcessEnds, Unwinds, Pending, writing, offers
    <3> QED
      BY <1>6, <3>1, <3>2, <3>3
  <2>2. UNCHANGED <<sent, issued, log>>
    BY <1>6
    DEF Uncode, UncodeFails, RejectBegin, RejectEnd, CloseConn, OverlapPanics, UnwindClose,
        ProcessEnds, socket, offers
  <2> QED
    BY <1>c, <2>1, <2>2 DEF log
<1>7. ASSUME Notify \/ UnwindNotify PROVE [Abstract!Next]_(Abstract!vars)
  <2>1. /\ disconnects' = disconnects + 1 /\ Broken' = Broken /\ Broken /\ Pending' = Pending
        /\ UNCHANGED <<sent, handled, issued, written, late>>
    <3>1. CASE Notify
      BY <1>b, <3>1
      DEF Notify, DisConnectCallBack, Inv, Shutdown, Broken, Dying, Panicking, socket, delivering, writing, offers, ws
    <3>2. CASE UnwindNotify
      <4>1. Dying /\ Dying'
        BY <3>2 DEF UnwindNotify, Unwinds, Dying, Panicking
      <4>2. Pending' = Pending
        BY <3>2 DEF UnwindNotify, Unwinds, Pending, writing, offers
      <4> QED
        BY <3>2, <4>1, <4>2 DEF UnwindNotify, DisConnectCallBack, Broken, socket, offers
    <3> QED
      BY <1>7, <3>1, <3>2
  <2>2. CASE disconnects > 0
    BY <1>a, <2>1, <2>2 DEF Broken
  <2>3. CASE disconnects = 0
    <3>1. Abstract!Notify
      BY <2>1, <2>3 DEF Abstract!Notify, Broken
    <3> QED
      BY <3>1 DEF Abstract!Next
  <2> QED
    BY <1>a, <2>2, <2>3
<1>8. ASSUME writer # "recv", writer' = "recv", Broken' = Broken,
             UNCHANGED <<sendQueue, sent, handled, issued, disconnects, late>>,
             \/ written' = Append(written, sendMsg)
             \/ written' = written /\ Broken
      PROVE  Abstract!Next
  <2>1. PICK m \in Pending : m = sendMsg
    BY <1>8, <1>a, Dropped
  <2>2. Pending' = Pending \ {m} /\ \A p \in Pending : p.src = m.src => m.n <= p.n
    BY <1>8, <1>a, <2>1, Dropped
  <2>3. CASE written' = Append(written, sendMsg)
    <3>1. Abstract!Write(m)
      BY <1>8, <2>1, <2>2, <2>3 DEF Abstract!Write, Abstract!Oldest, Broken
    <3> QED
      BY <3>1 DEF Abstract!Next
  <2>4. CASE written' = written /\ Broken
    <3>1. Abstract!Lose(m)
      BY <1>8, <2>2, <2>4 DEF Abstract!Lose, Abstract!Oldest, Broken
    <3> QED
      BY <3>1 DEF Abstract!Next
  <2> QED
    BY <1>8, <2>3, <2>4
<1>9. CASE WriteBegin
  <2>1. CASE writeErr
    <3>1. writer = "write" /\ writer' = "recv" /\ Broken /\ Broken' = Broken
      BY <1>9, <2>1 DEF WriteBegin, Broken
    <3>2. UNCHANGED <<sendQueue, sent, handled, issued, disconnects, late, written>>
      BY <1>9 DEF WriteBegin, socket, offers, log
    <3> QED
      BY <1>8, <3>1, <3>2
  <2>2. CASE ~writeErr
    <3>1. Pending' = Pending
      BY <1>9, <2>2 DEF WriteBegin, Pending, offers
    <3> QED
      BY <1>9, <1>c, <3>1 DEF WriteBegin, socket, offers, log
  <2> QED
    BY <2>1, <2>2
<1>10. CASE WriteEnd
  <2>1. writer = "writing" /\ writer' = "recv"
        /\ UNCHANGED <<sendQueue, sent, handled, issued, disconnects, late>>
    BY <1>10 DEF WriteEnd, offers
  <2>2. Broken' = Broken
    BY <1>10 DEF WriteEnd, Broken, Dying, Panicking, reading, delivering, ws
  <2>3. written' = Append(written, sendMsg) \/ (written' = written /\ Broken)
    BY <1>10 DEF WriteEnd, Broken
  <2> QED
    BY <1>8, <2>1, <2>2, <2>3
<1>11. CASE WriteFails
  <2>1. writer = "writing" /\ writer' = "recv"
        /\ UNCHANGED <<sendQueue, sent, handled, issued, disconnects, late, written>>
    BY <1>11 DEF WriteFails, socket, offers, log
  <2>2. Broken /\ Broken' = Broken
    BY <1>11, <1>a DEF WriteFails, Broken
  <2> QED
    BY <1>8, <2>1, <2>2
<1>12. CASE UNCHANGED vars
  <2>1. Pending' = Pending
    BY <1>12, <1>b DEF vars, connVars, writing, offers
  <2> QED
    BY <1>12, <1>c, <2>1 DEF vars, connVars, socket, offers, log
<1>13. CASE Shared /\ UNCHANGED ws
  <2>1. ClientSend /\ UNCHANGED ws => WsClientSend
    BY DEF WsClientSend, ws
  <2> QED
    BY <1>1, <1>2, <1>3, <1>4, <1>5, <1>13, <2>1 DEF Shared, Application, Callback
<1>14. CASE Reader
  BY <1>6, <1>7, <1>14 DEF Reader
<1> QED
  BY <1>1, <1>6, <1>7, <1>9, <1>10, <1>11, <1>12, <1>13, <1>14, NextCases DEF Unwind

(* A WebSocket connection keeps every promise of Session, too, whatever    *)
(* the client sends and wherever a goroutine panics.                       *)
THEOREM Refinement == Spec => ImplementsSession
<1>1. WsInit => Abstract!Init
  BY DEF WsInit, Init, Pending, Broken, Dying, Panicking, Abstract!Init
<1>2. Inv /\ Inv' /\ [Next]_vars => [Abstract!Next]_(Abstract!vars)
  BY RefinementStep
<1> QED
  BY <1>1, <1>2, Invariance, PTL DEF Spec, ImplementsSession, Abstract!Spec
=============================================================================
