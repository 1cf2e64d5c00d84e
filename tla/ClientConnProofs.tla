-------------------------- MODULE ClientConnProofs --------------------------
(***************************************************************************)
(* Proofs about ClientConn, for every value of its constants.  The steps   *)
(* it shares with ClientConnWs are dealt with in ConnProofs.               *)
(***************************************************************************)
EXTENDS ClientConn, ConnProofs

(* Every type is kept by every step of the goroutines and of the client    *)
(* (client_conn.go).                                                       *)
LEMMA TypeStep == Inv /\ [Next]_vars => TypeOK'
<1> SUFFICES ASSUME Inv, [Next]_vars PROVE TypeOK'
  OBVIOUS
<1> USE ConnAssumption DEF Inv, TypeOK
<1>1. CASE Shared
  <2>1. ConnTypeOK'
    BY <1>1, SharedType
  <2>2. /\ (reader' = reader \/ reader' = "uncode") /\ (writer' = writer \/ writer' = "write")
        /\ deliver' = deliver \/ deliver' \in {"recv", "call", "calling", "sending", "offer", "panic"}
    BY <1>1
    DEF Shared, ClientSend, ClientRecv, LinkDown, HandOver, Application, Callback, BeginCallback,
        CallbackSend, CallbackReply, CallbackError, CallbackNil, SendMsg, TakeSend, reading,
        delivering, writing
  <2> QED
    BY <2>1, <2>2
<1> USE DEF ConnTypeOK
<1>2. CASE Uncode
  BY <1>2 DEF Uncode, delivering, writing, offers, log
<1>3. CASE UncodeFails
  BY <1>3 DEF UncodeFails, socket, delivering, writing, offers, log
<1>4. CASE CloseConn
  BY <1>4 DEF CloseConn, delivering, writing, offers, log
<1>5. CASE Notify
  BY <1>5 DEF Notify, DisConnectCallBack, socket, delivering, writing, offers
<1>6. CASE WriteOk
  BY <1>6 DEF WriteOk, reading, delivering, offers
<1>7. CASE WriteFails
  BY <1>7 DEF WriteFails, socket, reading, delivering, offers, log
<1>8. CASE Panic
  BY <1>8 DEF Panic, socket, reading, delivering, writing, offers, log
<1>9. CASE UNCHANGED vars
  BY <1>9 DEF vars, connVars, socket, reading, delivering, writing, offers, log
<1> QED
  BY <1>1, <1>2, <1>3, <1>4, <1>5, <1>6, <1>7, <1>8, <1>9
  DEF Next, Reader, Application, Writer, Shared

-----------------------------------------------------------------------------
(* The inductive invariant.                                                *)

(* A new connection.                                                       *)
LEMMA InvInit == Init => Inv
<1> SUFFICES ASSUME Init PROVE Inv
  OBVIOUS
<1>1. ConnTypeOK /\ Chain /\ LastRequest /\ OneOffer /\ Numbered /\ FifoPerSource
  BY SharedInit
<1>2. Shutdown /\ TypeOK
  BY <1>1 DEF Init, Shutdown, TypeOK
<1> QED
  BY <1>1, <1>2 DEF Inv

(* The requests from the socket to the callback (uncode, ReadRecvMsg).     *)
LEMMA ChainStep == Inv /\ [Next]_vars => Chain'
<1> SUFFICES ASSUME Inv, [Next]_vars PROVE Chain'
  OBVIOUS
<1> USE DEF Inv, TypeOK
<1>1. CASE Shared
  BY <1>1, SharedChain
<1>2. CASE Uncode
  BY <1>2, ChainFetch DEF Uncode, delivering, log
<1>3. CASE UncodeFails \/ CloseConn \/ Notify
  BY <1>3, ChainKept DEF UncodeFails, CloseConn, Notify, socket, delivering, log
<1>4. CASE WriteOk \/ WriteFails
  BY <1>4, ChainKept DEF WriteOk, WriteFails, socket, reading, delivering, log
<1>5. CASE Panic \/ UNCHANGED vars
  BY <1>5, ChainKept DEF Panic, vars, connVars, socket, reading, delivering, log
<1> QED
  BY <1>1, <1>2, <1>3, <1>4, <1>5 DEF Next, Reader, Writer, Shared

(* The reader's way out, and the last request the deliverer can hold then. *)
LEMMA ShutdownStep == Inv /\ [Next]_vars => (Shutdown /\ LastRequest)'
<1> SUFFICES ASSUME Inv, [Next]_vars PROVE (Shutdown /\ LastRequest)'
  OBVIOUS
<1> USE DEF Inv, TypeOK, ConnTypeOK, Shutdown, LastRequest
<1>1. CASE ClientSend \/ ClientRecv \/ LinkDown
  BY <1>1 DEF ClientSend, ClientRecv, LinkDown, reading, delivering, writing, offers, log
<1>2. CASE Uncode
  BY <1>2 DEF Uncode, delivering, writing, offers, log
<1>3. CASE UncodeFails
  BY <1>3 DEF UncodeFails, socket, delivering, writing, offers, log
<1>4. CASE CloseConn
  BY <1>4 DEF CloseConn, delivering, writing, offers, log
<1>5. CASE Notify
  BY <1>5 DEF Notify, DisConnectCallBack, socket, delivering, writing, offers
<1>6. CASE HandOver
  BY <1>6 DEF HandOver, socket, writing, offers, log
<1>7. CASE BeginCallback
  BY <1>7 DEF BeginCallback, socket, reading, writing, offers
<1>8. CASE CallbackSend \/ CallbackReply
  BY <1>8 DEF CallbackSend, CallbackReply, socket, reading, writing, log
<1>9. CASE CallbackError \/ CallbackNil
  BY <1>9 DEF CallbackError, CallbackNil, socket, reading, writing, offers, log
<1>10. ASSUME NEW s \in Senders, SendMsg(s) PROVE (Shutdown /\ LastRequest)'
  BY <1>10 DEF SendMsg, socket, reading, delivering, writing, log
<1>11. CASE TakeSend
  BY <1>11 DEF TakeSend, socket, reading, log
<1>12. CASE WriteOk \/ WriteFails
  BY <1>12 DEF WriteOk, WriteFails, socket, reading, delivering, offers, log
<1>13. CASE Panic \/ UNCHANGED vars
  BY <1>13 DEF Panic, vars, connVars, socket, reading, delivering, writing, offers, log
<1> QED
  BY <1>1, <1>2, <1>3, <1>4, <1>5, <1>6, <1>7, <1>8, <1>9, <1>10, <1>11, <1>12, <1>13
  DEF Next, Reader, Application, Callback, Writer

(* What the goroutines offer, and the numbers of their messages (SendMsg,  *)
(* DeliverRecvMsg, WriteMsg).                                              *)
LEMMA NumberStep == Inv /\ [Next]_vars => (OneOffer /\ Numbered /\ FifoPerSource)'
<1> SUFFICES ASSUME Inv, [Next]_vars PROVE (OneOffer /\ Numbered /\ FifoPerSource)'
  OBVIOUS
<1> USE DEF Inv, TypeOK
<1>1. CASE Shared
  BY <1>1, SharedOffers, SharedNumbers
<1>2. ASSUME UNCHANGED <<sendQueue, deliver>> PROVE OneOffer'
  BY <1>2 DEF OneOffer
<1>3. CASE Reader
  BY <1>2, <1>3, NumbersKept
  DEF Reader, Uncode, UncodeFails, CloseConn, Notify, delivering, offers, writing, log
<1>4. CASE WriteOk
  BY <1>2, <1>4, NumbersWritten DEF WriteOk, delivering, offers
<1>5. CASE WriteFails
  BY <1>2, <1>5, NumbersKept DEF WriteFails, delivering, offers, log
<1>6. CASE Panic \/ UNCHANGED vars
  BY <1>2, <1>6, NumbersKept DEF Panic, vars, connVars, delivering, offers, writing, log
<1> QED
  BY <1>1, <1>3, <1>4, <1>5, <1>6 DEF Next, Writer, Shared

(* Spec keeps the inductive invariant. *)
THEOREM Invariance == Spec => []Inv
<1>1. Inv /\ [Next]_vars => Inv'
  BY TypeStep, ChainStep, ShutdownStep, NumberStep DEF Inv
<1> QED
  BY InvInit, <1>1, PTL DEF Spec

(* Every variable keeps its type, whatever the number of goroutines,       *)
(* requests and messages (client_conn.go).                                 *)
THEOREM TypeCorrect == Spec => []TypeOK
BY Invariance, PTL DEF Inv

(* No request is lost, repeated or handled out of order between the client *)
(* and RequestCallBack (ReadRecvMsg, DeliverRecvMsg).                      *)
THEOREM Order == Spec => []RequestsInOrder
<1>1. Inv => RequestsInOrder
  BY ChainInOrder DEF Inv, TypeOK
<1> QED
  BY <1>1, Invariance, PTL

(* DisConnectCallBack is called once at most, on a closed connection from  *)
(* which everything was read (ReadRecvMsg).                                *)
THEOREM Disconnection == Spec => []DisconnectOnce
<1>1. Inv => DisconnectOnce
  BY DEF Inv, Shutdown, DisconnectOnce
<1> QED
  BY <1>1, Invariance, PTL

(* One request at most is handled after DisConnectCallBack, as recvQueue   *)
(* has no buffer (ReadRecvMsg, DeliverRecvMsg).                            *)
THEOREM LateRequests == Spec => []OneLateRequest
<1>1. Inv => OneLateRequest
  BY DEF Inv, TypeOK, ConnTypeOK, LastRequest, OneLateRequest
<1> QED
  BY <1>1, Invariance, PTL

(* The client reads the messages of one goroutine in the order they were   *)
(* handed over, none twice, and replies only to requests that were handled *)
(* (SendMsg, DeliverRecvMsg, WriteMsg).                                    *)
THEOREM Fifo == Spec => []FifoPerSource
BY Invariance, PTL DEF Inv

-----------------------------------------------------------------------------
(* The refinement: every step of the goroutines and of the client is a     *)
(* step of Session or none: what a goroutine offers is handed over, what   *)
(* the writer takes leaves, in order, and is lost only on a link that is   *)
(* down (SendMsg, WriteMsg).                                               *)
LEMMA RefinementStep ==
  ASSUME Inv, Inv', [Next]_vars
  PROVE  [Abstract!Next]_(Abstract!vars)
<1> USE DEF Abstract!vars
<1>a. ConnTypeOK /\ Chain /\ OneOffer /\ Numbered /\ disconnects \in Nat /\ late \in Nat
  BY DEF Inv, TypeOK, ConnTypeOK
<1>b. ASSUME UNCHANGED <<writer, sendMsg, sendQueue>> PROVE Pending' = Pending
  BY <1>b DEF Pending
<1>1. CASE ClientSend
  <2>1. Abstract!Request
    BY <1>1, <1>b DEF ClientSend, Abstract!Request, writing, offers, log
  <2> QED
    BY <2>1 DEF Abstract!Next
<1>2. CASE LinkDown
  <2>1. Abstract!Break
    BY <1>2, <1>b DEF LinkDown, Abstract!Break, writing, offers, log
  <2> QED
    BY <2>1 DEF Abstract!Next
<1>3. CASE Notify
  <2>1. Abstract!Notify
    BY <1>3, <1>a, <1>b
    DEF Notify, DisConnectCallBack, Inv, Shutdown, Abstract!Notify, socket, writing, offers
  <2> QED
    BY <2>1 DEF Abstract!Next
<1>4. CASE BeginCallback
  <2>1. msg = Len(handled) + 1 /\ Len(handled) < sent
    BY <1>4, <1>a, NextRequest
  <2>2. late = 0
    BY <1>4, <1>a DEF BeginCallback, Inv, LastRequest
  <2>3. (late' > 0) = (disconnects > 0)
    BY <1>4, <2>2 DEF BeginCallback
  <2>4. Abstract!Handle
    BY <1>4, <1>b, <2>1, <2>2, <2>3 DEF BeginCallback, Abstract!Handle, socket, writing, offers
  <2> QED
    BY <2>4 DEF Abstract!Next
<1>5. CASE CallbackSend \/ CallbackReply \/ \E s \in Senders : SendMsg(s)
  <2>1. /\ \E m \in Message :
             /\ m.n > issued[m.src] /\ (m.src = "reply" => m.n = Len(handled))
             /\ issued' = [issued EXCEPT ![m.src] = m.n] /\ Pending' = Pending \cup {m}
        /\ UNCHANGED <<socket, log>>
    BY <1>5, <1>a, HandedOver
  <2>2. PICK m \in Message :
             /\ m.n > issued[m.src] /\ (m.src = "reply" => m.n = Len(handled))
             /\ issued' = [issued EXCEPT ![m.src] = m.n] /\ Pending' = Pending \cup {m}
    BY <2>1
  <2>3. Abstract!Push(m)
    BY <2>1, <2>2 DEF Abstract!Push, socket, log
  <2> QED
    BY <2>3 DEF Abstract!Next, Abstract!Message, Message
<1>6. CASE TakeSend
  <2>1. Pending' = Pending
    BY <1>6, <1>a, Taken
  <2> QED
    BY <1>6, <2>1 DEF TakeSend, socket, log
<1>7. CASE WriteOk
  <2>1. PICK m \in Pending : m = sendMsg
    BY <1>7, <1>a, Dropped DEF WriteOk, offers
  <2>2. Pending' = Pending \ {m} /\ \A p \in Pending : p.src = m.src => m.n <= p.n
    BY <1>7, <1>a, <2>1, Dropped DEF WriteOk, offers
  <2>3. Abstract!Write(m)
    BY <1>7, <2>1, <2>2 DEF WriteOk, Abstract!Write, Abstract!Oldest, offers
  <2> QED
    BY <2>3 DEF Abstract!Next
<1>8. CASE WriteFails
  <2>1. link = "down"
    BY <1>8 DEF WriteFails, Inv, Shutdown
  <2>2. PICK m \in Pending : m = sendMsg
    BY <1>8, <1>a, Dropped DEF WriteFails, offers
  <2>3. Pending' = Pending \ {m} /\ \A p \in Pending : p.src = m.src => m.n <= p.n
    BY <1>8, <1>a, <2>2, Dropped DEF WriteFails, offers
  <2>4. Abstract!Lose(m)
    BY <1>8, <2>1, <2>2, <2>3 DEF WriteFails, Abstract!Lose, Abstract!Oldest, socket, offers, log
  <2> QED
    BY <2>4 DEF Abstract!Next
<1>9. CASE ClientRecv \/ Uncode \/ UncodeFails \/ CloseConn
  BY <1>9, <1>b DEF ClientRecv, Uncode, UncodeFails, CloseConn, socket, writing, offers, log
<1>10. CASE HandOver \/ CallbackError \/ CallbackNil \/ Panic \/ UNCHANGED vars
  BY <1>10, <1>b
  DEF HandOver, CallbackError, CallbackNil, Panic, vars, connVars, socket, writing, offers, log
<1> QED
  BY <1>1, <1>2, <1>3, <1>4, <1>5, <1>6, <1>7, <1>8, <1>9, <1>10
  DEF Next, Reader, Application, Callback, Writer

(* The connection keeps every promise of Session: it is an implementation  *)
(* of that module, whatever the number of goroutines and of messages.      *)
THEOREM Refinement == Spec => ImplementsSession
<1>1. Init => Abstract!Init
  BY DEF Init, Pending, Abstract!Init
<1>2. Inv /\ Inv' /\ [Next]_vars => [Abstract!Next]_(Abstract!vars)
  BY RefinementStep
<1> QED
  BY <1>1, <1>2, Invariance, PTL DEF Spec, ImplementsSession, Abstract!Spec
=============================================================================
