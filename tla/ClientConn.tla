----------------------------- MODULE ClientConn -----------------------------
(***************************************************************************)
(* One TCP connection, net/clientConn/client_conn.go, from the three go    *)
(* statements of Tcp.Run on: Conn with the reader ReadRecvMsg and the      *)
(* writer WriteMsg.  A panic ends the process at once.                     *)
(***************************************************************************)
EXTENDS Conn

vars == connVars

-----------------------------------------------------------------------------
(* ReadRecvMsg.                                                            *)

(* uncode returns the next frame. *)
Uncode ==
  /\ ~panicked /\ reader = "uncode" /\ toServer # <<>>
  /\ packet' = Head(toServer)
  /\ toServer' = Tail(toServer)
  /\ reader' = "offer"
  /\ UNCHANGED <<sent, toClient, link, closed, delivering, writing, offers, log, panicked>>

(* uncode fails: end of stream, in a head, in a body or between frames. *)
UncodeFails ==
  /\ ~panicked /\ reader = "uncode" /\ toServer = <<>> /\ link = "down"
  /\ reader' = "close"
  /\ UNCHANGED <<socket, packet, delivering, writing, offers, log, panicked>>

CloseConn ==
  /\ ~panicked /\ reader = "close"
  /\ closed' = TRUE
  /\ reader' = "notify"
  /\ UNCHANGED <<sent, toServer, toClient, link, packet, delivering, writing, offers, log, panicked>>

(* Slip: the loop goes on after the error. *)
NotifyAgain ==
  /\ ~panicked /\ reader = "notify"
  /\ DisConnectCallBack
  /\ reader' = "uncode"
  /\ UNCHANGED <<socket, packet, delivering, writing, offers, handled, late, written, panicked>>

Notify ==
  /\ ~panicked /\ reader = "notify"
  /\ DisConnectCallBack
  /\ reader' = "exited"
  /\ UNCHANGED <<socket, packet, delivering, writing, offers, handled, late, written, panicked>>

-----------------------------------------------------------------------------
(* WriteMsg.                                                               *)

(* conn.Write returns without an error.  On a path that is down the bytes  *)
(* may still fit the socket's buffer; nobody will read them.               *)
WriteOk ==
  /\ ~panicked /\ writer = "write" /\ ~closed /\ toClient < OutCap
  /\ toClient' = toClient + 1
  /\ written' = Append(written, sendMsg)
  /\ writer' = "recv"
  /\ UNCHANGED <<sent, toServer, link, closed, reading, delivering, sendMsg, offers,
                 disconnects, handled, late, panicked>>

(* Slips: a client that does not read is given up on, the message is       *)
(* offered again, the writer ends the session, the writer returns.         *)
WriteTimesOut ==
  /\ ~panicked /\ writer = "write" /\ (closed \/ link = "down" \/ toClient = OutCap)
  /\ writer' = "recv"
  /\ UNCHANGED <<socket, reading, delivering, sendMsg, offers, log, panicked>>

WriteRetries ==
  /\ ~panicked /\ writer = "write" /\ (closed \/ link = "down")
  /\ sendQueue' = Append(sendQueue, sendMsg)
  /\ writer' = "recv"
  /\ UNCHANGED <<socket, reading, delivering, sendMsg, issued, log, panicked>>

WriteNotifies ==
  /\ ~panicked /\ writer = "write" /\ (closed \/ link = "down")
  /\ DisConnectCallBack
  /\ writer' = "recv"
  /\ UNCHANGED <<socket, reading, delivering, sendMsg, offers, handled, late, written, panicked>>

WriteReturns ==
  /\ ~panicked /\ writer = "write" /\ (closed \/ link = "down")
  /\ writer' = "exited"
  /\ UNCHANGED <<socket, reading, delivering, sendMsg, offers, log, panicked>>

(* It fails, which is printed; the writer goes on with the next message. *)
WriteFails ==
  /\ ~panicked /\ writer = "write" /\ (closed \/ link = "down")
  /\ writer' = "recv"
  /\ UNCHANGED <<socket, reading, delivering, sendMsg, offers, log, panicked>>

Panic ==
  /\ ~panicked /\ deliver = "panic"
  /\ panicked' = TRUE
  /\ UNCHANGED <<socket, reading, delivering, writing, offers, log>>

-----------------------------------------------------------------------------
Reader == Uncode \/ UncodeFails \/ CloseConn \/ Notify
Writer == TakeSend \/ WriteOk \/ WriteFails

Next ==
  \/ ClientSend \/ ClientRecv \/ LinkDown
  \/ Reader \/ HandOver \/ Application \/ Writer \/ Panic

Spec == Init /\ [][Next]_vars

(* Go runs every goroutine that can run, and callbacks return.  Nothing    *)
(* is assumed of the client.                                               *)
Fairness ==
  /\ WF_vars(Reader) /\ WF_vars(HandOver) /\ WF_vars(Callback) /\ WF_vars(Writer)
  /\ WF_vars(Panic)

FairSpec == Spec /\ Fairness

(* A client that keeps reading what it is sent, as long as it is there:    *)
(* a premise of the properties below that depend on it.                    *)
ClientReads == WF_vars(ClientRecv)

-----------------------------------------------------------------------------
(* Properties.                                                             *)

(* Every variable keeps its type; the goroutines are only ever at the      *)
(* steps of client_conn.go named above.                                    *)
TypeOK ==
  /\ ConnTypeOK /\ deliver \notin {"closing", "dead"}
  /\ reader \in {"uncode", "offer", "close", "notify", "exited"}
  /\ writer \in {"recv", "write"}

(* DisConnectCallBack is called once at most, and when it is called the    *)
(* socket is closed and everything readable was read (ReadRecvMsg).        *)
DisconnectOnce ==
  /\ disconnects <= 1
  /\ disconnects = 1 => closed /\ link = "down" /\ toServer = <<>>

(* The inductive invariant behind DisconnectOnce and the properties of     *)
(* Conn: besides what Conn says of any connection, the reader leaves its   *)
(* loop only when nothing is left to read, and closes before it notifies.  *)
Shutdown ==
  /\ reader \in {"close", "notify", "exited"} => link = "down" /\ toServer = <<>>
  /\ closed <=> reader \in {"notify", "exited"}
  /\ disconnects = IF reader = "exited" THEN 1 ELSE 0

Inv == TypeOK /\ Chain /\ Shutdown /\ LastRequest /\ OneOffer /\ Numbered /\ FifoPerSource

(* The connection keeps the promises of Session. *)
Abstract == INSTANCE Session WITH
  Numbers  <- 0..(MaxRequests + MaxSends),
  requests <- sent,
  pending  <- Pending,
  broken   <- link = "down",
  notified <- disconnects > 0,
  late     <- late > 0

ImplementsSession == Abstract!Spec

(* The user hears of every disconnection, whatever the reader, the         *)
(* deliverer and the writer were blocked on when the link went down.       *)
DisconnectNoticed == link = "down" ~> disconnects = 1 \/ panicked

(* If the client reads, SendMsg returns to every caller, the callback      *)
(* itself included, also once the connection is gone and nobody told the   *)
(* caller.                                                                 *)
SendMsgReturns ==
  ClientReads => \A s \in Senders \cup {"callback"} : Waiting(s) ~> ~Waiting(s) \/ panicked

(* If the client reads, every request is handled, never held up for good   *)
(* by the channels or the callback's own sends (uncode, DeliverRecvMsg),   *)
(* and its reply is on the wire in the end (WriteMsg), unless the link     *)
(* goes down first.                                                        *)
RequestsAnswered ==
  ClientReads => \A n \in 1..MaxRequests :
    /\ sent >= n ~> Len(handled) >= n \/ link = "down" \/ panicked
    /\ issued["reply"] = n ~>
         \/ \E i \in 1..Len(written) : written[i] = [src |-> "reply", n |-> n]
         \/ link = "down" \/ panicked
=============================================================================
