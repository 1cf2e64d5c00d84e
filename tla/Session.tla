------------------------------- MODULE Session -------------------------------
(***************************************************************************)
(* What one client connection promises to the code that uses it, whatever  *)
(* transport carries it.  The user supplies a ClientSession                *)
(* (net/clientConn/conn.go) whose callbacks the library calls, and hands   *)
(* the library messages through SendMsg and through the results of         *)
(* RequestCallBack.  ClientConn (TCP) and ClientConnWs (WebSocket) are     *)
(* shown to implement this module.                                         *)
(***************************************************************************)
EXTENDS Naturals, Sequences

CONSTANTS
  Sources,      \* who may hand over messages: "reply", "callback", other goroutines
  Numbers       \* what numbers the messages of one source

VARIABLES
  requests,     \* number of requests the client has sent
  handled,      \* requests given to RequestCallBack, in order
  issued,       \* the number of the last message each source handed over
  pending,      \* messages handed over and not yet on the wire
  written,      \* messages put on the wire, in order
  broken,       \* the connection can no longer carry messages
  notified,     \* DisConnectCallBack has been called
  late          \* a request was begun after that

vars == <<requests, handled, issued, pending, written, broken, notified, late>>

Message == [src : Sources, n : Numbers]

Init ==
  /\ requests = 0
  /\ handled = <<>>
  /\ issued = [s \in Sources |-> 0]
  /\ pending = {}
  /\ written = <<>>
  /\ broken = FALSE
  /\ notified = FALSE
  /\ late = FALSE

(* The client sends its next request. *)
Request ==
  /\ requests' = requests + 1
  /\ UNCHANGED <<handled, issued, pending, written, broken, notified, late>>

(* Requests are handled one at a time, in the order they were sent, none   *)
(* skipped and none twice; after DisConnectCallBack at most one more.      *)
Handle ==
  /\ Len(handled) < requests
  /\ ~late
  /\ handled' = Append(handled, Len(handled) + 1)
  /\ late' = notified
  /\ UNCHANGED <<requests, issued, pending, written, broken, notified>>

(* A source hands over its next message.  A reply answers the request      *)
(* being handled, so no request is answered twice.                       *)
Push(m) ==
  /\ m.n > issued[m.src]
  /\ m.src = "reply" => m.n = Len(handled)
  /\ issued' = [issued EXCEPT ![m.src] = m.n]
  /\ pending' = pending \cup {m}
  /\ UNCHANGED <<requests, handled, written, broken, notified, late>>

(* A message leaves in the order its source handed it over. *)
Oldest(m) == \A p \in pending : p.src = m.src => m.n <= p.n

Write(m) ==
  /\ m \in pending
  /\ Oldest(m)
  /\ pending' = pending \ {m}
  /\ written' = Append(written, m)
  /\ UNCHANGED <<requests, handled, issued, broken, notified, late>>

(* Only a broken connection loses a message that was handed over. *)
Lose(m) ==
  /\ broken
  /\ m \in pending
  /\ Oldest(m)
  /\ pending' = pending \ {m}
  /\ UNCHANGED <<requests, handled, issued, written, broken, notified, late>>

Break ==
  /\ ~broken
  /\ broken' = TRUE
  /\ UNCHANGED <<requests, handled, issued, pending, written, notified, late>>

(* The user hears of the disconnection, and never without one. *)
Notify ==
  /\ broken
  /\ ~notified
  /\ notified' = TRUE
  /\ UNCHANGED <<requests, handled, issued, pending, written, broken, late>>

Next ==
  \/ Request \/ Handle \/ Break \/ Notify
  \/ \E m \in Message : Push(m)
  \/ \E m \in pending : Write(m) \/ Lose(m)

Spec == Init /\ [][Next]_vars
=============================================================================
