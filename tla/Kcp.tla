-------------------------------- MODULE Kcp ---------------------------------
(***************************************************************************)
(* kcp: the control block of one end, as far as it is written (Recv,       *)
(* Update, Check and most setters are empty).  Its caller calls Send, Flush *)
(* and Input, one at a time, and recovers from their panics.  The other    *)
(* end is any implementation of KCP.                                       *)
(*                                                                         *)
(* A slice is the pair of its array and its length: deleting shifts the    *)
(* array in place, and a range loop goes on over the length it began with. *)
(***************************************************************************)
EXTENDS Integers, Sequences, FiniteSets, SequencesExt

CONSTANTS
  Mss,              \* Mss, in units of data
  Snd_wnd, Rcv_wnd, \* windows, in segments
  AckRoom,          \* acks that fit the AckList the caller allocated; 0 if it did not
  Sizes,            \* sizes of the buffers given to Send
  MaxData,          \* bound: data given to Send
  MaxSn,            \* bound: numbers of the segments of the other end
  MaxSegments       \* bound: segments in one datagram

ASSUME KcpAssumption ==
  /\ {Mss, Snd_wnd, Rcv_wnd} \subseteq Nat \ {0}
  /\ {AckRoom, MaxData, MaxSn, MaxSegments} \subseteq Nat
  /\ Sizes \subseteq 1..(256 * Mss - 1)      \* what Send does not refuse

VARIABLES
  kcp,              \* the fields of IKCPCB that control it; panic: the last call panicked
  given,            \* bound: data Send took
  acked             \* history: the numbers the other end acknowledged

vars == <<kcp, given, acked>>

Init ==
  /\ kcp = [snd_queue |-> 0, snd_buf |-> <<>>, snd_nxt |-> 0, snd_una |-> 0,
            rcv_buf |-> <<>>, rcv_queue |-> <<>>, rcv_nxt |-> 0,
            ackcount |-> 0, probe |-> FALSE, nocwnd |-> FALSE, cwnd |-> 0, rmt_wnd |-> Rcv_wnd, panic |-> FALSE]
  /\ given = 0 /\ acked = {}

-----------------------------------------------------------------------------
(* Send: the number of segments is rounded down. *)
SplitNum(size) == IF size > Mss THEN size \div Mss ELSE 1

Send(size) ==
  /\ given + size <= MaxData
  /\ kcp' = [kcp EXCEPT !.snd_queue = @ + SplitNum(size), !.panic = FALSE]
  /\ given' = given + size
  /\ UNCHANGED acked

(* SetNodelay, which refuses negative numbers; of what it sets only the    *)
(* congestion window matters to a code that makes no timed retransmission. *)
SetNodelay(nc) ==
  /\ kcp' = [kcp EXCEPT !.nocwnd = nc, !.panic = FALSE]
  /\ UNCHANGED <<given, acked>>

(* Flush, whose caller has set Updated itself: it moves what the window     *)
(* allows to snd_buf, and panics in Encode at the first segment it makes;  *)
(* an ack or a probe comes before the move.  Every segment in snd_buf is   *)
(* to be sent, as the loop counts transmissions on copies.  Current stays  *)
(* 0, as Update is empty, so that a closed window is not probed.           *)
SmallerOf(a, b) == IF a <= b THEN a ELSE b

Window ==
  LET wnd == SmallerOf(kcp.rmt_wnd, Snd_wnd)
  IN IF kcp.nocwnd THEN wnd ELSE SmallerOf(kcp.cwnd, wnd)

Room == IF kcp.snd_nxt < kcp.snd_una + Window THEN kcp.snd_una + Window - kcp.snd_nxt ELSE 0

Segment(sn) == [sn |-> sn, una |-> kcp.rcv_nxt]

Flush ==
  LET moved   == SmallerOf(Room, kcp.snd_queue)
      snd_buf == kcp.snd_buf \o [i \in 1..moved |-> Segment(kcp.snd_nxt + i - 1)]
  IN /\ \/ /\ kcp.ackcount > 0 \/ kcp.probe
           /\ kcp' = [kcp EXCEPT !.panic = TRUE]
        \/ /\ kcp.ackcount = 0 /\ ~kcp.probe /\ snd_buf # <<>>
           /\ kcp' = [kcp EXCEPT !.snd_buf = snd_buf, !.snd_queue = @ - moved,
                                 !.snd_nxt = @ + moved, !.panic = TRUE]
        \/ /\ kcp.ackcount = 0 /\ ~kcp.probe /\ snd_buf = <<>>
           /\ kcp' = [kcp EXCEPT !.cwnd = IF @ < 1 THEN 1 ELSE @, !.panic = FALSE]
     /\ UNCHANGED <<given, acked>>

-----------------------------------------------------------------------------
(* What Input does with one segment: operators on the control block k.     *)

(* append(s[:i-1], s[i:]...), which panics if the slice has become shorter *)
(* than i; array positions past its end keep what they held.               *)
Delete(slice, i) ==
  IF i > slice.len THEN [slice EXCEPT !.panic = TRUE]
  ELSE [slice EXCEPT !.len = @ - 1,
          !.array = [j \in DOMAIN @ |-> IF i <= j /\ j < slice.len THEN @[j + 1] ELSE @[j]]]

Slice(s) == [array |-> s, len |-> Len(s), panic |-> FALSE]
Items(slice) == SubSeq(slice.array, 1, slice.len)
Panics(k, slice) == [k EXCEPT !.panic = @ \/ slice.panic]

(* Turn i of the loop over snd_buf, and the slice after each turn. *)
UnaTurn(slice, u, i) ==
  IF slice.panic \/ u <= slice.array[i].sn THEN slice ELSE Delete(slice, i)

UnaLoop(buf, u) ==
  LET after[i \in 0..Len(buf)] == IF i = 0 THEN Slice(buf) ELSE UnaTurn(after[i - 1], u, i)
  IN after

Parse_Una(k, u) ==
  LET after == UnaLoop(k.snd_buf, u)[Len(k.snd_buf)]
  IN Panics([k EXCEPT !.snd_buf = Items(after)], after)

Shrink_Buf(k) ==
  [k EXCEPT !.snd_una = IF k.snd_buf # <<>> THEN k.snd_buf[1].una ELSE k.snd_nxt]

(* Slip: the segment after the acknowledged one is deleted as well. *)
Parse_AckTwo(k, sn) ==
  LET acks == {i \in DOMAIN k.snd_buf : k.snd_buf[i].sn = sn}
  IN IF sn < k.snd_una \/ sn >= k.snd_nxt \/ acks = {} THEN k
     ELSE LET i == CHOOSE i \in acks : TRUE
          IN [k EXCEPT !.snd_buf = SubSeq(@, 1, i - 1) \o SubSeq(@, i + 2, Len(@))]

(* The segments are in order, so leaving the loop early misses nothing. *)
Parse_Ack(k, sn) ==
  LET acks == {i \in DOMAIN k.snd_buf : k.snd_buf[i].sn = sn}
  IN IF sn < k.snd_una \/ sn >= k.snd_nxt \/ acks = {} THEN k
     ELSE [k EXCEPT !.snd_buf = RemoveAt(@, CHOOSE i \in acks : TRUE)]

(* Slip: the count grows past the list. *)
Ack_PushPast(k) ==
  [k EXCEPT !.ackcount = @ + 1, !.panic = k.ackcount >= AckRoom]

Ack_Push(k) ==
  IF k.ackcount >= AckRoom THEN [k EXCEPT !.panic = TRUE] ELSE [k EXCEPT !.ackcount = @ + 1]

(* The search for a repeated segment stops at a smaller number. *)
Repeated(buf, sn) ==
  \E i \in DOMAIN buf : buf[i] = sn /\ \A j \in 1..(i - 1) : sn <= buf[j]

(* Slip: a segment past a gap is moved to rcv_queue. *)
MoveAnyNext(k) ==
  IF Len(k.rcv_queue) < Rcv_wnd /\ k.rcv_buf # <<>>
  THEN [k EXCEPT !.rcv_queue = Append(@, Head(k.rcv_buf)), !.rcv_buf = Tail(@), !.rcv_nxt = Head(k.rcv_buf) + 1]
  ELSE k

(* The loop that moves rcv_buf to rcv_queue stops at its first segment, if  *)
(* that is not the next one; after a deletion it skips one, and a deletion *)
(* that panics comes before rcv_nxt is counted.                            *)
MoveTurn(k, moving, i) ==
  IF moving.stop \/ moving.slice.panic THEN moving
  ELSE IF moving.slice.array[i] = k.rcv_nxt + moving.n /\ Len(k.rcv_queue) + moving.n < Rcv_wnd
       THEN [slice |-> Delete(moving.slice, i), n |-> moving.n + 1, stop |-> FALSE]
       ELSE [moving EXCEPT !.stop = TRUE]

MoveLoop(k) ==
  LET after[i \in 0..Len(k.rcv_buf)] ==
        IF i = 0 THEN [slice |-> Slice(k.rcv_buf), n |-> 0, stop |-> FALSE]
                 ELSE MoveTurn(k, after[i - 1], i)
  IN after

Moved(k, after) ==
  LET uncounted == IF after.slice.panic THEN 1 ELSE 0
  IN Panics([k EXCEPT !.rcv_buf = Items(after.slice), !.rcv_nxt = @ + after.n - uncounted,
                      !.rcv_queue = @ \o [i \in 1..after.n |-> k.rcv_nxt + i - 1]], after.slice)

MoveNext(k) == Moved(k, MoveLoop(k)[Len(k.rcv_buf)])

Parse_Data(k, sn) ==
  IF sn >= k.rcv_nxt + Rcv_wnd \/ sn < k.rcv_nxt \/ Repeated(k.rcv_buf, sn) THEN k
  ELSE MoveNext([k EXCEPT !.rcv_buf = Append(@, sn)])

Push(k, sn) ==
  IF sn >= k.rcv_nxt + Rcv_wnd THEN k
  ELSE LET pushed == Ack_Push(k) IN IF pushed.panic THEN pushed ELSE Parse_Data(pushed, sn)

InputSegment(k, seg) ==
  LET parsed == Parse_Una([k EXCEPT !.rmt_wnd = seg.wnd], seg.una)
  IN IF k.panic THEN k
     ELSE IF parsed.panic THEN parsed
     ELSE IF seg.cmd = "ack" THEN Shrink_Buf(Parse_Ack(Shrink_Buf(parsed), seg.sn))
     ELSE IF seg.cmd = "push" THEN Push(Shrink_Buf(parsed), seg.sn)
     ELSE IF seg.cmd = "wask" THEN [Shrink_Buf(parsed) EXCEPT !.probe = TRUE]
     ELSE Shrink_Buf(parsed)

(* Segments the other end may send: acknowledgements of what is sent, its  *)
(* own data, its window, and the question for ours.                        *)
Segments ==
  [cmd : {"ack"}, sn : 0..(kcp.snd_nxt - 1), una : 0..kcp.snd_nxt, wnd : {Rcv_wnd}]
    \cup [cmd : {"push"}, sn : 0..MaxSn, una : 0..kcp.snd_nxt, wnd : {Rcv_wnd}]
    \cup [cmd : {"wask", "wins"}, sn : {0}, una : {0}, wnd : {0, Rcv_wnd}]

(* The numbers a segment acknowledges: all below its una, and an ack's own. *)
Acknowledges(seg) ==
  {n \in 0..(kcp.snd_nxt - 1) : n < seg.una \/ (seg.cmd = "ack" /\ n = seg.sn)}

InputLoop(segs) ==
  LET after[i \in 0..Len(segs)] ==
        IF i = 0 THEN [kcp EXCEPT !.panic = FALSE] ELSE InputSegment(after[i - 1], segs[i])
  IN after

(* Input: the length that ends its loop is never reduced, so after the     *)
(* last segment it reads a header past the data and panics; or it finds    *)
(* bytes it refuses there, and returns an error.  A datagram refused at    *)
(* its first segment changes nothing.                                      *)
Input(segs) ==
  LET after == InputLoop(segs)[Len(segs)]
  IN \E end \in IF after.panic THEN {"panic"} ELSE {"panic", "error"} :
       /\ kcp' = [after EXCEPT !.panic = end = "panic"]
       /\ acked' = acked \cup UNION {Acknowledges(segs[i]) : i \in DOMAIN segs}
       /\ UNCHANGED given

Next ==
  \/ \E size \in Sizes : Send(size)
  \/ Flush
  \/ \E nc \in BOOLEAN : SetNodelay(nc)
  \/ \E n \in 1..MaxSegments : \E segs \in [1..n -> Segments] : Input(segs)

Spec == Init /\ [][Next]_vars

-----------------------------------------------------------------------------
(* Properties.                                                             *)

Sent == [sn : Nat, una : Nat]

Blocks ==
  [snd_queue : Nat, snd_buf : Seq(Sent), snd_nxt : Nat, snd_una : Nat,
   rcv_buf : Seq(0..MaxSn), rcv_queue : Seq(0..MaxSn), rcv_nxt : Nat,
   ackcount : 0..AckRoom, probe : BOOLEAN, nocwnd : BOOLEAN, cwnd : {0, 1},
   rmt_wnd : {0, Rcv_wnd}, panic : BOOLEAN]

(* Every variable keeps its type. *)
TypeOK == kcp \in Blocks /\ given \in 0..MaxData /\ acked \subseteq 0..(kcp.snd_nxt - 1)

(* The send buffer is in order and holds every segment that is not         *)
(* acknowledged, although loops delete from the array they walk over:      *)
(* whatever datagrams came, and wherever a call panicked (Parse_Una,       *)
(* Parse_Ack, Flush).                                                      *)
Ascending(buf) == \A i, j \in 1..Len(buf) : i < j => buf[i].sn < buf[j].sn

Holds(buf, n) == \E i \in 1..Len(buf) : buf[i].sn = n

UnackedKept ==
  /\ Ascending(kcp.snd_buf)
  /\ \A n \in 0..(kcp.snd_nxt - 1) : n \in acked \/ Holds(kcp.snd_buf, n)

(* What reaches rcv_queue is the stream of the other end from its start,   *)
(* without a gap or a repetition, however segments were reordered and      *)
(* repeated (Parse_Data).                                                  *)
Received(k) ==
  /\ Len(k.rcv_queue) = k.rcv_nxt /\ k.rcv_nxt <= Rcv_wnd
  /\ \A i \in 1..Len(k.rcv_queue) : k.rcv_queue[i] = i - 1

ReceivedInOrder == Received(kcp)

(* The inductive invariant behind them.  What is in snd_buf was sent before *)
(* anything was received, for with an ack to send Flush moves nothing any   *)
(* more: so the una of every segment there is 0, and snd_una, taken from    *)
(* one, stays behind snd_nxt (Sending).  A segment out of order blocks      *)
(* rcv_buf for good, and the next one passes through it alone: the loop     *)
(* that moves segments never comes to a second deletion (Blocked).          *)
Sending(k) ==
  /\ k.rcv_nxt > 0 => k.ackcount > 0
  /\ \A i \in 1..Len(k.snd_buf) : k.snd_buf[i].sn < k.snd_nxt /\ k.snd_buf[i].una = 0
  /\ k.snd_una <= k.snd_nxt

Blocked(k) ==
  k.rcv_buf # <<>> => k.rcv_buf[1] # k.rcv_nxt \/ Len(k.rcv_queue) = Rcv_wnd

Inv == TypeOK /\ UnackedKept /\ ReceivedInOrder /\ Sending(kcp) /\ Blocked(kcp)

(* kcp.go:245: a segment is put in its place in rcv_buf, and what is usable *)
(* goes to rcv_queue; so the next segment never waits in rcv_buf while     *)
(* there is room.                                                          *)
NextIsMoved ==
  Len(kcp.rcv_queue) < Rcv_wnd => \A i \in DOMAIN kcp.rcv_buf : kcp.rcv_buf[i] # kcp.rcv_nxt
=============================================================================
