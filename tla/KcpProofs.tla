----------------------------- MODULE KcpProofs ------------------------------
(***************************************************************************)
(* Proofs about Kcp, for any windows, any number of segments and any       *)
(* datagrams.  What the loops over the buffers compute is proved by         *)
(* induction over their turns: the library's induction theorems cannot be   *)
(* used here, so Upward states induction over the members of a set.        *)
(***************************************************************************)
EXTENDS Kcp, SequenceTheorems, WellFoundedInduction, TLAPS

-----------------------------------------------------------------------------
(* Loops.                                                                  *)

(* Induction up to n.                                                      *)
LEMMA Upward ==
  ASSUME NEW n \in Nat, NEW T, 0 \in T, \A i \in 0..(n - 1) : i \in T => i + 1 \in T
  PROVE  \A i \in 0..n : i \in T
<1> DEFINE F == {i \in Nat : i <= n /\ i \notin T}
<1>1. ASSUME F # {} PROVE FALSE
  <2>1. PICK m \in F : \A i \in F : ~(<<i, m>> \in OpToRel(<, Nat))
    <3>1. F \subseteq Nat
      OBVIOUS
    <3> HIDE DEF F
    <3> QED
      BY <1>1, <3>1, WFMin, NatLessThanWellFounded
  <2>2. \A i \in F : ~(i < m)
    BY <2>1 DEF OpToRel
  <2>3. m # 0 /\ m - 1 \in 0..(n - 1) /\ m - 1 \in T
    BY <2>2
  <2> QED
    BY <2>3
<1> QED
  BY <1>1

(* Each loop is what its definition says of it, turn by turn.              *)
LEMMA UnaLoopTurns ==
  ASSUME NEW buf, Len(buf) \in Nat, NEW u
  PROVE  UnaLoop(buf, u) =
           [i \in 0..Len(buf) |-> IF i = 0 THEN Slice(buf) ELSE UnaTurn(UnaLoop(buf, u)[i - 1], u, i)]
<1> DEFINE Done(m) ==
      \E f : f = [i \in 0..m |-> IF i = 0 THEN Slice(buf) ELSE UnaTurn(f[i - 1], u, i)]
<1>1. Done(0)
  <2> DEFINE f == [i \in 0..0 |-> Slice(buf)]
  <2>1. f = [i \in 0..0 |-> IF i = 0 THEN Slice(buf) ELSE UnaTurn(f[i - 1], u, i)]
    OBVIOUS
  <2> QED
    BY <2>1
<1>2. ASSUME NEW m \in Nat, Done(m) PROVE Done(m + 1)
  <2>1. PICK f : f = [i \in 0..m |-> IF i = 0 THEN Slice(buf) ELSE UnaTurn(f[i - 1], u, i)]
    BY <1>2
  <2> DEFINE g == [i \in 0..(m + 1) |-> IF i <= m THEN f[i] ELSE UnaTurn(f[m], u, m + 1)]
  <2>2. \A i \in 0..m : g[i] = f[i]
    OBVIOUS
  <2>3. ASSUME NEW i \in 0..(m + 1)
        PROVE  g[i] = IF i = 0 THEN Slice(buf) ELSE UnaTurn(g[i - 1], u, i)
    <3>1. CASE i = 0
      BY <2>1, <3>1
    <3>2. CASE i \in 1..m
      <4>1. i - 1 \in 0..m /\ i \in 0..m /\ i # 0
        BY <3>2
      <4> QED
        BY <2>1, <2>2, <4>1
    <3>3. CASE i = m + 1
      <4>1. g[i] = UnaTurn(f[m], u, m + 1) /\ g[i - 1] = f[m]
        BY <2>2, <3>3
      <4> QED
        BY <3>3, <4>1
    <3> QED
      BY <3>1, <3>2, <3>3
  <2>4. g = [i \in 0..(m + 1) |-> IF i = 0 THEN Slice(buf) ELSE UnaTurn(g[i - 1], u, i)]
    BY <2>3
  <2> QED
    BY <2>4
<1> HIDE DEF Done
<1>3. Done(Len(buf))
  <2> DEFINE T == {m \in Nat : Done(m)}
  <2>1. 0 \in T /\ \A i \in 0..(Len(buf) - 1) : i \in T => i + 1 \in T
    BY <1>1, <1>2
  <2>2. \A m \in T : Done(m)
    OBVIOUS
  <2> HIDE DEF T
  <2>3. \A m \in 0..Len(buf) : m \in T
    BY <2>1, Upward
  <2> QED
    BY <2>2, <2>3
<1> QED
  BY <1>3 DEF UnaLoop, Done

LEMMA MoveLoopTurns ==
  ASSUME NEW k, Len(k.rcv_buf) \in Nat
  PROVE  MoveLoop(k) =
           [i \in 0..Len(k.rcv_buf) |->
              IF i = 0 THEN [slice |-> Slice(k.rcv_buf), n |-> 0, stop |-> FALSE]
                       ELSE MoveTurn(k, MoveLoop(k)[i - 1], i)]
<1> DEFINE Start == [slice |-> Slice(k.rcv_buf), n |-> 0, stop |-> FALSE]
           Done(m) == \E f : f = [i \in 0..m |-> IF i = 0 THEN Start ELSE MoveTurn(k, f[i - 1], i)]
<1> HIDE DEF Start
<1>1. Done(0)
  <2> DEFINE f == [i \in 0..0 |-> Start]
  <2>1. f = [i \in 0..0 |-> IF i = 0 THEN Start ELSE MoveTurn(k, f[i - 1], i)]
    OBVIOUS
  <2> QED
    BY <2>1
<1>2. ASSUME NEW m \in Nat, Done(m) PROVE Done(m + 1)
  <2>1. PICK f : f = [i \in 0..m |-> IF i = 0 THEN Start ELSE MoveTurn(k, f[i - 1], i)]
    BY <1>2
  <2> DEFINE g == [i \in 0..(m + 1) |-> IF i <= m THEN f[i] ELSE MoveTurn(k, f[m], m + 1)]
  <2>2. \A i \in 0..m : g[i] = f[i]
    OBVIOUS
  <2>3. ASSUME NEW i \in 0..(m + 1)
        PROVE  g[i] = IF i = 0 THEN Start ELSE MoveTurn(k, g[i - 1], i)
    <3>1. CASE i = 0
      BY <2>1, <3>1
    <3>2. CASE i \in 1..m
      <4>1. i - 1 \in 0..m /\ i \in 0..m /\ i # 0
        BY <3>2
      <4> QED
        BY <2>1, <2>2, <4>1
    <3>3. CASE i = m + 1
      <4>1. g[i] = MoveTurn(k, f[m], m + 1) /\ g[i - 1] = f[m]
        BY <2>2, <3>3
      <4> QED
        BY <3>3, <4>1
    <3> QED
      BY <3>1, <3>2, <3>3
  <2>4. g = [i \in 0..(m + 1) |-> IF i = 0 THEN Start ELSE MoveTurn(k, g[i - 1], i)]
    BY <2>3
  <2> QED
    BY <2>4
<1> HIDE DEF Done
<1>3. Done(Len(k.rcv_buf))
  <2> DEFINE T == {m \in Nat : Done(m)}
  <2>1. 0 \in T /\ \A i \in 0..(Len(k.rcv_buf) - 1) : i \in T => i + 1 \in T
    BY <1>1, <1>2
  <2>2. \A m \in T : Done(m)
    OBVIOUS
  <2> HIDE DEF T
  <2>3. \A m \in 0..Len(k.rcv_buf) : m \in T
    BY <2>1, Upward
  <2> QED
    BY <2>2, <2>3
<1> QED
  BY <1>3 DEF MoveLoop, Done, Start

LEMMA InputLoopTurns ==
  ASSUME NEW segs, Len(segs) \in Nat
  PROVE  InputLoop(segs) =
           [i \in 0..Len(segs) |-> IF i = 0 THEN [kcp EXCEPT !.panic = FALSE]
                                            ELSE InputSegment(InputLoop(segs)[i - 1], segs[i])]
<1> DEFINE Start == [kcp EXCEPT !.panic = FALSE]
           Done(m) == \E f : f = [i \in 0..m |-> IF i = 0 THEN Start ELSE InputSegment(f[i - 1], segs[i])]
<1> HIDE DEF Start
<1>1. Done(0)
  <2> DEFINE f == [i \in 0..0 |-> Start]
  <2>1. f = [i \in 0..0 |-> IF i = 0 THEN Start ELSE InputSegment(f[i - 1], segs[i])]
    OBVIOUS
  <2> QED
    BY <2>1
<1>2. ASSUME NEW m \in Nat, Done(m) PROVE Done(m + 1)
  <2>1. PICK f : f = [i \in 0..m |-> IF i = 0 THEN Start ELSE InputSegment(f[i - 1], segs[i])]
    BY <1>2
  <2> DEFINE g == [i \in 0..(m + 1) |-> IF i <= m THEN f[i] ELSE InputSegment(f[m], segs[m + 1])]
  <2>2. \A i \in 0..m : g[i] = f[i]
    OBVIOUS
  <2>3. ASSUME NEW i \in 0..(m + 1)
        PROVE  g[i] = IF i = 0 THEN Start ELSE InputSegment(g[i - 1], segs[i])
    <3>1. CASE i = 0
      BY <2>1, <3>1
    <3>2. CASE i \in 1..m
      <4>1. i - 1 \in 0..m /\ i \in 0..m /\ i # 0
        BY <3>2
      <4> QED
        BY <2>1, <2>2, <4>1
    <3>3. CASE i = m + 1
      <4>1. g[i] = InputSegment(f[m], segs[m + 1]) /\ g[i - 1] = f[m]
        BY <2>2, <3>3
      <4> QED
        BY <3>3, <4>1
    <3> QED
      BY <3>1, <3>2, <3>3
  <2>4. g = [i \in 0..(m + 1) |-> IF i = 0 THEN Start ELSE InputSegment(g[i - 1], segs[i])]
    BY <2>3
  <2> QED
    BY <2>4
<1> HIDE DEF Done
<1>3. Done(Len(segs))
  <2> DEFINE T == {m \in Nat : Done(m)}
  <2>1. 0 \in T /\ \A i \in 0..(Len(segs) - 1) : i \in T => i + 1 \in T
    BY <1>1, <1>2
  <2>2. \A m \in T : Done(m)
    OBVIOUS
  <2> HIDE DEF T
  <2>3. \A m \in 0..Len(segs) : m \in T
    BY <2>1, Upward
  <2> QED
    BY <2>2, <2>3
<1> QED
  BY <1>3 DEF InputLoop, Done, Start

-----------------------------------------------------------------------------
(* Slices.                                                                 *)

(* A slice of a sequence of n elements.                                    *)
IsSlice(slice, S, n) ==
  /\ slice \in [array : Seq(S), len : Nat, panic : BOOLEAN]
  /\ Len(slice.array) = n /\ slice.len <= n

LEMMA SliceOf ==
  ASSUME NEW S, NEW s \in Seq(S)
  PROVE  /\ IsSlice(Slice(s), S, Len(s)) /\ Slice(s).array = s
         /\ Slice(s).len = Len(s) /\ Slice(s).panic = FALSE
BY LenProperties DEF Slice, IsSlice

(* Deleting leaves the elements before the deleted one, and shifts those   *)
(* behind it.                                                              *)
Without(slice, i, n) ==
  [j \in 1..n |-> IF i <= j /\ j < slice.len THEN slice.array[j + 1] ELSE slice.array[j]]

LEMMA Deleted ==
  ASSUME NEW S, NEW n \in Nat, NEW slice, IsSlice(slice, S, n),
         NEW i \in Nat, i # 0, i <= slice.len
  PROVE  /\ IsSlice(Delete(slice, i), S, n)
         /\ Delete(slice, i).array = Without(slice, i, n)
         /\ Delete(slice, i).len = slice.len - 1
<1> DEFINE a == slice.array
           b == [j \in 1..n |-> IF i <= j /\ j < slice.len THEN a[j + 1] ELSE a[j]]
<1>1. /\ slice \in [array : Seq(S), len : Nat, panic : BOOLEAN] /\ slice.len <= n
      /\ a \in Seq(S) /\ DOMAIN a = 1..n /\ \A j \in 1..n : a[j] \in S
  BY ElementOfSeq, LenProperties DEF IsSlice
<1>2. Delete(slice, i) = [slice EXCEPT !.len = slice.len - 1, !.array = b]
  BY <1>1 DEF Delete
<1>3. b \in Seq(S) /\ Len(b) = n
  <2>1. \A j \in 1..n : (IF i <= j /\ j < slice.len THEN a[j + 1] ELSE a[j]) \in S
    BY <1>1
  <2> QED
    BY <2>1, IsASeq, LenProperties
<1> HIDE DEF b
<1>4. Delete(slice, i) = [array |-> b, len |-> slice.len - 1, panic |-> slice.panic]
  BY <1>1, <1>2
<1>5. slice.len - 1 \in Nat /\ slice.len - 1 <= n /\ slice.panic \in BOOLEAN
  BY <1>1
<1>6. IsSlice(Delete(slice, i), S, n)
  BY <1>3, <1>4, <1>5 DEF IsSlice
<1> QED
  BY <1>4, <1>6 DEF b, Without

LEMMA DeletePanics ==
  ASSUME NEW S, NEW n \in Nat, NEW slice, IsSlice(slice, S, n), NEW i \in Nat, i > slice.len
  PROVE  /\ IsSlice(Delete(slice, i), S, n)
         /\ Delete(slice, i).len = slice.len /\ Delete(slice, i).array = slice.array
BY DEF Delete, IsSlice

(* The loop of Parse_Una keeps order, adds nothing, and removes nothing    *)
(* that is not below una, although it skips elements and may panic.        *)
UnaSoFar(slice, buf, u) ==
  /\ IsSlice(slice, Sent, Len(buf))
  /\ \A i, j \in 1..slice.len : i < j => slice.array[i].sn < slice.array[j].sn
  /\ \A i \in 1..slice.len : \E l \in 1..Len(buf) : slice.array[i] = buf[l]
  /\ \A l \in 1..Len(buf) : buf[l].sn < u \/ \E i \in 1..slice.len : slice.array[i] = buf[l]

LEMMA UnaTurnKeeps ==
  ASSUME NEW buf \in Seq(Sent), NEW u \in Nat, NEW i \in 1..Len(buf),
         NEW slice, UnaSoFar(slice, buf, u)
  PROVE  UnaSoFar(UnaTurn(slice, u, i), buf, u)
<1> DEFINE d == Delete(slice, i)
           a == slice.array
<1>0. /\ Len(buf) \in Nat /\ slice.len \in Nat /\ slice.len <= Len(buf) /\ i \in Nat
      /\ \A j \in 1..Len(buf) : a[j] \in Sent
  BY ElementOfSeq, LenProperties DEF UnaSoFar, IsSlice
<1>1. CASE UnaTurn(slice, u, i) = slice
  BY <1>1
<1>2. CASE UnaTurn(slice, u, i) = d /\ i > slice.len
  <2>1. IsSlice(slice, Sent, Len(buf))
    BY DEF UnaSoFar
  <2>2. IsSlice(d, Sent, Len(buf)) /\ d.len = slice.len /\ d.array = slice.array
    BY <1>0, <1>2, <2>1, DeletePanics
  <2> HIDE DEF d
  <2> QED
    BY <1>2, <2>2 DEF UnaSoFar
<1>3. CASE UnaTurn(slice, u, i) = d /\ i <= slice.len /\ ~(u <= a[i].sn)
  <2>1. /\ IsSlice(d, Sent, Len(buf)) /\ d.len = slice.len - 1
        /\ d.array = [j \in 1..Len(buf) |-> IF i <= j /\ j < slice.len THEN a[j + 1] ELSE a[j]]
    <3>1. IsSlice(slice, Sent, Len(buf)) /\ i # 0 /\ i <= slice.len
      BY <1>0, <1>3 DEF UnaSoFar
    <3>2. /\ IsSlice(d, Sent, Len(buf)) /\ d.len = slice.len - 1
          /\ d.array = Without(slice, i, Len(buf))
      <4> DEFINE n == Len(buf)
      <4>1. n \in Nat /\ IsSlice(slice, Sent, n) /\ i \in Nat /\ i # 0 /\ i <= slice.len
        BY <1>0, <3>1
      <4> HIDE DEF n
      <4>2. /\ IsSlice(Delete(slice, i), Sent, n) /\ Delete(slice, i).len = slice.len - 1
            /\ Delete(slice, i).array = Without(slice, i, n)
        BY <4>1, Deleted
      <4> QED
        BY <4>2 DEF n
    <3> QED
      BY <3>2 DEF Without
  <2>2. \A j \in 1..d.len : /\ j \in 1..slice.len /\ j + 1 \in 1..slice.len
                            /\ d.array[j] = IF j < i THEN a[j] ELSE a[j + 1]
    BY <1>0, <2>1
  <2> HIDE DEF d, a
  <2>3. ASSUME NEW j \in 1..d.len, NEW l \in 1..d.len, j < l
        PROVE  d.array[j].sn < d.array[l].sn
    <3>1. PICK x \in {j, j + 1} : d.array[j] = a[x] /\ x = IF j < i THEN j ELSE j + 1
      BY <2>2
    <3>2. PICK y \in {l, l + 1} : d.array[l] = a[y] /\ y = IF l < i THEN l ELSE l + 1
      BY <2>2
    <3>3. x < y /\ x \in 1..slice.len /\ y \in 1..slice.len
      BY <1>0, <2>2, <2>3, <3>1, <3>2
    <3> QED
      BY <3>1, <3>2, <3>3 DEF UnaSoFar, a
  <2>4. ASSUME NEW j \in 1..d.len PROVE \E l \in 1..Len(buf) : d.array[j] = buf[l]
    <3>1. PICK x \in 1..slice.len : d.array[j] = a[x]
      BY <2>2
    <3> QED
      BY <3>1 DEF UnaSoFar, a
  <2>5. ASSUME NEW l \in 1..Len(buf), ~(buf[l].sn < u)
        PROVE  \E j \in 1..d.len : d.array[j] = buf[l]
    <3>1. PICK x \in 1..slice.len : a[x] = buf[l]
      BY <2>5 DEF UnaSoFar, a
    <3>2. x # i
      <4>1. a[i].sn \in Nat
        BY <1>0 DEF Sent
      <4> QED
        BY <1>3, <2>5, <3>1, <4>1
    <3>3. CASE x < i
      <4>1. x \in 1..d.len
        BY <1>0, <1>3, <2>1, <3>3
      <4> QED
        BY <2>2, <3>1, <3>3, <4>1
    <3>4. CASE x > i
      <4>1. x - 1 \in 1..d.len /\ ~(x - 1 < i) /\ (x - 1) + 1 = x
        BY <1>0, <1>3, <2>1, <3>4
      <4> QED
        BY <2>2, <3>1, <4>1
    <3> QED
      BY <1>0, <3>2, <3>3, <3>4
  <2>6. UnaSoFar(d, buf, u)
    BY <2>1, <2>3, <2>4, <2>5 DEF UnaSoFar
  <2> QED
    BY <1>3, <2>6
<1> QED
  BY <1>0, <1>1, <1>2, <1>3 DEF UnaTurn

LEMMA UnaResult ==
  ASSUME NEW buf \in Seq(Sent), Ascending(buf), NEW u \in Nat
  PROVE  UnaSoFar(UnaLoop(buf, u)[Len(buf)], buf, u)
<1> DEFINE T == {i \in 0..Len(buf) : UnaSoFar(UnaLoop(buf, u)[i], buf, u)}
<1>0. Len(buf) \in Nat
  BY LenProperties
<1>1. 0 \in T
  <2>1. UnaLoop(buf, u)[0] = Slice(buf)
    BY <1>0, UnaLoopTurns
  <2>2. UnaSoFar(Slice(buf), buf, u)
    BY <1>0, SliceOf DEF UnaSoFar, Ascending
  <2> QED
    BY <1>0, <2>1, <2>2
<1>2. ASSUME NEW i \in 0..(Len(buf) - 1), i \in T PROVE i + 1 \in T
  <2>1. /\ i + 1 \in 1..Len(buf) /\ i + 1 \in 0..Len(buf) /\ i + 1 # 0
        /\ UnaLoop(buf, u)[i + 1] = UnaTurn(UnaLoop(buf, u)[(i + 1) - 1], u, i + 1)
    BY <1>0, UnaLoopTurns
  <2>2. (i + 1) - 1 = i
    BY <1>0
  <2> QED
    BY <1>2, <2>1, <2>2, UnaTurnKeeps
<1> HIDE DEF T
<1>3. \A i \in 0..Len(buf) : i \in T
  BY <1>0, <1>1, <1>2, Upward
<1> QED
  BY <1>0, <1>3 DEF T

(* What is left of a slice.                                                *)
LEMMA ItemsOf ==
  ASSUME NEW S, NEW n \in Nat, NEW slice, IsSlice(slice, S, n)
  PROVE  /\ Items(slice) \in Seq(S) /\ Len(Items(slice)) = slice.len
         /\ \A i \in 1..slice.len : Items(slice)[i] = slice.array[i]
<1>1. /\ slice.array \in Seq(S) /\ slice.len \in Nat /\ slice.len <= Len(slice.array)
      /\ Len(slice.array) \in Nat /\ \A i \in 1..slice.len : slice.array[i] \in S
  BY ElementOfSeq DEF IsSlice
<1>2. \A i \in 1..slice.len : i \in 1..Len(slice.array)
  BY <1>1
<1> QED
  BY <1>1, <1>2, SubSeqProperties DEF Items

-----------------------------------------------------------------------------
(* The control block.                                                      *)

(* What holds of every control block, when the numbers in D were           *)
(* acknowledged.                                                           *)
Good(k, D) ==
  /\ k \in Blocks
  /\ Ascending(k.snd_buf) /\ \A n \in 0..(k.snd_nxt - 1) : n \in D \/ Holds(k.snd_buf, n)
  /\ Received(k) /\ Sending(k) /\ Blocked(k)

(* Whatever happens to the send buffer, as long as it loses only what is   *)
(* in D.                                                                   *)
LEMMA SendSide ==
  ASSUME NEW D, NEW k, Good(k, D), NEW b \in Blocks,
         b.snd_nxt = k.snd_nxt, b.snd_una <= k.snd_nxt,
         b.rcv_buf = k.rcv_buf, b.rcv_queue = k.rcv_queue, b.rcv_nxt = k.rcv_nxt,
         b.ackcount = k.ackcount, Ascending(b.snd_buf),
         \A i \in 1..Len(b.snd_buf) : \E l \in 1..Len(k.snd_buf) : b.snd_buf[i] = k.snd_buf[l],
         \A l \in 1..Len(k.snd_buf) :
           k.snd_buf[l].sn \in D \/ \E i \in 1..Len(b.snd_buf) : b.snd_buf[i] = k.snd_buf[l]
  PROVE  Good(b, D)
<1>1. ASSUME NEW n \in 0..(b.snd_nxt - 1), n \notin D PROVE Holds(b.snd_buf, n)
  <2>1. PICK l \in 1..Len(k.snd_buf) : k.snd_buf[l].sn = n
    BY <1>1 DEF Good, Holds
  <2>2. PICK i \in 1..Len(b.snd_buf) : b.snd_buf[i] = k.snd_buf[l]
    BY <1>1, <2>1
  <2> QED
    BY <2>1, <2>2 DEF Holds
<1>2. Sending(b)
  <2>1. \A i \in 1..Len(b.snd_buf) : b.snd_buf[i].sn < b.snd_nxt /\ b.snd_buf[i].una = 0
    BY DEF Good, Sending
  <2> QED
    BY <2>1 DEF Good, Sending
<1>3. Received(b) /\ Blocked(b)
  BY DEF Good, Received, Blocked
<1> QED
  BY <1>1, <1>2, <1>3 DEF Good

(* Parse_Una.                                                              *)
LEMMA UnaGood ==
  ASSUME NEW D, NEW k, Good(k, D), NEW u \in Nat, \A n \in 0..(k.snd_nxt - 1) : n < u => n \in D
  PROVE  Good(Parse_Una(k, u), D) /\ Parse_Una(k, u).snd_nxt = k.snd_nxt
<1> DEFINE after == UnaLoop(k.snd_buf, u)[Len(k.snd_buf)]
           b     == Parse_Una(k, u)
<1>1. /\ k \in Blocks /\ k.snd_buf \in Seq(Sent) /\ Len(k.snd_buf) \in Nat /\ k.snd_nxt \in Nat
      /\ \A l \in 1..Len(k.snd_buf) : k.snd_buf[l] \in Sent
  BY ElementOfSeq, LenProperties DEF Good, Blocks
<1>2. UnaSoFar(after, k.snd_buf, u)
  BY <1>1, UnaResult DEF Good
<1>3. IsSlice(after, Sent, Len(k.snd_buf))
  BY <1>2 DEF UnaSoFar
<1>4. b = [k EXCEPT !.snd_buf = Items(after), !.panic = k.panic \/ after.panic]
  <2>1. b = [[k EXCEPT !.snd_buf = Items(after)] EXCEPT !.panic = @ \/ after.panic]
    BY DEF Parse_Una, Panics
  <2> HIDE DEF after, b
  <2> QED
    BY <1>1, <2>1 DEF Blocks
<1> HIDE DEF after, b
<1>5. /\ Items(after) \in Seq(Sent) /\ Len(Items(after)) = after.len /\ after.len \in Nat
      /\ \A i \in 1..after.len : Items(after)[i] = after.array[i]
  BY <1>1, <1>3, ItemsOf DEF IsSlice
<1>6. /\ b \in Blocks /\ b.snd_buf = Items(after) /\ b.snd_nxt = k.snd_nxt /\ b.snd_una = k.snd_una
      /\ b.rcv_buf = k.rcv_buf /\ b.rcv_queue = k.rcv_queue /\ b.rcv_nxt = k.rcv_nxt
      /\ b.ackcount = k.ackcount
  BY <1>1, <1>4, <1>5 DEF Blocks
<1>7. Ascending(b.snd_buf)
  <2>1. Len(b.snd_buf) = after.len /\ \A i \in 1..after.len : b.snd_buf[i] = after.array[i]
    BY <1>5, <1>6
  <2>2. ASSUME NEW i \in 1..after.len, NEW j \in 1..after.len, i < j
        PROVE  b.snd_buf[i].sn < b.snd_buf[j].sn
    <3>1. after.array[i].sn < after.array[j].sn
      BY <1>2, <2>2 DEF UnaSoFar
    <3> QED
      BY <2>1, <3>1
  <2> QED
    BY <2>1, <2>2 DEF Ascending
<1>8. \A i \in 1..Len(b.snd_buf) : \E l \in 1..Len(k.snd_buf) : b.snd_buf[i] = k.snd_buf[l]
  BY <1>2, <1>5, <1>6 DEF UnaSoFar
<1>9. \A l \in 1..Len(k.snd_buf) :
        k.snd_buf[l].sn \in D \/ \E i \in 1..Len(b.snd_buf) : b.snd_buf[i] = k.snd_buf[l]
  <2>1. ASSUME NEW l \in 1..Len(k.snd_buf), k.snd_buf[l].sn < u PROVE k.snd_buf[l].sn \in D
    <3>1. k.snd_buf[l].sn \in Nat /\ k.snd_buf[l].sn < k.snd_nxt
      BY <1>1 DEF Good, Sending, Sent
    <3> QED
      BY <1>1, <2>1, <3>1
  <2> QED
    BY <1>2, <1>5, <1>6, <2>1 DEF UnaSoFar
<1>10. b.snd_una <= k.snd_nxt
  BY <1>6 DEF Good, Sending
<1>11. Good(b, D)
  BY <1>6, <1>7, <1>8, <1>9, <1>10, SendSide
<1> QED
  BY <1>6, <1>11 DEF b

(* Shrink_Buf.                                                             *)
LEMMA ShrinkGood ==
  ASSUME NEW D, NEW k, Good(k, D)
  PROVE  /\ Good(Shrink_Buf(k), D) /\ Shrink_Buf(k).snd_nxt = k.snd_nxt
         /\ Shrink_Buf(k).panic = k.panic
<1> DEFINE b == Shrink_Buf(k)
           x == IF k.snd_buf # <<>> THEN k.snd_buf[1].una ELSE k.snd_nxt
<1>1. /\ k \in Blocks /\ k.snd_buf \in Seq(Sent) /\ k.snd_nxt \in Nat
  BY DEF Good, Blocks
<1>2. x \in Nat /\ x <= k.snd_nxt
  <2>1. CASE k.snd_buf # <<>>
    <3>1. 1 \in 1..Len(k.snd_buf)
      BY <1>1, <2>1, EmptySeq, LenProperties
    <3> QED
      BY <1>1, <2>1, <3>1 DEF Good, Sending
  <2>2. CASE k.snd_buf = <<>>
    BY <1>1, <2>2
  <2> QED
    BY <2>1, <2>2
<1>3. b = [k EXCEPT !.snd_una = x]
  BY DEF Shrink_Buf
<1> HIDE DEF x, b
<1>4. /\ b \in Blocks /\ b.snd_buf = k.snd_buf /\ b.snd_nxt = k.snd_nxt /\ b.snd_una = x
      /\ b.rcv_buf = k.rcv_buf /\ b.rcv_queue = k.rcv_queue /\ b.rcv_nxt = k.rcv_nxt
      /\ b.ackcount = k.ackcount /\ b.panic = k.panic
  BY <1>1, <1>2, <1>3 DEF Blocks
<1>5. Good(b, D)
  BY <1>2, <1>4 DEF Good, Sending, Received, Blocked
<1> QED
  BY <1>4, <1>5 DEF b

(* Parse_Ack: the numbers in the buffer are in order, so only one of them  *)
(* is the acknowledged one.                                                *)
LEMMA AckGood ==
  ASSUME NEW D, NEW k, Good(k, D), NEW sn \in D
  PROVE  Good(Parse_Ack(k, sn), D) /\ Parse_Ack(k, sn).snd_nxt = k.snd_nxt
<1> DEFINE b    == Parse_Ack(k, sn)
           acks == {i \in DOMAIN k.snd_buf : k.snd_buf[i].sn = sn}
           s    == k.snd_buf
<1>1. CASE b = k
  BY <1>1
<1>2. CASE acks # {} /\ b = [k EXCEPT !.snd_buf = RemoveAt(@, CHOOSE i \in acks : TRUE)]
  <2>1. /\ k \in Blocks /\ s \in Seq(Sent) /\ Len(s) \in Nat /\ DOMAIN s = 1..Len(s)
        /\ \A l \in 1..Len(s) : s[l] \in Sent
    BY ElementOfSeq, LenProperties DEF Good, Blocks
  <2>2. PICK x \in 1..Len(s) : s[x].sn = sn /\ b = [k EXCEPT !.snd_buf = RemoveAt(s, x)]
    BY <1>2, <2>1
  <2> DEFINE r == [j \in 1..(Len(s) - 1) |-> IF j < x THEN s[j] ELSE s[j + 1]]
  <2>3. r \in Seq(Sent) /\ Len(r) = Len(s) - 1
    <3>1. \A j \in 1..(Len(s) - 1) : (IF j < x THEN s[j] ELSE s[j + 1]) \in Sent
      BY <2>1
    <3>2. Len(s) - 1 \in Nat
      BY <2>1
    <3> QED
      BY <3>1, <3>2, IsASeq, LenProperties
  <2>4. RemoveAt(s, x) = r
    <3> DEFINE p == SubSeq(s, 1, x - 1)
               q == SubSeq(s, x + 1, Len(s))
    <3>1. /\ p \in Seq(Sent) /\ Len(p) = x - 1
          /\ \A j \in 1..(x - 1) : p[j] = s[j]
      BY <2>1, SubSeqProperties
    <3>2. /\ q \in Seq(Sent) /\ Len(q) = Len(s) - x
          /\ \A j \in 1..(Len(s) - x) : q[j] = s[x + j]
      BY <2>1, SubSeqProperties
    <3> HIDE DEF p, q, r, s
    <3>3. /\ p \o q \in Seq(Sent) /\ Len(p \o q) = (x - 1) + (Len(s) - x)
          /\ \A j \in 1..((x - 1) + (Len(s) - x)) :
               (p \o q)[j] = IF j <= x - 1 THEN p[j] ELSE q[j - (x - 1)]
      <4>1. /\ p \o q \in Seq(Sent) /\ Len(p \o q) = Len(p) + Len(q)
            /\ \A j \in 1..(Len(p) + Len(q)) :
                 (p \o q)[j] = IF j <= Len(p) THEN p[j] ELSE q[j - Len(p)]
        <5>1. p \in Seq(Sent) /\ q \in Seq(Sent)
          BY <3>1, <3>2
        <5> QED
          BY <5>1, ConcatProperties, Zenon
      <4> QED
        BY <3>1, <3>2, <4>1
    <3>4. Len(p \o q) = Len(s) - 1 /\ (x - 1) + (Len(s) - x) = Len(s) - 1
      BY <2>1, <3>3
    <3>5. ASSUME NEW j \in 1..(Len(s) - 1) PROVE (p \o q)[j] = r[j]
      <4>1. CASE j < x
        <5>1. j <= x - 1 /\ j \in 1..(x - 1)
          BY <4>1, <2>1
        <5> QED
          BY <3>1, <3>3, <3>4, <4>1, <5>1 DEF r
      <4>2. CASE ~(j < x)
        <5>1. /\ ~(j <= x - 1) /\ j - (x - 1) \in 1..(Len(s) - x) /\ x + (j - (x - 1)) = j + 1
          BY <4>2, <2>1
        <5> QED
          BY <3>2, <3>3, <3>4, <4>2, <5>1 DEF r
      <4> QED
        BY <4>1, <4>2
    <3>6. p \o q = r
      BY <2>3, <3>3, <3>4, <3>5, SeqEqual
    <3> QED
      BY <3>6 DEF RemoveAt, p, q
  <2>5. \A j \in 1..Len(r) : /\ j \in 1..Len(s) /\ j + 1 \in 1..Len(s)
                              /\ r[j] = IF j < x THEN s[j] ELSE s[j + 1]
    BY <2>1, <2>3
  <2>6. b = [k EXCEPT !.snd_buf = r]
    BY <2>2, <2>4
  <2> HIDE DEF r, b, s
  <2>7. /\ b \in Blocks /\ b.snd_buf = r /\ b.snd_nxt = k.snd_nxt /\ b.snd_una = k.snd_una
        /\ b.rcv_buf = k.rcv_buf /\ b.rcv_queue = k.rcv_queue /\ b.rcv_nxt = k.rcv_nxt
        /\ b.ackcount = k.ackcount
    BY <2>1, <2>3, <2>6 DEF Blocks
  <2>8. ASSUME NEW j \in 1..Len(r), NEW l \in 1..Len(r), j < l
        PROVE  r[j].sn < r[l].sn
    <3>1. PICK y \in {j, j + 1} : r[j] = s[y] /\ y = IF j < x THEN j ELSE j + 1
      BY <2>5
    <3>2. PICK z \in {l, l + 1} : r[l] = s[z] /\ z = IF l < x THEN l ELSE l + 1
      BY <2>5
    <3>3. y < z /\ y \in 1..Len(s) /\ z \in 1..Len(s)
      BY <2>1, <2>3, <2>5, <2>8, <3>1, <3>2
    <3> QED
      BY <3>1, <3>2, <3>3 DEF Good, Ascending, s
  <2>9. ASSUME NEW j \in 1..Len(r) PROVE \E l \in 1..Len(s) : r[j] = s[l]
    BY <2>5
  <2>10. ASSUME NEW l \in 1..Len(s), s[l].sn \notin D
         PROVE  \E j \in 1..Len(r) : r[j] = s[l]
    <3>1. l # x
      BY <2>2, <2>10
    <3>2. CASE l < x
      <4>1. l \in 1..Len(r)
        BY <2>1, <2>3, <3>2
      <4> QED
        BY <2>5, <3>2, <4>1
    <3>3. CASE l > x
      <4>1. l - 1 \in 1..Len(r) /\ ~(l - 1 < x) /\ (l - 1) + 1 = l
        BY <2>1, <2>3, <3>3
      <4> QED
        BY <2>5, <4>1
    <3> QED
      BY <2>1, <3>1, <3>2, <3>3
  <2>11. Ascending(b.snd_buf) /\ b.snd_una <= k.snd_nxt
    BY <2>7, <2>8 DEF Ascending, Good, Sending
  <2>12. Good(b, D)
    <3>1. /\ \A j \in 1..Len(b.snd_buf) : \E l \in 1..Len(k.snd_buf) : b.snd_buf[j] = k.snd_buf[l]
          /\ \A l \in 1..Len(k.snd_buf) :
               k.snd_buf[l].sn \in D \/ \E j \in 1..Len(b.snd_buf) : b.snd_buf[j] = k.snd_buf[l]
      BY <2>7, <2>9, <2>10 DEF s
    <3> QED
      BY <2>7, <2>11, <3>1, SendSide
  <2> QED
    BY <2>7, <2>12 DEF b
<1>3. b = k \/ (acks # {} /\ b = [k EXCEPT !.snd_buf = RemoveAt(@, CHOOSE i \in acks : TRUE)])
  BY DEF Parse_Ack
<1> HIDE DEF b, acks
<1>4. Good(b, D) /\ b.snd_nxt = k.snd_nxt
  BY <1>1, <1>2, <1>3 DEF b
<1> QED
  BY <1>4 DEF b

(* Ack_Push.                                                               *)
LEMMA AckPushGood ==
  ASSUME NEW D, NEW k, Good(k, D)
  PROVE  /\ Good(Ack_Push(k), D) /\ Ack_Push(k).snd_nxt = k.snd_nxt
         /\ Ack_Push(k).panic \/ Ack_Push(k).ackcount > 0
<1> DEFINE b == Ack_Push(k)
<1>1. k \in Blocks /\ k.ackcount \in 0..AckRoom /\ AckRoom \in Nat
  BY KcpAssumption DEF Good, Blocks
<1>2. CASE k.ackcount >= AckRoom
  <2>1. b = [k EXCEPT !.panic = TRUE]
    BY <1>2 DEF Ack_Push
  <2> HIDE DEF b
  <2>2. /\ b \in Blocks /\ b.snd_buf = k.snd_buf /\ b.snd_nxt = k.snd_nxt /\ b.snd_una = k.snd_una
        /\ b.rcv_buf = k.rcv_buf /\ b.rcv_queue = k.rcv_queue /\ b.rcv_nxt = k.rcv_nxt
        /\ b.ackcount = k.ackcount
    BY <1>1, <2>1 DEF Blocks
  <2>3. b.panic
    BY <1>1, <2>1 DEF Blocks
  <2>4. Good(b, D)
    BY <2>2 DEF Good, Sending, Received, Blocked
  <2> QED
    BY <2>2, <2>3, <2>4 DEF b
<1>3. CASE ~(k.ackcount >= AckRoom)
  <2>1. b = [k EXCEPT !.ackcount = k.ackcount + 1]
    BY <1>3 DEF Ack_Push
  <2>2. k.ackcount + 1 \in 0..AckRoom /\ k.ackcount + 1 > 0
    BY <1>1, <1>3
  <2> HIDE DEF b
  <2>3. /\ b \in Blocks /\ b.snd_buf = k.snd_buf /\ b.snd_nxt = k.snd_nxt /\ b.snd_una = k.snd_una
        /\ b.rcv_buf = k.rcv_buf /\ b.rcv_queue = k.rcv_queue /\ b.rcv_nxt = k.rcv_nxt
        /\ b.ackcount = k.ackcount + 1
    BY <1>1, <2>1, <2>2 DEF Blocks
  <2>4. Good(b, D)
    BY <2>2, <2>3 DEF Good, Sending, Received, Blocked
  <2> QED
    BY <2>2, <2>3, <2>4 DEF b
<1> QED
  BY <1>2, <1>3

(* The loop of Parse_Data stops at once, if the first segment is not the   *)
(* next one or there is no room.                                           *)
Moving(k, n, stop) == [slice |-> Slice(k.rcv_buf), n |-> n, stop |-> stop]

LEMMA MoveStops ==
  ASSUME NEW k \in Blocks, k.rcv_buf # <<>>,
         k.rcv_buf[1] # k.rcv_nxt \/ ~(Len(k.rcv_queue) < Rcv_wnd)
  PROVE  MoveNext(k) = k
<1> DEFINE Stopped == Moving(k, 0, TRUE)
           n == Len(k.rcv_buf)
<1>1. /\ k.rcv_buf \in Seq(0..MaxSn) /\ n \in Nat /\ n # 0 /\ k.rcv_nxt \in Nat
      /\ k.rcv_queue \in Seq(0..MaxSn) /\ Len(k.rcv_queue) \in Nat /\ k.panic \in BOOLEAN
  BY EmptySeq, LenProperties DEF Blocks
<1>2. MoveLoop(k) = [i \in 0..n |-> IF i = 0 THEN Moving(k, 0, FALSE) ELSE MoveTurn(k, MoveLoop(k)[i - 1], i)]
  BY <1>1, MoveLoopTurns DEF Moving
<1> HIDE DEF n
<1>3. MoveLoop(k)[0] = Moving(k, 0, FALSE)
  <2>1. 0 \in 0..n
    BY <1>1
  <2> QED
    BY <1>2, <2>1
<1>4. ASSUME NEW i \in 0..(n - 1) PROVE MoveLoop(k)[i + 1] = MoveTurn(k, MoveLoop(k)[i], i + 1)
  <2>1. i + 1 \in 0..n /\ i + 1 # 0 /\ (i + 1) - 1 = i
    BY <1>1
  <2> QED
    BY <1>2, <2>1
<1>5. Slice(k.rcv_buf).array = k.rcv_buf /\ ~Slice(k.rcv_buf).panic
  BY DEF Slice
<1>6. MoveTurn(k, Moving(k, 0, FALSE), 1) = Stopped
  <2>1. k.rcv_nxt + 0 = k.rcv_nxt /\ Len(k.rcv_queue) + 0 = Len(k.rcv_queue)
    BY <1>1
  <2> QED
    BY <1>5, <2>1 DEF MoveTurn, Moving
<1>7. ASSUME NEW i PROVE MoveTurn(k, Stopped, i) = Stopped
  BY DEF MoveTurn, Moving
<1> HIDE DEF Stopped
<1>8. MoveLoop(k)[n] = Stopped
  <2> DEFINE T == {i \in 0..n : i = 0 \/ MoveLoop(k)[i] = Stopped}
  <2>1. 0 \in T
    BY <1>1
  <2>2. ASSUME NEW i \in 0..(n - 1), i \in T PROVE i + 1 \in T
    <3>1. CASE i = 0
      <4>1. MoveLoop(k)[i + 1] = MoveTurn(k, MoveLoop(k)[i], i + 1)
        BY <1>4
      <4>2. MoveLoop(k)[i] = Moving(k, 0, FALSE)
        BY <1>3, <3>1, Zenon
      <4>3. i + 1 \in 0..n /\ i + 1 = 1
        BY <1>1, <3>1
      <4> QED
        BY <1>6, <4>1, <4>2, <4>3
    <3>2. CASE MoveLoop(k)[i] = Stopped
      <4>1. MoveLoop(k)[i + 1] = Stopped /\ i + 1 \in 0..n
        BY <1>1, <1>4, <1>7, <3>2
      <4> QED
        BY <4>1
    <3> QED
      BY <2>2, <3>1, <3>2
  <2>3. \A i \in T : i = 0 \/ MoveLoop(k)[i] = Stopped
    OBVIOUS
  <2> HIDE DEF T
  <2>4. \A i \in 0..n : i \in T
    BY <1>1, <2>1, <2>2, Upward
  <2> QED
    BY <1>1, <2>3, <2>4
<1>9. Items(Slice(k.rcv_buf)) = k.rcv_buf
  BY <1>1, SubSeqFull DEF Items, Slice
<1>10. k.rcv_queue \o [i \in 1..0 |-> k.rcv_nxt + i - 1] = k.rcv_queue
  <2>1. [i \in 1..0 |-> k.rcv_nxt + i - 1] = <<>>
    OBVIOUS
  <2> QED
    BY <1>1, <2>1, ConcatEmptySeq
<1>11. k.rcv_nxt + 0 - 0 = k.rcv_nxt
  BY <1>1
<1>12. MoveNext(k) = Moved(k, Moving(k, 0, TRUE))
  BY <1>8 DEF MoveNext, Stopped, n
<1>13. Moved(k, Moving(k, 0, TRUE)) =
        Panics([k EXCEPT !.rcv_buf = k.rcv_buf, !.rcv_nxt = k.rcv_nxt, !.rcv_queue = k.rcv_queue],
               Slice(k.rcv_buf))
  BY <1>5, <1>9, <1>10, <1>11 DEF Moved, Moving
<1>14. [k EXCEPT !.rcv_buf = k.rcv_buf, !.rcv_nxt = k.rcv_nxt, !.rcv_queue = k.rcv_queue] = k
  BY DEF Blocks
<1>15. Panics(k, Slice(k.rcv_buf)) = k
  <2>1. (k.panic \/ FALSE) = k.panic
    BY <1>1
  <2>2. Panics(k, Slice(k.rcv_buf)) = [k EXCEPT !.panic = k.panic]
    BY <2>1 DEF Panics, Slice
  <2> QED
    BY <2>2 DEF Blocks
<1> QED
  BY <1>12, <1>13, <1>14, <1>15

(* It moves the only segment, if that is the next one.                     *)
LEMMA MoveOne ==
  ASSUME NEW k \in Blocks, Len(k.rcv_buf) = 1, k.rcv_buf[1] = k.rcv_nxt, Len(k.rcv_queue) < Rcv_wnd
  PROVE  MoveNext(k) = [k EXCEPT !.rcv_buf = <<>>, !.rcv_nxt = k.rcv_nxt + 1,
                                 !.rcv_queue = Append(k.rcv_queue, k.rcv_nxt)]
<1> DEFINE d == Delete(Slice(k.rcv_buf), 1)
           moved == [slice |-> d, n |-> 1, stop |-> FALSE]
<1>1. /\ k.rcv_buf \in Seq(0..MaxSn) /\ k.rcv_nxt \in Nat /\ k.rcv_nxt \in 0..MaxSn
      /\ k.rcv_queue \in Seq(0..MaxSn) /\ Len(k.rcv_queue) \in Nat /\ k.panic \in BOOLEAN
  <2>1. k.rcv_buf \in Seq(0..MaxSn) /\ k.rcv_nxt \in Nat /\ k.rcv_queue \in Seq(0..MaxSn) /\ k.panic \in BOOLEAN
    BY DEF Blocks
  <2>2. k.rcv_buf[1] \in 0..MaxSn
    <3>1. 1 \in 1..Len(k.rcv_buf)
      OBVIOUS
    <3> QED
      BY <2>1, <3>1, ElementOfSeq
  <2> QED
    BY <2>1, <2>2, LenProperties
<1>2. MoveLoop(k) = [i \in 0..1 |-> IF i = 0 THEN Moving(k, 0, FALSE) ELSE MoveTurn(k, MoveLoop(k)[i - 1], i)]
  <2> DEFINE n == Len(k.rcv_buf)
  <2>1. n \in Nat /\ n = 1
    OBVIOUS
  <2>2. MoveLoop(k) = [i \in 0..n |-> IF i = 0 THEN Moving(k, 0, FALSE) ELSE MoveTurn(k, MoveLoop(k)[i - 1], i)]
    BY <2>1, MoveLoopTurns DEF Moving
  <2> HIDE DEF n
  <2> QED
    BY <2>1, <2>2
<1>3. MoveLoop(k)[0] = Moving(k, 0, FALSE)
  <2>1. 0 \in 0..1
    OBVIOUS
  <2> QED
    BY <1>2, <2>1
<1>4. MoveLoop(k)[1] = MoveTurn(k, MoveLoop(k)[0], 1)
  <2>1. 1 \in 0..1 /\ 1 # 0 /\ 1 - 1 = 0
    OBVIOUS
  <2> QED
    BY <1>2, <2>1
<1>5. Slice(k.rcv_buf).array = k.rcv_buf /\ ~Slice(k.rcv_buf).panic
  BY DEF Slice
<1>6. MoveTurn(k, Moving(k, 0, FALSE), 1) = moved
  <2>1. k.rcv_nxt + 0 = k.rcv_nxt /\ Len(k.rcv_queue) + 0 = Len(k.rcv_queue)
    BY <1>1
  <2>2. MoveTurn(k, Moving(k, 0, FALSE), 1) = [slice |-> Delete(Slice(k.rcv_buf), 1), n |-> 0 + 1, stop |-> FALSE]
    BY <1>5, <2>1 DEF MoveTurn, Moving
  <2>3. 0 + 1 = 1
    OBVIOUS
  <2> QED
    BY <2>2, <2>3, Zenon
<1>7. d.len = 0 /\ ~d.panic /\ Items(d) = <<>>
  <2>1. /\ Slice(k.rcv_buf).len = 1 /\ 1 \in Nat /\ 1 # 0 /\ 1 <= Slice(k.rcv_buf).len
        /\ IsSlice(Slice(k.rcv_buf), 0..MaxSn, 1)
    <3>1. /\ IsSlice(Slice(k.rcv_buf), 0..MaxSn, Len(k.rcv_buf))
          /\ Slice(k.rcv_buf).len = Len(k.rcv_buf)
      BY <1>1, SliceOf
    <3> QED
      BY <3>1
  <2>2. IsSlice(d, 0..MaxSn, 1) /\ d.len = Slice(k.rcv_buf).len - 1
    <3> DEFINE whole == Slice(k.rcv_buf)
    <3> HIDE DEF whole
    <3>1. 1 \in Nat /\ 1 # 0 /\ 1 <= whole.len /\ IsSlice(whole, 0..MaxSn, 1)
      BY <2>1 DEF whole
    <3>2. IsSlice(Delete(whole, 1), 0..MaxSn, 1) /\ Delete(whole, 1).len = whole.len - 1
      BY <3>1, Deleted
    <3> QED
      BY <3>2 DEF whole
  <2>3. d.len = 0 /\ ~d.panic
    <3>1. ~(1 > Slice(k.rcv_buf).len) /\ Slice(k.rcv_buf).len - 1 = 0
      BY <2>1
    <3> QED
      BY <1>5, <2>1, <2>2, <3>1 DEF Delete, IsSlice
  <2>4. Items(d) \in Seq(0..MaxSn) /\ Len(Items(d)) = d.len
    BY <2>2, ItemsOf
  <2> QED
    BY <2>3, <2>4, EmptySeq
<1> HIDE DEF d
<1>8. MoveNext(k) = Moved(k, moved)
  BY <1>3, <1>4, <1>6 DEF MoveNext
<1>9. k.rcv_queue \o [i \in 1..1 |-> k.rcv_nxt + i - 1] = Append(k.rcv_queue, k.rcv_nxt)
  <2>1. [i \in 1..1 |-> k.rcv_nxt + i - 1] = <<k.rcv_nxt>>
    <3>1. \A i \in 1..1 : k.rcv_nxt + i - 1 = k.rcv_nxt
      BY <1>1
    <3> QED
      BY <3>1
  <2> QED
    BY <1>1, <2>1, AppendIsConcat
<1>10. k.rcv_nxt + 1 - 0 = k.rcv_nxt + 1
  BY <1>1
<1> DEFINE b == [k EXCEPT !.rcv_buf = <<>>, !.rcv_nxt = k.rcv_nxt + 1,
                          !.rcv_queue = Append(k.rcv_queue, k.rcv_nxt)]
<1>11. Moved(k, moved) = Panics(b, d)
  BY <1>7, <1>9, <1>10 DEF Moved
<1>12. b.panic = k.panic /\ [b EXCEPT !.panic = k.panic] = b
  BY DEF Blocks
<1> HIDE DEF b
<1>13. Panics(b, d) = b
  <2>1. (k.panic \/ d.panic) = k.panic
    BY <1>1, <1>7
  <2> QED
    BY <1>12, <2>1 DEF Panics
<1> QED
  BY <1>8, <1>11, <1>13 DEF b

(* Parse_Data.                                                             *)
LEMMA DataGood ==
  ASSUME NEW D, NEW k, Good(k, D), k.ackcount > 0, NEW sn \in 0..MaxSn
  PROVE  Good(Parse_Data(k, sn), D) /\ Parse_Data(k, sn).snd_nxt = k.snd_nxt
<1> DEFINE a == [k EXCEPT !.rcv_buf = Append(k.rcv_buf, sn)]
           b == Parse_Data(k, sn)
<1>1. /\ k \in Blocks /\ k.rcv_buf \in Seq(0..MaxSn) /\ Len(k.rcv_buf) \in Nat
      /\ k.rcv_queue \in Seq(0..MaxSn) /\ Len(k.rcv_queue) \in Nat /\ k.rcv_nxt \in Nat
      /\ k.rcv_nxt <= Rcv_wnd /\ Len(k.rcv_queue) = k.rcv_nxt /\ Rcv_wnd \in Nat
  BY LenProperties, KcpAssumption DEF Good, Blocks, Received
<1>2. /\ Append(k.rcv_buf, sn) \in Seq(0..MaxSn) /\ Len(Append(k.rcv_buf, sn)) = Len(k.rcv_buf) + 1
      /\ \A i \in 1..Len(k.rcv_buf) : Append(k.rcv_buf, sn)[i] = k.rcv_buf[i]
      /\ Append(k.rcv_buf, sn)[Len(k.rcv_buf) + 1] = sn
  BY <1>1, AppendProperties
<1>3. b = k \/ b = MoveNext(a)
  BY DEF Parse_Data
<1> HIDE DEF a, b
<1>4. /\ a \in Blocks /\ a.rcv_buf = Append(k.rcv_buf, sn)
      /\ a.snd_buf = k.snd_buf /\ a.snd_nxt = k.snd_nxt /\ a.snd_una = k.snd_una
      /\ a.rcv_queue = k.rcv_queue /\ a.rcv_nxt = k.rcv_nxt /\ a.ackcount = k.ackcount
  BY <1>1, <1>2 DEF Blocks, a
<1>5. a.rcv_buf # <<>>
  <2>1. Len(a.rcv_buf) # 0
    BY <1>1, <1>2, <1>4
  <2> QED
    BY <2>1
<1>6. CASE a.rcv_buf[1] # a.rcv_nxt \/ ~(Len(a.rcv_queue) < Rcv_wnd)
  <2>1. MoveNext(a) = a
    BY <1>4, <1>5, <1>6, MoveStops
  <2>2. Blocked(a)
    BY <1>1, <1>4, <1>6 DEF Blocked
  <2>3. Good(a, D)
    BY <1>4, <2>2 DEF Good, Sending, Received
  <2> QED
    BY <1>3, <1>4, <2>1, <2>3 DEF b
<1>7. CASE a.rcv_buf[1] = a.rcv_nxt /\ Len(a.rcv_queue) < Rcv_wnd
  <2>1. Len(k.rcv_buf) = 0
    <3>1. SUFFICES ASSUME Len(k.rcv_buf) # 0 PROVE FALSE
      OBVIOUS
    <3>2. 1 \in 1..Len(k.rcv_buf) /\ k.rcv_buf # <<>>
      BY <1>1, <3>1, EmptySeq
    <3>3. k.rcv_buf[1] = k.rcv_nxt /\ Len(k.rcv_queue) # Rcv_wnd
      BY <1>1, <1>2, <1>4, <1>7, <3>2
    <3> QED
      BY <3>2, <3>3 DEF Good, Blocked
  <2> DEFINE m == MoveNext(a)
             q == Append(k.rcv_queue, k.rcv_nxt)
  <2>2. m = [a EXCEPT !.rcv_buf = <<>>, !.rcv_nxt = a.rcv_nxt + 1, !.rcv_queue = q]
    <3>1. Len(a.rcv_buf) = 1
      BY <1>2, <1>4, <2>1
    <3> QED
      BY <1>4, <1>7, <3>1, MoveOne
  <2>3. k.rcv_nxt \in 0..MaxSn
    BY <1>2, <1>4, <1>7, <2>1
  <2>4. /\ q \in Seq(0..MaxSn) /\ Len(q) = k.rcv_nxt + 1 /\ k.rcv_nxt + 1 <= Rcv_wnd
        /\ \A i \in 1..Len(k.rcv_queue) : q[i] = k.rcv_queue[i]
        /\ q[k.rcv_nxt + 1] = k.rcv_nxt
    <3>1. /\ q \in Seq(0..MaxSn) /\ Len(q) = Len(k.rcv_queue) + 1
          /\ \A i \in 1..Len(k.rcv_queue) : q[i] = k.rcv_queue[i]
          /\ q[Len(k.rcv_queue) + 1] = k.rcv_nxt
      BY <1>1, <2>3, AppendProperties
    <3> QED
      BY <1>1, <1>4, <1>7, <3>1
  <2> HIDE DEF m, q
  <2>5. /\ m \in Blocks /\ m.rcv_buf = <<>> /\ m.rcv_nxt = k.rcv_nxt + 1 /\ m.rcv_queue = q
        /\ m.snd_buf = k.snd_buf /\ m.snd_nxt = k.snd_nxt /\ m.snd_una = k.snd_una
        /\ m.ackcount = k.ackcount
    <3>1. <<>> \in Seq(0..MaxSn) /\ k.rcv_nxt + 1 \in Nat
      BY <1>1, EmptySeq
    <3> QED
      BY <1>4, <2>2, <2>4, <3>1 DEF Blocks
  <2>6. Received(m)
    <3>1. ASSUME NEW i \in 1..(k.rcv_nxt + 1) PROVE q[i] = i - 1
      <4>1. CASE i = k.rcv_nxt + 1
        BY <1>1, <2>4, <4>1
      <4>2. CASE i \in 1..Len(k.rcv_queue)
        BY <2>4, <4>2 DEF Good, Received
      <4> QED
        BY <1>1, <4>1, <4>2
    <3> QED
      BY <2>4, <2>5, <3>1 DEF Received
  <2>7. Sending(m) /\ Blocked(m)
    BY <2>5 DEF Good, Sending, Blocked
  <2>8. Good(m, D)
    BY <2>5, <2>6, <2>7 DEF Good
  <2> QED
    BY <1>3, <2>5, <2>8 DEF b, m
<1>8. Good(b, D) /\ b.snd_nxt = k.snd_nxt
  BY <1>6, <1>7 DEF b
<1> QED
  BY <1>8 DEF b

LEMMA PushGood ==
  ASSUME NEW D, NEW k, Good(k, D), NEW sn \in 0..MaxSn
  PROVE  Good(Push(k, sn), D) /\ Push(k, sn).snd_nxt = k.snd_nxt
<1> DEFINE b == Push(k, sn)
           a == Ack_Push(k)
<1>1. b = k \/ (a.panic /\ b = a) \/ (~a.panic /\ b = Parse_Data(a, sn))
  BY DEF Push
<1>2. Good(a, D) /\ a.snd_nxt = k.snd_nxt /\ (a.panic \/ a.ackcount > 0)
  BY AckPushGood
<1> HIDE DEF a, b
<1>3. CASE b = k
  BY <1>3 DEF b
<1>4. CASE b = a
  BY <1>2, <1>4 DEF b
<1>5. CASE ~a.panic /\ b = Parse_Data(a, sn)
  <2>1. Good(Parse_Data(a, sn), D) /\ Parse_Data(a, sn).snd_nxt = a.snd_nxt
    BY <1>2, <1>5, DataGood
  <2> QED
    BY <1>2, <1>5, <2>1 DEF b
<1> QED
  BY <1>1, <1>3, <1>4, <1>5

(* A segment keeps all of it, and so does a datagram, whose segments take  *)
(* nothing from the buffer but what they acknowledge.                      *)
LEMMA SegmentGood ==
  ASSUME kcp \in Blocks, NEW seg \in Segments, NEW D, Acknowledges(seg) \subseteq D,
         NEW k, Good(k, D), k.snd_nxt = kcp.snd_nxt
  PROVE  Good(InputSegment(k, seg), D) /\ InputSegment(k, seg).snd_nxt = kcp.snd_nxt
<1> DEFINE w == [k EXCEPT !.rmt_wnd = seg.wnd]
           p == Parse_Una(w, seg.una)
           s == Shrink_Buf(p)
           b == InputSegment(k, seg)
<1>1. k \in Blocks /\ k.snd_nxt \in Nat
  BY DEF Good, Blocks
<1>2. /\ seg.una \in Nat /\ seg.wnd \in {0, Rcv_wnd}
      /\ seg.cmd = "ack" => seg.sn \in 0..(kcp.snd_nxt - 1)
      /\ seg.cmd = "push" => seg.sn \in 0..MaxSn
  BY <1>1 DEF Segments
<1>3. \A n \in 0..(k.snd_nxt - 1) : n < seg.una => n \in D
  BY DEF Acknowledges
<1>4. seg.cmd = "ack" => seg.sn \in D
  BY <1>2 DEF Acknowledges
<1>5. \/ b = k
      \/ b = p
      \/ seg.cmd = "ack" /\ b = Shrink_Buf(Parse_Ack(s, seg.sn))
      \/ seg.cmd = "push" /\ b = Push(s, seg.sn)
      \/ b = [s EXCEPT !.probe = TRUE]
      \/ b = s
  BY DEF InputSegment
<1> HIDE DEF w, p, s, b
<1>6. Good(w, D) /\ w.snd_nxt = k.snd_nxt
  <2>1. /\ w \in Blocks /\ w.snd_buf = k.snd_buf /\ w.snd_nxt = k.snd_nxt /\ w.snd_una = k.snd_una
        /\ w.rcv_buf = k.rcv_buf /\ w.rcv_queue = k.rcv_queue /\ w.rcv_nxt = k.rcv_nxt
        /\ w.ackcount = k.ackcount
    BY <1>1, <1>2 DEF Blocks, w
  <2> QED
    BY <2>1 DEF Good, Sending, Received, Blocked
<1>7. Good(p, D) /\ p.snd_nxt = k.snd_nxt
  BY <1>2, <1>3, <1>6, UnaGood DEF p
<1>8. Good(s, D) /\ s.snd_nxt = k.snd_nxt
  BY <1>7, ShrinkGood DEF s
<1>9. CASE b = k \/ b = p \/ b = s
  BY <1>7, <1>8, <1>9 DEF b
<1>10. CASE seg.cmd = "ack" /\ b = Shrink_Buf(Parse_Ack(s, seg.sn))
  <2>1. Good(Parse_Ack(s, seg.sn), D) /\ Parse_Ack(s, seg.sn).snd_nxt = k.snd_nxt
    BY <1>4, <1>8, <1>10, AckGood
  <2> QED
    BY <1>10, <2>1, ShrinkGood DEF b
<1>11. CASE seg.cmd = "push" /\ b = Push(s, seg.sn)
  BY <1>2, <1>8, <1>11, PushGood DEF b
<1>12. CASE b = [s EXCEPT !.probe = TRUE]
  <2>1. s \in Blocks
    BY <1>8 DEF Good
  <2>2. /\ b \in Blocks /\ b.snd_buf = s.snd_buf /\ b.snd_nxt = s.snd_nxt /\ b.snd_una = s.snd_una
        /\ b.rcv_buf = s.rcv_buf /\ b.rcv_queue = s.rcv_queue /\ b.rcv_nxt = s.rcv_nxt
        /\ b.ackcount = s.ackcount
    BY <1>12, <2>1 DEF Blocks
  <2>3. Good(b, D)
    BY <1>8, <2>2 DEF Good, Sending, Received, Blocked
  <2> QED
    BY <1>8, <2>2, <2>3 DEF b
<1> QED
  BY <1>5, <1>9, <1>10, <1>11, <1>12

Acked(segs) == acked \cup UNION {Acknowledges(segs[i]) : i \in DOMAIN segs}

LEMMA DatagramGood ==
  ASSUME Good(kcp, acked), NEW n \in Nat, NEW segs \in [1..n -> Segments]
  PROVE  /\ Good(InputLoop(segs)[Len(segs)], Acked(segs))
         /\ InputLoop(segs)[Len(segs)].snd_nxt = kcp.snd_nxt
<1> DEFINE D == Acked(segs)
           T == {i \in 0..n : Good(InputLoop(segs)[i], D) /\ InputLoop(segs)[i].snd_nxt = kcp.snd_nxt}
<1>1. Len(segs) = n /\ DOMAIN segs = 1..n /\ \A i \in 1..n : segs[i] \in Segments
  BY LenProperties, IsASeq
<1>2. kcp \in Blocks
  BY DEF Good
<1>3. \A i \in 1..n : Acknowledges(segs[i]) \subseteq D
  BY <1>1 DEF Acked
<1>4. acked \subseteq D
  BY DEF Acked
<1> HIDE DEF D
<1>5. 0 \in T
  <2> DEFINE b == [kcp EXCEPT !.panic = FALSE]
  <2>1. InputLoop(segs)[0] = b
    BY <1>1, InputLoopTurns
  <2>2. /\ b \in Blocks /\ b.snd_buf = kcp.snd_buf /\ b.snd_nxt = kcp.snd_nxt
        /\ b.snd_una = kcp.snd_una /\ b.rcv_buf = kcp.rcv_buf /\ b.rcv_queue = kcp.rcv_queue
        /\ b.rcv_nxt = kcp.rcv_nxt /\ b.ackcount = kcp.ackcount
    BY <1>2 DEF Blocks
  <2> HIDE DEF b
  <2>3. Good(b, D)
    <3>1. \A m \in 0..(b.snd_nxt - 1) : m \in D \/ Holds(b.snd_buf, m)
      BY <1>4, <2>2 DEF Good
    <3> QED
      BY <2>2, <3>1 DEF Good, Sending, Received, Blocked
  <2> QED
    BY <2>1, <2>2, <2>3
<1>6. ASSUME NEW i \in 0..(n - 1), i \in T PROVE i + 1 \in T
  <2>1. i + 1 \in 1..n /\ i + 1 \in 0..n /\ i + 1 # 0 /\ (i + 1) - 1 = i
    OBVIOUS
  <2>2. InputLoop(segs)[i + 1] = InputSegment(InputLoop(segs)[i], segs[i + 1])
    BY <1>1, <2>1, InputLoopTurns
  <2> QED
    BY <1>1, <1>2, <1>3, <1>6, <2>1, <2>2, SegmentGood
<1> HIDE DEF T
<1>7. \A i \in 0..n : i \in T
  BY <1>5, <1>6, Upward
<1>8. n \in T
  BY <1>7
<1> QED
  BY <1>1, <1>8 DEF T, D

-----------------------------------------------------------------------------
(* The invariant.                                                          *)

LEMMA InvGood ==
  Inv <=> Good(kcp, acked) /\ given \in 0..MaxData /\ acked \subseteq 0..(kcp.snd_nxt - 1)
BY DEF Inv, TypeOK, UnackedKept, ReceivedInOrder, Good

LEMMA InitInv == Init => Inv
<1> SUFFICES ASSUME Init PROVE Inv
  OBVIOUS
<1>1. <<>> \in Seq(Sent) /\ <<>> \in Seq(0..MaxSn) /\ Len(<<>>) = 0
  OBVIOUS
<1>2. {Rcv_wnd, MaxData, AckRoom} \subseteq Nat
  BY KcpAssumption
<1>3. kcp \in Blocks
  BY <1>1, <1>2 DEF Init, Blocks
<1>4. /\ kcp.snd_buf = <<>> /\ kcp.snd_nxt = 0 /\ kcp.snd_una = 0 /\ kcp.rcv_buf = <<>>
      /\ kcp.rcv_queue = <<>> /\ kcp.rcv_nxt = 0 /\ acked = {} /\ given = 0
  BY DEF Init
<1>5. Good(kcp, acked)
  BY <1>1, <1>2, <1>3, <1>4 DEF Good, Ascending, Received, Sending, Blocked
<1> QED
  BY <1>2, <1>4, <1>5, InvGood

LEMMA SendInv ==
  ASSUME Inv, NEW size \in Sizes, Send(size)
  PROVE  Inv'
<1>1. kcp \in Blocks /\ kcp.snd_queue \in Nat /\ given \in Nat /\ acked \subseteq 0..(kcp.snd_nxt - 1)
  BY DEF Inv, TypeOK, Blocks
<1>2. SplitNum(size) \in Nat /\ given' \in 0..MaxData
  BY <1>1, KcpAssumption DEF SplitNum, Send
<1>3. kcp' = [kcp EXCEPT !.snd_queue = kcp.snd_queue + SplitNum(size), !.panic = FALSE] /\ acked' = acked
  BY DEF Send
<1>4. kcp.snd_queue + SplitNum(size) \in Nat
  BY <1>1, <1>2
<1>5. /\ kcp' \in Blocks /\ kcp'.snd_buf = kcp.snd_buf /\ kcp'.snd_nxt = kcp.snd_nxt
      /\ kcp'.snd_una = kcp.snd_una /\ kcp'.rcv_buf = kcp.rcv_buf /\ kcp'.rcv_queue = kcp.rcv_queue
      /\ kcp'.rcv_nxt = kcp.rcv_nxt /\ kcp'.ackcount = kcp.ackcount
  BY <1>1, <1>3, <1>4 DEF Blocks
<1> QED
  BY <1>1, <1>2, <1>3, <1>5
  DEF Inv, TypeOK, UnackedKept, ReceivedInOrder, Received, Sending, Blocked

LEMMA SetNodelayInv ==
  ASSUME Inv, NEW nc \in BOOLEAN, SetNodelay(nc)
  PROVE  Inv'
<1>1. kcp \in Blocks
  BY DEF Inv, TypeOK
<1>2. /\ kcp' \in Blocks /\ kcp'.snd_buf = kcp.snd_buf /\ kcp'.snd_nxt = kcp.snd_nxt
      /\ kcp'.snd_una = kcp.snd_una /\ kcp'.rcv_buf = kcp.rcv_buf /\ kcp'.rcv_queue = kcp.rcv_queue
      /\ kcp'.rcv_nxt = kcp.rcv_nxt /\ kcp'.ackcount = kcp.ackcount
  BY <1>1 DEF Blocks, SetNodelay
<1>3. given' = given /\ acked' = acked
  BY DEF SetNodelay
<1> QED
  BY <1>2, <1>3 DEF Inv, TypeOK, UnackedKept, ReceivedInOrder, Received, Sending, Blocked

(* Flush: what moves to the buffer is numbered on from snd_nxt, and has    *)
(* una 0, since nothing was received yet.                                  *)
LEMMA FlushInv ==
  ASSUME Inv, Flush
  PROVE  Inv'
<1> DEFINE moved == SmallerOf(Room, kcp.snd_queue)
           more  == [i \in 1..moved |-> Segment(kcp.snd_nxt + i - 1)]
           buf   == kcp.snd_buf \o more
<1>1. /\ kcp \in Blocks /\ kcp.snd_queue \in Nat /\ kcp.snd_buf \in Seq(Sent) /\ Len(kcp.snd_buf) \in Nat
      /\ kcp.snd_nxt \in Nat /\ kcp.snd_una \in Nat /\ kcp.rmt_wnd \in Nat /\ kcp.cwnd \in {0, 1}
      /\ kcp.rcv_nxt \in Nat /\ kcp.ackcount \in Nat /\ kcp.snd_una <= kcp.snd_nxt
  BY LenProperties, KcpAssumption DEF Inv, TypeOK, Blocks, Sending
<1>2. given' = given /\ acked' = acked
  BY DEF Flush
<1>3. CASE kcp' = [kcp EXCEPT !.panic = TRUE]
  <2>1. /\ kcp' \in Blocks /\ kcp'.snd_buf = kcp.snd_buf /\ kcp'.snd_nxt = kcp.snd_nxt
        /\ kcp'.snd_una = kcp.snd_una /\ kcp'.rcv_buf = kcp.rcv_buf /\ kcp'.rcv_queue = kcp.rcv_queue
        /\ kcp'.rcv_nxt = kcp.rcv_nxt /\ kcp'.ackcount = kcp.ackcount
    BY <1>1, <1>3 DEF Blocks
  <2> QED
    BY <1>2, <2>1 DEF Inv, TypeOK, UnackedKept, ReceivedInOrder, Received, Sending, Blocked
<1>4. CASE kcp' = [kcp EXCEPT !.cwnd = IF @ < 1 THEN 1 ELSE @, !.panic = FALSE]
  <2>1. (IF kcp.cwnd < 1 THEN 1 ELSE kcp.cwnd) \in {0, 1}
    BY <1>1
  <2>2. /\ kcp' \in Blocks /\ kcp'.snd_buf = kcp.snd_buf /\ kcp'.snd_nxt = kcp.snd_nxt
        /\ kcp'.snd_una = kcp.snd_una /\ kcp'.rcv_buf = kcp.rcv_buf /\ kcp'.rcv_queue = kcp.rcv_queue
        /\ kcp'.rcv_nxt = kcp.rcv_nxt /\ kcp'.ackcount = kcp.ackcount
    BY <1>1, <1>4, <2>1 DEF Blocks
  <2> QED
    BY <1>2, <2>2 DEF Inv, TypeOK, UnackedKept, ReceivedInOrder, Received, Sending, Blocked
<1>5. CASE /\ kcp.ackcount = 0
           /\ kcp' = [kcp EXCEPT !.snd_buf = buf, !.snd_queue = kcp.snd_queue - moved,
                                 !.snd_nxt = kcp.snd_nxt + moved, !.panic = TRUE]
  <2>1. moved \in Nat /\ moved <= kcp.snd_queue
    <3>1. Window \in Nat
      BY <1>1, KcpAssumption DEF Window, SmallerOf
    <3>2. Room \in Nat
      BY <1>1, <3>1 DEF Room
    <3> QED
      BY <1>1, <3>2 DEF SmallerOf
  <2>2. kcp.rcv_nxt = 0
    BY <1>1, <1>5 DEF Inv, Sending
  <2> HIDE DEF moved
  <2>3. /\ more \in Seq(Sent) /\ Len(more) = moved
        /\ \A i \in 1..moved : more[i].sn = kcp.snd_nxt + i - 1 /\ more[i].una = 0
    <3>1. \A i \in 1..moved : Segment(kcp.snd_nxt + i - 1) \in Sent
      BY <1>1, <2>1 DEF Segment, Sent
    <3>2. more \in Seq(Sent) /\ Len(more) = moved
      BY <2>1, <3>1, IsASeq, LenProperties
    <3> QED
      BY <2>2, <3>2 DEF Segment
  <2> HIDE DEF more
  <2>4. /\ buf \in Seq(Sent) /\ Len(buf) = Len(kcp.snd_buf) + moved
        /\ \A i \in 1..Len(kcp.snd_buf) : buf[i] = kcp.snd_buf[i]
        /\ \A i \in 1..moved : buf[Len(kcp.snd_buf) + i] = more[i]
    <3>1. /\ buf \in Seq(Sent) /\ Len(buf) = Len(kcp.snd_buf) + Len(more)
          /\ \A i \in 1..(Len(kcp.snd_buf) + Len(more)) :
               buf[i] = IF i <= Len(kcp.snd_buf) THEN kcp.snd_buf[i] ELSE more[i - Len(kcp.snd_buf)]
      BY <1>1, <2>3, ConcatProperties
    <3> QED
      BY <1>1, <2>1, <2>3, <3>1
  <2> HIDE DEF buf
  <2>5. /\ kcp' \in Blocks /\ kcp'.snd_buf = buf /\ kcp'.snd_nxt = kcp.snd_nxt + moved
        /\ kcp'.snd_una = kcp.snd_una /\ kcp'.rcv_buf = kcp.rcv_buf /\ kcp'.rcv_queue = kcp.rcv_queue
        /\ kcp'.rcv_nxt = kcp.rcv_nxt /\ kcp'.ackcount = kcp.ackcount
    <3>1. kcp.snd_queue - moved \in Nat /\ kcp.snd_nxt + moved \in Nat
      BY <1>1, <2>1
    <3> QED
      BY <1>1, <1>5, <2>4, <3>1 DEF Blocks
  <2>6. ASSUME NEW i \in 1..Len(buf)
        PROVE  /\ buf[i].sn \in Nat /\ buf[i].sn < kcp.snd_nxt + moved /\ buf[i].una = 0
               /\ i <= Len(kcp.snd_buf) => buf[i] = kcp.snd_buf[i] /\ buf[i].sn < kcp.snd_nxt
               /\ i > Len(kcp.snd_buf) => buf[i].sn = kcp.snd_nxt + (i - Len(kcp.snd_buf)) - 1
    <3>1. CASE i <= Len(kcp.snd_buf)
      <4>1. i \in 1..Len(kcp.snd_buf)
        BY <1>1, <2>4, <3>1
      <4>2. buf[i] = kcp.snd_buf[i] /\ kcp.snd_buf[i].sn < kcp.snd_nxt /\ kcp.snd_buf[i].una = 0
        BY <2>4, <4>1 DEF Inv, Sending
      <4>3. kcp.snd_buf[i].sn \in Nat
        <5>1. kcp.snd_buf[i] \in Sent
          BY <1>1, <4>1, ElementOfSeq
        <5> QED
          BY <5>1 DEF Sent
      <4> QED
        BY <1>1, <2>1, <3>1, <4>2, <4>3
    <3>2. CASE i > Len(kcp.snd_buf)
      <4>1. PICK j \in 1..moved : i = Len(kcp.snd_buf) + j
        <5>1. i - Len(kcp.snd_buf) \in 1..moved /\ i = Len(kcp.snd_buf) + (i - Len(kcp.snd_buf))
          BY <1>1, <2>1, <2>4, <3>2
        <5> QED
          BY <5>1
      <4>2. buf[i].sn = kcp.snd_nxt + j - 1 /\ buf[i].una = 0
        BY <2>3, <2>4, <4>1
      <4> QED
        BY <1>1, <2>1, <3>2, <4>1, <4>2
    <3> QED
      BY <1>1, <2>4, <3>1, <3>2
  <2>7. Ascending(kcp.snd_buf)'
    <3>1. ASSUME NEW i \in 1..Len(buf), NEW j \in 1..Len(buf), i < j PROVE buf[i].sn < buf[j].sn
      <4>1. CASE j <= Len(kcp.snd_buf)
        <5>1. i \in 1..Len(kcp.snd_buf) /\ j \in 1..Len(kcp.snd_buf)
          BY <1>1, <3>1, <4>1
        <5>2. kcp.snd_buf[i].sn < kcp.snd_buf[j].sn
          BY <3>1, <5>1 DEF Inv, UnackedKept, Ascending
        <5> QED
          BY <2>4, <5>1, <5>2
      <4>2. CASE j > Len(kcp.snd_buf) /\ i <= Len(kcp.snd_buf)
        BY <1>1, <2>6, <4>2
      <4>3. CASE i > Len(kcp.snd_buf)
        <5>1. /\ buf[i].sn = kcp.snd_nxt + (i - Len(kcp.snd_buf)) - 1
              /\ buf[j].sn = kcp.snd_nxt + (j - Len(kcp.snd_buf)) - 1
          <6>1. j > Len(kcp.snd_buf)
            BY <1>1, <3>1, <4>3
          <6> QED
            BY <2>6, <4>3, <6>1
        <5> QED
          BY <1>1, <3>1, <5>1
      <4> QED
        BY <1>1, <4>1, <4>2, <4>3
    <3> QED
      BY <2>5, <3>1 DEF Ascending
  <2>8. ASSUME NEW n \in 0..(kcp'.snd_nxt - 1), n \notin acked PROVE Holds(buf, n)
    <3>0. n \in Nat /\ n < kcp.snd_nxt + moved
      BY <1>1, <2>1, <2>5
    <3>1. CASE n \in 0..(kcp.snd_nxt - 1)
      <4>1. PICK i \in 1..Len(kcp.snd_buf) : kcp.snd_buf[i].sn = n
        BY <2>8, <3>1 DEF Inv, UnackedKept, Holds
      <4>2. i \in 1..Len(buf) /\ buf[i].sn = n
        BY <1>1, <2>1, <2>4, <4>1
      <4> QED
        BY <4>2 DEF Holds
    <3>2. CASE n >= kcp.snd_nxt
      <4>1. PICK j \in 1..moved : n = kcp.snd_nxt + j - 1
        <5>1. /\ (n - kcp.snd_nxt) + 1 \in 1..moved
              /\ n = kcp.snd_nxt + ((n - kcp.snd_nxt) + 1) - 1
          BY <1>1, <2>1, <3>0, <3>2
        <5> QED
          BY <5>1
      <4>2. buf[Len(kcp.snd_buf) + j].sn = n
        BY <2>3, <2>4, <4>1
      <4>3. Len(kcp.snd_buf) + j \in 1..Len(buf)
        <5>1. Len(buf) = Len(kcp.snd_buf) + moved
          BY <2>4
        <5> QED
          BY <1>1, <2>1, <5>1
      <4> QED
        BY <4>2, <4>3 DEF Holds
    <3> QED
      BY <1>1, <3>0, <3>1, <3>2
  <2>9. Sending(kcp)'
    <3>1. kcp.snd_una <= kcp.snd_nxt + moved
      BY <1>1, <2>1
    <3> QED
      BY <2>2, <2>5, <2>6, <3>1 DEF Sending
  <2>10. (UnackedKept /\ ReceivedInOrder /\ Blocked(kcp))'
    BY <1>2, <2>5, <2>7, <2>8 DEF Inv, UnackedKept, ReceivedInOrder, Received, Blocked
  <2>11. acked' \subseteq 0..(kcp'.snd_nxt - 1)
    BY <1>1, <1>2, <2>1, <2>5 DEF Inv, TypeOK
  <2> QED
    BY <1>2, <2>5, <2>9, <2>10, <2>11 DEF Inv, TypeOK
<1> QED
  BY <1>3, <1>4, <1>5 DEF Flush

LEMMA InputInv ==
  ASSUME Inv, NEW n \in 1..MaxSegments, NEW segs \in [1..n -> Segments], Input(segs)
  PROVE  Inv'
<1> DEFINE after == InputLoop(segs)[Len(segs)]
<1>1. n \in Nat /\ Good(kcp, acked) /\ kcp.snd_nxt \in Nat
  BY InvGood DEF Good, Blocks
<1>2. Good(after, Acked(segs)) /\ after.snd_nxt = kcp.snd_nxt
  BY <1>1, DatagramGood
<1>3. PICK end \in {"panic", "error"} : kcp' = [after EXCEPT !.panic = end = "panic"]
  BY DEF Input
<1>4. acked' = Acked(segs) /\ given' = given
  BY DEF Input, Acked
<1> HIDE DEF after
<1>5. after \in Blocks /\ (end = "panic") \in BOOLEAN
  BY <1>2 DEF Good
<1>6. /\ kcp' \in Blocks /\ kcp'.snd_buf = after.snd_buf /\ kcp'.snd_nxt = after.snd_nxt
      /\ kcp'.snd_una = after.snd_una /\ kcp'.rcv_buf = after.rcv_buf /\ kcp'.rcv_queue = after.rcv_queue
      /\ kcp'.rcv_nxt = after.rcv_nxt /\ kcp'.ackcount = after.ackcount
  BY <1>3, <1>5 DEF Blocks
<1>7. Acked(segs) \subseteq 0..(kcp.snd_nxt - 1)
  <2>1. acked \subseteq 0..(kcp.snd_nxt - 1)
    BY DEF Inv, TypeOK
  <2>2. \A i \in DOMAIN segs : Acknowledges(segs[i]) \subseteq 0..(kcp.snd_nxt - 1)
    BY DEF Acknowledges
  <2> QED
    BY <2>1, <2>2 DEF Acked
<1>8. (UnackedKept /\ ReceivedInOrder /\ Sending(kcp) /\ Blocked(kcp))'
  BY <1>2, <1>4, <1>6 DEF Good, UnackedKept, ReceivedInOrder, Received, Sending, Blocked
<1>9. TypeOK'
  BY <1>2, <1>4, <1>6, <1>7 DEF TypeOK, Inv
<1> QED
  BY <1>8, <1>9 DEF Inv

(* The invariant holds of every run, whatever calls and datagrams come, and *)
(* wherever they panic.                                                    *)
THEOREM Invariance == Spec => []Inv
<1>1. Inv /\ [Next]_vars => Inv'
  <2> SUFFICES ASSUME Inv, [Next]_vars PROVE Inv'
    OBVIOUS
  <2>1. ASSUME NEW size \in Sizes, Send(size) PROVE Inv'
    BY <2>1, SendInv
  <2>2. CASE Flush
    BY <2>2, FlushInv
  <2>3. ASSUME NEW nc \in BOOLEAN, SetNodelay(nc) PROVE Inv'
    BY <2>3, SetNodelayInv
  <2>4. ASSUME NEW n \in 1..MaxSegments, NEW segs \in [1..n -> Segments], Input(segs) PROVE Inv'
    BY <2>4, InputInv
  <2>5. CASE UNCHANGED vars
    BY <2>5 DEF vars, Inv, TypeOK, UnackedKept, ReceivedInOrder, Received, Sending, Blocked
  <2> QED
    BY <2>1, <2>2, <2>3, <2>4, <2>5 DEF Next
<1> QED
  BY <1>1, InitInv, PTL DEF Spec

(* Parse_Una and Parse_Ack delete from the buffer they walk over: still    *)
(* every segment that was sent and not acknowledged stays in snd_buf, in   *)
(* order.                                                                  *)
THEOREM Kept == Spec => []UnackedKept
<1>1. Inv => UnackedKept
  BY DEF Inv
<1> QED
  BY <1>1, Invariance, PTL

(* Parse_Data lets through the stream of the other end and nothing else:   *)
(* rcv_queue never has a gap or a repetition.                              *)
THEOREM InOrder == Spec => []ReceivedInOrder
<1>1. Inv => ReceivedInOrder
  BY DEF Inv
<1> QED
  BY <1>1, Invariance, PTL
=============================================================================
