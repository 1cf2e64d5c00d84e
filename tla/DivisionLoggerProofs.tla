------------------------- MODULE DivisionLoggerProofs -------------------------
(***************************************************************************)
(* Proofs about DivisionLogger, for any directory to begin with, any       *)
(* retention, and any number of days, lines, failures and restarts.  The   *)
(* loops of LogRetention are reasoned about by induction over their turns: *)
(* the library's induction theorems cannot be used here, so Upward states  *)
(* induction over the members of a set.                                    *)
(***************************************************************************)
EXTENDS DivisionLogger, FiniteSetTheorems, SequenceTheorems, WellFoundedInduction, TLAPS

-----------------------------------------------------------------------------
(* Loops that pick elements of a sequence.                                 *)

(* Induction up to n.                                                      *)
LEMMA Upward ==
  ASSUME NEW n \in Nat, NEW T, 0 \in T, \A i \in 0..(n - 1) : i \in T => i + 1 \in T
  PROVE  \A i \in 0..n : i \in T
<1> DEFINE F == {i \in Nat : i <= n /\ i \notin T}
<1>1. ASSUME F # {} PROVE FALSE
  <2>1. PICK m \in F : \A i \in F : ~(<<i, m>> \in OpToRel(<, Nat))
    <3>1. F \subseteq Nat
      OBVIOUS
    <3> HIDE DEF F
    <3> QED
      BY <1>1, <3>1, WFMin, NatLessThanWellFounded
  <2>2. \A i \in F : ~(i < m)
    BY <2>1 DEF OpToRel
  <2>3. m # 0 /\ m - 1 \in 0..(n - 1) /\ m - 1 \in T
    BY <2>2
  <2> QED
    BY <2>3
<1> QED
  BY <1>1

(* The loop is what its definition says of it, turn by turn.               *)
Turn(s, I, before, i) == IF i \in I THEN Append(before, s[i]) ELSE before

LEMMA PickingTurns ==
  ASSUME NEW s, Len(s) \in Nat, NEW I
  PROVE  Picking(s, I) =
           [i \in 0..Len(s) |-> IF i = 0 THEN <<>> ELSE Turn(s, I, Picking(s, I)[i - 1], i)]
<1> DEFINE Done(m) == \E f : f = [i \in 0..m |-> IF i = 0 THEN <<>> ELSE Turn(s, I, f[i - 1], i)]
<1>1. Done(0)
  <2> DEFINE f == [i \in 0..0 |-> <<>>]
  <2>1. f = [i \in 0..0 |-> IF i = 0 THEN <<>> ELSE Turn(s, I, f[i - 1], i)]
    OBVIOUS
  <2> QED
    BY <2>1
<1>2. ASSUME NEW m \in Nat, Done(m) PROVE Done(m + 1)
  <2>1. PICK f : f = [i \in 0..m |-> IF i = 0 THEN <<>> ELSE Turn(s, I, f[i - 1], i)]
    BY <1>2
  <2> DEFINE g == [i \in 0..(m + 1) |-> IF i <= m THEN f[i] ELSE Turn(s, I, f[m], m + 1)]
  <2>2. \A i \in 0..m : g[i] = f[i]
    OBVIOUS
  <2>3. ASSUME NEW i \in 0..(m + 1)
        PROVE  g[i] = IF i = 0 THEN <<>> ELSE Turn(s, I, g[i - 1], i)
    <3>1. CASE i = 0
      BY <2>1, <3>1
    <3>2. CASE i \in 1..m
      <4>1. i - 1 \in 0..m /\ i \in 0..m /\ i # 0
        BY <3>2
      <4> QED
        BY <2>1, <2>2, <4>1
    <3>3. CASE i = m + 1
      <4>1. g[i] = Turn(s, I, f[m], m + 1) /\ g[i - 1] = f[m]
        BY <2>2, <3>3
      <4> QED
        BY <3>3, <4>1
    <3> QED
      BY <3>1, <3>2, <3>3
  <2>4. g = [i \in 0..(m + 1) |-> IF i = 0 THEN <<>> ELSE Turn(s, I, g[i - 1], i)]
    BY <2>3
  <2> QED
    BY <2>4
<1> HIDE DEF Done
<1>3. Done(Len(s))
  <2> DEFINE T == {m \in Nat : Done(m)}
  <2>1. 0 \in T /\ \A i \in 0..(Len(s) - 1) : i \in T => i + 1 \in T
    BY <1>1, <1>2
  <2>2. \A m \in T : Done(m)
    OBVIOUS
  <2> HIDE DEF T
  <2>3. \A m \in 0..Len(s) : m \in T
    BY <2>1, Upward
  <2> QED
    BY <2>2, <2>3
<1> QED
  BY <1>3 DEF Picking, Done, Turn

(* What is picked from the first n elements: those at the indices in I, in *)
(* their order.                                                            *)
PickedFrom(p, s, I, n) ==
  /\ \A k \in 1..Len(p) : \E i \in I \cap (1..n) : p[k] = s[i]
  /\ \A i \in I \cap (1..n) : \E k \in 1..Len(p) : p[k] = s[i]
  /\ \A k, l \in 1..Len(p) : k < l => \E i, j \in I \cap (1..n) : i < j /\ p[k] = s[i] /\ p[l] = s[j]

LEMMA TurnPicks ==
  ASSUME NEW S, NEW s \in Seq(S), NEW I, NEW n \in 0..(Len(s) - 1),
         NEW p \in Seq(S), PickedFrom(p, s, I, n)
  PROVE  Turn(s, I, p, n + 1) \in Seq(S) /\ PickedFrom(Turn(s, I, p, n + 1), s, I, n + 1)
<1>1. /\ n \in Nat /\ n + 1 \in 1..(n + 1) /\ \A i \in 1..(n + 1) : i \in 1..n \/ i = n + 1
      /\ \A i \in 1..n : i \in 1..(n + 1) /\ i < n + 1 /\ i # n + 1
      /\ s[n + 1] \in S /\ Len(p) \in Nat
  BY ElementOfSeq, LenProperties
<1>2. CASE n + 1 \notin I
  <2>1. Turn(s, I, p, n + 1) = p
    BY <1>2 DEF Turn
  <2>2. I \cap (1..(n + 1)) = I \cap (1..n)
    BY <1>1, <1>2
  <2>3. PickedFrom(p, s, I, n + 1)
    <3> DEFINE J == I \cap (1..n)
               K == I \cap (1..(n + 1))
    <3>1. /\ \A k \in 1..Len(p) : \E i \in J : p[k] = s[i]
          /\ \A i \in J : \E k \in 1..Len(p) : p[k] = s[i]
          /\ \A k, l \in 1..Len(p) : k < l => \E i, j \in J : i < j /\ p[k] = s[i] /\ p[l] = s[j]
      BY DEF PickedFrom
    <3>2. J = K
      BY <2>2
    <3> HIDE DEF J, K
    <3>3. /\ \A k \in 1..Len(p) : \E i \in K : p[k] = s[i]
          /\ \A i \in K : \E k \in 1..Len(p) : p[k] = s[i]
          /\ \A k, l \in 1..Len(p) : k < l => \E i, j \in K : i < j /\ p[k] = s[i] /\ p[l] = s[j]
      BY <3>1, <3>2
    <3> QED
      BY <3>3 DEF PickedFrom, K
  <2> QED
    BY <2>1, <2>3
<1>3. CASE n + 1 \in I
  <2> DEFINE q == Append(p, s[n + 1])
  <2>1. /\ q \in Seq(S) /\ Len(q) = Len(p) + 1
        /\ \A k \in 1..Len(p) : q[k] = p[k]
        /\ q[Len(p) + 1] = s[n + 1]
    BY <1>1, AppendProperties
  <2>2. Turn(s, I, p, n + 1) = q
    BY <1>3 DEF Turn
  <2> HIDE DEF q
  <2>3. \A k \in 1..Len(q) : k \in 1..Len(p) \/ k = Len(p) + 1
    BY <1>1, <2>1
  <2>4. \A k \in 1..Len(p) : k \in 1..Len(q) /\ k < Len(p) + 1
    BY <1>1, <2>1
  <2>5. n + 1 \in I \cap (1..(n + 1))
    BY <1>1, <1>3
  <2>6. ASSUME NEW k \in 1..Len(q) PROVE \E i \in I \cap (1..(n + 1)) : q[k] = s[i]
    <3>1. CASE k = Len(p) + 1
      BY <2>1, <2>5, <3>1
    <3>2. CASE k \in 1..Len(p)
      <4>1. PICK i \in I \cap (1..n) : p[k] = s[i]
        BY <3>2 DEF PickedFrom
      <4> QED
        BY <1>1, <2>1, <3>2, <4>1
    <3> QED
      BY <2>3, <3>1, <3>2
  <2>7. ASSUME NEW i \in I \cap (1..(n + 1)) PROVE \E k \in 1..Len(q) : q[k] = s[i]
    <3>1. CASE i = n + 1
      <4>1. Len(p) + 1 \in 1..Len(q)
        BY <1>1, <2>1
      <4> QED
        BY <2>1, <3>1, <4>1
    <3>2. CASE i \in 1..n
      <4>1. PICK k \in 1..Len(p) : p[k] = s[i]
        BY <3>2 DEF PickedFrom
      <4> QED
        BY <2>1, <2>4, <4>1
    <3> QED
      BY <1>1, <3>1, <3>2
  <2>8. ASSUME NEW k \in 1..Len(q), NEW l \in 1..Len(q), k < l
        PROVE  \E i, j \in I \cap (1..(n + 1)) : i < j /\ q[k] = s[i] /\ q[l] = s[j]
    <3>1. k \in 1..Len(p)
      BY <1>1, <2>1, <2>8
    <3>2. CASE l = Len(p) + 1
      <4>1. PICK i \in I \cap (1..n) : p[k] = s[i]
        BY <3>1 DEF PickedFrom
      <4> QED
        BY <1>1, <2>1, <2>5, <3>1, <3>2, <4>1
    <3>3. CASE l \in 1..Len(p)
      <4>1. PICK i \in I \cap (1..n), j \in I \cap (1..n) : i < j /\ p[k] = s[i] /\ p[l] = s[j]
        BY <2>8, <3>1, <3>3 DEF PickedFrom
      <4> QED
        BY <1>1, <2>1, <3>1, <3>3, <4>1
    <3> QED
      BY <2>3, <3>2, <3>3
  <2>9. PickedFrom(q, s, I, n + 1)
    BY <2>6, <2>7, <2>8 DEF PickedFrom
  <2> QED
    BY <2>1, <2>2, <2>9
<1> QED
  BY <1>2, <1>3

LEMMA PickedIs ==
  ASSUME NEW S, NEW s \in Seq(S), NEW I
  PROVE  Picked(s, I) \in Seq(S) /\ PickedFrom(Picked(s, I), s, I, Len(s))
<1> DEFINE T == {n \in 0..Len(s) : Picking(s, I)[n] \in Seq(S) /\ PickedFrom(Picking(s, I)[n], s, I, n)}
<1>1. Len(s) \in Nat
  BY LenProperties
<1>2. 0 \in T
  <2>1. Picking(s, I)[0] = <<>>
    BY <1>1, PickingTurns
  <2>2. <<>> \in Seq(S) /\ PickedFrom(<<>>, s, I, 0)
    <3>1. 1..0 = {} /\ Len(<<>>) = 0 /\ <<>> \in Seq(S)
      OBVIOUS
    <3> QED
      BY <3>1 DEF PickedFrom
  <2>3. 0 \in 0..Len(s)
    BY <1>1
  <2> QED
    BY <2>1, <2>2, <2>3
<1>3. ASSUME NEW n \in 0..(Len(s) - 1), n \in T PROVE n + 1 \in T
  <2>1. n + 1 \in 0..Len(s) /\ n + 1 # 0 /\ (n + 1) - 1 = n
    BY <1>1
  <2>2. Picking(s, I)[n + 1] = Turn(s, I, Picking(s, I)[n], n + 1)
    BY <1>1, <2>1, PickingTurns
  <2> QED
    BY <1>3, <2>1, <2>2, TurnPicks
<1> HIDE DEF T
<1>4. \A n \in 0..Len(s) : n \in T
  BY <1>1, <1>2, <1>3, Upward
<1>5. Len(s) \in T
  BY <1>1, <1>4
<1> QED
  BY <1>5 DEF T, Picked

-----------------------------------------------------------------------------
(* The listing that is sorted.                                             *)

LEMMA Maximum ==
  ASSUME NEW last \in Nat, NEW D \in SUBSET (1..last), D # {}
  PROVE  Max(D) \in D /\ \A d \in D : d <= Max(D)
<1> DEFINE Bounded(n) == (\A d \in D : d > n) \/ \E m \in D : \A d \in D : d <= n => d <= m
           T == {n \in 0..last : Bounded(n)}
<1>1. 0 \in T
  OBVIOUS
<1>2. ASSUME NEW n \in 0..(last - 1), n \in T PROVE n + 1 \in T
  <2>1. n + 1 \in 0..last
    OBVIOUS
  <2>2. CASE n + 1 \in D
    <3>1. \A d \in D : d <= n + 1 => d <= n + 1
      OBVIOUS
    <3> QED
      BY <2>1, <2>2, <3>1
  <2>3. CASE n + 1 \notin D
    <3>1. \A d \in D : (d > n => d > n + 1) /\ (d <= n + 1 => d <= n)
      BY <2>3
    <3>2. CASE \A d \in D : d > n
      BY <2>1, <3>1, <3>2
    <3>3. CASE \E m \in D : \A d \in D : d <= n => d <= m
      BY <2>1, <3>1, <3>3
    <3> QED
      BY <1>2, <3>2, <3>3
  <2> QED
    BY <2>2, <2>3
<1>3. \A n \in T : Bounded(n)
  OBVIOUS
<1> HIDE DEF T
<1>4. last \in T
  <2>1. \A n \in 0..last : n \in T
    BY <1>1, <1>2, Upward
  <2> QED
    BY <2>1
<1>5. PICK m \in D : \A d \in D : d <= m
  <2>1. \A d \in D : d <= last /\ ~(d > last)
    OBVIOUS
  <2>2. \E m \in D : \A d \in D : d <= last => d <= m
    BY <1>3, <1>4, <2>1
  <2> QED
    BY <2>1, <2>2
<1>6. m \in D /\ \A d \in D : m >= d
  BY <1>5
<1>7. Max(D) = CHOOSE x \in D : \A y \in D : x >= y
  BY DEF Max
<1>8. Max(D) \in D /\ \A y \in D : Max(D) >= y
  BY <1>6, <1>7
<1> QED
  BY <1>8

LEMMA Halves ==
  ASSUME NEW i \in Nat, i # 0
  PROVE  /\ (i - 1) \div 2 \in Nat
         /\ \/ i % 2 = 1 /\ i = 2 * ((i - 1) \div 2) + 1
            \/ i % 2 = 0 /\ i = 2 * ((i - 1) \div 2) + 2
OBVIOUS

(* The files under a prefix, and a listing of some of them, newest first.  *)
Under(p) == [name : {p} \X Nat, gz : BOOLEAN]

NewestToOldest(s) ==
  \A i, j \in 1..Len(s) : i < j => s[i] # s[j] /\ s[j].name[2] <= s[i].name[2]

LEMMA FormsAre ==
  ASSUME NEW p \in Nat, NEW latest \in Nat, NEW z
  PROVE  /\ Forms(p, latest, z) \in Seq(Under(p)) /\ Len(Forms(p, latest, z)) = 2 * latest
         /\ NewestToOldest(Forms(p, latest, z))
         /\ \A f \in Under(p) : f.name[2] \in 1..latest =>
              \E i \in 1..(2 * latest) : Forms(p, latest, z)[i] = f
<1> DEFINE s == Forms(p, latest, z)
           half(i) == (i - 1) \div 2
<1>0. 2 * latest \in Nat
  OBVIOUS
<1>1. ASSUME NEW i \in 1..(2 * latest)
      PROVE  /\ half(i) \in Nat /\ latest - half(i) \in 1..latest
             /\ \/ i % 2 = 1 /\ i = 2 * half(i) + 1
                \/ i % 2 = 0 /\ i = 2 * half(i) + 2
  BY <1>0, Halves
<1> HIDE DEF half
<1>2. s = [i \in 1..(2 * latest) |->
             [name |-> <<p, latest - half(i)>>, gz |-> (i % 2 = 1) <=> latest - half(i) \in z]]
  BY DEF Forms, half
<1>3. \A i \in 1..(2 * latest) :
         [name |-> <<p, latest - half(i)>>, gz |-> (i % 2 = 1) <=> latest - half(i) \in z] \in Under(p)
  BY <1>1 DEF Under
<1>4. s \in Seq(Under(p)) /\ Len(s) = 2 * latest
  <2> DEFINE e(i) == [name |-> <<p, latest - half(i)>>, gz |-> (i % 2 = 1) <=> latest - half(i) \in z]
  <2>1. \A i \in 1..(2 * latest) : e(i) \in Under(p)
    BY <1>3
  <2>2. s = [i \in 1..(2 * latest) |-> e(i)]
    BY <1>2
  <2> HIDE DEF e
  <2> QED
    BY <1>0, <2>1, <2>2, IsASeq, LenProperties
<1>5. ASSUME NEW i \in 1..(2 * latest)
      PROVE  s[i].name[2] = latest - half(i) /\ (s[i].gz <=> ((i % 2 = 1) <=> latest - half(i) \in z))
  <2> DEFINE d == latest - half(i)
             b == (i % 2 = 1) <=> d \in z
  <2>1. s[i] = [name |-> <<p, d>>, gz |-> b]
    BY <1>2
  <2> HIDE DEF b, d, s
  <2>2. s[i].name = <<p, d>> /\ s[i].gz = b
    BY <2>1
  <2>3. s[i].name[2] = d
    BY <2>2
  <2> QED
    BY <2>2, <2>3, Zenon DEF b, d
<1> HIDE DEF s
<1>6. ASSUME NEW i \in 1..(2 * latest), NEW j \in 1..(2 * latest), i < j
      PROVE  s[i] # s[j] /\ s[j].name[2] <= s[i].name[2]
  <2> DEFINE hi == half(i)
             hj == half(j)
  <2>1. /\ i \in Nat /\ j \in Nat /\ hi \in Nat /\ hj \in Nat
        /\ i = 2 * hi + 1 \/ i = 2 * hi + 2
        /\ j = 2 * hj + 1 \/ j = 2 * hj + 2
    BY <1>0, <1>1
  <2>2. s[i].name[2] = latest - hi /\ s[j].name[2] = latest - hj
    BY <1>5
  <2> HIDE DEF hi, hj
  <2>3. hi <= hj
    BY <1>6, <2>1
  <2>4. s[j].name[2] <= s[i].name[2]
    BY <2>1, <2>2, <2>3
  <2>5. CASE hi = hj
    <3>1. i = 2 * hi + 1 /\ j = 2 * hi + 2
      BY <1>6, <2>1, <2>5
    <3>2. i % 2 = 1 /\ ~(j % 2 = 1)
      BY <3>1, <2>1
    <3>3. (s[i].gz <=> latest - hi \in z) /\ ~(s[j].gz <=> latest - hi \in z)
      BY <1>5, <2>5, <3>2, Zenon DEF hi, hj
    <3>4. s[i] # s[j]
      BY <3>3, Zenon
    <3> QED
      BY <2>4, <3>4
  <2>6. CASE hi # hj
    <3>1. latest - hi # latest - hj
      BY <2>1, <2>6
    <3>2. s[i] # s[j]
      BY <2>2, <3>1
    <3> QED
      BY <2>4, <3>2
  <2> QED
    BY <2>5, <2>6
<1>7. ASSUME NEW f \in Under(p), f.name[2] \in 1..latest
      PROVE  \E i \in 1..(2 * latest) : s[i] = f
  <2> DEFINE d == f.name[2]
             i == IF f.gz <=> d \in z THEN 2 * (latest - d) + 1 ELSE 2 * (latest - d) + 2
  <2>1. f = [name |-> <<p, d>>, gz |-> f.gz] /\ d \in 1..latest /\ f.gz \in BOOLEAN
    BY <1>7 DEF Under
  <2> HIDE DEF d
  <2>2. i \in 1..(2 * latest)
    BY <2>1
  <2>3. half(i) = latest - d /\ (i % 2 = 1 <=> (f.gz <=> d \in z))
    BY <1>1, <2>1, <2>2
  <2> HIDE DEF i
  <2>4. latest - half(i) = d
    BY <2>1, <2>3
  <2>5. s[i] = [name |-> <<p, d>>, gz |-> (i % 2 = 1) <=> d \in z]
    BY <1>2, <2>2, <2>4 DEF s
  <2>6. ((i % 2 = 1) <=> d \in z) = f.gz
    BY <2>1, <2>3
  <2> QED
    BY <2>1, <2>2, <2>5, <2>6
<1> QED
  BY <1>4, <1>6, <1>7 DEF NewestToOldest, s

(* Sorting lists each file once, newest first.                             *)
Lists(s, files) ==
  /\ s \in Seq(files) /\ Len(s) \in Nat
  /\ \A f \in files : \E i \in 1..Len(s) : s[i] = f
  /\ NewestToOldest(s)

LEMMA SortedLists ==
  ASSUME NEW p \in Nat, NEW last \in Nat, NEW files \in SUBSET Under(p),
         \A f \in files : f.name[2] \in 1..last, NEW s \in NewestFirst(files, p)
  PROVE  Lists(s, files)
<1>1. CASE files = {}
  <2>1. s = <<>> /\ <<>> \in Seq(files) /\ Len(<<>>) = 0
    BY <1>1 DEF NewestFirst
  <2> QED
    BY <1>1, <2>1 DEF Lists, NewestToOldest
<1>2. CASE files # {}
  <2> DEFINE D == {Date(f) : f \in files}
             latest == Max(D)
  <2>1. /\ latest \in 1..last /\ latest \in Nat
        /\ \A f \in files : f \in Under(p) /\ f.name[2] \in 1..latest
    <3>1. D \in SUBSET (1..last) /\ D # {} /\ \A f \in files : f.name[2] \in D
      BY <1>2 DEF Date
    <3> HIDE DEF D
    <3>2. Max(D) \in D /\ \A d \in D : d <= Max(D)
      BY <3>1, Maximum
    <3>3. Max(D) \in Nat /\ Max(D) \in 1..last
      <4>1. Max(D) \in 1..last
        BY <3>1, <3>2, Zenon
      <4> QED
        BY <4>1
    <3>4. ASSUME NEW f \in files PROVE f \in Under(p) /\ f.name[2] \in 1..Max(D)
      <4>1. f.name[2] \in 1..last /\ f.name[2] <= Max(D)
        BY <3>1, <3>2
      <4> QED
        BY <3>3, <4>1
    <3> QED
      BY <3>3, <3>4
  <2> DEFINE all(z) == Forms(p, latest, z)
             I(z)   == {i \in 1..(2 * latest) : all(z)[i] \in files}
  <2>2. PICK z : s = Picked(all(z), I(z))
    BY <1>2 DEF NewestFirst
  <2> DEFINE forms == Forms(p, latest, z)
             J == {i \in 1..(2 * latest) : forms[i] \in files}
  <2>3. s = Picked(forms, J)
    BY <2>2
  <2> HIDE DEF D, latest, all, I
  <2>4. /\ forms \in Seq(Under(p)) /\ Len(forms) = 2 * latest /\ NewestToOldest(forms)
        /\ \A f \in files : \E i \in 1..(2 * latest) : forms[i] = f
    BY <2>1, FormsAre
  <2> HIDE DEF forms
  <2>5. s \in Seq(Under(p)) /\ PickedFrom(s, forms, J, 2 * latest)
    BY <2>3, <2>4, PickedIs
  <2>6. J \cap (1..(2 * latest)) = J /\ J \subseteq 1..Len(forms)
    BY <2>4
  <2>7. \A k \in 1..Len(s) : s[k] \in files
    BY <2>5 DEF PickedFrom
  <2>8. s \in Seq(files) /\ Len(s) \in Nat
    BY <2>5, <2>7, LenProperties, IsASeq
  <2>9. ASSUME NEW f \in files PROVE \E k \in 1..Len(s) : s[k] = f
    <3>1. PICK i \in 1..(2 * latest) : forms[i] = f
      BY <2>4
    <3>2. i \in J \cap (1..(2 * latest))
      BY <3>1
    <3> QED
      BY <2>5, <3>1, <3>2 DEF PickedFrom
  <2>10. NewestToOldest(s)
    <3>1. ASSUME NEW k \in 1..Len(s), NEW l \in 1..Len(s), k < l
          PROVE  s[k] # s[l] /\ s[l].name[2] <= s[k].name[2]
      <4>1. PICK i \in J, j \in J : i < j /\ s[k] = forms[i] /\ s[l] = forms[j]
        BY <2>5, <2>6, <3>1 DEF PickedFrom
      <4> QED
        BY <2>4, <2>6, <4>1 DEF NewestToOldest
    <3> QED
      BY <3>1 DEF NewestToOldest
  <2> QED
    BY <2>8, <2>9, <2>10 DEF Lists
<1> QED
  BY <1>1, <1>2

-----------------------------------------------------------------------------
(* The plan.                                                               *)

(* The names of the backups that are newer than f.                         *)
NewerIn(files, f) == {g.name : g \in {h \in files : h.name[2] > f.name[2]}}

StaysIn(files, f, today, maxBackups, maxAge) ==
  /\ maxBackups > 0 => Cardinality(NewerIn(files, f)) < maxBackups
  /\ ~TooOld(f, today, maxAge)

(* Backups past the first maxBackups are those that have as many newer     *)
(* ones, although a backup may be listed twice.                            *)
LEMMA PastAre ==
  ASSUME NEW p \in Nat, NEW files \in SUBSET Under(p), NEW s, Lists(s, files),
         NEW maxBackups \in Nat, NEW i \in 1..Len(s)
  PROVE  i \in Past(s, maxBackups) <=> maxBackups > 0 /\ Cardinality(NewerIn(files, s[i])) >= maxBackups
<1> DEFINE A == {s[j].name : j \in 1..i}
           N == NewerIn(files, s[i])
           own == s[i].name
<1>1. /\ Len(s) \in Nat /\ i \in Nat /\ i <= Len(s)
      /\ \A j \in 1..Len(s) : s[j] \in files /\ s[j].name = <<p, s[j].name[2]>> /\ s[j].name[2] \in Nat
      /\ \A f \in files : f.name[2] \in Nat
      /\ \A j \in 1..i : j \in 1..Len(s)
  <2>1. Len(s) \in Nat /\ i \in Nat /\ i <= Len(s) /\ \A j \in 1..i : j \in 1..Len(s)
    BY DEF Lists
  <2>2. \A j \in 1..Len(s) : s[j] \in files
    BY ElementOfSeq DEF Lists
  <2>3. \A f \in files : f.name = <<p, f.name[2]>> /\ f.name[2] \in Nat
    <3>1. ASSUME NEW f \in files PROVE f.name = <<p, f.name[2]>> /\ f.name[2] \in Nat
      <4>1. f.name \in {p} \X Nat
        BY DEF Under
      <4> QED
        BY <4>1
    <3> QED
      BY <3>1
  <2> QED
    BY <2>1, <2>2, <2>3
<1>2. A = N \cup {own}
  <2>1. ASSUME NEW j \in 1..i PROVE s[j].name \in N \cup {own}
    <3>1. s[i].name[2] <= s[j].name[2]
      BY <1>1 DEF Lists, NewestToOldest
    <3>2. CASE s[j].name[2] = s[i].name[2]
      BY <1>1, <3>2
    <3>3. CASE s[j].name[2] > s[i].name[2]
      BY <1>1, <3>3 DEF NewerIn
    <3> QED
      BY <1>1, <3>1, <3>2, <3>3
  <2>2. ASSUME NEW g \in files, g.name[2] > s[i].name[2] PROVE g.name \in A
    <3>1. PICK j \in 1..Len(s) : s[j] = g
      BY DEF Lists
    <3>2. j # i /\ ~(i < j)
      <4>1. i < j => s[j].name[2] <= s[i].name[2]
        BY DEF Lists, NewestToOldest
      <4>2. s[i].name[2] \in Nat /\ s[j].name[2] > s[i].name[2]
        BY <1>1, <2>2, <3>1
      <4> QED
        BY <1>1, <4>1, <4>2
    <3>3. j \in 1..i
      BY <1>1, <3>2
    <3> QED
      BY <3>1, <3>3
  <2>3. own \in A
    BY <1>1
  <2> QED
    BY <2>1, <2>2, <2>3 DEF NewerIn
<1>3. own \notin N
  BY <1>1 DEF NewerIn
<1>4. IsFiniteSet(A) /\ Cardinality(A) <= i /\ Cardinality(A) \in Nat
  <2>1. IsFiniteSet(1..i) /\ Cardinality(1..i) = i
    <3>1. 1 \in Int /\ i \in Int /\ ~(1 > i) /\ i - 1 + 1 = i
      BY <1>1
    <3> QED
      BY <3>1, FS_Interval
  <2> DEFINE F == [j \in 1..i |-> s[j].name]
  <2>2. F \in Surjection(1..i, A)
    BY DEF Surjection
  <2>3. IsFiniteSet(A) /\ Cardinality(A) <= Cardinality(1..i)
    BY <2>1, <2>2, FS_Surjection
  <2> QED
    BY <2>1, <2>3, FS_CardinalityType
<1>5. IsFiniteSet(N) /\ Cardinality(N) \in Nat
  <2>1. N \in SUBSET A
    BY <1>2
  <2> HIDE DEF N, A
  <2> QED
    BY <1>4, <2>1, FS_Subset, FS_CardinalityType
<1>6. Cardinality(A) = Cardinality(N) + 1
  <2> HIDE DEF N, A, own
  <2> QED
    BY <1>2, <1>3, <1>5, FS_AddElement
<1>7. i \in Past(s, maxBackups) <=>
        maxBackups > 0 /\ maxBackups < Len(s) /\ Cardinality(A) > maxBackups
  BY DEF Past
<1> HIDE DEF N, A
<1> QED
  BY <1>1, <1>4, <1>5, <1>6, <1>7 DEF N

(* What is picked from a listing is there once.                            *)
Once(s) == \A k, l \in 1..Len(s) : k < l => s[k] # s[l]

Picks(q, s, files, I) ==
  /\ q \in Seq(files) /\ Len(q) \in Nat /\ Once(q)
  /\ \A k \in 1..Len(q) : \E i \in I : q[k] = s[i]
  /\ \A i \in I : \E k \in 1..Len(q) : q[k] = s[i]

LEMMA PickedOnce ==
  ASSUME NEW files, NEW s, Lists(s, files), NEW I \in SUBSET (1..Len(s))
  PROVE  Picks(Picked(s, I), s, files, I)
<1> DEFINE q == Picked(s, I)
<1>1. q \in Seq(files) /\ PickedFrom(q, s, I, Len(s))
  BY PickedIs DEF Lists
<1> HIDE DEF q
<1>2. I \cap (1..Len(s)) = I
  OBVIOUS
<1>3. /\ \A k \in 1..Len(q) : \E i \in I : q[k] = s[i]
      /\ \A i \in I : \E k \in 1..Len(q) : q[k] = s[i]
      /\ \A k, l \in 1..Len(q) : k < l => \E i, j \in I : i < j /\ q[k] = s[i] /\ q[l] = s[j]
  BY <1>1, <1>2 DEF PickedFrom
<1>4. Once(q)
  <2>1. ASSUME NEW k \in 1..Len(q), NEW l \in 1..Len(q), k < l PROVE q[k] # q[l]
    <3>1. PICK i \in I, j \in I : i < j /\ q[k] = s[i] /\ q[l] = s[j]
      BY <1>3, <2>1
    <3> QED
      BY <3>1 DEF Lists, NewestToOldest
  <2> QED
    BY <2>1 DEF Once
<1>5. Picks(q, s, files, I)
  BY <1>1, <1>3, <1>4, LenProperties DEF Picks
<1> QED
  BY <1>5 DEF q

(* A pass removes the files that do not stay, and compresses uncompressed  *)
(* ones that do, each once.                                                *)
IsPlan(plan, files, today, maxBackups, maxAge, compress) ==
  /\ plan.remove \in Seq(files) /\ Once(plan.remove)
  /\ plan.compress \in Seq(files) /\ Once(plan.compress)
  /\ \A k \in 1..Len(plan.remove) : ~StaysIn(files, plan.remove[k], today, maxBackups, maxAge)
  /\ \A f \in files : ~StaysIn(files, f, today, maxBackups, maxAge) =>
       \E k \in 1..Len(plan.remove) : plan.remove[k] = f
  /\ \A k \in 1..Len(plan.compress) :
       /\ compress /\ ~plan.compress[k].gz
       /\ StaysIn(files, plan.compress[k], today, maxBackups, maxAge)
  /\ \A f \in files : compress /\ ~f.gz /\ StaysIn(files, f, today, maxBackups, maxAge) =>
       \E k \in 1..Len(plan.compress) : plan.compress[k] = f

LEMMA PlanAre ==
  ASSUME NEW p \in Nat, NEW files \in SUBSET Under(p), NEW s, Lists(s, files),
         NEW today, NEW maxBackups \in Nat, NEW maxAge, NEW compress \in BOOLEAN
  PROVE  IsPlan(Plan(s, today, maxBackups, maxAge, compress), files, today, maxBackups, maxAge, compress)
<1> DEFINE past == Past(s, maxBackups)
           aged == {i \in 1..Len(s) \ past : TooOld(s[i], today, maxAge)}
           kept == 1..Len(s) \ (past \cup aged)
           plain == {i \in kept : compress /\ ~s[i].gz}
           r == Picked(s, past)
           o == Picked(s, aged)
           c == Picked(s, plain)
           Stay(f) == StaysIn(files, f, today, maxBackups, maxAge)
           plan == Plan(s, today, maxBackups, maxAge, compress)
<1>1. plan.remove = r \o o /\ plan.compress = c
  BY DEF Plan
<1>2. \A i \in 1..Len(s) : s[i] \in files
  BY ElementOfSeq DEF Lists
<1>3. ASSUME NEW i \in 1..Len(s)
      PROVE  i \in past <=> ~(maxBackups > 0 => Cardinality(NewerIn(files, s[i])) < maxBackups)
  <2>1. Cardinality(NewerIn(files, s[i])) \in Nat
    <3>1. NewerIn(files, s[i]) \in SUBSET {s[j].name : j \in 1..Len(s)}
      BY DEF NewerIn, Lists
    <3>2. IsFiniteSet({s[j].name : j \in 1..Len(s)})
      <4>1. IsFiniteSet(1..Len(s))
        BY FS_Interval DEF Lists
      <4> DEFINE F == [j \in 1..Len(s) |-> s[j].name]
      <4>2. F \in Surjection(1..Len(s), {s[j].name : j \in 1..Len(s)})
        BY DEF Surjection
      <4> QED
        BY <4>1, <4>2, FS_Surjection
    <3> QED
      BY <3>1, <3>2, FS_Subset, FS_CardinalityType
  <2>2. i \in past <=> maxBackups > 0 /\ Cardinality(NewerIn(files, s[i])) >= maxBackups
    BY PastAre
  <2> QED
    BY <2>1, <2>2
<1>4. \A i \in 1..Len(s) : i \in past \cup aged <=> ~Stay(s[i])
  BY <1>3 DEF StaysIn
<1>5. past \subseteq 1..Len(s)
  BY DEF Past
<1>6. /\ past \in SUBSET (1..Len(s)) /\ aged \in SUBSET (1..Len(s)) /\ plain \in SUBSET (1..Len(s))
      /\ past \cap aged = {}
  BY <1>5
<1>7. Picks(r, s, files, past) /\ Picks(o, s, files, aged) /\ Picks(c, s, files, plain)
  BY <1>6, PickedOnce
<1>8. \A i \in 1..Len(s) : i \in plain <=> compress /\ ~s[i].gz /\ Stay(s[i])
  BY <1>4
<1> HIDE DEF past, aged, kept, plain, r, o, c, Stay, plan
<1> DEFINE q == r \o o
<1>9. /\ q \in Seq(files) /\ Len(q) = Len(r) + Len(o) /\ Len(r) \in Nat /\ Len(o) \in Nat
      /\ \A k \in 1..(Len(r) + Len(o)) : q[k] = IF k <= Len(r) THEN r[k] ELSE o[k - Len(r)]
  BY <1>7, ConcatProperties DEF Picks
<1> HIDE DEF q
<1>10. ASSUME NEW k \in 1..Len(q)
       PROVE  \/ k \in 1..Len(r) /\ q[k] = r[k]
              \/ k > Len(r) /\ k - Len(r) \in 1..Len(o) /\ q[k] = o[k - Len(r)]
  BY <1>9
<1>11. ASSUME NEW k \in 1..Len(q), NEW l \in 1..Len(q), k < l PROVE q[k] # q[l]
  <2>1. CASE l \in 1..Len(r)
    <3>1. k \in 1..Len(r) /\ q[k] = r[k] /\ q[l] = r[l]
      BY <1>9, <1>10, <1>11, <2>1
    <3>2. r[k] # r[l]
      BY <1>7, <1>11, <2>1, <3>1 DEF Picks, Once
    <3> QED
      BY <3>1, <3>2
  <2>2. CASE k > Len(r)
    <3>1. /\ k - Len(r) \in 1..Len(o) /\ q[k] = o[k - Len(r)]
          /\ l - Len(r) \in 1..Len(o) /\ q[l] = o[l - Len(r)] /\ k - Len(r) < l - Len(r)
      BY <1>9, <1>10, <1>11, <2>2
    <3> QED
      BY <1>7, <3>1 DEF Picks, Once
  <2>3. CASE k \in 1..Len(r) /\ ~(l \in 1..Len(r))
    <3>1. q[k] = r[k] /\ l - Len(r) \in 1..Len(o) /\ q[l] = o[l - Len(r)]
      BY <1>9, <1>10, <2>3
    <3>2. PICK i \in past : r[k] = s[i]
      BY <1>7, <2>3 DEF Picks
    <3>3. PICK j \in aged : o[l - Len(r)] = s[j]
      BY <1>7, <3>1 DEF Picks
    <3>4. i \in 1..Len(s) /\ j \in 1..Len(s) /\ i # j
      BY <1>6, <3>2, <3>3
    <3>5. s[i] # s[j]
      BY <3>4 DEF Lists, NewestToOldest
    <3> QED
      BY <3>1, <3>2, <3>3, <3>5
  <2> QED
    BY <1>9, <1>10, <2>1, <2>2, <2>3
<1>12. ASSUME NEW k \in 1..Len(q) PROVE ~Stay(q[k])
  <2>1. PICK i \in past \cup aged : q[k] = s[i]
    <3>1. CASE k \in 1..Len(r) /\ q[k] = r[k]
      BY <1>7, <3>1 DEF Picks
    <3>2. CASE k - Len(r) \in 1..Len(o) /\ q[k] = o[k - Len(r)]
      BY <1>7, <3>2 DEF Picks
    <3> QED
      BY <1>10, <3>1, <3>2
  <2> QED
    BY <1>4, <1>6, <2>1
<1>13. ASSUME NEW f \in files, ~Stay(f) PROVE \E k \in 1..Len(q) : q[k] = f
  <2>1. PICK i \in 1..Len(s) : s[i] = f
    BY DEF Lists
  <2>2. CASE i \in past
    <3>1. PICK k \in 1..Len(r) : r[k] = f
      BY <1>7, <2>1, <2>2 DEF Picks
    <3>2. k \in 1..Len(q) /\ k \in 1..(Len(r) + Len(o)) /\ k <= Len(r)
      BY <1>9
    <3> QED
      BY <1>9, <3>1, <3>2
  <2>3. CASE i \in aged
    <3>1. PICK k \in 1..Len(o) : o[k] = f
      BY <1>7, <2>1, <2>3 DEF Picks
    <3>2. /\ Len(r) + k \in 1..Len(q) /\ Len(r) + k \in 1..(Len(r) + Len(o))
          /\ ~(Len(r) + k <= Len(r)) /\ (Len(r) + k) - Len(r) = k
      BY <1>9
    <3> QED
      BY <1>9, <3>1, <3>2
  <2> QED
    BY <1>4, <1>13, <2>1, <2>2, <2>3
<1>14. ASSUME NEW k \in 1..Len(c) PROVE compress /\ ~c[k].gz /\ Stay(c[k])
  <2>1. PICK i \in plain : c[k] = s[i]
    BY <1>7 DEF Picks
  <2> QED
    BY <1>6, <1>8, <2>1
<1>15. ASSUME NEW f \in files, compress, ~f.gz, Stay(f) PROVE \E k \in 1..Len(c) : c[k] = f
  <2>1. PICK i \in 1..Len(s) : s[i] = f
    BY DEF Lists
  <2> QED
    BY <1>7, <1>8, <1>15, <2>1 DEF Picks
<1>16. plan.remove = q /\ plan.compress = c
  BY <1>1 DEF q
<1>17. Once(q)
  BY <1>11 DEF Once
<1>18. IsPlan(plan, files, today, maxBackups, maxAge, compress)
  BY <1>7, <1>9, <1>12, <1>13, <1>14, <1>15, <1>16, <1>17 DEF IsPlan, Picks, Stay
<1> QED
  BY <1>18 DEF plan

-----------------------------------------------------------------------------
(* Days and names.                                                         *)

LEMMA DaysAre ==
  /\ LastDay \in Nat /\ FirstDay \in Nat /\ FirstDay > 0 /\ FirstDay <= LastDay
  /\ Days = 1..LastDay /\ Days \subseteq Nat
BY LoggerAssumption DEF Days

LEMMA NamesAre ==
  /\ \A d \in Days : <<d>> \in Logs /\ <<d>> \in Names /\ <<d>>[1] = d
  /\ \A n \in Logs : n \in Names /\ n \notin Days \X Days /\ n[1] \in Days /\ n = <<n[1]>>
  /\ \A n \in OldNames : n \in Names /\ n \notin Logs /\ n \in Days \X Days /\ n = <<n[1], n[2]>>
  /\ \A n \in Days \X Days : n \in Names /\ n \notin Logs /\ n = <<n[1], n[2]>> /\ n[2] \in Days
<1>1. ASSUME NEW d \in Days, NEW n \in Days \X Days PROVE <<d>> # n
  <2>1. Len(<<d>>) = 1 /\ n = <<n[1], n[2]>> /\ Len(<<n[1], n[2]>>) = 2
    OBVIOUS
  <2> QED
    BY <2>1
<1>2. \A n \in Logs : \E d \in Days : n = <<d>>
  BY DEF Logs
<1> QED
  BY <1>1, <1>2 DEF Logs, Names, OldNames

LEMMA TodayIs ==
  ASSUME TypeOK
  PROVE  /\ day \in Days /\ day \in Nat /\ <<day>> \in Logs /\ <<day>> \in Names
         /\ file \in Nat /\ file <= day /\ (file # 0 => file \in Days /\ <<file>> \in Logs /\ <<file>> \in Names)
<1>1. day \in Days /\ day \in Nat /\ file \in Nat /\ file <= day /\ (file # 0 => file \in Days)
  BY DaysAre DEF TypeOK
<1> QED
  BY <1>1, NamesAre

(* What may go by LogStore's rule.                                         *)
LEMMA StoredCardinality == ASSUME NEW S PROVE Stored!Cardinality(S) = Cardinality(S)
BY DEF Stored!Cardinality, Cardinality

NewerBackups(n) == {c \in {Backup(m) : m \in OldNames} : c.series = n[1] /\ c.day > n[2]}

MayGoOn(n, today) ==
  \/ MaxAge > 0 /\ n[2] + MaxAge <= today
  \/ MaxBackups > 0 /\ Cardinality(NewerBackups(n)) >= MaxBackups

LEMMA MayGoIs ==
  ASSUME NEW n \in OldNames
  PROVE  /\ Stored!MayGo(Backup(n)) <=> MayGoOn(n, day)
         /\ n \in Dismissed <=> MayGoOn(n, day)
         /\ n \in Dismissed' <=> MayGoOn(n, day')
<1>1. /\ Backup(n).series = n[1] /\ Backup(n).day = n[2]
      /\ NewerBackups(n) = {c \in {Backup(m) : m \in OldNames} :
                               c.series = Backup(n).series /\ c.day > Backup(n).day}
  BY DEF Backup, NewerBackups
<1>2. Stored!Cardinality(NewerBackups(n)) = Cardinality(NewerBackups(n))
  BY StoredCardinality
<1>3. Stored!MayGo(Backup(n)) <=> MayGoOn(n, day)
  BY <1>1, <1>2 DEF Stored!MayGo, MayGoOn
<1>4. Stored!MayGo(Backup(n))' <=> MayGoOn(n, day')
  BY <1>1, <1>2 DEF Stored!MayGo, MayGoOn
<1> QED
  BY <1>3, <1>4 DEF Dismissed

(* A backup that may go may go ever after.                                 *)
LEMMA DismissedForGood ==
  ASSUME day \in Nat, day' \in Nat, day <= day'
  PROVE  Dismissed \subseteq Dismissed'
<1>1. ASSUME NEW n \in OldNames, MayGoOn(n, day) PROVE MayGoOn(n, day')
  <2>1. n[2] \in Nat /\ MaxAge \in Nat
    BY NamesAre, DaysAre, LoggerAssumption
  <2> QED
    BY <1>1, <2>1 DEF MayGoOn
<1> QED
  BY <1>1, MayGoIs DEF Dismissed

(* An acknowledged line is a new one, of today, in a log of today or of an *)
(* earlier day.                                                            *)
LEMMA Acknowledged ==
  ASSUME Inv, NEW n \in Logs, n[1] <= day, NEW before \in SUBSET lines[n], Acknowledge(n, before)
  PROVE  /\ acked' = acked \cup {Line} /\ Line \notin acked /\ Line.day = day
         /\ Line = [n |-> Cardinality(acked) + 1, day |-> day]
         /\ IsFiniteSet(acked') /\ Cardinality(acked') = Cardinality(acked) + 1
         /\ acked' \subseteq [n : 1..MaxWrites, day : Days] /\ lines' \in [Names -> SUBSET acked']
         /\ day' = day /\ restarts' = restarts /\ failures' = failures /\ zipped' = zipped
         /\ LinesDated'
<1>1. /\ IsFiniteSet(acked) /\ acked \subseteq [n : 1..MaxWrites, day : Days]
      /\ lines \in [Names -> SUBSET acked] /\ day \in Days /\ day \in Nat
      /\ \A l \in acked : l.n <= Cardinality(acked) /\ l.day <= day
      /\ Cardinality(acked) \in Nat /\ MaxWrites \in Nat /\ n \in Names
  BY TodayIs, NamesAre, FS_CardinalityType, LoggerAssumption DEF Inv, TypeOK, LinesDated
<1>2. /\ acked' = acked \cup {Line} /\ lines' = [lines EXCEPT ![n] = before \cup {Line}]
      /\ Cardinality(acked) < MaxWrites
      /\ day' = day /\ restarts' = restarts /\ failures' = failures /\ zipped' = zipped
  BY DEF Acknowledge
<1>3. /\ Line = [n |-> Cardinality(acked) + 1, day |-> day]
      /\ Line.n = Cardinality(acked) + 1 /\ Line.day = day
  BY DEF Line
<1> HIDE DEF Line
<1>4. Line \notin acked
  BY <1>1, <1>3
<1>5. IsFiniteSet(acked') /\ Cardinality(acked') = Cardinality(acked) + 1
  BY <1>1, <1>2, <1>4, FS_AddElement
<1>6. acked' \subseteq [n : 1..MaxWrites, day : Days]
  <2>1. Line \in [n : 1..MaxWrites, day : Days]
    BY <1>1, <1>2, <1>3
  <2> QED
    BY <1>1, <1>2, <2>1
<1>7. \A m \in Names : lines'[m] = IF m = n THEN before \cup {Line} ELSE lines[m]
  BY <1>1, <1>2
<1>8. lines' \in [Names -> SUBSET acked']
  <2>1. before \cup {Line} \in SUBSET acked'
    BY <1>1, <1>2
  <2>2. \A m \in Names : lines[m] \in SUBSET acked'
    BY <1>1, <1>2
  <2> QED
    BY <1>1, <1>2, <2>1, <2>2
<1>9. \A l \in acked' : l.n <= Cardinality(acked') /\ l.day <= day'
  <2>1. \A l \in acked : l.n <= Cardinality(acked) + 1 /\ l.day <= day
    <3>1. \A l \in acked : l.n \in Nat
      BY <1>1
    <3> QED
      BY <1>1, <3>1
  <2> QED
    BY <1>1, <1>2, <1>3, <1>5, <2>1
<1>10. ASSUME NEW m \in Names, NEW l \in lines'[m] PROVE m \in Logs /\ m[1] <= l.day
  <2>1. CASE l \in lines[m]
    BY <2>1 DEF Inv, LinesDated
  <2>2. CASE m = n /\ l = Line
    BY <1>3, <2>2
  <2> QED
    BY <1>1, <1>7, <1>10, <2>1, <2>2
<1>11. LinesDated'
  BY <1>5, <1>9, <1>10 DEF LinesDated
<1> QED
  BY <1>2, <1>3, <1>4, <1>5, <1>6, <1>8, <1>11

-----------------------------------------------------------------------------
(* The invariant: the steps of the logger, of the clock, and a restart.    *)

LEMMA LinesAreDated ==
  ASSUME Inv, lines' = lines, acked' = acked, day' \in Nat, day <= day'
  PROVE  LinesDated'
<1>1. day \in Nat /\ \A l \in acked : l.day \in Nat
  BY DaysAre DEF Inv, TypeOK
<1> QED
  BY <1>1 DEF Inv, LinesDated

(* They leave the mill and what it sees as it is.                          *)
LEMMA LoggerSide ==
  ASSUME Inv, TypeOK', LinesDated', day <= day',
         present \subseteq present', present' \ present \subseteq Logs, zipped' = zipped,
         UNCHANGED <<prefix, found, todo, work>>,
         mill' = mill \/ (mill = "off" /\ mill' = "recv")
  PROVE  Inv'
<1>1. Listing'
  <2>1. \A n \in Days \X Days : n \in present' => n \in present
    BY NamesAre
  <2>2. /\ \A n \in Days \X Days : n \in present' \/ zipped'[n] # "none" => n \in Existing
        /\ mill' # "plan" => found = {}
        /\ \A f \in found : /\ f.name \in OldNames /\ f.name[1] = prefix
                            /\ f.gz \/ f.name \in present'
    BY <2>1 DEF Inv, Listing
  <2> QED
    BY <2>2 DEF Listing
<1>2. Planned'
  <2>1. day \in Nat /\ day' \in Nat
    BY TodayIs, DaysAre DEF Inv, TypeOK
  <2>2. Dismissed \subseteq Dismissed'
    BY <2>1, DismissedForGood
  <2> HIDE DEF Dismissed
  <2>3. /\ \A i \in 1..Len(todo) : todo[i].name \in Dismissed'
        /\ \A i \in 1..Len(work) : work[i] \in OldNames \cap present'
    BY <2>2 DEF Inv, Planned
  <2>4. /\ mill' \in {"copy", "unlink"} => mill = mill'
        /\ mill' = "unlink" => mill = mill'
    OBVIOUS
  <2> QED
    BY <2>3, <2>4 DEF Inv, Planned
<1> QED
  BY <1>1, <1>2 DEF Inv

LEMMA WriteInv == Inv /\ Write => Inv'
<1> SUFFICES ASSUME Inv, Write PROVE Inv'
  OBVIOUS
<1>1. <<file>> \in Logs /\ <<file>>[1] <= day /\ Acknowledge(<<file>>, lines[<<file>>])
      /\ lines[<<file>>] \in SUBSET lines[<<file>>]
  BY TodayIs DEF Inv, Write
<1>2. /\ acked' \subseteq [n : 1..MaxWrites, day : Days] /\ lines' \in [Names -> SUBSET acked']
      /\ day' = day /\ restarts' = restarts /\ failures' = failures /\ zipped' = zipped
      /\ LinesDated'
  BY <1>1, Acknowledged
<1>3. UNCHANGED <<present, file, millCh, mill, prefix, found, todo, work>>
  BY DEF Write, milling
<1>4. TypeOK'
  BY <1>2, <1>3 DEF Inv, TypeOK
<1> QED
  BY <1>2, <1>3, <1>4, LoggerSide, TodayIs DEF Inv

(* A write that opens today's log first.                                   *)
LEMMA OpeningInv ==
  ASSUME Inv, NEW before \in SUBSET lines[<<day>>], Acknowledge(<<day>>, before),
         present' = present \cup {<<day>>}, file' = day, Wake
  PROVE  Inv'
<1>1. <<day>> \in Logs /\ <<day>>[1] <= day /\ day \in Nat /\ <<day>> \in Names
  BY TodayIs DEF Inv
<1>2. /\ acked' \subseteq [n : 1..MaxWrites, day : Days] /\ lines' \in [Names -> SUBSET acked']
      /\ day' = day /\ restarts' = restarts /\ failures' = failures /\ zipped' = zipped
      /\ LinesDated'
  BY <1>1, Acknowledged
<1>3. /\ UNCHANGED <<prefix, found, todo, work>> /\ millCh' = TRUE
      /\ mill' = IF mill = "off" THEN "recv" ELSE mill
  BY DEF Wake
<1>4. TypeOK'
  BY <1>1, <1>2, <1>3 DEF Inv, TypeOK
<1> QED
  BY <1>1, <1>2, <1>3, <1>4, LoggerSide

LEMMA WritesInv == Inv /\ (WriteReopens \/ WriteCreates \/ WriteTruncates) => Inv'
<1> SUFFICES ASSUME Inv, WriteReopens \/ WriteCreates \/ WriteTruncates PROVE Inv'
  OBVIOUS
<1>1. lines[<<day>>] \in SUBSET lines[<<day>>] /\ {} \in SUBSET lines[<<day>>]
  OBVIOUS
<1>2. CASE WriteReopens
  BY <1>1, <1>2, OpeningInv DEF WriteReopens
<1>3. CASE WriteCreates
  BY <1>1, <1>3, OpeningInv DEF WriteCreates
<1>4. CASE WriteTruncates
  BY <1>1, <1>4, OpeningInv DEF WriteTruncates
<1> QED
  BY <1>2, <1>3, <1>4

LEMMA RotateInv == Inv /\ Rotate => Inv'
<1> SUFFICES ASSUME Inv, Rotate PROVE Inv'
  OBVIOUS
<1>1. /\ <<day>> \in Logs /\ day \in Nat /\ <<day>> \in Names
      /\ lines \in [Names -> SUBSET acked]
  BY TodayIs DEF Inv, TypeOK
<1>2. /\ present' = present \cup {<<day>>} /\ file' = day /\ millCh' = TRUE
      /\ mill' = IF mill = "off" THEN "recv" ELSE mill
      /\ UNCHANGED <<prefix, found, todo, work, day, restarts, failures, zipped, acked>>
      /\ lines' = [lines EXCEPT ![<<day>>] = {}]
  BY DEF Rotate, Wake
<1>3. lines' \in [Names -> SUBSET acked] /\ \A n \in Names : lines'[n] \subseteq lines[n]
  BY <1>1, <1>2
<1>4. TypeOK'
  BY <1>1, <1>2, <1>3 DEF Inv, TypeOK
<1>5. LinesDated'
  BY <1>2, <1>3 DEF Inv, LinesDated
<1> QED
  BY <1>1, <1>2, <1>4, <1>5, LoggerSide

LEMMA ClosingInv == Inv /\ (Close \/ RotateFails \/ WriteFails) => Inv'
<1> SUFFICES ASSUME Inv, Close \/ RotateFails \/ WriteFails PROVE Inv'
  OBVIOUS
<1>1. /\ UNCHANGED <<day, restarts, failures, present, zipped, lines, acked, prefix, found, todo, work>>
      /\ file' = 0 \/ file' = file
  BY DEF Close, RotateFails, WriteFails, Wake, disk, milling
<1>2. /\ millCh' = millCh \/ millCh' = TRUE
      /\ mill' = mill \/ (mill = "off" /\ mill' = "recv")
  BY DEF Close, RotateFails, WriteFails, Wake, milling
<1>3. day \in Nat
  BY TodayIs DEF Inv
<1>4. file' \in 0..day /\ (file' # 0 => <<file'>> \in present)
  BY <1>1, <1>3 DEF Inv, TypeOK
<1>5. /\ millCh' \in BOOLEAN
      /\ mill' \in {"off", "recv", "list", "plan", "work", "copy", "unlink"}
      /\ mill' \in {"off", "recv", "list", "plan"} => todo = <<>> /\ work = <<>>
  BY <1>2 DEF Inv, TypeOK
<1>6. TypeOK'
  BY <1>1, <1>4, <1>5 DEF Inv, TypeOK
<1> QED
  BY <1>1, <1>2, <1>3, <1>6, LinesAreDated, LoggerSide

LEMMA MidnightInv == Inv /\ Midnight => Inv'
<1> SUFFICES ASSUME Inv, Midnight PROVE Inv'
  OBVIOUS
<1>1. /\ UNCHANGED <<restarts, failures, present, zipped, lines, file, acked, millCh,
                     mill, prefix, found, todo, work>>
      /\ day < LastDay /\ day' = day + 1
  BY DEF Midnight, disk, milling
<1>2. /\ day \in Nat /\ FirstDay \in Nat /\ LastDay \in Nat
      /\ day' \in Nat /\ day <= day' /\ day' \in FirstDay..LastDay
      /\ \A d \in 0..day : d \in 0..day'
  BY <1>1, TodayIs, DaysAre DEF Inv, TypeOK
<1>3. TypeOK'
  BY <1>1, <1>2 DEF Inv, TypeOK
<1> QED
  BY <1>1, <1>2, <1>3, LinesAreDated, LoggerSide

LEMMA RestartInv == Inv /\ Restart => Inv'
<1> SUFFICES ASSUME Inv, Restart PROVE Inv'
  OBVIOUS
<1>1. /\ UNCHANGED <<day, failures, present, zipped, lines, acked, prefix>>
      /\ restarts < MaxRestarts /\ restarts' = restarts + 1
      /\ file' = 0 /\ millCh' = FALSE /\ mill' = "off" /\ found' = {} /\ todo' = <<>> /\ work' = <<>>
  BY DEF Restart, disk
<1>2. day \in Nat /\ MaxRestarts \in Nat /\ restarts' \in 0..MaxRestarts
  BY <1>1, TodayIs, LoggerAssumption DEF Inv, TypeOK
<1>3. TypeOK'
  <2>1. file' \in 0..day
    BY <1>1, <1>2
  <2>2. todo' \in Seq([name : Names, gz : BOOLEAN]) /\ work' \in Seq(Names)
    BY <1>1
  <2>3. /\ millCh' \in BOOLEAN /\ mill' \in {"off", "recv", "list", "plan", "work", "copy", "unlink"}
        /\ found' \subseteq [name : Names, gz : BOOLEAN]
    BY <1>1
  <2> QED
    BY <1>1, <1>2, <2>1, <2>2, <2>3 DEF Inv, TypeOK
<1>4. LinesDated'
  BY <1>1, <1>2, LinesAreDated
<1>5. Listing'
  BY <1>1 DEF Inv, Listing
<1>6. Planned'
  BY <1>1 DEF Planned
<1> QED
  BY <1>3, <1>4, <1>5, <1>6 DEF Inv

-----------------------------------------------------------------------------
(* The invariant: the steps of the mill.                                   *)

LEMMA Tails ==
  ASSUME NEW S, NEW q \in Seq(S), q # <<>>
  PROVE  /\ Tail(q) \in Seq(S) /\ Len(q) \in Nat /\ Len(q) > 0 /\ Len(Tail(q)) = Len(q) - 1
         /\ Head(q) = q[1] /\ 1 \in 1..Len(q) /\ q[1] \in S
         /\ \A i \in 1..Len(Tail(q)) : i + 1 \in 1..Len(q) /\ i + 1 # 1 /\ Tail(q)[i] = q[i + 1]
OBVIOUS

(* What every step of the mill leaves alone.                               *)
Beside ==
  /\ UNCHANGED <<day, restarts, file, acked, lines>>
  /\ failures' \in 0..MaxFailures

LEMMA FailingStays == Inv /\ Failing => failures' \in 0..MaxFailures /\ UNCHANGED <<day, restarts, file, acked>>
<1> SUFFICES ASSUME Inv, Failing PROVE failures' \in 0..MaxFailures /\ UNCHANGED <<day, restarts, file, acked>>
  OBVIOUS
<1>1. MaxFailures \in Nat /\ failures \in 0..MaxFailures
  BY LoggerAssumption DEF Inv, TypeOK
<1> QED
  BY <1>1 DEF Failing, Others

LEMMA BesideDated == Inv /\ Beside => LinesDated'
BY LinesAreDated, TodayIs DEF Inv, Beside

(* Steps that leave the mill with nothing to do.                           *)
LEMMA IdleInv ==
  ASSUME Inv, Beside, millCh' \in BOOLEAN, UNCHANGED <<present, zipped, prefix>>,
         todo = <<>>, todo' = <<>>, work = <<>>, work' = <<>>,
         mill' \in {"recv", "list"}, found' = {}
  PROVE  Inv'
<1>1. TypeOK'
  BY DEF Inv, TypeOK, Beside
<1>2. Listing'
  BY DEF Inv, Listing
<1>3. Planned'
  BY DEF Planned
<1> QED
  BY <1>1, <1>2, <1>3, BesideDated DEF Inv

LEMMA MillIdlesInv == Inv /\ (MillReceive \/ MillDone \/ MillListFails) => Inv'
<1> SUFFICES ASSUME Inv, MillReceive \/ MillDone \/ MillListFails PROVE Inv'
  OBVIOUS
<1>1. CASE MillReceive
  <2>1. /\ UNCHANGED <<day, restarts, file, acked, lines, failures, present, zipped, prefix, found, todo, work>>
        /\ mill = "recv" /\ millCh' = FALSE
    BY <1>1 DEF MillReceive, Millwork, Others, disk
  <2>2. mill' \in {"recv", "list"}
    BY <1>1 DEF MillReceive
  <2>3. todo = <<>> /\ work = <<>> /\ found = {} /\ failures \in 0..MaxFailures
    BY <2>1 DEF Inv, TypeOK, Listing
  <2> QED
    BY <2>1, <2>2, <2>3, IdleInv DEF Beside
<1>2. CASE MillDone
  <2>1. /\ UNCHANGED <<day, restarts, file, acked, lines, failures, present, zipped, prefix, found, todo, work, millCh>>
        /\ mill = "work" /\ mill' = "recv" /\ todo = <<>> /\ work = <<>>
    BY <1>2 DEF MillDone, Millwork, Others, disk
  <2>2. found = {} /\ failures \in 0..MaxFailures /\ millCh \in BOOLEAN
    BY <2>1 DEF Inv, TypeOK, Listing
  <2> QED
    BY <2>1, <2>2, IdleInv DEF Beside
<1>3. CASE MillListFails
  <2>1. /\ UNCHANGED <<lines, present, zipped, prefix, found, todo, work, millCh>>
        /\ mill = "list" /\ mill' = "recv" /\ Failing
    BY <1>3 DEF MillListFails, disk
  <2>2. todo = <<>> /\ work = <<>> /\ found = {} /\ millCh \in BOOLEAN
    BY <2>1 DEF Inv, TypeOK, Listing
  <2> QED
    BY <2>1, <2>2, FailingStays, IdleInv DEF Beside
<1> QED
  BY <1>1, <1>2, <1>3

LEMMA MillListInv == Inv /\ MillList => Inv'
<1> SUFFICES ASSUME Inv, MillList PROVE Inv'
  OBVIOUS
<1>1. /\ UNCHANGED <<day, restarts, file, acked, lines, failures, present, zipped, todo, work, millCh>>
      /\ mill = "list" /\ mill' = "plan" /\ prefix' = day /\ found' = Listed({day} \X Days)
  BY DEF MillList, Millwork, Others, disk, OldLogFiles
<1>2. todo = <<>> /\ work = <<>> /\ day \in Days /\ day \in Nat
  BY <1>1, TodayIs DEF Inv, TypeOK
<1>3. ASSUME NEW f \in found'
      PROVE  /\ f \in [name : Names, gz : BOOLEAN]
             /\ f.name \in OldNames /\ f.name[1] = day /\ (f.gz \/ f.name \in present)
  <2>1. \/ f \in [name : ({day} \X Days) \cap present, gz : {FALSE}]
        \/ f \in [name : {n \in {day} \X Days : zipped[n] # "none"}, gz : {TRUE}]
    BY <1>1 DEF Listed
  <2>2. /\ f.name \in {day} \X Days /\ f.gz \in BOOLEAN /\ f = [name |-> f.name, gz |-> f.gz]
        /\ f.name \in present \/ zipped[f.name] # "none"
        /\ f.gz \/ f.name \in present
    BY <2>1
  <2>3. f.name \in Days \X Days /\ f.name[1] = day
    BY <1>2, <2>2
  <2>4. f.name \in Existing
    BY <2>2, <2>3 DEF Inv, Listing
  <2>5. f.name \in OldNames /\ f.name \in Names
    BY <2>3, <2>4, NamesAre DEF OldNames
  <2> QED
    BY <2>2, <2>3, <2>5
<1>4. TypeOK'
  <2>1. found' \subseteq [name : Names, gz : BOOLEAN]
    BY <1>3
  <2>2. prefix' \in 0..day
    BY <1>1, <1>2
  <2>3. mill' \in {"off", "recv", "list", "plan", "work", "copy", "unlink"}
    BY <1>1
  <2> QED
    BY <1>1, <1>2, <2>1, <2>2, <2>3 DEF Inv, TypeOK
<1>5. Listing'
  <2>1. \A f \in found' : f.name \in OldNames /\ f.name[1] = prefix' /\ (f.gz \/ f.name \in present')
    BY <1>1, <1>3
  <2>2. \A n \in Days \X Days : n \in present' \/ zipped'[n] # "none" => n \in Existing
    BY <1>1 DEF Inv, Listing
  <2> QED
    BY <1>1, <2>1, <2>2 DEF Listing
<1>6. Planned'
  BY <1>1, <1>2 DEF Planned
<1>7. LinesDated'
  BY <1>1, <1>2, LinesAreDated
<1> QED
  BY <1>4, <1>5, <1>6, <1>7 DEF Inv

LEMMA MillRemovesInv == Inv /\ (MillRemove \/ MillRemoveFails) => Inv'
<1> SUFFICES ASSUME Inv, MillRemove \/ MillRemoveFails PROVE Inv'
  OBVIOUS
<1> DEFINE f == Head(todo)
<1>1. /\ mill = "work" /\ todo # <<>> /\ todo' = Tail(todo)
      /\ UNCHANGED <<lines, millCh, mill, prefix, found, work, day, restarts, file, acked>>
      /\ failures' \in 0..MaxFailures
  <2>1. CASE MillRemove
    BY <2>1 DEF MillRemove, Millwork, Others, Inv, TypeOK
  <2>2. CASE MillRemoveFails
    BY <2>2, FailingStays DEF MillRemoveFails, disk
  <2> QED
    BY <2>1, <2>2
<1>2. \/ UNCHANGED <<present, zipped>>
      \/ f.gz /\ zipped' = [zipped EXCEPT ![f.name] = "none"] /\ present' = present
      \/ ~f.gz /\ present' = present \ {f.name} /\ zipped' = zipped
  BY DEF MillRemove, MillRemoveFails, disk
<1>3. /\ todo \in Seq([name : Names, gz : BOOLEAN]) /\ work \in Seq(Names) /\ found = {}
      /\ zipped \in [Names -> {"none", "partial", "whole"}] /\ present \subseteq Names
      /\ day \in Nat
  BY <1>1, TodayIs DEF Inv, TypeOK, Listing
<1>4. /\ Tail(todo) \in Seq([name : Names, gz : BOOLEAN])
      /\ f = todo[1] /\ 1 \in 1..Len(todo)
      /\ \A i \in 1..Len(Tail(todo)) : i + 1 \in 1..Len(todo) /\ Tail(todo)[i] = todo[i + 1]
  BY <1>1, <1>3, Tails
<1>5. f.name \in OldNames /\ f.name \in Names /\ f.name \notin Logs
  <2>1. f.name \in Dismissed
    BY <1>4 DEF Inv, Planned
  <2> QED
    BY <2>1, NamesAre DEF Dismissed
<1> HIDE DEF f
<1>6. /\ zipped' \in [Names -> {"none", "partial", "whole"}] /\ present' \subseteq present
      /\ \A n \in Names : zipped'[n] # "none" => zipped[n] # "none"
      /\ \A n \in present : n \in Logs => n \in present'
  <2>1. CASE UNCHANGED <<present, zipped>>
    BY <1>3, <2>1
  <2>2. CASE zipped' = [zipped EXCEPT ![f.name] = "none"] /\ present' = present
    BY <1>3, <1>5, <2>2
  <2>3. CASE present' = present \ {f.name} /\ zipped' = zipped
    BY <1>3, <1>5, <2>3
  <2> QED
    BY <1>2, <2>1, <2>2, <2>3
<1>7. TypeOK'
  <2>1. file' # 0 => <<file'>> \in present'
    BY <1>1, <1>6, TodayIs DEF Inv, TypeOK
  <2> QED
    BY <1>1, <1>3, <1>4, <1>6, <2>1 DEF Inv, TypeOK
<1>8. LinesDated'
  BY <1>1, <1>3, LinesAreDated
<1>9. Listing'
  <2>1. \A n \in Days \X Days : n \in present' \/ zipped'[n] # "none" => n \in Existing
    BY <1>6, NamesAre DEF Inv, Listing
  <2> QED
    BY <1>1, <1>3, <2>1 DEF Listing
<1>10. Planned'
  <2>1. Dismissed' = Dismissed
    BY <1>1, <1>3, MayGoIs DEF Dismissed
  <2>2. \A i \in 1..Len(todo') : todo'[i].name \in Dismissed'
    BY <1>1, <1>4, <2>1 DEF Inv, Planned
  <2>3. ASSUME NEW i \in 1..Len(work)
        PROVE  /\ work[i] \in OldNames \cap present'
               /\ \A j \in 1..Len(work) : i # j => work[i] # work[j]
               /\ \A j \in 1..Len(todo') : todo'[j].gz \/ todo'[j].name # work[i]
    <3>1. /\ work[i] \in OldNames \cap present
          /\ \A j \in 1..Len(work) : i # j => work[i] # work[j]
          /\ \A j \in 1..Len(todo) : todo[j].gz \/ todo[j].name # work[i]
      BY DEF Inv, Planned
    <3>2. f.gz \/ f.name # work[i]
      BY <1>4, <3>1
    <3> QED
      BY <1>1, <1>2, <1>4, <3>1, <3>2
  <2> HIDE DEF Dismissed
  <2> QED
    BY <1>1, <2>2, <2>3 DEF Planned
<1> QED
  BY <1>7, <1>8, <1>9, <1>10 DEF Inv

(* A step of compressLogFile, from one place in it to the next.            *)
LEMMA CompressingInv ==
  ASSUME Inv, Beside, UNCHANGED <<present, prefix, found, todo, work, millCh>>,
         mill \in {"work", "copy"}, work # <<>>, todo = <<>>,
         NEW form \in {"partial", "whole"}, zipped' = [zipped EXCEPT ![work[1]] = form],
         mill' = "copy" \/ (mill' = "unlink" /\ form = "whole")
  PROVE  Inv'
<1>1. /\ work \in Seq(Names) /\ zipped \in [Names -> {"none", "partial", "whole"}] /\ found = {}
      /\ day \in Nat
  BY TodayIs DEF Inv, TypeOK, Listing
<1>2. work[1] \in OldNames /\ work[1] \in Names /\ work[1] \in Existing
  <2>1. 1 \in 1..Len(work)
    BY <1>1, Tails
  <2> QED
    BY <2>1, NamesAre DEF Inv, Planned, OldNames
<1>3. /\ zipped' \in [Names -> {"none", "partial", "whole"}] /\ zipped'[work[1]] = form
      /\ \A n \in Names : n # work[1] => zipped'[n] = zipped[n]
  BY <1>1, <1>2
<1>4. TypeOK'
  BY <1>1, <1>3 DEF Inv, TypeOK, Beside
<1>5. LinesDated'
  BY BesideDated
<1>6. Listing'
  <2>1. \A n \in Days \X Days : n \in present' \/ zipped'[n] # "none" => n \in Existing
    BY <1>2, <1>3, NamesAre DEF Inv, Listing
  <2> QED
    BY <1>1, <2>1 DEF Listing
<1>7. Planned'
  <2>1. Len(todo) = 0
    OBVIOUS
  <2>2. mill' = "unlink" => zipped'[work'[1]] = "whole"
    BY <1>3
  <2>3. \A i \in 1..Len(work') :
          /\ work'[i] \in OldNames \cap present'
          /\ \A j \in 1..Len(work') : i # j => work'[i] # work'[j]
    BY DEF Inv, Planned
  <2> QED
    BY <2>1, <2>2, <2>3 DEF Planned
<1> QED
  BY <1>4, <1>5, <1>6, <1>7 DEF Inv

(* A step that is done with the first file to be compressed.               *)
LEMMA CompressedInv ==
  ASSUME Inv, Beside, UNCHANGED <<prefix, found, todo, millCh>>,
         mill \in {"work", "copy", "unlink"}, work # <<>>, todo = <<>>,
         mill' = "work", work' = Tail(work),
         present' \in {present, present \ {work[1]}},
         NEW form \in {"none", "partial", "whole"}, zipped' = [zipped EXCEPT ![work[1]] = form]
  PROVE  Inv'
<1>1. /\ work \in Seq(Names) /\ zipped \in [Names -> {"none", "partial", "whole"}] /\ found = {}
      /\ present \subseteq Names
  BY DEF Inv, TypeOK, Listing
<1>2. /\ Tail(work) \in Seq(Names) /\ 1 \in 1..Len(work)
      /\ \A i \in 1..Len(Tail(work)) : i + 1 \in 1..Len(work) /\ i + 1 # 1 /\ Tail(work)[i] = work[i + 1]
  BY <1>1, Tails
<1>3. work[1] \in OldNames /\ work[1] \in Names /\ work[1] \in Existing /\ work[1] \notin Logs
  BY <1>2, NamesAre DEF Inv, Planned, OldNames
<1>4. /\ zipped' \in [Names -> {"none", "partial", "whole"}]
      /\ \A n \in Names : n # work[1] => zipped'[n] = zipped[n]
      /\ present' \subseteq present /\ \A n \in present : n # work[1] => n \in present'
  BY <1>1, <1>3
<1>5. TypeOK'
  <2>1. file' # 0 => <<file'>> \in present'
    BY <1>3, <1>4, TodayIs DEF Inv, TypeOK, Beside
  <2> QED
    BY <1>1, <1>2, <1>4, <2>1 DEF Inv, TypeOK, Beside
<1>6. LinesDated'
  BY BesideDated
<1>7. Listing'
  <2>1. \A n \in Days \X Days : n \in present' \/ zipped'[n] # "none" => n \in Existing
    BY <1>3, <1>4, NamesAre DEF Inv, Listing
  <2> QED
    BY <1>1, <2>1 DEF Listing
<1>8. Planned'
  <2>1. Len(todo') = 0
    OBVIOUS
  <2>2. ASSUME NEW i \in 1..Len(work')
        PROVE  /\ work'[i] \in OldNames \cap present'
               /\ \A j \in 1..Len(work') : i # j => work'[i] # work'[j]
    <3>1. /\ i + 1 \in 1..Len(work) /\ i + 1 # 1 /\ work'[i] = work[i + 1] /\ i \in Nat
      BY <1>2
    <3>2. work[i + 1] \in OldNames \cap present /\ work[i + 1] # work[1]
      BY <1>2, <3>1 DEF Inv, Planned
    <3>3. ASSUME NEW j \in 1..Len(work'), i # j PROVE work'[i] # work'[j]
      <4>1. j + 1 \in 1..Len(work) /\ i + 1 # j + 1 /\ work'[j] = work[j + 1]
        BY <1>2, <3>1, <3>3
      <4> QED
        BY <3>1, <4>1 DEF Inv, Planned
    <3> QED
      BY <1>4, <3>1, <3>2, <3>3
  <2> QED
    BY <2>1, <2>2 DEF Planned
<1> QED
  BY <1>5, <1>6, <1>7, <1>8 DEF Inv

LEMMA CompressInv ==
  Inv /\ (CompressBegin \/ CompressCopy \/ CompressUnlink \/ CompressGivesUp \/ CompressFails) => Inv'
<1> SUFFICES ASSUME Inv,
                    CompressBegin \/ CompressCopy \/ CompressUnlink \/ CompressGivesUp \/ CompressFails
             PROVE  Inv'
  OBVIOUS
<1>1. mill \in {"copy", "unlink"} => work # <<>> /\ todo = <<>>
  BY DEF Inv, Planned
<1>2. work # <<>> => Head(work) = work[1] /\ work[1] \in Names
  BY Tails DEF Inv, TypeOK
<1>3. failures \in 0..MaxFailures /\ zipped \in [Names -> {"none", "partial", "whole"}]
  BY DEF Inv, TypeOK
<1>4. CASE CompressBegin
  <2>1. /\ UNCHANGED <<day, restarts, file, acked, lines, failures, present, prefix, found, todo, work, millCh>>
        /\ mill = "work" /\ mill' = "copy" /\ todo = <<>> /\ work # <<>>
        /\ zipped' = [zipped EXCEPT ![work[1]] = "partial"]
    BY <1>2, <1>4 DEF CompressBegin, Zips, Millwork, Others
  <2> QED
    BY <1>3, <2>1, CompressingInv DEF Beside
<1>5. CASE CompressCopy
  <2>1. /\ UNCHANGED <<day, restarts, file, acked, lines, failures, present, prefix, found, todo, work, millCh>>
        /\ mill = "copy" /\ mill' = "unlink"
        /\ zipped' = [zipped EXCEPT ![work[1]] = "whole"]
    BY <1>1, <1>2, <1>5 DEF CompressCopy, Zips, Millwork, Others
  <2> QED
    BY <1>1, <1>3, <2>1, CompressingInv DEF Beside
<1>6. CASE CompressUnlink
  <2>1. /\ UNCHANGED <<day, restarts, file, acked, lines, failures, zipped, prefix, found, todo, millCh>>
        /\ mill = "unlink" /\ mill' = "work" /\ work' = Tail(work)
        /\ present' = present \ {work[1]}
    BY <1>1, <1>2, <1>6 DEF CompressUnlink, Millwork, Others
  <2>2. work # <<>> /\ todo = <<>>
    BY <1>1, <2>1
  <2>3. zipped' = [zipped EXCEPT ![work[1]] = zipped[work[1]]] /\ zipped[work[1]] \in {"none", "partial", "whole"}
    BY <1>2, <1>3, <2>1, <2>2
  <2> QED
    BY <1>3, <2>1, <2>2, <2>3, CompressedInv DEF Beside
<1>7. CASE CompressGivesUp
  <2>1. /\ UNCHANGED <<lines, present, prefix, found, todo, millCh>>
        /\ mill = "work" /\ mill' = "work" /\ todo = <<>> /\ work # <<>> /\ work' = Tail(work) /\ Failing
        /\ zipped' \in {zipped, [zipped EXCEPT ![work[1]] = "partial"]}
    BY <1>2, <1>7 DEF CompressGivesUp
  <2>2. \E form \in {"none", "partial", "whole"} : zipped' = [zipped EXCEPT ![work[1]] = form]
    <3>1. zipped = [zipped EXCEPT ![work[1]] = zipped[work[1]]] /\ zipped[work[1]] \in {"none", "partial", "whole"}
      BY <1>2, <1>3, <2>1
    <3> QED
      BY <2>1, <3>1
  <2>3. Beside
    BY <2>1, FailingStays DEF Beside
  <2> QED
    BY <2>1, <2>2, <2>3, CompressedInv
<1>8. CASE CompressFails
  <2>1. /\ UNCHANGED <<lines, present, prefix, found, todo, millCh>>
        /\ mill \in {"copy", "unlink"} /\ mill' = "work" /\ work' = Tail(work) /\ Failing
        /\ zipped' = [zipped EXCEPT ![work[1]] = "none"]
    BY <1>1, <1>2, <1>8 DEF CompressFails, Zips
  <2>2. Beside
    BY <2>1, FailingStays DEF Beside
  <2> QED
    BY <1>1, <2>1, <2>2, CompressedInv
<1> QED
  BY <1>4, <1>5, <1>6, <1>7, <1>8

(* The plan: what MillPlan decides about the backups it found.             *)
LEMMA FoundAre ==
  ASSUME Inv
  PROVE  /\ found \in SUBSET Under(prefix) /\ prefix \in Nat
         /\ \A f \in found : /\ f.name \in OldNames /\ f.name[1] = prefix /\ f.name[2] \in 1..LastDay
                             /\ f \in [name : Names, gz : BOOLEAN] /\ f = [name |-> f.name, gz |-> f.gz]
                             /\ f.gz \/ f.name \in present
<1>1. prefix \in Nat
  BY TodayIs DEF Inv, TypeOK
<1>2. ASSUME NEW f \in found
      PROVE  /\ f.name \in OldNames /\ f.name[1] = prefix /\ f.name[2] \in 1..LastDay
             /\ f \in [name : Names, gz : BOOLEAN] /\ f = [name |-> f.name, gz |-> f.gz]
             /\ f.gz \/ f.name \in present
             /\ f \in Under(prefix)
  <2>1. /\ f.name \in OldNames /\ f.name[1] = prefix /\ (f.gz \/ f.name \in present)
        /\ f \in [name : Names, gz : BOOLEAN] /\ f = [name |-> f.name, gz |-> f.gz] /\ f.gz \in BOOLEAN
    BY DEF Inv, TypeOK, Listing
  <2>2. f.name[2] \in 1..LastDay /\ f.name[2] \in Nat
    BY <2>1, NamesAre, DaysAre
  <2>3. f.name = <<f.name[1], f.name[2]>>
    BY <2>1, NamesAre
  <2>4. f.name \in {prefix} \X Nat
    BY <2>1, <2>2, <2>3
  <2>5. [name |-> f.name, gz |-> f.gz] \in Under(prefix)
    BY <2>1, <2>4 DEF Under
  <2>6. f \in Under(prefix)
    BY <2>1, <2>5
  <2> QED
    BY <2>1, <2>2, <2>6
<1> QED
  BY <1>1, <1>2

LEMMA PlanIs ==
  ASSUME Inv, MillPlan
  PROVE  \E plan : /\ IsPlan(plan, found, day, MaxBackups, MaxAge, Compress)
                   /\ todo' = plan.remove
                   /\ work' = [i \in 1..Len(plan.compress) |-> plan.compress[i].name]
<1>1. PICK files \in NewestFirst(found, prefix) :
        /\ todo' = Plan(files, day, MaxBackups, MaxAge, Compress).remove
        /\ work' = [i \in 1..Len(Plan(files, day, MaxBackups, MaxAge, Compress).compress) |->
                       Plan(files, day, MaxBackups, MaxAge, Compress).compress[i].name]
  BY Zenon DEF MillPlan
<1>2. Lists(files, found)
  BY <1>1, FoundAre, SortedLists, DaysAre
<1>3. IsPlan(Plan(files, day, MaxBackups, MaxAge, Compress), found, day, MaxBackups, MaxAge, Compress)
  BY <1>2, FoundAre, PlanAre, LoggerAssumption
<1> QED
  BY <1>1, <1>3

LEMMA FiniteOldNames == IsFiniteSet(OldNames)
<1>1. 1 \in Int /\ LastDay \in Int
  BY DaysAre
<1>2. IsFiniteSet(Days)
  BY <1>1, FS_Interval, DaysAre
<1>3. IsFiniteSet(Days \X Days)
  BY <1>2, FS_Product
<1> QED
  BY <1>3, FS_Subset DEF OldNames

(* What the pass lets go, LogStore lets go.                                *)
LEMMA LetGo ==
  ASSUME Inv, NEW f \in found, ~StaysIn(found, f, day, MaxBackups, MaxAge)
  PROVE  f.name \in Dismissed
<1> DEFINE N == NewerIn(found, f)
           B == NewerBackups(f.name)
<1>1. f.name \in OldNames /\ MaxBackups \in Nat
  BY FoundAre, LoggerAssumption
<1>2. CASE TooOld(f, day, MaxAge)
  <2>1. MayGoOn(f.name, day)
    BY <1>2 DEF TooOld, Date, MayGoOn
  <2> QED
    BY <1>1, <2>1, MayGoIs
<1>3. CASE MaxBackups > 0 /\ ~(Cardinality(N) < MaxBackups)
  <2>1. \A n \in N : n \in OldNames /\ n[1] = f.name[1] /\ n[2] > f.name[2] /\ n = <<n[1], n[2]>>
    <3>1. \A g \in found : g.name[1] = f.name[1]
      BY FoundAre
    <3> QED
      BY <3>1, FoundAre, NamesAre DEF NewerIn
  <2>2. IsFiniteSet(B)
    <3> DEFINE F == [m \in OldNames |-> Backup(m)]
               I == {Backup(m) : m \in OldNames}
    <3>1. F \in Surjection(OldNames, I)
      BY DEF Surjection
    <3>2. IsFiniteSet(I)
      BY <3>1, FiniteOldNames, FS_Surjection
    <3>3. B \in SUBSET I
      BY DEF NewerBackups
    <3> QED
      BY <3>2, <3>3, FS_Subset
  <2> DEFINE G == [n \in N |-> Backup(n)]
  <2>3. \A n \in N : Backup(n) \in B
    BY <2>1 DEF NewerBackups, Backup
  <2>4. \A m, n \in N : Backup(m) = Backup(n) => m = n
    <3>1. ASSUME NEW m \in N, NEW n \in N, Backup(m) = Backup(n) PROVE m = n
      <4>1. m[1] = Backup(m).series /\ n[1] = Backup(n).series /\ m[2] = Backup(m).day /\ n[2] = Backup(n).day
        BY DEF Backup
      <4>2. m = <<m[1], m[2]>> /\ n = <<n[1], n[2]>>
        BY <2>1
      <4> HIDE DEF N
      <4> QED
        BY <3>1, <4>1, <4>2
    <3> QED
      BY <3>1
  <2> HIDE DEF N, B
  <2>5. G \in Injection(N, B)
    BY <2>3, <2>4 DEF Injection, IsInjective
  <2> HIDE DEF G
  <2>6. Cardinality(N) \in Nat /\ Cardinality(B) \in Nat /\ Cardinality(N) <= Cardinality(B)
    BY <2>2, <2>5, FS_Injection, FS_CardinalityType
  <2>7. Cardinality(B) >= MaxBackups
    BY <1>1, <1>3, <2>6
  <2>8. MayGoOn(f.name, day)
    BY <1>3, <2>7 DEF MayGoOn, B
  <2> QED
    BY <1>1, <2>8, MayGoIs
<1> QED
  BY <1>2, <1>3 DEF StaysIn

LEMMA MillPlanInv == Inv /\ MillPlan => Inv'
<1> SUFFICES ASSUME Inv, MillPlan PROVE Inv'
  OBVIOUS
<1>1. PICK plan : /\ IsPlan(plan, found, day, MaxBackups, MaxAge, Compress)
                  /\ todo' = plan.remove
                  /\ work' = [i \in 1..Len(plan.compress) |-> plan.compress[i].name]
  BY PlanIs
<1> DEFINE r == plan.remove
           c == plan.compress
           Stay(f) == StaysIn(found, f, day, MaxBackups, MaxAge)
<1>2. /\ UNCHANGED <<day, restarts, file, acked, lines, failures, present, zipped, prefix, millCh>>
      /\ mill = "plan" /\ mill' = "work" /\ found' = {}
  BY DEF MillPlan, Millwork, Others, disk
<1>3. /\ r \in Seq(found) /\ c \in Seq(found)
      /\ \A k, l \in 1..Len(c) : k < l => c[k] # c[l]
      /\ \A k \in 1..Len(r) : ~Stay(r[k])
      /\ \A k \in 1..Len(c) : ~c[k].gz /\ Stay(c[k])
  BY <1>1 DEF IsPlan, Once
<1>4. /\ Len(c) \in Nat /\ \A k \in 1..Len(c) : c[k] \in found
      /\ Len(r) \in Nat /\ \A k \in 1..Len(r) : r[k] \in found
  BY <1>3, LenProperties, ElementOfSeq
<1>5. ASSUME NEW f \in found, NEW g \in found, f.name = g.name PROVE Stay(f) <=> Stay(g)
  BY <1>5 DEF StaysIn, NewerIn, TooOld, Date
<1> HIDE DEF r, c, Stay
<1>6. todo' = r /\ work' = [k \in 1..Len(c) |-> c[k].name]
  BY <1>1 DEF r, c
<1>7. \A k \in 1..Len(c) : c[k].name \in OldNames /\ c[k].name \in Names /\ c[k].name \in present
  BY <1>3, <1>4, FoundAre, NamesAre
<1>8. /\ Len(work') = Len(c) /\ work' \in Seq(Names)
      /\ \A k \in 1..Len(c) : work'[k] = c[k].name
  <2>1. \A k \in 1..Len(c) : c[k].name \in Names
    BY <1>7
  <2> QED
    BY <1>4, <1>6, <2>1
<1>9. todo' \in Seq([name : Names, gz : BOOLEAN])
  <2> DEFINE R == [name : Names, gz : BOOLEAN]
  <2>1. found \subseteq R
    BY DEF Inv, TypeOK
  <2> HIDE DEF R
  <2>2. r \in Seq(R)
    BY <1>3, <2>1
  <2> QED
    BY <1>6, <2>2 DEF R
<1>10. TypeOK'
  BY <1>2, <1>8, <1>9 DEF Inv, TypeOK
<1>11. LinesDated'
  BY <1>2, TodayIs, LinesAreDated DEF Inv
<1>12. Listing'
  BY <1>2 DEF Inv, Listing
<1>13. Planned'
  <2>1. Dismissed' = Dismissed
    BY <1>2, MayGoIs DEF Dismissed
  <2>2. \A k \in 1..Len(r) : r[k].name \in Dismissed
    BY <1>3, <1>4, LetGo DEF Stay
  <2>3. ASSUME NEW i \in 1..Len(c), NEW j \in 1..Len(c), i # j PROVE c[i].name # c[j].name
    <3>1. c[i] # c[j]
      <4>1. i < j \/ j < i
        BY <1>4, <2>3
      <4> QED
        BY <1>3, <4>1
    <3>2. c[i] = [name |-> c[i].name, gz |-> c[i].gz] /\ c[j] = [name |-> c[j].name, gz |-> c[j].gz]
      BY <1>4, FoundAre
    <3>3. c[i].gz = FALSE /\ c[j].gz = FALSE
      <4>1. c[i].gz \in BOOLEAN /\ c[j].gz \in BOOLEAN
        BY <1>4, FoundAre
      <4> QED
        BY <1>3, <4>1
    <3> QED
      BY <3>1, <3>2, <3>3
  <2>4. ASSUME NEW i \in 1..Len(c), NEW j \in 1..Len(r) PROVE r[j].name # c[i].name
    BY <1>3, <1>4, <1>5
  <2> HIDE DEF Dismissed
  <2> QED
    BY <1>2, <1>6, <1>7, <1>8, <2>1, <2>2, <2>3, <2>4 DEF Planned
<1> QED
  BY <1>10, <1>11, <1>12, <1>13 DEF Inv

LEMMA InitInv == Init => Inv
<1> SUFFICES ASSUME Init PROVE Inv
  OBVIOUS
<1>1. /\ {MaxWrites, MaxRestarts, MaxFailures} \subseteq Nat /\ Existing \subseteq Names
      /\ FirstDay \in FirstDay..LastDay /\ FirstDay \in Nat
  BY LoggerAssumption
<1>2. /\ day = FirstDay /\ restarts = 0 /\ failures = 0
      /\ present = Existing /\ zipped = [n \in Names |-> "none"] /\ lines = [n \in Names |-> {}]
      /\ file = 0 /\ acked = {} /\ millCh = FALSE /\ mill = "off" /\ prefix = 0 /\ found = {}
      /\ todo = <<>> /\ work = <<>>
  BY DEF Init
<1>3. TypeOK
  <2>1. /\ day \in FirstDay..LastDay /\ restarts \in 0..MaxRestarts /\ failures \in 0..MaxFailures
        /\ file \in 0..day /\ prefix \in 0..day
    BY <1>1, <1>2
  <2>2. /\ present \subseteq Names /\ zipped \in [Names -> {"none", "partial", "whole"}]
        /\ acked \subseteq [n : 1..MaxWrites, day : Days] /\ lines \in [Names -> SUBSET acked]
        /\ found \subseteq [name : Names, gz : BOOLEAN]
    BY <1>1, <1>2
  <2>3. todo \in Seq([name : Names, gz : BOOLEAN]) /\ work \in Seq(Names)
    BY <1>2
  <2>4. millCh \in BOOLEAN /\ mill \in {"off", "recv", "list", "plan", "work", "copy", "unlink"}
    BY <1>2
  <2> QED
    BY <1>2, <2>1, <2>2, <2>3, <2>4 DEF TypeOK
<1>4. LinesDated
  BY <1>2, FS_EmptySet DEF LinesDated
<1>5. Listing
  BY <1>2, NamesAre DEF Listing
<1>6. Planned
  BY <1>2 DEF Planned
<1> QED
  BY <1>3, <1>4, <1>5, <1>6 DEF Inv

(* Every reachable state satisfies the inductive invariant: a removal      *)
(* still to do is of a backup that may go, and a compression still to do   *)
(* is of a file that is there and that nothing else takes away.            *)
THEOREM Invariance == Spec => []Inv
<1>1. Inv /\ [Next]_vars => Inv'
  <2> SUFFICES ASSUME Inv, [Next]_vars PROVE Inv'
    OBVIOUS
  <2>1. CASE UNCHANGED vars
    <3>1. UNCHANGED <<day, restarts, failures, present, zipped, lines, file, acked, millCh,
                      mill, prefix, found, todo, work>>
      BY <2>1 DEF vars, disk, milling
    <3>2. TypeOK' /\ day \in Nat
      BY <3>1, TodayIs DEF Inv, TypeOK
    <3> QED
      BY <3>1, <3>2, LinesAreDated, LoggerSide
  <2>2. CASE Next
    BY <2>2, WriteInv, WritesInv, RotateInv, ClosingInv, MidnightInv, RestartInv, MillIdlesInv,
       MillListInv, MillPlanInv, MillRemovesInv, CompressInv
       DEF Next, Mill, MillError
  <2> QED
    BY <2>1, <2>2
<1> QED
  BY InitInv, <1>1, PTL DEF Spec

-----------------------------------------------------------------------------
(* What a pass does.                                                       *)

LEMMA OnceCounted ==
  ASSUME NEW S, NEW q \in Seq(S), Once(q)
  PROVE  Len(q) = Cardinality(ToSet(q)) /\ ToSet(q) = {q[i] : i \in 1..Len(q)}
<1>1. Len(q) \in Nat /\ DOMAIN q = 1..Len(q)
  BY LenProperties
<1>2. IsFiniteSet(1..Len(q)) /\ Cardinality(1..Len(q)) = Len(q)
  <2>1. 1 \in Int /\ Len(q) \in Int /\ (1 > Len(q) => Len(q) = 0)
    BY <1>1
  <2> QED
    BY <1>1, <2>1, FS_Interval
<1>3. ToSet(q) = {q[i] : i \in 1..Len(q)}
  BY <1>1 DEF ToSet
<1> DEFINE F == [i \in 1..Len(q) |-> q[i]]
<1>4. F \in Surjection(1..Len(q), ToSet(q))
  BY <1>3 DEF Surjection
<1>5. F \in Injection(1..Len(q), ToSet(q))
  <2>1. ASSUME NEW i \in 1..Len(q), NEW j \in 1..Len(q), q[i] = q[j] PROVE i = j
    <3>1. ~(i < j) /\ ~(j < i)
      BY <2>1 DEF Once
    <3> QED
      BY <1>1, <3>1
  <2> QED
    BY <1>3, <2>1 DEF Injection, IsInjective
<1> HIDE DEF F
<1> QED
  BY <1>2, <1>3, <1>4, <1>5, FS_Surjection

(* Each pass removes exactly the backups retention lets go, each file of   *)
(* them once, and compresses the uncompressed ones that stay, whatever     *)
(* order the sort leaves the two files of a backup in: millRunOnce.        *)
THEOREM Plan_Is_Definition == Spec => PlanIsDefinition
<1> DEFINE Decided ==
      mill = "plan" /\ mill' = "work" =>
        /\ ToSet(todo') = {f \in found : ~Stays(f)} /\ Len(todo') = Cardinality(ToSet(todo'))
        /\ ToSet(work') = {f.name : f \in {g \in found : Compress /\ ~g.gz /\ Stays(g)}}
<1>1. Inv /\ [Next]_vars => [Decided]_vars
  <2> SUFFICES ASSUME Inv, Next, mill = "plan", mill' = "work"
               PROVE  /\ ToSet(todo') = {f \in found : ~Stays(f)} /\ Len(todo') = Cardinality(ToSet(todo'))
                      /\ ToSet(work') = {f.name : f \in {g \in found : Compress /\ ~g.gz /\ Stays(g)}}
    OBVIOUS
  <2>1. MillPlan
    BY DEF Next, Write, WriteReopens, WriteCreates, WriteTruncates, WriteFails, Close, Rotate, RotateFails,
           Wake, milling, Mill, MillError, MillReceive, MillList, MillRemove, CompressBegin, CompressCopy,
           CompressUnlink, MillDone, MillListFails, MillRemoveFails, CompressGivesUp, CompressFails,
           Midnight, Restart
  <2>2. PICK plan : /\ IsPlan(plan, found, day, MaxBackups, MaxAge, Compress)
                    /\ todo' = plan.remove
                    /\ work' = [i \in 1..Len(plan.compress) |-> plan.compress[i].name]
    BY <2>1, PlanIs
  <2> DEFINE r == plan.remove
             c == plan.compress
             Stay(f) == StaysIn(found, f, day, MaxBackups, MaxAge)
  <2>3. /\ r \in Seq(found) /\ c \in Seq(found) /\ Once(r)
        /\ \A k \in 1..Len(r) : ~Stay(r[k])
        /\ \A f \in found : ~Stay(f) => \E k \in 1..Len(r) : r[k] = f
        /\ \A k \in 1..Len(c) : Compress /\ ~c[k].gz /\ Stay(c[k])
        /\ \A f \in found : Compress /\ ~f.gz /\ Stay(f) => \E k \in 1..Len(c) : c[k] = f
    BY <2>2 DEF IsPlan
  <2>4. \A f \in found : Stays(f) <=> Stay(f)
    BY DEF Stays, Newer, StaysIn, NewerIn, Date
  <2> HIDE DEF Stay, r, c
  <2>5. /\ \A k \in 1..Len(r) : r[k] \in found
        /\ \A k \in 1..Len(c) : c[k] \in found
        /\ Len(c) \in Nat
    BY <2>3, ElementOfSeq, LenProperties
  <2>6. todo' = r /\ work' = [i \in 1..Len(c) |-> c[i].name]
    BY <2>2 DEF r, c
  <2>7. Len(r) = Cardinality(ToSet(r)) /\ ToSet(r) = {r[i] : i \in 1..Len(r)}
    BY <2>3, OnceCounted
  <2>8. {r[i] : i \in 1..Len(r)} = {f \in found : ~Stays(f)}
    BY <2>3, <2>4, <2>5
  <2>9. ToSet(work') = {c[i].name : i \in 1..Len(c)}
    BY <2>6 DEF ToSet
  <2>10. {c[i].name : i \in 1..Len(c)} = {f.name : f \in {g \in found : Compress /\ ~g.gz /\ Stays(g)}}
    <3>1. ASSUME NEW i \in 1..Len(c)
          PROVE  c[i] \in {g \in found : Compress /\ ~g.gz /\ Stays(g)}
      BY <2>3, <2>4, <2>5
    <3>2. ASSUME NEW f \in {g \in found : Compress /\ ~g.gz /\ Stays(g)}
          PROVE  \E i \in 1..Len(c) : c[i] = f
      BY <2>3, <2>4
    <3> QED
      BY <3>1, <3>2
  <2> QED
    BY <2>6, <2>7, <2>8, <2>9, <2>10
<1> QED
  BY <1>1, Invariance, PTL DEF Spec, PlanIsDefinition

-----------------------------------------------------------------------------
(* The directory implements LogStore.                                      *)

Wholes == {n \in OldNames : Whole(n)}
Backed == {Backup(n) : n \in Wholes}

LEMMA SameKept ==
  ASSUME Inv, lines' = lines, \A n \in Logs : n \in present' <=> n \in present,
         present' \subseteq Names
  PROVE  Kept' = Kept
<1>1. \A n \in Names : n \notin Logs => lines[n] = {}
  BY DEF Inv, LinesDated
<1>2. present \subseteq Names
  BY DEF Inv, TypeOK
<1>3. \A l : l \in Kept <=> \E n \in present : l \in lines[n]
  BY DEF Kept
<1>4. \A l : l \in Kept' <=> \E n \in present' : l \in lines[n]
  BY DEF Kept
<1>5. \A l : l \in Kept' <=> l \in Kept
  BY <1>1, <1>2, <1>3, <1>4
<1> QED
  BY <1>5

LEMMA Stutters ==
  ASSUME day' = day, acked' = acked, Kept' = Kept, Backed' = Backed
  PROVE  UNCHANGED Stored!vars
BY DEF Stored!vars, Backed, Wholes

LEMMA BackupsDiffer ==
  ASSUME NEW x \in OldNames
  PROVE  {Backup(n) : n \in Wholes \ {x}} = Backed \ {Backup(x)}
<1>1. \A n \in OldNames : Backup(n) = Backup(x) => n = x
  <2>1. ASSUME NEW n \in OldNames, Backup(n) = Backup(x) PROVE n = x
    <3>1. n[1] = x[1] /\ n[2] = x[2]
      BY <2>1 DEF Backup
    <3> QED
      BY <3>1, NamesAre
  <2> QED
    BY <2>1
<1>2. Wholes \subseteq OldNames
  BY DEF Wholes
<1> QED
  BY <1>1, <1>2 DEF Backed

(* A write loses no line but those of today.                               *)
LEMMA WriteKeeps ==
  ASSUME Inv, NEW n \in Logs, n[1] <= day, NEW before \in SUBSET lines[n],
         (before = lines[n] /\ n \in present) \/ (before = {} /\ n[1] = day),
         Acknowledge(n, before), present' = present \cup {n}
  PROVE  Stored!Acknowledge
<1>1. /\ acked' = acked \cup {Line} /\ Line.day = day
      /\ Line = [n |-> Cardinality(acked) + 1, day |-> day]
      /\ Cardinality(acked') = Cardinality(acked) + 1 /\ day' = day /\ zipped' = zipped
  BY Acknowledged
<1>2. lines' = [lines EXCEPT ![n] = before \cup {Line}]
  BY DEF Acknowledge
<1> HIDE DEF Line
<1>3. /\ lines \in [Names -> SUBSET acked] /\ present \subseteq Names /\ n \in Names /\ n[1] \in Nat
      /\ \A l \in acked : l.day <= day /\ l.day \in Nat
      /\ \A m \in Names : \A l \in lines[m] : m[1] <= l.day
      /\ day \in Nat
  BY NamesAre, DaysAre, TodayIs DEF Inv, TypeOK, LinesDated
<1>4. /\ lines'[n] = before \cup {Line} /\ \A m \in Names : m # n => lines'[m] = lines[m]
      /\ n \in present'
  BY <1>2, <1>3
<1>5. /\ \A l : l \in Kept <=> \E m \in present : l \in lines[m]
      /\ \A l : l \in Kept' <=> \E m \in present' : l \in lines'[m]
  BY DEF Kept
<1>6. Line \in Kept' /\ Kept' \subseteq Kept \cup {Line}
  <2>1. Line \in Kept'
    BY <1>4, <1>5
  <2>2. ASSUME NEW m \in present', NEW l \in lines'[m] PROVE l \in Kept \cup {Line}
    <3>1. CASE m = n
      <4>1. l = Line \/ (l \in lines[n] /\ n \in present)
        BY <1>4, <2>2, <3>1
      <4> QED
        BY <1>5, <4>1
    <3>2. CASE m # n
      <4>1. m \in present /\ lines'[m] = lines[m]
        BY <1>3, <1>4, <3>2
      <4> QED
        BY <1>5, <2>2, <4>1
    <3> QED
      BY <3>1, <3>2
  <2> QED
    BY <1>5, <2>1, <2>2
<1>7. \A l \in Kept \ Kept' : l.day = day
  <2>1. ASSUME NEW l \in Kept, l \notin Kept' PROVE l.day = day
    <3>1. PICK m \in present : l \in lines[m]
      BY <1>5
    <3>2. m = n
      BY <1>3, <1>4, <1>5, <2>1, <3>1
    <3>3. n[1] = day
      BY <1>4, <1>5, <2>1, <3>1, <3>2
    <3>4. l \in acked
      BY <1>3, <3>1
    <3> QED
      BY <1>3, <3>1, <3>2, <3>3, <3>4
  <2> QED
    BY <2>1
<1>8. Backed' = Backed
  <2>1. \A m \in OldNames : Whole(m)' <=> Whole(m)
    BY <1>1, NamesAre DEF Whole
  <2>2. Wholes' = Wholes
    BY <2>1 DEF Wholes
  <2> QED
    BY <2>2 DEF Backed
<1> QED
  BY <1>1, <1>6, <1>7, <1>8 DEF Stored!Acknowledge, Stored!OnlyTodays, Backed, Wholes

LEMMA WritesStore == Inv /\ (Write \/ WriteReopens \/ WriteCreates \/ WriteTruncates) => Stored!Acknowledge
<1> SUFFICES ASSUME Inv, Write \/ WriteReopens \/ WriteCreates \/ WriteTruncates PROVE Stored!Acknowledge
  OBVIOUS
<1>1. CASE Write
  <2>1. /\ <<file>> \in Logs /\ <<file>>[1] <= day /\ lines[<<file>>] \in SUBSET lines[<<file>>]
        /\ <<file>> \in present
    BY <1>1, TodayIs DEF Write, Inv, TypeOK
  <2>2. Acknowledge(<<file>>, lines[<<file>>]) /\ present' = present \cup {<<file>>}
    BY <1>1, <2>1 DEF Write
  <2> QED
    BY <2>1, <2>2, WriteKeeps
<1>2. /\ <<day>> \in Logs /\ <<day>>[1] = day /\ <<day>>[1] <= day
      /\ lines[<<day>>] \in SUBSET lines[<<day>>] /\ {} \in SUBSET lines[<<day>>]
  BY TodayIs DEF Inv
<1>3. CASE WriteReopens
  <2>1. /\ Acknowledge(<<day>>, lines[<<day>>]) /\ present' = present \cup {<<day>>}
        /\ <<day>> \in present
    BY <1>3 DEF WriteReopens
  <2> QED
    BY <1>2, <2>1, WriteKeeps
<1>4. CASE WriteCreates
  <2>1. Acknowledge(<<day>>, {}) /\ present' = present \cup {<<day>>}
    BY <1>4 DEF WriteCreates
  <2> QED
    BY <1>2, <2>1, WriteKeeps
<1>5. CASE WriteTruncates
  <2>1. Acknowledge(<<day>>, {}) /\ present' = present \cup {<<day>>}
    BY <1>5 DEF WriteTruncates
  <2> QED
    BY <1>2, <2>1, WriteKeeps
<1> QED
  BY <1>1, <1>3, <1>4, <1>5

LEMMA RotateStores == Inv /\ Rotate => Stored!Truncate
<1> SUFFICES ASSUME Inv, Rotate PROVE Stored!Truncate
  OBVIOUS
<1>1. /\ present' = present \cup {<<day>>} /\ day' = day /\ zipped' = zipped /\ acked' = acked
      /\ lines' = [lines EXCEPT ![<<day>>] = {}]
  BY DEF Rotate
<1>2. /\ lines \in [Names -> SUBSET acked] /\ present \subseteq Names /\ <<day>> \in Names /\ <<day>>[1] = day
      /\ <<day>> \in Logs
      /\ \A l \in acked : l.day <= day /\ l.day \in Nat
      /\ \A m \in Names : \A l \in lines[m] : m[1] <= l.day
      /\ day \in Nat
  BY DaysAre, TodayIs DEF Inv, TypeOK, LinesDated
<1>3. lines'[<<day>>] = {} /\ \A m \in Names : m # <<day>> => lines'[m] = lines[m]
  BY <1>1, <1>2
<1>4. /\ \A l : l \in Kept <=> \E m \in present : l \in lines[m]
      /\ \A l : l \in Kept' <=> \E m \in present' : l \in lines'[m]
  BY DEF Kept
<1>5. Kept' \subseteq Kept
  <2>1. ASSUME NEW m \in present', NEW l \in lines'[m] PROVE l \in Kept
    <3>1. m # <<day>>
      BY <1>3, <2>1
    <3>2. m \in present /\ lines'[m] = lines[m]
      BY <1>1, <1>2, <1>3, <3>1
    <3> QED
      BY <1>4, <2>1, <3>2
  <2> QED
    BY <1>4, <2>1
<1>6. \A l \in Kept \ Kept' : l.day = day
  <2>1. ASSUME NEW l \in Kept, l \notin Kept' PROVE l.day = day
    <3>1. PICK m \in present : l \in lines[m]
      BY <1>4
    <3>2. m = <<day>>
      BY <1>1, <1>2, <1>3, <1>4, <2>1, <3>1
    <3> QED
      BY <1>2, <3>1, <3>2
  <2> QED
    BY <2>1
<1>7. Backed' = Backed
  <2>1. \A m \in OldNames : Whole(m)' <=> Whole(m)
    BY <1>1, <1>2, NamesAre DEF Whole
  <2>2. Wholes' = Wholes
    BY <2>1 DEF Wholes
  <2> QED
    BY <2>2 DEF Backed
<1> QED
  BY <1>1, <1>5, <1>6, <1>7 DEF Stored!Truncate, Stored!OnlyTodays, Backed, Wholes

(* Steps that leave the files alone.                                       *)
LEMMA NothingStored ==
  ASSUME UNCHANGED <<day, acked, present, zipped, lines>>
  PROVE  UNCHANGED Stored!vars
<1>1. Kept' = Kept
  BY DEF Kept
<1>2. Backed' = Backed
  BY DEF Backed, Wholes, Whole
<1> QED
  BY <1>1, <1>2, Stutters

LEMMA IdlesStore ==
  Inv /\ (\/ WriteFails \/ Close \/ RotateFails \/ Restart \/ UNCHANGED vars
          \/ MillReceive \/ MillList \/ MillPlan \/ MillDone \/ MillListFails \/ MillRemoveFails)
    => UNCHANGED Stored!vars
<1> SUFFICES ASSUME Inv, \/ WriteFails \/ Close \/ RotateFails \/ Restart \/ UNCHANGED vars
                         \/ MillReceive \/ MillList \/ MillPlan \/ MillDone
                         \/ MillListFails \/ MillRemoveFails
             PROVE  UNCHANGED Stored!vars
  OBVIOUS
<1>1. UNCHANGED <<day, acked, present, zipped, lines>>
  BY DEF WriteFails, Close, RotateFails, Restart, vars, MillReceive, MillList, MillPlan, MillDone,
         MillListFails, MillRemoveFails, Millwork, Failing, Others, disk
<1> QED
  BY <1>1, NothingStored

LEMMA MidnightStores == Inv /\ Midnight => Stored!Midnight
<1> SUFFICES ASSUME Inv, Midnight PROVE Stored!Midnight
  OBVIOUS
<1>1. day' = day + 1 /\ UNCHANGED <<acked, present, zipped, lines>>
  BY DEF Midnight, disk
<1>2. Kept' = Kept
  BY <1>1 DEF Kept
<1>3. Backed' = Backed
  BY <1>1 DEF Backed, Wholes, Whole
<1> QED
  BY <1>1, <1>2, <1>3 DEF Stored!Midnight, Backed, Wholes

(* A backup goes in whatever form it was there, once it is gone in both.   *)
LEMMA RemoveStores == Inv /\ MillRemove => Stored!Next \/ UNCHANGED Stored!vars
<1> SUFFICES ASSUME Inv, MillRemove PROVE Stored!Next \/ UNCHANGED Stored!vars
  OBVIOUS
<1> DEFINE x == todo[1].name
<1>1. /\ todo \in Seq([name : Names, gz : BOOLEAN]) /\ todo # <<>>
      /\ day' = day /\ acked' = acked /\ lines' = lines
  BY DEF MillRemove, Millwork, Others, Inv, TypeOK
<1>2. Head(todo) = todo[1] /\ x \in Dismissed
  BY <1>1, Tails DEF Inv, Planned
<1>3. x \in OldNames /\ x \in Names /\ x \notin Logs /\ Stored!MayGo(Backup(x))
  BY <1>2, NamesAre DEF Dismissed
<1>4. \/ zipped' = [zipped EXCEPT ![x] = "none"] /\ present' = present
      \/ present' = present \ {x} /\ zipped' = zipped
  BY <1>2 DEF MillRemove
<1> HIDE DEF x
<1>5. /\ present' \subseteq Names /\ \A n \in Names : n # x => (n \in present' <=> n \in present)
      /\ \A n \in Names : n # x => zipped'[n] = zipped[n]
      /\ zipped'[x] = zipped[x] \/ zipped'[x] = "none"
      /\ x \in present' => x \in present
  BY <1>3, <1>4 DEF Inv, TypeOK
<1>6. Kept' = Kept
  <2>1. \A n \in Logs : n \in present' <=> n \in present
    BY <1>3, <1>5, NamesAre
  <2> QED
    BY <1>1, <1>5, <2>1, SameKept
<1>7. Wholes' = Wholes \/ (x \in Wholes /\ Wholes' = Wholes \ {x})
  <2>1. \A n \in OldNames : n # x => (n \in Wholes' <=> n \in Wholes)
    BY <1>5, NamesAre DEF Wholes, Whole
  <2>2. x \in Wholes' => x \in Wholes
    BY <1>5 DEF Wholes, Whole
  <2>3. Wholes \subseteq OldNames /\ Wholes' \subseteq OldNames
    BY DEF Wholes
  <2> QED
    BY <1>3, <2>1, <2>2, <2>3
<1>8. CASE Wholes' = Wholes
  <2>1. Backed' = Backed
    BY <1>8 DEF Backed
  <2> QED
    BY <1>1, <1>6, <2>1, Stutters
<1>9. CASE x \in Wholes /\ Wholes' = Wholes \ {x}
  <2>1. Backed' = Backed \ {Backup(x)} /\ Backup(x) \in Backed
    BY <1>3, <1>9, BackupsDiffer DEF Backed
  <2>2. Stored!Drop(Backup(x))
    BY <1>1, <1>3, <1>6, <2>1 DEF Stored!Drop, Backed, Wholes
  <2>3. Backup(x) \in {Backup(n) : n \in {m \in OldNames : Whole(m)}}
    BY <2>1 DEF Backed, Wholes
  <2> QED
    BY <2>2, <2>3 DEF Stored!Next
<1> QED
  BY <1>7, <1>8, <1>9

(* While a backup is compressed it is there in full, in one form or the    *)
(* other.                                                                  *)
LEMMA CompressionStores ==
  Inv /\ (CompressBegin \/ CompressCopy \/ CompressUnlink \/ CompressGivesUp \/ CompressFails)
    => UNCHANGED Stored!vars
<1> SUFFICES ASSUME Inv,
                    CompressBegin \/ CompressCopy \/ CompressUnlink \/ CompressGivesUp \/ CompressFails
             PROVE  UNCHANGED Stored!vars
  OBVIOUS
<1> DEFINE x == work[1]
<1>1. /\ day' = day /\ acked' = acked /\ lines' = lines
      /\ mill \in {"copy", "unlink"} \/ work # <<>>
  BY DEF CompressBegin, CompressCopy, CompressUnlink, CompressGivesUp, CompressFails, Millwork, Failing, Others
<1>2. work # <<>> /\ work \in Seq(Names)
  BY <1>1 DEF Inv, TypeOK, Planned
<1>3. Head(work) = x /\ 1 \in 1..Len(work)
  BY <1>2, Tails
<1>4. x \in OldNames /\ x \in present /\ x \in Names /\ x \notin Logs
  BY <1>3, NamesAre DEF Inv, Planned
<1>5. /\ present' = present \/ (present' = present \ {x} /\ zipped' = zipped /\ zipped[x] = "whole")
      /\ zipped' = zipped \/ \E form : zipped' = [zipped EXCEPT ![x] = form]
  <2>1. CASE CompressBegin
    BY <1>3, <2>1, Zenon DEF CompressBegin, Zips
  <2>2. CASE CompressCopy
    BY <1>3, <2>2, Zenon DEF CompressCopy, Zips
  <2>3. CASE CompressUnlink
    BY <1>3, <2>3 DEF CompressUnlink, Inv, Planned
  <2>4. CASE CompressGivesUp
    BY <1>3, <2>4 DEF CompressGivesUp
  <2>5. CASE CompressFails
    BY <1>3, <2>5, Zenon DEF CompressFails, Zips
  <2> QED
    BY <2>1, <2>2, <2>3, <2>4, <2>5
<1> HIDE DEF x
<1>6. \A n \in Names : n # x => (n \in present' <=> n \in present) /\ zipped'[n] = zipped[n]
  <2>1. zipped \in [Names -> {"none", "partial", "whole"}]
    BY DEF Inv, TypeOK
  <2> QED
    BY <1>5, <2>1
<1>7. Kept' = Kept
  <2>1. present' \subseteq Names /\ \A n \in Logs : n \in present' <=> n \in present
    BY <1>4, <1>5, <1>6, NamesAre DEF Inv, TypeOK
  <2> QED
    BY <1>1, <2>1, SameKept
<1>8. Backed' = Backed
  <2>1. \A n \in OldNames : n # x => (n \in Wholes' <=> n \in Wholes)
    BY <1>6, NamesAre DEF Wholes, Whole
  <2>2. x \in Wholes /\ x \in Wholes'
    BY <1>4, <1>5 DEF Wholes, Whole
  <2>3. Wholes \subseteq OldNames /\ Wholes' \subseteq OldNames
    BY DEF Wholes
  <2>4. Wholes' = Wholes
    BY <1>4, <2>1, <2>2, <2>3
  <2> QED
    BY <2>4 DEF Backed
<1> QED
  BY <1>1, <1>7, <1>8, Stutters

LEMMA InitStores == Init => Stored!Init
<1> SUFFICES ASSUME Init PROVE Stored!Init
  OBVIOUS
<1>1. day \in Nat
  BY LoggerAssumption DEF Init
<1>2. Cardinality(acked) = 0
  BY FS_EmptySet DEF Init
<1>3. Kept = {}
  <2>1. \A n \in present : lines[n] = {}
    BY LoggerAssumption DEF Init
  <2> QED
    BY <2>1 DEF Kept
<1>4. {m \in OldNames : Whole(m)} = OldNames
  BY DEF Init, OldNames, Whole
<1> QED
  BY <1>1, <1>2, <1>3, <1>4 DEF Stored!Init

(* The directory keeps the promises of LogStore, whatever the mill does    *)
(* meanwhile, and over failures and restarts: an acknowledged line stays   *)
(* unless today's log is truncated today, and a backup stays, whole in one *)
(* form or the other, until retention lets it go (DivisionLogger, its      *)
(* mill, compressLogFile).                                                 *)
THEOREM Refinement == Spec => ImplementsStore
<1>1. Inv /\ [Next]_vars => [Stored!Next]_(Stored!vars)
  <2> SUFFICES ASSUME Inv, [Next]_vars PROVE Stored!Next \/ UNCHANGED Stored!vars
    OBVIOUS
  <2>1. Stored!Acknowledge => Stored!Next
    BY DEF Stored!Next
  <2>2. Stored!Truncate => Stored!Next
    BY DEF Stored!Next
  <2>3. Stored!Midnight => Stored!Next
    BY DEF Stored!Next
  <2> QED
    BY <2>1, <2>2, <2>3, WritesStore, RotateStores, MidnightStores, RemoveStores, CompressionStores,
       IdlesStore DEF Next, Mill, MillError
<1> QED
  BY InitStores, <1>1, Invariance, PTL DEF Spec, ImplementsStore, Stored!Spec
=============================================================================
