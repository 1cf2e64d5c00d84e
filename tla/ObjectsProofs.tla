---------------------------- MODULE ObjectsProofs ----------------------------
(***************************************************************************)
(* Proofs about Bucket and Objects, for every value of their constants:    *)
(* whatever the number of callers, of requests that fail or come late, and *)
(* of restarts.                                                            *)
(***************************************************************************)
EXTENDS Objects, SequenceTheorems, TLAPS

-----------------------------------------------------------------------------
(* TryMakeBucket.                                                          *)

(* The actions that makeFun consists of. *)
Making == Make \/ MakeFails \/ Exists \/ ExistsFails \/ SetLifecycle \/ SetLifecycleFails

(* A new handler and a store, with the bucket or without it.               *)
LEMMA BucketInit == Init => Inv
<1> SUFFICES ASSUME Init PROVE Inv
  OBVIOUS
<1> USE BucketAssumption DEF Init
<1>0. smooth \in BOOLEAN /\ (smooth /\ Store = "cloudStorage" => bucket)
  BY Zenon
<1>1. TypeOK
  <2>1. caller \in [Callers -> {"idle", "once", "nil", "error"}] /\ ran \subseteq Callers
    OBVIOUS
  <2>2. once \in {"new", "running", "done"} /\ runner \in Callers \cup {None}
    OBVIOUS
  <2>3. calls \in 0..MaxCalls /\ restarts \in 0..MaxRestarts
    OBVIOUS
  <2>4. (once = "running") = (runner # None) /\ step \in {None, "make", "exists", "lifecycle", "end"}
        /\ err \in {"nil", "error"}
    OBVIOUS
  <2>5. Store \in Stores /\ {bucket, lifecycle, smooth} \subseteq BOOLEAN
    BY <1>0
  <2> QED
    BY <2>1, <2>2, <2>3, <2>4, <2>5 DEF TypeOK
<1>2. InOnce /\ ErrKept /\ AllMade
  BY <1>0 DEF InOnce, ErrKept, AllMade, None
<1>3. RunnerHasBucket /\ NilMeansReady
  BY DEF RunnerHasBucket, NilMeansReady
<1> QED
  BY <1>1, <1>2, <1>3 DEF Inv

(* Every type is kept by every step (TryMakeBucket).                       *)
LEMMA BucketType == Inv /\ [Next]_vars => TypeOK'
<1> SUFFICES ASSUME Inv, [Next]_vars PROVE TypeOK'
  OBVIOUS
<1> USE BucketAssumption DEF Inv, TypeOK
<1>1. ASSUME NEW c \in Callers, Call(c) PROVE TypeOK'
  BY <1>1 DEF Call, store, handler
<1>2. ASSUME NEW c \in Callers, RunOnce(c) PROVE TypeOK'
  BY <1>2 DEF RunOnce, store
<1>3. ASSUME NEW c \in Callers, SkipOnce(c) PROVE TypeOK'
  BY <1>3 DEF SkipOnce, store, handler
<1>4. CASE Make
  BY <1>4 DEF Make, MakeFun
<1>5. CASE MakeFails
  BY <1>5 DEF MakeFails, MakeFun, Shadowed
<1>6. CASE Exists
  BY <1>6 DEF Exists, MakeFun
<1>7. CASE ExistsFails
  BY <1>7 DEF ExistsFails, MakeFun
<1>8. CASE SetLifecycle
  BY <1>8 DEF SetLifecycle, MakeFun
<1>9. CASE SetLifecycleFails
  BY <1>9 DEF SetLifecycleFails, MakeFun, Shadowed
<1>10. CASE ReturnErr
  BY <1>10 DEF ReturnErr, store
<1>11. CASE Restart
  <2>1. restarts' \in 0..MaxRestarts
    <3>1. restarts' = restarts + 1 /\ restarts < MaxRestarts /\ restarts \in 0..MaxRestarts
      BY <1>11 DEF Restart
    <3> QED
      BY <3>1
  <2>2. caller' \in [Callers -> {"idle", "once", "nil", "error"}] /\ ran' \subseteq Callers
    BY <1>11 DEF Restart
  <2>3. (once' = "running") = (runner' # None)
    BY <1>11 DEF Restart
  <2> QED
    BY <1>11, <2>1, <2>2, <2>3 DEF Restart, store
<1>12. CASE UNCHANGED vars
  BY <1>12 DEF vars, store, handler
<1> QED
  BY <1>1, <1>2, <1>3, <1>4, <1>5, <1>6, <1>7, <1>8, <1>9, <1>10, <1>11, <1>12
  DEF Next, MakeStep, LifecycleAnswered

(* What the runner of makeFun, and those who wait for it, can conclude.    *)
LEMMA BucketStepInv ==
  Inv /\ [Next]_vars => (InOnce /\ ErrKept /\ AllMade /\ RunnerHasBucket /\ NilMeansReady)'
<1> SUFFICES ASSUME Inv, [Next]_vars
             PROVE  (InOnce /\ ErrKept /\ AllMade /\ RunnerHasBucket /\ NilMeansReady)'
  OBVIOUS
<1>a. TypeOK'
  BY BucketType
<1> USE BucketAssumption DEF Inv, TypeOK, InOnce, ErrKept, AllMade, RunnerHasBucket, NilMeansReady
<1>1. ASSUME NEW c \in Callers, Call(c)
      PROVE  (InOnce /\ ErrKept /\ AllMade /\ RunnerHasBucket /\ NilMeansReady)'
  BY <1>1 DEF Call, store, handler
<1>2. ASSUME NEW c \in Callers, RunOnce(c)
      PROVE  (InOnce /\ ErrKept /\ AllMade /\ RunnerHasBucket /\ NilMeansReady)'
  BY <1>2 DEF RunOnce, store
<1>3. ASSUME NEW c \in Callers, SkipOnce(c)
      PROVE  (InOnce /\ ErrKept /\ AllMade /\ RunnerHasBucket /\ NilMeansReady)'
  BY <1>3 DEF SkipOnce, store, handler
<1>4. CASE Make
  BY <1>4 DEF Make, MakeFun
<1>5. CASE MakeFails
  BY <1>5 DEF MakeFails, MakeFun, Shadowed
<1>6. CASE Exists
  BY <1>6 DEF Exists, MakeFun
<1>7. CASE ExistsFails
  BY <1>7 DEF ExistsFails, MakeFun
<1>8. CASE SetLifecycle
  BY <1>8 DEF SetLifecycle, MakeFun
<1>9. CASE SetLifecycleFails
  BY <1>9 DEF SetLifecycleFails, MakeFun, Shadowed
<1>10. CASE ReturnErr
  <2>1. runner \in Callers /\ \A c \in Callers : caller'[c] = IF c = runner THEN err ELSE caller[c]
    BY <1>10 DEF ReturnErr
  <2>2. InOnce' /\ ErrKept' /\ AllMade'
    BY <1>10, <2>1 DEF ReturnErr, store, None
  <2>3. RunnerHasBucket'
    BY <1>10, <2>1 DEF ReturnErr, store
  <2>4. NilMeansReady'
    BY <1>10, <2>1 DEF ReturnErr, store
  <2> QED
    BY <2>2, <2>3, <2>4
<1>11. CASE Restart
  <2>1. ran' = {} /\ smooth' = FALSE /\ step' = "none"
    BY <1>11 DEF Restart, None
  <2> QED
    BY <2>1
<1>12. CASE UNCHANGED vars
  BY <1>12 DEF vars, store, handler
<1> QED
  BY <1>1, <1>2, <1>3, <1>4, <1>5, <1>6, <1>7, <1>8, <1>9, <1>10, <1>11, <1>12
  DEF Next, MakeStep, LifecycleAnswered

(* Bucket keeps its inductive invariant. *)
LEMMA BucketStep1 == Inv /\ [Next]_vars => Inv'
BY BucketType, BucketStepInv DEF Inv

(* What the runner of makeFun is told holds of every handler, whatever     *)
(* else is stored meanwhile (TryMakeBucket).                               *)
THEOREM BucketInvariance == Spec => []Inv
BY BucketInit, BucketStep1, PTL DEF Spec

-----------------------------------------------------------------------------
(* The objects.                                                            *)

(* The key of an object is the one it is meant to have, with or without    *)
(* the slash after the directory.                                          *)
LEMMA KeyIsMeant ==
  ASSUME NEW p \in Paths, NEW n \in FileNames
  PROVE  Key(p, n) = Parts(p, n)
<1>1. p \in Seq(STRING) /\ Len(p) \in Nat \ {0} /\ n \in Seq(STRING)
  BY ObjectsAssumption, EmptySeq
<1>2. CASE p[Len(p)] # "/"
  <2>1. Key(p, n) = (p \o <<"/">>) \o n /\ Parts(p, n) = p \o <<"/">> \o n
    BY <1>2 DEF Key, Parts, Directory
  <2> QED
    BY <2>1
<1>3. CASE p[Len(p)] = "/"
  <2> DEFINE d == SubSeq(p, 1, Len(p) - 1)
  <2>1. Key(p, n) = p \o n /\ Parts(p, n) = d \o <<"/">> \o n
    BY <1>3 DEF Key, Parts, Directory
  <2>2. SubSeq(p, 1, Len(p)) = d \o <<p[Len(p)]>>
    <3>1. 1 \in 1..Len(p) /\ Len(p) \in 1..Len(p)
      BY <1>1
    <3> QED
      BY <1>1, <3>1, SubSeqRecursiveSecond
  <2>3. SubSeq(p, 1, Len(p)) = p
    BY <1>1, SubSeqFull
  <2>4. p = d \o <<"/">>
    BY <1>3, <2>2, <2>3
  <2> QED
    BY <2>1, <2>4
<1> QED
  BY <1>2, <1>3

(* So the keys in use are the objects there are. *)
LEMMA SameSets == Keys = Objs
BY KeyIsMeant DEF Keys, Objs

(* What a caller does is nothing, or a Put, or a Get.                      *)
LEMMA Operations ==
  ASSUME ObjTypeOK, NEW c \in Callers
  PROVE  /\ op[c] = Free \/ op[c].at = "put" \/ op[c].at = "get"
         /\ op[c] = Free <=> op[c].at = "free"
         /\ op[c].at = "put" => op[c] \in Puts
         /\ op[c].at = "get" => op[c] \in Gets
         /\ op[c] # Free => op[c].key \in Keys /\ op[c].obj \in Objs /\ op[c].meant \in 0..MaxOps
BY DEF ObjTypeOK, Free, Puts, Gets

(* A Put of an object marks what else is on its way to it.                 *)
LEMMA Crossing ==
  ASSUME ObjTypeOK, NEW o, NEW c \in Callers
  PROVE  /\ Crossed(o)[c] \in {Free} \cup Puts \cup Gets
         /\ Crossed(o)[c] = Free <=> op[c] = Free
         /\ Crossed(o)[c].at = op[c].at
         /\ op[c] # Free => /\ Crossed(o)[c].key = op[c].key /\ Crossed(o)[c].obj = op[c].obj
                            /\ Crossed(o)[c].meant = IF op[c].obj = o THEN 0 ELSE op[c].meant
         /\ op[c].at = "put" => Crossed(o)[c].n = op[c].n
<1>1. CASE op[c] # Free /\ op[c].obj = o
  <2>1. Crossed(o)[c] = [op[c] EXCEPT !.meant = 0]
    BY <1>1 DEF Crossed
  <2>2. CASE op[c] \in Puts
    BY <1>1, <2>1, <2>2, ObjectsAssumption DEF Puts, Free
  <2>3. CASE op[c] \in Gets
    BY <1>1, <2>1, <2>3, ObjectsAssumption DEF Gets, Free
  <2> QED
    BY <1>1, <2>2, <2>3, Operations
<1>2. CASE ~(op[c] # Free /\ op[c].obj = o)
  <2>1. Crossed(o)[c] = op[c]
    BY <1>2 DEF Crossed
  <2> QED
    BY <1>2, <2>1 DEF ObjTypeOK
<1> QED
  BY <1>1, <1>2

(* Whoever stores or loads leaves the bucket alone: Objects keeps all that *)
(* Bucket promises (dfs).                                                  *)
LEMMA BucketUnder == [ObjNext]_allVars => [Next]_vars
BY DEF ObjNext, BucketStep, ObjRestart, StrayArrives, ObjStep, BeginPut, BeginGet, PutStored,
       PutFails, GetAnswered, GetFails, Finish, Next, allVars

(* No objects, no requests.                                                *)
LEMMA ObjectsInit == ObjInit => ObjInv
<1> SUFFICES ASSUME ObjInit PROVE ObjInv
  OBVIOUS
<1>1. Inv
  BY BucketInit DEF ObjInit
<1>2. \A c \in Callers : op[c] = Free /\ op[c].at = "free"
  BY DEF ObjInit, Free
<1>3. ObjTypeOK
  BY <1>1, ObjectsAssumption DEF ObjInit, Inv, ObjTypeOK, Nothing
<1>4. Keyed /\ Alone
  BY <1>2 DEF Keyed, Alone
<1>5. Kept
  BY <1>2 DEF ObjInit, Kept, Nothing
<1> QED
  BY <1>1, <1>3, <1>4, <1>5 DEF ObjInv

(* Every type is kept by every step (PutObject, GetObject).                *)
LEMMA ObjectsType == ObjInv /\ [ObjNext]_allVars => ObjTypeOK'
<1> SUFFICES ASSUME ObjInv, [ObjNext]_allVars PROVE ObjTypeOK'
  OBVIOUS
<1>a. TypeOK'
  BY BucketUnder, BucketType DEF ObjInv
<1>b. ObjTypeOK
  BY DEF ObjInv
<1>c. MaxOps \in Nat
  BY ObjectsAssumption
<1>1. CASE BucketStep
  <2>1. ASSUME NEW c \in Callers, op[c] # Free PROVE caller'[c] # "once"
    <3>1. ASSUME NEW d \in Callers, op[d] = Free, Call(d) PROVE caller'[c] # "once"
      BY <1>b, <2>1, <3>1 DEF Call, ObjTypeOK, TypeOK
    <3>2. ASSUME NEW d \in Callers, RunOnce(d) \/ SkipOnce(d) PROVE caller'[c] # "once"
      BY <1>b, <2>1, <3>2 DEF RunOnce, SkipOnce, ObjTypeOK, TypeOK
    <3>3. CASE MakeStep \/ LifecycleAnswered
      BY <1>b, <2>1, <3>3
      DEF MakeStep, LifecycleAnswered, Make, MakeFails, Exists, ExistsFails, ReturnErr, SetLifecycle,
          SetLifecycleFails, MakeFun, ObjTypeOK, TypeOK
    <3> QED
      BY <1>1, <3>1, <3>2, <3>3 DEF BucketStep
  <2>2. UNCHANGED objVars
    BY <1>1 DEF BucketStep
  <2> QED
    BY <1>a, <1>b, <2>1, <2>2 DEF ObjTypeOK, objVars
<1>2. CASE ObjRestart
  <2>1. strays' \subseteq [key : Keys, n : 1..MaxOps]
    <3>1. Lost \subseteq [key : Keys, n : 1..MaxOps]
      BY <1>b, Operations DEF Lost, Puts
    <3> QED
      BY <1>2, <1>b, <3>1 DEF ObjRestart, ObjTypeOK
  <2> QED
    BY <1>2, <1>a, <1>b, <1>c, <2>1 DEF ObjRestart, Restart, ObjTypeOK, Nothing
<1>3. CASE StrayArrives
  <2>1. PICK s \in strays : objects' = [objects EXCEPT ![s.key] = s.n] /\ strays' = strays \ {s}
    BY <1>3 DEF StrayArrives
  <2>2. objects' \in [Keys -> 0..MaxOps] /\ strays' \subseteq [key : Keys, n : 1..MaxOps]
    BY <1>b, <2>1 DEF ObjTypeOK
  <2> QED
    BY <1>3, <1>a, <1>b, <2>2 DEF StrayArrives, ObjTypeOK, vars
<1>4. ASSUME NEW c \in Callers, NEW p \in Paths, NEW n \in FileNames, BeginPut(c, p, n)
      PROVE  ObjTypeOK'
  <2> DEFINE o == Parts(p, n)
             m == IF PutsOf(o) = {} /\ \A s \in strays : s.key # Key(p, n) THEN ops + 1 ELSE 0
             r == [at |-> "put", key |-> Key(p, n), obj |-> o, n |-> ops + 1, meant |-> m]
  <2>1. o \in Objs /\ Key(p, n) \in Keys
    BY DEF Objs, Keys
  <2>2. ops + 1 \in 1..MaxOps /\ ops' = ops + 1 /\ m \in 0..MaxOps
    BY <1>4, <1>b, <1>c DEF BeginPut, CanCall, ObjTypeOK
  <2>3. r \in Puts
    BY <2>1, <2>2 DEF Puts
  <2>4. op' = [Crossed(o) EXCEPT ![c] = r]
    BY <1>4 DEF BeginPut
  <2> HIDE DEF o, r
  <2>5. \A d \in Callers : op'[d] = IF d = c THEN r ELSE Crossed(o)[d]
    BY <2>4 DEF Crossed
  <2>6. op' \in [Callers -> {Free} \cup Puts \cup Gets]
    <3>1. \A d \in Callers : op'[d] \in {Free} \cup Puts \cup Gets
      BY <1>b, <2>3, <2>5, Crossing
    <3> QED
      BY <2>4, <3>1 DEF Crossed
  <2>7. \A d \in Callers : op'[d] # Free => caller'[d] # "once"
    BY <1>4, <1>b, <2>5, Crossing DEF BeginPut, CanCall, ObjTypeOK, vars
  <2>8. /\ confirmed' \in [Objs -> 0..MaxOps] /\ loaded' \in [Callers -> [meant : 0..MaxOps, got : 0..MaxOps]]
        /\ UNCHANGED <<objects, strays>>
    <3>1. Nothing \in [meant : 0..MaxOps, got : 0..MaxOps]
      BY <1>c DEF Nothing
    <3>2. loaded' = [loaded EXCEPT ![c] = Nothing] /\ confirmed' = [confirmed EXCEPT ![o] = 0]
          /\ UNCHANGED <<objects, strays>>
      BY <1>4 DEF BeginPut, o
    <3>3. confirmed' \in [Objs -> 0..MaxOps]
      <4>1. confirmed \in [Objs -> 0..MaxOps] /\ 0 \in 0..MaxOps
        BY <1>b, <1>c DEF ObjTypeOK
      <4> QED
        BY <3>2, <4>1
    <3>4. loaded' \in [Callers -> [meant : 0..MaxOps, got : 0..MaxOps]]
      BY <1>b, <3>1, <3>2 DEF ObjTypeOK
    <3> QED
      BY <3>2, <3>3, <3>4
  <2> QED
    BY <1>a, <1>b, <1>c, <2>2, <2>6, <2>7, <2>8 DEF ObjTypeOK
<1>5. ASSUME NEW c \in Callers, NEW p \in Paths, NEW n \in FileNames, BeginGet(c, p, n)
      PROVE  ObjTypeOK'
  <2> DEFINE r == [at |-> "get", key |-> Key(p, n), obj |-> Parts(p, n), meant |-> confirmed[Parts(p, n)]]
  <2>1. Parts(p, n) \in Objs /\ Key(p, n) \in Keys
    BY DEF Objs, Keys
  <2>2. r \in Gets
    BY <1>b, <2>1 DEF Gets, ObjTypeOK
  <2>3. op' = [op EXCEPT ![c] = r] /\ ops' \in 0..MaxOps
    BY <1>5, <1>b, <1>c DEF BeginGet, CanCall, ObjTypeOK
  <2> HIDE DEF r
  <2> QED
    BY <1>5, <1>a, <1>b, <2>2, <2>3 DEF BeginGet, CanCall, ObjTypeOK, vars
<1>6. ASSUME NEW c \in Callers, op[c].at \in {"put", "get"}, Finish(c),
             objects' \in [Keys -> 0..MaxOps], confirmed' \in [Objs -> 0..MaxOps],
             strays' \subseteq [key : Keys, n : 1..MaxOps],
             loaded' \in [Callers -> [meant : 0..MaxOps, got : 0..MaxOps]]
      PROVE  ObjTypeOK'
  BY <1>6, <1>a, <1>b DEF Finish, ObjTypeOK, vars
<1>7. ASSUME NEW c \in Callers, PutStored(c) PROVE ObjTypeOK'
  <2>1. op[c] \in Puts
    BY <1>7, <1>b, Operations DEF PutStored
  <2> QED
    BY <1>6, <1>7, <1>b, <2>1 DEF PutStored, ObjTypeOK, Puts
<1>8. ASSUME NEW c \in Callers, PutFails(c) PROVE ObjTypeOK'
  <2>1. op[c] \in Puts
    BY <1>8, <1>b, Operations DEF PutFails
  <2>2. objects' \in [Keys -> 0..MaxOps] /\ strays' \subseteq [key : Keys, n : 1..MaxOps]
    BY <1>8, <1>b, <2>1 DEF PutFails, ObjTypeOK, Puts
  <2>3. confirmed' \in [Objs -> 0..MaxOps] /\ loaded' = loaded
    BY <1>8, <1>b, <2>1 DEF PutFails, ObjTypeOK, Puts
  <2> QED
    BY <1>6, <1>8, <1>b, <2>2, <2>3 DEF PutFails, ObjTypeOK
<1>9. ASSUME NEW c \in Callers, GetAnswered(c) PROVE ObjTypeOK'
  <2>1. op[c] \in Gets
    BY <1>9, <1>b, Operations DEF GetAnswered
  <2>2. (IF bucket THEN objects[op[c].key] ELSE 0) \in 0..MaxOps
    BY <1>b, <1>c, <2>1 DEF ObjTypeOK, Gets
  <2>3. loaded' \in [Callers -> [meant : 0..MaxOps, got : 0..MaxOps]]
    BY <1>9, <1>b, <2>1, <2>2 DEF GetAnswered, Load, ObjTypeOK, Gets
  <2> QED
    BY <1>6, <1>9, <1>b, <2>3 DEF GetAnswered, ObjTypeOK
<1>10. ASSUME NEW c \in Callers, GetFails(c) PROVE ObjTypeOK'
  BY <1>6, <1>10, <1>b, <1>c DEF GetFails, Load, Nothing, ObjTypeOK
<1>11. CASE UNCHANGED allVars
  BY <1>11, <1>a, <1>b DEF allVars, vars, objVars, ObjTypeOK
<1> QED
  BY <1>1, <1>2, <1>3, <1>4, <1>5, <1>7, <1>8, <1>9, <1>10, <1>11 DEF ObjNext, ObjStep

(* A request is for the key of its object, whatever path it was given      *)
(* (PutObject, GetObject).                                                 *)
LEMMA KeyedStep == ObjInv /\ [ObjNext]_allVars => Keyed'
<1> SUFFICES ASSUME ObjInv, [ObjNext]_allVars PROVE Keyed'
  OBVIOUS
<1>a. ObjTypeOK /\ Keyed /\ op \in [Callers -> {Free} \cup Puts \cup Gets]
  BY DEF ObjInv, ObjTypeOK
<1>1. CASE BucketStep \/ StrayArrives \/ UNCHANGED allVars
  BY <1>1, <1>a DEF BucketStep, StrayArrives, allVars, objVars, Keyed
<1>2. CASE ObjRestart
  BY <1>2 DEF ObjRestart, Keyed
<1>3. ASSUME NEW c \in Callers, NEW p \in Paths, NEW n \in FileNames, BeginPut(c, p, n)
      PROVE  Keyed'
  <2>1. \A d \in Callers \ {c} : op'[d] = Crossed(Parts(p, n))[d]
    BY <1>3 DEF BeginPut, Crossed
  <2>2. op'[c].key = op'[c].obj
    BY <1>3, KeyIsMeant DEF BeginPut, Crossed
  <2> QED
    BY <1>a, <2>1, <2>2, Crossing DEF Keyed
<1>4. ASSUME NEW c \in Callers, NEW p \in Paths, NEW n \in FileNames, BeginGet(c, p, n)
      PROVE  Keyed'
  <2>1. \A d \in Callers \ {c} : op'[d] = op[d]
    BY <1>4, <1>a DEF BeginGet
  <2>2. op'[c].key = op'[c].obj
    BY <1>4, <1>a, KeyIsMeant DEF BeginGet
  <2> QED
    BY <1>a, <2>1, <2>2 DEF Keyed
<1>5. ASSUME NEW c \in Callers, PutStored(c) \/ PutFails(c) \/ GetAnswered(c) \/ GetFails(c)
      PROVE  Keyed'
  BY <1>5, <1>a DEF PutStored, PutFails, GetAnswered, GetFails, Finish, Keyed
<1> QED
  BY <1>1, <1>2, <1>3, <1>4, <1>5 DEF ObjNext, ObjStep

(* The bucket is never removed, and the type of the store never changes.   *)
LEMMA BucketStays ==
  ASSUME Inv, [Next]_vars
  PROVE  (bucket => bucket') /\ Store' = Store
<1>1. CASE \E c \in Callers : Call(c) \/ RunOnce(c) \/ SkipOnce(c)
  BY <1>1 DEF Call, RunOnce, SkipOnce, store
<1>2. CASE MakeStep \/ LifecycleAnswered
  <2>1. Store' = Store
    BY <1>2
    DEF MakeStep, LifecycleAnswered, Make, MakeFails, Exists, ExistsFails, ReturnErr, SetLifecycle,
        SetLifecycleFails, MakeFun, store
  <2>2. bucket' = bucket \/ bucket' = TRUE
    BY <1>2
    DEF MakeStep, LifecycleAnswered, Make, MakeFails, Exists, ExistsFails, ReturnErr, SetLifecycle,
        SetLifecycleFails, store
  <2> QED
    BY <2>1, <2>2
<1>3. CASE Restart \/ UNCHANGED vars
  BY <1>3 DEF Restart, vars, store
<1> QED
  BY <1>1, <1>2, <1>3 DEF Next

(* Alone and Kept: what is said to be stored is stored.  Every case has    *)
(* the Puts on their way in view: a step that changes what is stored under *)
(* a key, or lets go of a request, meets nothing confirmed there           *)
(* (PutObject, GetObject).                                                 *)
LEMMA KeptStep ==
  ASSUME ObjInv, Store # "cloudStorage", [ObjNext]_allVars
  PROVE  Alone' /\ Kept'
<1>a. /\ ObjTypeOK /\ Keyed /\ Alone /\ Kept /\ (bucket => bucket')
      /\ op \in [Callers -> {Free} \cup Puts \cup Gets]
      /\ objects \in [Objs -> 0..MaxOps] /\ confirmed \in [Objs -> 0..MaxOps]
      /\ loaded \in [Callers -> [meant : 0..MaxOps, got : 0..MaxOps]]
  BY BucketUnder, BucketStays, SameSets DEF ObjInv, ObjTypeOK
<1>b. \A c \in Callers : op[c].at \in {"put", "get"} => op[c] # Free /\ op[c].key = op[c].obj /\ op[c].obj \in Objs
  BY <1>a, Operations DEF Keyed
<1>c. MaxOps \in Nat
  BY ObjectsAssumption
<1>1. CASE BucketStep \/ UNCHANGED allVars
  <2>1. UNCHANGED objVars
    BY <1>1 DEF BucketStep, allVars
  <2> QED
    BY <1>a, <2>1 DEF objVars, Alone, Kept, Quiet, PutsOf
<1>2. CASE ObjRestart
  <2>1. \A c \in Callers : op'[c].at = "free" /\ loaded'[c].meant = 0
    BY <1>2 DEF ObjRestart, Free, Nothing
  <2>2. PICK S \in SUBSET Lost : strays' = strays \cup S
    BY <1>2 DEF ObjRestart
  <2>3. ASSUME NEW o \in Objs, confirmed[o] # 0 PROVE Quiet(o)'
    <3>1. \A s \in Lost : s.key # o
      BY <1>a, <1>b, <2>3 DEF Lost, Alone
    <3> QED
      BY <1>a, <2>2, <2>3, <3>1 DEF Kept, Quiet
  <2> QED
    BY <1>2, <1>a, <2>1, <2>3 DEF ObjRestart, Alone, Kept
<1>3. CASE StrayArrives
  <2>1. PICK s \in strays : objects' = [objects EXCEPT ![s.key] = s.n] /\ strays' = strays \ {s}
    BY <1>3 DEF StrayArrives
  <2>2. UNCHANGED <<op, confirmed, loaded>>
    BY <1>3 DEF StrayArrives
  <2>3. Alone'
    BY <1>a, <2>1, <2>2 DEF Alone, Quiet, PutsOf
  <2>4. ASSUME NEW o \in Objs, confirmed[o] # 0 PROVE objects'[o] = confirmed[o] /\ Quiet(o)'
    BY <1>a, <2>1, <2>4 DEF Kept, Quiet
  <2> QED
    BY <1>a, <2>2, <2>3, <2>4 DEF Kept
<1>4. ASSUME NEW c \in Callers, NEW p \in Paths, NEW n \in FileNames, BeginPut(c, p, n)
      PROVE  Alone' /\ Kept'
  <2> DEFINE o == Parts(p, n)
             m == IF PutsOf(o) = {} /\ \A s \in strays : s.key # Key(p, n) THEN ops + 1 ELSE 0
             r == [at |-> "put", key |-> Key(p, n), obj |-> o, n |-> ops + 1, meant |-> m]
  <2>1. o \in Objs /\ Key(p, n) = o
    BY KeyIsMeant DEF Objs
  <2>2. op' = [Crossed(o) EXCEPT ![c] = r] /\ op[c] = Free
    BY <1>4 DEF BeginPut, CanCall
  <2>3. confirmed' = [confirmed EXCEPT ![o] = 0] /\ loaded' = [loaded EXCEPT ![c] = Nothing]
        /\ UNCHANGED <<objects, strays>>
    BY <1>4 DEF BeginPut
  <2>4. r.at = "put" /\ r.obj = o /\ r.n = ops + 1 /\ r.meant = m
    OBVIOUS
  <2>5. m # 0 => m = ops + 1 /\ PutsOf(o) = {} /\ Quiet(o)
    BY <2>1 DEF Quiet
  <2> HIDE DEF o, m, r
  <2>6. \A d \in Callers : op'[d] = IF d = c THEN r ELSE Crossed(o)[d]
    BY <2>2 DEF Crossed
  <2>7. op[c].at = "free"
    BY <1>a, <2>2, Operations
  <2>8. \A x : x # o => PutsOf(x)' = PutsOf(x)
    BY <1>a, <1>b, <2>4, <2>6, <2>7, Crossing DEF PutsOf
  <2>9. Alone'
    <3>1. ASSUME NEW d \in Callers, NEW x \in Objs, op'[d].at = "put", op'[d].obj = x
          PROVE  /\ confirmed'[x] = 0
                 /\ op'[d].meant # 0 => op'[d].meant = op'[d].n /\ Quiet(x)' /\ PutsOf(x)' = {d}
      <4>1. CASE d = c
        <5>1. op'[d] = r /\ x = o /\ confirmed'[o] = 0
          BY <1>a, <2>1, <2>3, <2>4, <2>6, <3>1, <4>1
        <5>2. Quiet(o) => Quiet(x)'
          BY <2>3, <5>1 DEF Quiet
        <5>3. PutsOf(o) = {} => PutsOf(x)' = {d}
          BY <1>a, <1>b, <2>4, <2>6, <4>1, <5>1, Crossing DEF PutsOf
        <5> QED
          BY <2>4, <2>5, <5>1, <5>2, <5>3
      <4>2. CASE d # c
        <5>1. /\ op[d].at = "put" /\ op[d].obj = x /\ op'[d].n = op[d].n
              /\ op'[d].meant = IF x = o THEN 0 ELSE op[d].meant
          BY <1>a, <1>b, <2>6, <3>1, <4>2, Crossing
        <5>2. confirmed[x] = 0 /\ (op[d].meant # 0 => op[d].meant = op[d].n /\ Quiet(x) /\ PutsOf(x) = {d})
          BY <1>a, <5>1 DEF Alone
        <5>3. confirmed'[x] = 0
          BY <1>a, <2>3, <5>2
        <5>4. Quiet(x) => Quiet(x)'
          BY <2>3 DEF Quiet
        <5> QED
          BY <2>8, <5>1, <5>2, <5>3, <5>4
      <4> QED
        BY <4>1, <4>2
    <3>2. \A d \in Callers : op'[d].at = "put" => op'[d].obj \in Objs
      BY <1>a, <1>b, <2>1, <2>4, <2>6, Crossing
    <3> QED
      BY <3>1, <3>2 DEF Alone, Quiet, PutsOf
  <2>10. Kept'
    <3>1. ASSUME NEW x \in Objs, confirmed'[x] # 0
          PROVE  bucket' /\ objects'[x] = confirmed'[x] /\ Quiet(x)'
      BY <1>a, <2>3, <3>1 DEF Kept, Quiet
    <3>2. ASSUME NEW d \in Callers, op'[d].at = "get", op'[d].meant # 0
          PROVE  op'[d].meant = confirmed'[op'[d].obj]
      <4>1. d # c
        BY <2>4, <2>6, <3>2
      <4>2. /\ op[d].at = "get" /\ op'[d].obj = op[d].obj
            /\ op'[d].meant = IF op[d].obj = o THEN 0 ELSE op[d].meant
        BY <1>a, <1>b, <2>6, <3>2, <4>1, Crossing
      <4> QED
        BY <1>a, <1>b, <2>3, <3>2, <4>2 DEF Kept
    <3>3. \A d \in Callers : loaded'[d].meant # 0 => loaded'[d].got = loaded'[d].meant
      BY <1>a, <2>3 DEF Kept, Nothing
    <3> QED
      BY <3>1, <3>2, <3>3 DEF Kept
  <2> QED
    BY <2>9, <2>10
<1>5. ASSUME NEW c \in Callers, NEW p \in Paths, NEW n \in FileNames, BeginGet(c, p, n)
      PROVE  Alone' /\ Kept'
  <2> DEFINE r == [at |-> "get", key |-> Key(p, n), obj |-> Parts(p, n), meant |-> confirmed[Parts(p, n)]]
  <2>1. r.at = "get" /\ r.meant = confirmed[r.obj]
    OBVIOUS
  <2>2. op' = [op EXCEPT ![c] = r] /\ op[c] = Free /\ UNCHANGED <<objects, strays, confirmed, loaded>>
    BY <1>5 DEF BeginGet, CanCall
  <2> HIDE DEF r
  <2>3. \A d \in Callers : op'[d] = IF d = c THEN r ELSE op[d]
    BY <1>a, <2>2
  <2>4. op[c].at = "free"
    BY <1>a, <2>2, Operations
  <2>5. \A x : PutsOf(x)' = PutsOf(x)
    BY <2>1, <2>3, <2>4 DEF PutsOf
  <2>6. Alone'
    BY <1>a, <2>1, <2>2, <2>3, <2>5 DEF Alone, Quiet
  <2>7. Kept'
    BY <1>a, <2>1, <2>2, <2>3 DEF Kept, Quiet
  <2> QED
    BY <2>6, <2>7
<1>6. ASSUME NEW c \in Callers, Finish(c), op[c].at \in {"put", "get"}
      PROVE  /\ \A d \in Callers : op'[d] = IF d = c THEN Free ELSE op[d]
             /\ \A x : PutsOf(x)' = PutsOf(x) \ {c}
             /\ Free.at = "free"
  <2>1. \A d \in Callers : op'[d] = IF d = c THEN Free ELSE op[d]
    BY <1>6, <1>a DEF Finish
  <2> QED
    BY <2>1 DEF PutsOf, Free
<1>7. ASSUME NEW c \in Callers, PutStored(c) PROVE Alone' /\ Kept'
  <2>1. PICK o \in Objs : o = op[c].obj /\ o = op[c].key
    BY <1>7, <1>b DEF PutStored
  <2>2. op[c].at = "put" /\ bucket /\ Finish(c) /\ op[c].meant \in Nat /\ op[c].n \in Nat
    BY <1>7, <1>a, <1>c, Operations DEF PutStored, Puts
  <2>3. /\ objects' = [objects EXCEPT ![o] = op[c].n] /\ confirmed' = [confirmed EXCEPT ![o] = op[c].meant]
        /\ UNCHANGED <<strays, loaded>>
    BY <1>7, <2>1 DEF PutStored
  <2>4. /\ \A d \in Callers : op'[d] = IF d = c THEN Free ELSE op[d]
        /\ \A x : PutsOf(x)' = PutsOf(x) \ {c}
        /\ Free.at = "free" /\ c \in PutsOf(o)
    BY <1>6, <2>1, <2>2 DEF PutsOf
  <2>5. op[c].meant # 0 => op[c].meant = op[c].n /\ Quiet(o) /\ PutsOf(o) = {c}
    BY <1>a, <2>1, <2>2 DEF Alone
  <2>6. Alone'
    <3>1. ASSUME NEW d \in Callers, NEW x \in Objs, op'[d].at = "put", op'[d].obj = x
          PROVE  /\ confirmed'[x] = 0
                 /\ op'[d].meant # 0 => op'[d].meant = op'[d].n /\ Quiet(x)' /\ PutsOf(x)' = {d}
      <4>1. d # c /\ op'[d] = op[d] /\ d \in PutsOf(x)
        BY <2>4, <3>1 DEF PutsOf
      <4>2. confirmed[x] = 0 /\ (op[d].meant # 0 => op[d].meant = op[d].n /\ Quiet(x) /\ PutsOf(x) = {d})
        BY <1>a, <3>1, <4>1 DEF Alone
      <4>3. x = o => op[c].meant = 0
        BY <2>5, <4>1
      <4>4. confirmed'[x] = 0
        BY <1>a, <2>3, <4>2, <4>3
      <4>5. Quiet(x) => Quiet(x)'
        BY <2>3 DEF Quiet
      <4> QED
        BY <2>4, <4>1, <4>2, <4>4, <4>5
    <3>2. \A d \in Callers : op'[d].at = "put" => op'[d].obj \in Objs
      BY <1>b, <2>4
    <3> QED
      BY <3>1, <3>2 DEF Alone, Quiet, PutsOf
  <2>7. Kept'
    <3>1. ASSUME NEW x \in Objs, confirmed'[x] # 0
          PROVE  bucket' /\ objects'[x] = confirmed'[x] /\ Quiet(x)'
      <4>1. Quiet(x) => Quiet(x)'
        BY <2>3 DEF Quiet
      <4>2. CASE x = o
        BY <1>a, <2>2, <2>3, <2>5, <3>1, <4>1, <4>2
      <4>3. CASE x # o
        BY <1>a, <2>3, <3>1, <4>1, <4>3 DEF Kept
      <4> QED
        BY <4>2, <4>3
    <3>2. ASSUME NEW d \in Callers, op'[d].at = "get", op'[d].meant # 0
          PROVE  op'[d].meant = confirmed'[op'[d].obj]
      <4>1. d # c /\ op'[d] = op[d]
        BY <2>4, <3>2
      <4>2. op[d].meant = confirmed[op[d].obj]
        BY <1>a, <3>2, <4>1 DEF Kept
      <4>3. confirmed[o] = 0
        BY <1>a, <2>1, <2>2 DEF Alone
      <4> QED
        BY <1>a, <2>3, <3>2, <4>1, <4>2, <4>3
    <3>3. \A d \in Callers : loaded'[d].meant # 0 => loaded'[d].got = loaded'[d].meant
      BY <1>a, <2>3 DEF Kept
    <3> QED
      BY <3>1, <3>2, <3>3 DEF Kept
  <2> QED
    BY <2>6, <2>7
<1>8. ASSUME NEW c \in Callers, PutFails(c) PROVE Alone' /\ Kept'
  <2>1. PICK o \in Objs : o = op[c].obj /\ o = op[c].key
    BY <1>8, <1>b DEF PutFails
  <2>2. op[c].at = "put" /\ Finish(c) /\ confirmed[o] = 0 /\ UNCHANGED <<confirmed, loaded>>
    BY <1>8, <1>a, <2>1 DEF PutFails, ReportsFailure, Alone
  <2>3. /\ strays' = strays \/ strays' = strays \cup {[key |-> o, n |-> op[c].n]}
        /\ objects' = objects \/ objects' = [objects EXCEPT ![o] = op[c].n]
    BY <1>8, <2>1 DEF PutFails
  <2>4. /\ \A d \in Callers : op'[d] = IF d = c THEN Free ELSE op[d]
        /\ \A x : PutsOf(x)' = PutsOf(x) \ {c}
        /\ Free.at = "free" /\ c \in PutsOf(o)
    BY <1>6, <2>1, <2>2 DEF PutsOf
  <2>5. \A x \in Objs \ {o} : (Quiet(x) => Quiet(x)') /\ objects'[x] = objects[x]
    BY <1>a, <2>3 DEF Quiet
  <2>6. Alone'
    <3>1. ASSUME NEW d \in Callers, NEW x \in Objs, op'[d].at = "put", op'[d].obj = x
          PROVE  /\ confirmed'[x] = 0
                 /\ op'[d].meant # 0 => op'[d].meant = op'[d].n /\ Quiet(x)' /\ PutsOf(x)' = {d}
      <4>1. d # c /\ op'[d] = op[d] /\ d \in PutsOf(x)
        BY <2>4, <3>1 DEF PutsOf
      <4>2. confirmed[x] = 0 /\ (op[d].meant # 0 => op[d].meant = op[d].n /\ Quiet(x) /\ PutsOf(x) = {d})
        BY <1>a, <3>1, <4>1 DEF Alone
      <4>3. op[d].meant # 0 => x # o
        BY <2>4, <4>1, <4>2
      <4> QED
        BY <2>2, <2>4, <2>5, <4>1, <4>2, <4>3
    <3>2. \A d \in Callers : op'[d].at = "put" => op'[d].obj \in Objs
      BY <1>b, <2>4
    <3> QED
      BY <3>1, <3>2 DEF Alone, Quiet, PutsOf
  <2>7. Kept'
    <3>1. ASSUME NEW x \in Objs, confirmed'[x] # 0
          PROVE  bucket' /\ objects'[x] = confirmed'[x] /\ Quiet(x)'
      BY <1>a, <2>2, <2>5, <3>1 DEF Kept
    <3>2. ASSUME NEW d \in Callers, op'[d].at = "get", op'[d].meant # 0
          PROVE  op'[d].meant = confirmed'[op'[d].obj]
      BY <1>a, <2>2, <2>4, <3>2 DEF Kept
    <3>3. \A d \in Callers : loaded'[d].meant # 0 => loaded'[d].got = loaded'[d].meant
      BY <1>a, <2>2 DEF Kept
    <3> QED
      BY <3>1, <3>2, <3>3 DEF Kept
  <2> QED
    BY <2>6, <2>7
<1>9. ASSUME NEW c \in Callers, op[c].at = "get", Finish(c), UNCHANGED <<objects, strays, confirmed>>,
             NEW w, Load(c, w), w.meant # 0 => w.got = w.meant
      PROVE  Alone' /\ Kept'
  <2>1. /\ \A d \in Callers : op'[d] = IF d = c THEN Free ELSE op[d]
        /\ \A x : PutsOf(x)' = PutsOf(x)
        /\ Free.at = "free"
    BY <1>6, <1>9 DEF PutsOf
  <2>2. Alone'
    BY <1>9, <1>a, <2>1 DEF Alone, Quiet
  <2>3. \A d \in Callers : loaded'[d].meant # 0 => loaded'[d].got = loaded'[d].meant
    BY <1>9, <1>a DEF Load, Kept
  <2> QED
    BY <1>9, <1>a, <2>1, <2>2, <2>3 DEF Kept, Quiet
<1>10. ASSUME NEW c \in Callers, GetAnswered(c) PROVE Alone' /\ Kept'
  <2> DEFINE w == [meant |-> op[c].meant, got |-> IF bucket THEN objects[op[c].key] ELSE 0]
  <2>1. op[c].at = "get" /\ op[c].key = op[c].obj /\ op[c].obj \in Objs
    BY <1>10, <1>b DEF GetAnswered
  <2>2. w.meant # 0 => w.got = w.meant
    BY <1>a, <2>1 DEF Kept
  <2> QED
    BY <1>9, <1>10, <2>1, <2>2 DEF GetAnswered
<1>11. ASSUME NEW c \in Callers, GetFails(c) PROVE Alone' /\ Kept'
  BY <1>9, <1>11 DEF GetFails, Nothing
<1> QED
  BY <1>1, <1>2, <1>3, <1>4, <1>5, <1>7, <1>8, <1>10, <1>11 DEF ObjNext, ObjStep

-----------------------------------------------------------------------------
(* ObjSpec keeps the inductive invariant. *)
THEOREM Invariance == ObjSpec => []ObjInv
<1>1. ObjInv /\ [ObjNext]_allVars => ObjInv'
  <2> SUFFICES ASSUME ObjInv, [ObjNext]_allVars PROVE ObjInv'
    OBVIOUS
  <2>1. Inv' /\ Store' = Store
    BY BucketUnder, BucketStep1, BucketStays DEF ObjInv
  <2> QED
    BY <2>1, ObjectsType, KeyedStep, KeptStep DEF ObjInv
<1> QED
  BY ObjectsInit, <1>1, PTL DEF ObjSpec

(* Storing and loading objects is no more than Bucket allows of them: what *)
(* holds of every handler holds of one in use.                             *)
THEOREM UsesBucket == ObjSpec => Spec
<1>1. ObjInit => Init
  BY DEF ObjInit
<1> QED
  BY <1>1, BucketUnder, PTL DEF ObjSpec, Spec

(* Every variable keeps its type, whatever the number of callers and of    *)
(* requests.                                                               *)
THEOREM TypeCorrect == ObjSpec => []ObjTypeOK
BY Invariance, PTL DEF ObjInv

(* The caller that ran makeFun itself and was told nil has a bucket        *)
(* (TryMakeBucket of minio and cloudStorage).                              *)
THEOREM Runner == ObjSpec => []RunnerHasBucket
BY Invariance, PTL DEF ObjInv, Inv

(* Nobody is told nil while another caller still makes the bucket          *)
(* (once.Do).                                                              *)
THEOREM Ready == ObjSpec => []NilMeansReady
BY Invariance, PTL DEF ObjInv, Inv

(* What PutObject of minio and s3 says is stored is what is stored, and    *)
(* what GetObject loads, over every interleaving, late request and         *)
(* restart.                                                                *)
THEOREM Storage == ObjSpec => []StoredIsLoaded
<1>1. ObjInv => StoredIsLoaded
  <2> SUFFICES ASSUME ObjInv, Store # "cloudStorage"
               PROVE  /\ \A p \in Paths, n \in FileNames :
                           confirmed[Parts(p, n)] # 0 => Reads(p, n) = confirmed[Parts(p, n)]
                      /\ \A c \in Callers : loaded[c].meant # 0 => loaded[c].got = loaded[c].meant
    BY DEF StoredIsLoaded
  <2>1. \A p \in Paths, n \in FileNames : Parts(p, n) \in Objs /\ Reads(p, n) = objects[Parts(p, n)]
    BY KeyIsMeant DEF Objs, Reads
  <2> QED
    BY <2>1 DEF ObjInv, Kept
<1> QED
  BY <1>1, Invariance, PTL
=============================================================================
