------------------------------ MODULE Objects -------------------------------
(***************************************************************************)
(* dfs: Bucket with the objects in it.  The goroutines that call           *)
(* TryMakeBucket also store and load objects, each by one request with ten *)
(* seconds, which may fail before it took effect, or after, or take effect *)
(* when nobody waits for it any more.  A text is a sequence of its parts.  *)
(***************************************************************************)
EXTENDS Bucket, Sequences

CONSTANTS
  Paths, FileNames, \* the paths and file names callers use; no path is empty
  MaxOps            \* bound: objects stored or loaded

ASSUME ObjectsAssumption ==
  /\ MaxOps \in Nat
  /\ Paths \subseteq Seq(STRING) \ {<<>>} /\ FileNames \subseteq Seq(STRING)

(* Slip: the path is used as it is. *)
KeyAsIs(path, fileName) == path \o fileName

Key(path, fileName) ==
  (IF path[Len(path)] = "/" THEN path ELSE path \o <<"/">>) \o fileName

(* The object that is meant: the file in that directory, with or without a *)
(* slash after the directory.                                              *)
Directory(path) ==
  IF path[Len(path)] = "/" THEN SubSeq(path, 1, Len(path) - 1) ELSE path

Parts(path, fileName) == Directory(path) \o <<"/">> \o fileName

Objs == {Parts(p, n) : p \in Paths, n \in FileNames}
Keys == {Key(p, n) : p \in Paths, n \in FileNames}

VARIABLES
  objects,          \* what is stored under each key: the number of a Put, 0 for nothing
  op,               \* what each caller is doing
  strays,           \* Puts that nobody waits for and that may still take effect
  ops,              \* bound
  confirmed,        \* history: the last Put that returned nil, if none came across it
  loaded            \* history: what the last GetObject of a caller should, and did, return

objVars == <<objects, op, strays, ops, confirmed, loaded>>

Free    == [at |-> "free"]
Nothing == [meant |-> 0, got |-> 0]

ObjInit ==
  /\ Init
  /\ objects = [k \in Keys |-> 0] /\ op = [c \in Callers |-> Free] /\ strays = {}
  /\ ops = 0 /\ confirmed = [o \in Objs |-> 0]
  /\ loaded = [c \in Callers |-> Nothing]

CanCall(c) == caller[c] # "once" /\ op[c] = Free /\ ops < MaxOps

(* Whatever happens to an object with a Put on its way is not confirmed.   *)
PutsOf(o) == {c \in Callers : op[c].at = "put" /\ op[c].obj = o}
Crossed(o) ==
  [c \in Callers |->
    IF op[c] # Free /\ op[c].obj = o THEN [op[c] EXCEPT !.meant = 0] ELSE op[c]]

BeginPut(c, path, fileName) ==
  LET o == Parts(path, fileName)
      alone == PutsOf(o) = {} /\ \A s \in strays : s.key # Key(path, fileName)
  IN /\ CanCall(c)
     /\ ops' = ops + 1
     /\ confirmed' = [confirmed EXCEPT ![o] = 0]
     /\ op' = [Crossed(o) EXCEPT ![c] =
                 [at |-> "put", key |-> Key(path, fileName), obj |-> o, n |-> ops + 1,
                  meant |-> IF alone THEN ops + 1 ELSE 0]]
     /\ loaded' = [loaded EXCEPT ![c] = Nothing]
     /\ UNCHANGED <<vars, objects, strays>>

Finish(c) == op' = [op EXCEPT ![c] = Free] /\ UNCHANGED <<vars, ops>>

(* The request took effect, and PutObject returns nil ... *)
PutStored(c) ==
  /\ op[c].at = "put" /\ bucket
  /\ objects' = [objects EXCEPT ![op[c].key] = op[c].n]
  /\ confirmed' = [confirmed EXCEPT ![op[c].obj] = op[c].meant]
  /\ Finish(c) /\ UNCHANGED <<strays, loaded>>

(* ... or it failed, as far as the handler knows, and PutObject returns    *)
(* the error.  cloudStorage only hands the payload to a writer in Write;   *)
(* the request ends with Close, in a defer that drops its error.           *)
ReportsFailure == Store # "cloudStorage"

PutFails(c) ==
  /\ op[c].at = "put"
  /\ \/ strays' = strays \cup {[key |-> op[c].key, n |-> op[c].n]} /\ UNCHANGED objects
     \/ bucket /\ objects' = [objects EXCEPT ![op[c].key] = op[c].n] /\ UNCHANGED strays
     \/ UNCHANGED <<objects, strays>>
  /\ confirmed' = IF ReportsFailure THEN confirmed ELSE [confirmed EXCEPT ![op[c].obj] = op[c].meant]
  /\ Finish(c) /\ UNCHANGED loaded

StrayArrives ==
  /\ bucket
  /\ \E s \in strays : objects' = [objects EXCEPT ![s.key] = s.n] /\ strays' = strays \ {s}
  /\ UNCHANGED <<vars, op, ops, confirmed, loaded>>

BeginGet(c, path, fileName) ==
  /\ CanCall(c)
  /\ ops' = ops + 1
  /\ op' = [op EXCEPT ![c] = [at |-> "get", key |-> Key(path, fileName), obj |-> Parts(path, fileName),
                              meant |-> confirmed[Parts(path, fileName)]]]
  /\ UNCHANGED <<vars, objects, strays, confirmed, loaded>>

Load(c, what) == loaded' = [loaded EXCEPT ![c] = what]

(* What is there is read to its end, 0 standing for no such key ... *)
GetAnswered(c) ==
  /\ op[c].at = "get"
  /\ Load(c, [meant |-> op[c].meant, got |-> IF bucket THEN objects[op[c].key] ELSE 0])
  /\ Finish(c) /\ UNCHANGED <<objects, strays, confirmed>>

(* ... or the request or the reading fails, and GetObject returns that. *)
GetFails(c) ==
  /\ op[c].at = "get"
  /\ Load(c, Nothing)
  /\ Finish(c) /\ UNCHANGED <<objects, strays, confirmed>>

(* Requests on their way when the process ends may still take effect.      *)
Lost == {[key |-> op[c].key, n |-> op[c].n] : c \in {d \in Callers : op[d].at = "put"}}

ObjRestart ==
  /\ Restart
  /\ op' = [c \in Callers |-> Free] /\ loaded' = [c \in Callers |-> Nothing]
  /\ \E S \in SUBSET Lost : strays' = strays \cup S
  /\ UNCHANGED <<objects, ops, confirmed>>

BucketStep ==
  /\ \/ \E c \in Callers : (op[c] = Free /\ Call(c)) \/ RunOnce(c) \/ SkipOnce(c)
     \/ MakeStep \/ LifecycleAnswered
  /\ UNCHANGED objVars

ObjStep(c) ==
  \/ \E p \in Paths, n \in FileNames : BeginPut(c, p, n) \/ BeginGet(c, p, n)
  \/ PutStored(c) \/ PutFails(c) \/ GetAnswered(c) \/ GetFails(c)

ObjNext == BucketStep \/ ObjRestart \/ StrayArrives \/ \E c \in Callers : ObjStep(c)

allVars == <<vars, objVars>>

ObjSpec == ObjInit /\ [][ObjNext]_allVars

(* As in Bucket: only the request for the lifecycle has no end of its own. *)
ObjFairSpec ==
  /\ ObjSpec
  /\ WF_allVars(MakeStep /\ UNCHANGED objVars)
  /\ \A c \in Callers : WF_allVars((RunOnce(c) \/ SkipOnce(c)) /\ UNCHANGED objVars)

-----------------------------------------------------------------------------
(* Properties.                                                             *)

Puts == [at : {"put"}, key : Keys, obj : Objs, n : 1..MaxOps, meant : 0..MaxOps]
Gets == [at : {"get"}, key : Keys, obj : Objs, meant : 0..MaxOps]

(* Every variable keeps its type; a caller does one thing at a time.       *)
ObjTypeOK ==
  /\ TypeOK
  /\ objects \in [Keys -> 0..MaxOps] /\ confirmed \in [Objs -> 0..MaxOps] /\ ops \in 0..MaxOps
  /\ op \in [Callers -> {Free} \cup Puts \cup Gets]
  /\ \A c \in Callers : op[c] # Free => caller[c] # "once"
  /\ strays \subseteq [key : Keys, n : 1..MaxOps]
  /\ loaded \in [Callers -> [meant : 0..MaxOps, got : 0..MaxOps]]

(* An object that PutObject stored, without an error and with no other Put *)
(* of it on its way, is the one that is stored, and the one GetObject      *)
(* loads if it returns no error, under any spelling of the path, until     *)
(* somebody stores it again or it expires, which is left out: over         *)
(* requests that took effect and timed out, took effect late, and over     *)
(* restarts (PutObject and GetObject of minio and s3; the PutObject of     *)
(* cloudStorage does not know).                                            *)
Reads(p, n) == objects[Key(p, n)]

StoredIsLoaded ==
  Store # "cloudStorage" =>
    /\ \A p \in Paths, n \in FileNames :
         confirmed[Parts(p, n)] # 0 => Reads(p, n) = confirmed[Parts(p, n)]
    /\ \A c \in Callers : loaded[c].meant # 0 => loaded[c].got = loaded[c].meant

(* The inductive invariant behind StoredIsLoaded: a request is for the key *)
(* of the object it is about (Keyed); a Put that will be confirmed is the  *)
(* only one of its object that can still take effect (Alone); what is      *)
(* confirmed is stored and nothing on its way can change it, and whoever   *)
(* loads it finds it there (Kept).                                         *)
Keyed == \A c \in Callers : op[c] # Free => op[c].key = op[c].obj

Quiet(o) == \A s \in strays : s.key # o

Alone ==
  \A c \in Callers :
    op[c].at = "put" =>
      /\ confirmed[op[c].obj] = 0
      /\ op[c].meant # 0 =>
           op[c].meant = op[c].n /\ Quiet(op[c].obj) /\ PutsOf(op[c].obj) = {c}

Kept ==
  /\ \A o \in Objs : confirmed[o] # 0 => bucket /\ objects[o] = confirmed[o] /\ Quiet(o)
  /\ \A c \in Callers :
       op[c].at = "get" /\ op[c].meant # 0 => op[c].meant = confirmed[op[c].obj]
  /\ \A c \in Callers : loaded[c].meant # 0 => loaded[c].got = loaded[c].meant

ObjInv ==
  /\ ObjTypeOK /\ Inv /\ Keyed
  /\ Store # "cloudStorage" => Alone /\ Kept
=============================================================================
