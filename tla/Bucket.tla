------------------------------- MODULE Bucket -------------------------------
(***************************************************************************)
(* dfs: the handler of one bucket, whose TryMakeBucket any goroutine may   *)
(* call, and the store behind it.  The handlers of the three stores differ *)
(* in the requests they send and in what they make of an error.  The store *)
(* is external; a request to it may fail before it took effect, or after.  *)
(***************************************************************************)
EXTENDS Naturals, FiniteSets

CONSTANTS
  Stores,           \* the values of Config.Type in question
  ExpireDays,       \* Config.ExpireDays
  Callers,          \* goroutines that use the handler
  MaxCalls,         \* bound: calls of TryMakeBucket
  MaxRestarts       \* bound: restarts of the process, which make a new handler

None == "none"

ASSUME BucketAssumption ==
  /\ None \notin Callers
  /\ Stores \subseteq {"minio", "s3", "cloudStorage"}
  /\ ExpireDays \in Nat /\ MaxCalls \in Nat /\ MaxRestarts \in Nat

VARIABLES
  Store,            \* Config.Type, chosen once for all
  bucket,           \* the bucket exists
  lifecycle,        \* it deletes what is older than ExpireDays
  once,             \* h.once: "new", "running" or "done"
  runner,           \* the caller in makeFun
  step,             \* where makeFun is
  err,              \* the err of the runner's TryMakeBucket
  caller,           \* "idle", "once", or what its last call returned: "nil" or "error"
  ran,              \* history: the callers whose last call ran makeFun itself
  smooth,           \* history: the store was as expected, and nothing went wrong yet
  calls, restarts   \* bounds

store   == <<Store, bucket, lifecycle>>
handler == <<once, runner, step, err>>
vars    == <<store, handler, caller, ran, smooth, calls, restarts>>

Init ==
  /\ Store \in Stores /\ bucket \in BOOLEAN /\ lifecycle = FALSE
  /\ once = "new" /\ runner = None /\ step = None /\ err = "nil"
  /\ caller = [c \in Callers |-> "idle"] /\ ran = {}
  /\ calls = 0 /\ restarts = 0
  /\ smooth = (bucket <=> Store = "cloudStorage")

-----------------------------------------------------------------------------
(* TryMakeBucket.                                                          *)

Call(c) ==
  /\ caller[c] # "once" /\ calls < MaxCalls
  /\ calls' = calls + 1
  /\ ran' = ran \ {c}
  /\ caller' = [caller EXCEPT ![c] = IF Store = "cloudStorage" /\ ExpireDays = 0 THEN "nil" ELSE "once"]
  /\ UNCHANGED <<store, handler, smooth, restarts>>

(* once.Do: the first caller runs makeFun ... *)
RunOnce(c) ==
  /\ caller[c] = "once" /\ once = "new"
  /\ once' = "running" /\ runner' = c /\ err' = "nil"
  /\ step' = IF Store = "cloudStorage" THEN "lifecycle" ELSE "make"
  /\ ran' = ran \cup {c}
  /\ UNCHANGED <<store, caller, smooth, calls, restarts>>

(* Slip: a caller that finds makeFun running does not wait for it. *)
SkipOnceRunning(c) ==
  /\ caller[c] = "once" /\ once \in {"running", "done"} /\ runner # c
  /\ caller' = [caller EXCEPT ![c] = "nil"]
  /\ UNCHANGED <<store, handler, ran, smooth, calls, restarts>>

(* ... and the others wait until it has, and return their own err, nil. *)
SkipOnce(c) ==
  /\ caller[c] = "once" /\ once = "done"
  /\ caller' = [caller EXCEPT ![c] = "nil"]
  /\ UNCHANGED <<store, handler, ran, smooth, calls, restarts>>

MakeFun(from, to, e) ==
  /\ once = "running" /\ step = from
  /\ step' = to
  /\ err' = IF e \in {"nil", "error"} THEN e ELSE err
  /\ UNCHANGED <<Store, once, runner, caller, ran, calls, restarts>>

(* MakeBucket, CreateBucket: refused when the bucket is there. *)
Make ==
  /\ ~bucket
  /\ bucket' = TRUE
  /\ MakeFun("make", IF ExpireDays > 0 THEN "lifecycle" ELSE "end", "nil")
  /\ UNCHANGED <<lifecycle, smooth>>

(* S3 assigns the errors of makeFun to a variable of makeFun's own. *)
Shadowed == IF Store = "s3" THEN "kept" ELSE "error"

MakeFails ==
  /\ bucket' \in {bucket, TRUE} /\ smooth' = FALSE
  /\ MakeFun("make", "exists", Shadowed)
  /\ UNCHANGED lifecycle

(* Slip: any answer is taken for a bucket that is there. *)
ExistsAnyway ==
  /\ MakeFun("exists", "end", "nil")
  /\ UNCHANGED <<bucket, lifecycle, smooth>>

(* BucketExists says yes; the bucket's lifecycle is left as it is. *)
Exists ==
  /\ bucket
  /\ MakeFun("exists", "end", "nil")
  /\ UNCHANGED <<bucket, lifecycle, smooth>>

(* It says no, or fails. *)
ExistsFails ==
  /\ MakeFun("exists", "end", "kept")
  /\ smooth' = FALSE
  /\ UNCHANGED <<bucket, lifecycle>>

SetLifecycle ==
  /\ bucket
  /\ lifecycle' = TRUE
  /\ MakeFun("lifecycle", "end", "nil")
  /\ UNCHANGED <<bucket, smooth>>

SetLifecycleFails ==
  /\ lifecycle' \in {lifecycle, bucket} /\ smooth' = FALSE
  /\ MakeFun("lifecycle", "end", Shadowed)
  /\ UNCHANGED bucket

(* Slip: an early return leaves makeFun's lock taken. *)
ReturnErrLocked ==
  /\ once = "running" /\ step = "end"
  /\ once' = (IF err = "nil" THEN "done" ELSE "running")
  /\ runner' = None /\ step' = None
  /\ caller' = [caller EXCEPT ![runner] = err]
  /\ UNCHANGED <<store, err, ran, smooth, calls, restarts>>

ReturnErr ==
  /\ once = "running" /\ step = "end"
  /\ once' = "done" /\ runner' = None /\ step' = None
  /\ caller' = [caller EXCEPT ![runner] = err]
  /\ UNCHANGED <<store, err, ran, smooth, calls, restarts>>

(* The process is restarted and makes a new handler. *)
Restart ==
  /\ restarts < MaxRestarts
  /\ restarts' = restarts + 1
  /\ once' = "new" /\ runner' = None /\ step' = None /\ err' = "nil"
  /\ caller' = [c \in Callers |-> "idle"] /\ ran' = {}
  /\ smooth' = FALSE
  /\ UNCHANGED <<store, calls>>

MakeStep == Make \/ MakeFails \/ Exists \/ ExistsFails \/ ReturnErr
LifecycleAnswered == SetLifecycle \/ SetLifecycleFails

Next ==
  \/ \E c \in Callers : Call(c) \/ RunOnce(c) \/ SkipOnce(c)
  \/ MakeStep \/ LifecycleAnswered \/ Restart

Spec == Init /\ [][Next]_vars

(* Making the bucket and asking for it end by a timeout or a last attempt. *)
FairSpec == Spec /\ WF_vars(MakeStep) /\ \A c \in Callers : WF_vars(RunOnce(c) \/ SkipOnce(c))

-----------------------------------------------------------------------------
(* Properties.                                                             *)

(* Every variable keeps its type; makeFun runs for one caller at a time.   *)
TypeOK ==
  /\ Store \in Stores /\ {bucket, lifecycle, smooth} \subseteq BOOLEAN
  /\ once \in {"new", "running", "done"} /\ runner \in Callers \cup {None}
  /\ (once = "running") = (runner # None)
  /\ step \in {None, "make", "exists", "lifecycle", "end"} /\ err \in {"nil", "error"}
  /\ caller \in [Callers -> {"idle", "once", "nil", "error"}] /\ ran \subseteq Callers
  /\ calls \in 0..MaxCalls /\ restarts \in 0..MaxRestarts

(* The caller that ran makeFun itself and got nil has a bucket, over every *)
(* error and timeout of the store, and over an earlier process that made   *)
(* it (TryMakeBucket of minio and cloudStorage; the one of s3 loses its    *)
(* errors).                                                                *)
RunnerHasBucket ==
  Store # "s3" => \A c \in ran : caller[c] = "nil" => bucket

(* Nobody is told that all is well while another caller still makes the    *)
(* bucket: if the store was as the handler expects it (no bucket yet, or   *)
(* one for cloudStorage, which makes none), no request failed and no       *)
(* process was killed half-way, whoever got nil has a bucket, and one that *)
(* expires if it should (once.Do).                                         *)
NilMeansReady ==
  smooth => \A c \in Callers : caller[c] = "nil" => bucket /\ (ExpireDays > 0 => lifecycle)

(* The inductive invariant behind them: who is inside once.Do after having *)
(* run makeFun is still running it (InOnce); makeFun carries the error     *)
(* from a failed MakeBucket to its end, unless it found the bucket         *)
(* (ErrKept); as long as all went well it never had to ask, and is only    *)
(* over once all is made (AllMade).                                        *)
InOnce == \A c \in ran : caller[c] = "once" => runner = c

ErrKept ==
  Store # "s3" => (step = "exists" => err = "error") /\ (step = "end" /\ err = "nil" => bucket)

AllMade ==
  smooth => /\ Store = "cloudStorage" => bucket
            /\ step # "exists"
            /\ step = "end" \/ once = "done" => bucket /\ (ExpireDays > 0 => lifecycle)

Inv == TypeOK /\ InOnce /\ ErrKept /\ AllMade /\ RunnerHasBucket /\ NilMeansReady

(* Every TryMakeBucket returns, whoever of several callers runs makeFun,   *)
(* if the store answers the request for the lifecycle: minio and s3 send   *)
(* it without a deadline, and every caller waits for it.                   *)
StoreAnswers == WF_vars(LifecycleAnswered)

CallsReturn ==
  StoreAnswers => \A c \in Callers : caller[c] = "once" ~> caller[c] # "once"

(* handler_test.go:24 takes a TryMakeBucket without an error for success,   *)
(* whichever call it was, and goes on to store an object.                  *)
NilMeansBucket == \A c \in Callers : caller[c] = "nil" => bucket
=============================================================================
