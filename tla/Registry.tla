------------------------------ MODULE Registry ------------------------------
(***************************************************************************)
(* A process started by Registry.Run (app/registry.go): its init tasks,    *)
(* one goroutine per App (app/app.go), one goroutine per service of an App *)
(* (rpcx, the websocket server, the TCP server), the two channels of       *)
(* capacity one that carry failures up, the signal that ends Run, and the  *)
(* deferred Stop of every service.                                         *)
(*                                                                         *)
(* A service is named by its instance: net.InitServer hands out one        *)
(* instance per protocol, so several Apps may run, and stop, the same one. *)
(***************************************************************************)
EXTENDS Naturals, Sequences, FiniteSets

CONSTANTS
  InitSteps,        \* steps before the Apps run: configuration, init tasks, initFuncs
  Processes,        \* the processes in question: services and posts of their Apps
  Kind,             \* what a service is: "rpc", "http" or "tcp"
  Fallible          \* the calls that may fail, among Failures

Failures == {"init", "post", "listen", "serve", "accept"}

ASSUME RegistryAssumption ==
  /\ InitSteps \in Nat \ {0}
  /\ \A s \in DOMAIN Kind : Kind[s] \in {"rpc", "http", "tcp"}
  /\ \A p \in Processes : /\ p.services \in Seq(Seq(DOMAIN Kind))
                          /\ p.posts \in [DOMAIN p.services -> Nat]
  /\ Fallible \subseteq Failures

VARIABLES
  Services,         \* Services[a]: the services of App a, rpc first, in order
  Posts             \* Posts[a]: how many post tasks App a has

setup == <<Services, Posts>>        \* chosen once for all

Apps  == DOMAIN Services
Tasks == UNION {{<<a, k>> : k \in DOMAIN Services[a]} : a \in Apps}
Names == {Services[t[1]][t[2]] : t \in Tasks}
Svc(t) == Services[t[1]][t[2]]

VARIABLES
  main,             \* where Registry.Run is
  at,               \* init: steps done; stop: Apps whose services were stopped
  stopped,          \* services of App at + 1 stopped so far
  watching,         \* signal.Notify was called
  signal,           \* watchSignChan holds a signal
  regErr,           \* the App in Run's errChan, 0 when it is empty
  cause, result,    \* why Run ended, and whether it returned an error
  app,              \* where App.run of each App is
  posted,           \* post tasks done
  appErr,           \* App.run's errChan holds an error
  task,             \* where the goroutine of each service is
  Listener,         \* Tcp.Listener is set
  open,             \* the address of the TCP service is being listened on
  routed,           \* "/ws" is registered with the gin engine
  proc,             \* "up", "panicked", or "killed" by an unhandled signal
  serving           \* history: the tasks that served when Run left its select

running == <<main, at, stopped, watching, signal, cause, result, serving>>
apps    == <<app, posted>>
net     == <<Listener, open, routed>>
vars    == <<setup, running, regErr, apps, appErr, task, net, proc>>

Init ==
  /\ \E p \in Processes : Services = p.services /\ Posts = p.posts
  /\ main = "init" /\ at = 0 /\ stopped = 0
  /\ watching = FALSE /\ signal = FALSE
  /\ regErr = 0 /\ cause = <<"none">> /\ result = "none"
  /\ app = [a \in Apps |-> "none"] /\ posted = [a \in Apps |-> 0]
  /\ appErr = [a \in Apps |-> FALSE]
  /\ task = [t \in Tasks |-> "none"]
  /\ Listener = [s \in Names |-> FALSE] /\ open = [s \in Names |-> FALSE]
  /\ routed = [s \in Names |-> FALSE]
  /\ proc = "up" /\ serving = {}

Up == proc = "up"
MayFail(what) == Up /\ what \in Fallible

-----------------------------------------------------------------------------
(* Registry.Run.                                                           *)

(* initialize, an init task, or an App's initFunc returns ... *)
InitStep ==
  /\ Up /\ main = "init" /\ at < InitSteps
  /\ at' = at + 1
  /\ UNCHANGED <<main, stopped, watching, signal, cause, result, serving,
                 regErr, apps, appErr, task, net, proc>>

(* ... or fails, and Run returns its error before anything was started. *)
InitFails ==
  /\ MayFail("init") /\ main = "init" /\ at < InitSteps
  /\ main' = "returned" /\ result' = "error" /\ cause' = <<"init">>
  /\ UNCHANGED <<at, stopped, watching, signal, serving,
                 regErr, apps, appErr, task, net, proc>>

(* The go statements, one per App. *)
StartApps ==
  /\ Up /\ main = "init" /\ at = InitSteps
  /\ main' = "notify" /\ at' = 0
  /\ app' = [a \in Apps |-> "start"]
  /\ UNCHANGED <<stopped, watching, signal, cause, result, serving,
                 regErr, posted, appErr, task, net, proc>>

WatchSignals ==
  /\ Up /\ main = "notify"
  /\ watching' = TRUE
  /\ main' = "select"
  /\ UNCHANGED <<at, stopped, signal, cause, result, serving,
                 regErr, apps, appErr, task, net, proc>>

Serving == {t \in Tasks : task[t] = "serving"}

(* The select takes a signal ... *)
SelectSignal ==
  /\ Up /\ main = "select" /\ signal
  /\ signal' = FALSE
  /\ cause' = <<"signal">> /\ result' = "nil" /\ serving' = Serving
  /\ main' = "stop"
  /\ UNCHANGED <<at, stopped, watching, regErr, apps, appErr, task, net, proc>>

(* ... or the failure of an App; what Run returns is the error of initApps,  *)
(* which is nil here.                                                      *)
SelectError ==
  /\ Up /\ main = "select" /\ regErr # 0
  /\ regErr' = 0
  /\ cause' = <<"app", regErr>> /\ result' = "nil" /\ serving' = Serving
  /\ main' = "stop"
  /\ UNCHANGED <<at, stopped, watching, signal, apps, appErr, task, net, proc>>

-----------------------------------------------------------------------------
(* Registry.Stop: App.stop of every App, Stop of every service.            *)

Stopping(kind, t) ==
  /\ Up /\ main = "stop" /\ t = <<at + 1, stopped + 1>> /\ t \in Tasks
  /\ Kind[Svc(t)] = kind
  /\ stopped' = stopped + 1
  /\ UNCHANGED <<main, at, watching, signal, cause, result, serving, regErr, apps, appErr>>

(* rpcx shuts down the server if it serves, and waits no longer than five  *)
(* seconds: Serve then returns ErrServerClosed.                            *)
StopRpc(t) ==
  /\ Stopping("rpc", t)
  /\ task' = [t2 \in Tasks |->
       IF Svc(t2) = Svc(t) /\ task[t2] = "serving" THEN "failed" ELSE task[t2]]
  /\ UNCHANGED <<net, proc>>

(* Slip: Stop waits until the server's Run has returned. *)
StopHttpWaits(t) ==
  /\ Stopping("http", t) /\ task[t] = "exited"
  /\ UNCHANGED <<task, net, proc>>

StopHttp(t) == Stopping("http", t) /\ UNCHANGED <<task, net, proc>>

(* Slip: Stop only leaves the accept loop, it does not close the listener. *)
StopTcpKeepsListener(t) ==
  /\ Stopping("tcp", t)
  /\ proc' = IF Listener[Svc(t)] THEN "up" ELSE "panicked"
  /\ UNCHANGED <<task, net>>

(* t.Listener.Close() panics if no listener was stored.  While a goroutine *)
(* stores it, unsynchronised, Stop may see neither word of the interface,  *)
(* its type alone (Close then does nothing), or all of it.                 *)
StopTcp(t) ==
  LET s == Svc(t)
      storing == \E t2 \in Tasks : Svc(t2) = s /\ task[t2] = "store"
  IN /\ Stopping("tcp", t)
     /\ \/ (Listener[s] \/ storing) /\ open' = [open EXCEPT ![s] = FALSE] /\ UNCHANGED proc
        \/ storing /\ UNCHANGED <<open, proc>>
        \/ ~Listener[s] /\ proc' = "panicked" /\ UNCHANGED open
     /\ UNCHANGED <<task, Listener, routed>>

StopService == \E t \in Tasks : StopRpc(t) \/ StopHttp(t) \/ StopTcp(t)

(* The next App, or Run returns. *)
StopNext ==
  /\ Up /\ main = "stop" /\ (at < Len(Services) => stopped = Len(Services[at + 1]))
  /\ IF at < Len(Services) THEN at' = at + 1 /\ stopped' = 0 /\ UNCHANGED main
                           ELSE main' = "returned" /\ UNCHANGED <<at, stopped>>
  /\ UNCHANGED <<watching, signal, cause, result, serving,
                 regErr, apps, appErr, task, net, proc>>

-----------------------------------------------------------------------------
(* App.run.                                                                *)

AppGoes(a, from, to) ==
  /\ Up /\ app[a] = from
  /\ app' = [app EXCEPT ![a] = to]
  /\ UNCHANGED <<running, net, proc>>

StartServices(a) ==
  /\ AppGoes(a, "start", "posts")
  /\ task' = [t \in Tasks |-> IF t[1] = a THEN "start" ELSE task[t]]
  /\ UNCHANGED <<posted, appErr, regErr>>

(* A post task returns before the next one is called. *)
PostReturns(a) ==
  /\ posted[a] < Posts[a]
  /\ posted' = [posted EXCEPT ![a] = @ + 1]
  /\ AppGoes(a, "posts", "posts")
  /\ UNCHANGED <<task, appErr, regErr>>

PostFails(a) ==
  /\ MayFail("post") /\ posted[a] < Posts[a]
  /\ AppGoes(a, "posts", "report")
  /\ UNCHANGED <<posted, task, appErr, regErr>>

(* After the posts App.run blocks on its errChan. *)
PostsDone(a) ==
  /\ posted[a] = Posts[a]
  /\ AppGoes(a, "posts", "wait")
  /\ UNCHANGED <<posted, task, appErr, regErr>>

AppFails(a) ==
  /\ appErr[a]
  /\ appErr' = [appErr EXCEPT ![a] = FALSE]
  /\ AppGoes(a, "wait", "report")
  /\ UNCHANGED <<posted, task, regErr>>

(* Slip: the failure is dropped when Run's channel is full or not read yet. *)
ReportOrDrop(a) ==
  /\ regErr' = IF main = "select" /\ regErr = 0 THEN a ELSE regErr
  /\ AppGoes(a, "report", "done")
  /\ UNCHANGED <<posted, task, appErr>>

(* The goroutine of the App sends its error to Run, when there is room. *)
Report(a) ==
  /\ regErr = 0
  /\ regErr' = a
  /\ AppGoes(a, "report", "done")
  /\ UNCHANGED <<posted, task, appErr>>

App(a) ==
  /\ StartServices(a) \/ PostsDone(a) \/ AppFails(a) \/ Report(a)
  /\ UNCHANGED setup

-----------------------------------------------------------------------------
(* The goroutine of a service.                                             *)

TaskGoes(t, kinds, from, to) ==
  /\ Up /\ task[t] = from /\ Kind[Svc(t)] \in kinds
  /\ task' = [task EXCEPT ![t] = to]
  /\ UNCHANGED <<running, regErr, apps>>

Serve(t) == TaskGoes(t, {"rpc"}, "start", "serving") /\ UNCHANGED <<appErr, net, proc>>

(* gin refuses a route registered twice by panicking. *)
Route(t) ==
  /\ TaskGoes(t, {"http"}, "start", "serving")
  /\ IF routed[Svc(t)] THEN proc' = "panicked" /\ UNCHANGED routed
                       ELSE routed' = [routed EXCEPT ![Svc(t)] = TRUE] /\ UNCHANGED proc
  /\ UNCHANGED <<appErr, Listener, open>>

(* The server cannot start, or fails later. *)
ServeFails(t) ==
  /\ MayFail("serve")
  /\ \/ TaskGoes(t, {"rpc"}, "start", "failed")
     \/ TaskGoes(t, {"rpc", "http"}, "serving", "failed")
  /\ UNCHANGED <<appErr, net, proc>>

Listen(t) ==
  /\ ~open[Svc(t)]
  /\ TaskGoes(t, {"tcp"}, "start", "store")
  /\ open' = [open EXCEPT ![Svc(t)] = TRUE]
  /\ UNCHANGED <<appErr, Listener, routed, proc>>

(* net.Listen fails, in any case while its own instance listens already,   *)
(* and t.Listener becomes nil.                                             *)
ListenFails(t) ==
  /\ open[Svc(t)] \/ MayFail("listen")
  /\ TaskGoes(t, {"tcp"}, "start", "failed")
  /\ Listener' = [Listener EXCEPT ![Svc(t)] = FALSE]
  /\ UNCHANGED <<appErr, open, routed, proc>>

StoreListener(t) ==
  /\ TaskGoes(t, {"tcp"}, "store", "serving")
  /\ Listener' = [Listener EXCEPT ![Svc(t)] = TRUE]
  /\ UNCHANGED <<appErr, open, routed, proc>>

(* Accept fails, and the loop asks the nil connection for its address. *)
AcceptFails(t) ==
  /\ ~open[Svc(t)] \/ ~Listener[Svc(t)] \/ MayFail("accept")
  /\ TaskGoes(t, {"tcp"}, "serving", "serving")
  /\ proc' = "panicked"
  /\ UNCHANGED <<appErr, net>>

(* Slip: the goroutine does not report what its server returned. *)
TaskReturns(t) ==
  /\ TaskGoes(t, {"rpc", "http", "tcp"}, "failed", "exited")
  /\ UNCHANGED <<appErr, net, proc>>

(* Run returned an error: it goes to the App's errChan, when there is room. *)
TaskFails(t) ==
  /\ ~appErr[t[1]]
  /\ appErr' = [appErr EXCEPT ![t[1]] = TRUE]
  /\ TaskGoes(t, {"rpc", "http", "tcp"}, "failed", "exited")
  /\ UNCHANGED <<net, proc>>

Task(t) ==
  /\ \/ Serve(t) \/ Route(t) \/ Listen(t) \/ (open[Svc(t)] /\ ListenFails(t))
     \/ StoreListener(t) \/ TaskFails(t)
  /\ UNCHANGED setup

-----------------------------------------------------------------------------
(* SIGHUP, SIGQUIT, SIGTERM or SIGINT: kills a process that has not called *)
(* signal.Notify, and is dropped when watchSignChan is full.               *)
Signal ==
  /\ Up
  /\ IF watching THEN signal' = TRUE /\ UNCHANGED proc
                 ELSE proc' = "killed" /\ UNCHANGED signal
  /\ UNCHANGED <<main, at, stopped, watching, cause, result, serving,
                 regErr, apps, appErr, task, net>>

Run ==
  /\ \/ InitStep \/ StartApps \/ WatchSignals \/ SelectSignal \/ SelectError
     \/ StopService \/ StopNext
  /\ UNCHANGED setup

(* What somebody else decides: failures, signals, and when a post task     *)
(* returns.                                                                *)
Outside ==
  /\ \/ InitFails \/ Signal
     \/ \E a \in Apps : PostReturns(a) \/ PostFails(a)
     \/ \E t \in Tasks : ServeFails(t) \/ ListenFails(t) \/ AcceptFails(t)
  /\ UNCHANGED setup

Next == Run \/ (\E a \in Apps : App(a)) \/ (\E t \in Tasks : Task(t)) \/ Outside

Spec == Init /\ [][Next]_vars

AllApps  == UNION {DOMAIN p.services : p \in Processes}
AllTasks == UNION {UNION {{<<a, k>> : k \in DOMAIN p.services[a]} : a \in DOMAIN p.services} :
                     p \in Processes}

(* Go runs every goroutine that can run. *)
Fairness ==
  /\ WF_vars(Run)
  /\ \A a \in AllApps : WF_vars(a \in Apps /\ App(a))
  /\ \A t \in AllTasks : WF_vars(t \in Tasks /\ Task(t))

FairSpec == Spec /\ Fairness

(* Post tasks that return: a premise of FailureStops, as a service's       *)
(* failure waits for them.                                                 *)
PostsReturn == \A a \in AllApps : WF_vars(a \in Apps /\ PostReturns(a) /\ UNCHANGED setup)

-----------------------------------------------------------------------------
(* Properties.                                                             *)

(* Every variable keeps its type. *)
TypeOK ==
  /\ main \in {"init", "notify", "select", "stop", "returned"}
  /\ at \in Nat /\ stopped \in Nat
  /\ watching \in BOOLEAN /\ signal \in BOOLEAN
  /\ regErr \in Apps \cup {0}
  /\ cause \in {<<"none">>, <<"init">>, <<"signal">>} \cup {<<"app", a>> : a \in Apps}
  /\ result \in {"none", "nil", "error"}
  /\ app \in [Apps -> {"none", "start", "posts", "wait", "report", "done"}]
  /\ posted \in [Apps -> Nat] /\ \A a \in Apps : posted[a] <= Posts[a]
  /\ appErr \in [Apps -> BOOLEAN]
  /\ task \in [Tasks -> {"none", "start", "store", "serving", "failed", "exited"}]
  /\ Listener \in [Names -> BOOLEAN] /\ open \in [Names -> BOOLEAN]
  /\ routed \in [Names -> BOOLEAN]
  /\ proc \in {"up", "panicked", "killed"} /\ serving \subseteq Tasks

(* The failures on their way up are failures that happened, and none is    *)
(* lost or doubled.  In an App whose posts are done, as many services      *)
(* failed as its channel of capacity one holds errors and its goroutine    *)
(* took out of it; the App then has put one error into Run's channel,      *)
(* which is still there, or is what Run acts on (App.run, Registry.Run).   *)
Failed(a) == Cardinality({k \in DOMAIN Services[a] : task[<<a, k>>] = "exited"})

Reported(a) ==
  /\ app[a] = "done" <=> regErr = a \/ cause = <<"app", a>>
  /\ regErr = a => cause # <<"app", a>>

FailuresCounted ==
  \A a \in Apps :
    /\ posted[a] = Posts[a] =>
         Failed(a) = (IF appErr[a] THEN 1 ELSE 0) + (IF app[a] \in {"report", "done"} THEN 1 ELSE 0)
    /\ Reported(a)

(* What served when Run left its select is stopped when Run returns: the   *)
(* server of rpcx has returned, and the address of a TCP server is no      *)
(* longer listened on, unless another App that shares the server listens   *)
(* on it, or has yet to find out that it is closed.  The websocket server  *)
(* goes on, as its Stop is empty (App.stop).                               *)
ClosedFor(t) ==
  /\ Kind[Svc(t)] = "rpc" => task[t] # "serving"
  /\ Kind[Svc(t)] = "tcp" => ~open[Svc(t)] \/ \E t2 \in Tasks \ {t} :
                               Svc(t2) = Svc(t) /\ task[t2] \in {"store", "serving"}

StopClosesServing ==
  main = "returned" /\ Up => \A t \in serving : ClosedFor(t)

(* The inductive invariant behind them: what was chosen stays well formed  *)
(* (SetupOK); nothing runs before it is started, nothing is stopped before *)
(* Run left its select (Launched); every error a service's goroutine sent  *)
(* is in its App's channel or was taken out of it by the App, whose own    *)
(* goroutine reports once (Counted); what Stop has reached is closed, and  *)
(* stays so (Closed).                                                      *)
SetupOK == Services \in Seq(Seq(DOMAIN Kind)) /\ Posts \in [Apps -> Nat]

Launched ==
  /\ main = "init" => \A a \in Apps : app[a] = "none"
  /\ main \in {"init", "notify", "select"} =>
       stopped = 0 /\ serving = {} /\ cause = <<"none">>
  /\ main \in {"notify", "select"} => at = 0
  /\ \A t \in Tasks : app[t[1]] \in {"none", "start"} => task[t] = "none"

PostFailed(a) == app[a] \in {"report", "done"} /\ posted[a] < Posts[a]

Counted ==
  \A a \in Apps :
    /\ app[a] = "wait" => posted[a] = Posts[a]
    /\ PostFailed(a) \/
       Failed(a) = (IF appErr[a] THEN 1 ELSE 0) + (IF app[a] \in {"report", "done"} THEN 1 ELSE 0)
    /\ Reported(a)

StopReached(t) ==
  \/ main = "returned"
  \/ main = "stop" /\ (t[1] <= at \/ (t[1] = at + 1 /\ t[2] <= stopped))

Closed ==
  \A t \in serving :
    /\ task[t] \in {"serving", "failed", "exited"}
    /\ Up /\ StopReached(t) => ClosedFor(t)

Inv == TypeOK /\ SetupOK /\ Launched /\ Counted /\ Closed

(* A signal that Run watches for makes Run return, whatever is on its way  *)
(* through the channels: stopping waits for no goroutine of a service.     *)
SignalStops == signal /\ main # "returned" ~> main = "returned" \/ ~Up

(* A service that fails ends Run, even when several fail and the channels  *)
(* are full, provided the App's post tasks return.                         *)
FailureStops ==
  PostsReturn => (\E t \in Tasks : task[t] = "failed") ~> main = "returned" \/ ~Up

(* registry.go:102 announces a graceful stop when a signal arrives.  Not   *)
(* asked here is what Stop does to a service that still starts: all of     *)
(* them serve when Run takes the signal (Tcp.Run beside Tcp.Stop).         *)
GracefulStop == cause = <<"signal">> /\ serving = Tasks => proc # "panicked"
=============================================================================
