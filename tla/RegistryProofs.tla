--------------------------- MODULE RegistryProofs ---------------------------
(***************************************************************************)
(* Proofs about the two models of app/registry.go.  Registry: for any       *)
(* number of Apps, of services in each and of post tasks.  Startup: for    *)
(* any programs, environments and command lines.                           *)
(***************************************************************************)
EXTENDS Registry, Startup, FiniteSetTheorems, SequenceTheorems, WellFoundedInduction, TLAPS

-----------------------------------------------------------------------------
(* Registry.                                                               *)

(* What a process is made of is chosen once for all. *)
LEMMA SameSetup ==
  ASSUME [Next]_vars
  PROVE  /\ Services' = Services /\ Posts' = Posts
         /\ Apps' = Apps /\ Tasks' = Tasks /\ Names' = Names
         /\ \A t : Svc(t)' = Svc(t)
<1>1. Services' = Services /\ Posts' = Posts
  BY DEF Next, Run, App, Task, Outside, vars, setup
<1>2. Apps' = Apps
  BY <1>1 DEF Apps
<1>3. Tasks' = Tasks
  BY <1>1, <1>2 DEF Tasks
<1>4. Names' = Names
  BY <1>1, <1>3 DEF Names
<1> QED
  BY <1>1, <1>2, <1>3, <1>4 DEF Svc

(* Every type holds initially and is kept by every step of Registry.Run,   *)
(* App.run and the services (registry.go, app.go).                         *)
LEMMA TypeInit == Init => TypeOK /\ SetupOK
<1> SUFFICES ASSUME Init PROVE TypeOK /\ SetupOK
  OBVIOUS
<1>1. SetupOK
  <2>1. PICK p \in Processes : Services = p.services /\ Posts = p.posts
    BY DEF Init
  <2> QED
    BY <2>1, RegistryAssumption DEF SetupOK, Apps
<1>2. \A a \in Apps : 0 <= Posts[a]
  BY <1>1 DEF SetupOK
<1> QED
  BY <1>1, <1>2 DEF Init, TypeOK

LEMMA TypeStep ==
  ASSUME TypeOK, SetupOK, [Next]_vars
  PROVE  TypeOK'
<1>0. /\ Services' = Services /\ Posts' = Posts
      /\ Apps' = Apps /\ Tasks' = Tasks /\ Names' = Names
      /\ \A a \in Apps : Posts[a] \in Nat
  BY SameSetup DEF SetupOK
<1> USE <1>0 DEF TypeOK, running, apps, net
<1>1. CASE InitStep
  BY <1>1 DEF InitStep
<1>15. CASE WatchSignals
  BY <1>15 DEF WatchSignals
<1>13. CASE StartApps
  BY <1>13 DEF StartApps
<1>2. CASE SelectSignal \/ SelectError
  BY <1>2 DEF SelectSignal, SelectError, Serving
<1>3. ASSUME NEW t \in Tasks, StopRpc(t) \/ StopHttp(t) PROVE TypeOK'
  BY <1>3 DEF StopRpc, StopHttp, Stopping
<1>14. ASSUME NEW t \in Tasks, StopTcp(t) PROVE TypeOK'
  <2>1. /\ open' \in [Names -> BOOLEAN] /\ proc' \in {"up", "panicked", "killed"}
        /\ UNCHANGED <<task, Listener, routed>>
    BY <1>14 DEF StopTcp
  <2>2. stopped' \in Nat
    BY <1>14 DEF StopTcp, Stopping
  <2>3. UNCHANGED <<main, at, watching, signal, cause, result, serving, regErr, apps, appErr>>
    BY <1>14 DEF StopTcp, Stopping
  <2> QED
    BY <2>1, <2>2, <2>3
<1>4. CASE StopNext
  BY <1>4 DEF StopNext
<1>5. ASSUME NEW a \in Apps, StartServices(a) \/ PostsDone(a) \/ PostFails(a) PROVE TypeOK'
  BY <1>5 DEF StartServices, PostsDone, PostFails, AppGoes
<1>6. ASSUME NEW a \in Apps, AppFails(a) \/ Report(a) PROVE TypeOK'
  <2>1. CASE AppFails(a)
    BY <2>1 DEF AppFails, AppGoes
  <2>2. CASE Report(a)
    BY <2>2 DEF Report, AppGoes
  <2> QED
    BY <1>6, <2>1, <2>2
<1>7. ASSUME NEW a \in Apps, PostReturns(a) PROVE TypeOK'
  BY <1>7 DEF PostReturns, AppGoes
<1>8. ASSUME NEW t \in Tasks, Serve(t) \/ Route(t) \/ Listen(t) \/ ServeFails(t) PROVE TypeOK'
  <2>1. CASE Serve(t) \/ ServeFails(t)
    BY <2>1 DEF Serve, ServeFails, TaskGoes
  <2>2. CASE Route(t)
    <3>1. /\ task' = [task EXCEPT ![t] = "serving"]
          /\ UNCHANGED <<main, at, stopped, watching, signal, cause, result, serving>>
          /\ UNCHANGED <<regErr, app, posted, appErr, Listener, open>>
      BY <2>2 DEF Route, TaskGoes
    <3>2. /\ proc' \in {proc, "panicked"}
          /\ routed' = routed \/ routed' = [routed EXCEPT ![Svc(t)] = TRUE]
      BY <2>2 DEF Route, TaskGoes
    <3>3. routed' \in [Names -> BOOLEAN]
      BY <3>2
    <3>4. task' \in [Tasks -> {"none", "start", "store", "serving", "failed", "exited"}]
      BY <3>1
    <3>5. proc' \in {"up", "panicked", "killed"}
      BY <3>2
    <3> QED
      BY <3>1, <3>3, <3>4, <3>5
  <2>3. CASE Listen(t)
    <3>1. /\ task' = [task EXCEPT ![t] = "store"] /\ open' = [open EXCEPT ![Svc(t)] = TRUE]
          /\ UNCHANGED <<main, at, stopped, watching, signal, cause, result, serving>>
          /\ UNCHANGED <<regErr, app, posted, appErr, Listener, routed, proc>>
      BY <2>3 DEF Listen, TaskGoes
    <3>2. task' \in [Tasks -> {"none", "start", "store", "serving", "failed", "exited"}]
      BY <3>1
    <3>3. open' \in [Names -> BOOLEAN]
      BY <3>1
    <3> QED
      BY <3>1, <3>2, <3>3
  <2> QED
    BY <1>8, <2>1, <2>2, <2>3
<1>9. ASSUME NEW t \in Tasks, ListenFails(t) \/ StoreListener(t) \/ TaskFails(t) PROVE TypeOK'
  <2>1. /\ \E to \in {"serving", "failed", "exited"} : task' = [task EXCEPT ![t] = to]
        /\ UNCHANGED <<main, at, stopped, watching, signal, cause, result, serving>>
        /\ UNCHANGED <<regErr, app, posted, open, routed, proc>>
    BY <1>9 DEF ListenFails, StoreListener, TaskFails, TaskGoes
  <2>2. /\ Listener' = Listener \/ \E b \in BOOLEAN : Listener' = [Listener EXCEPT ![Svc(t)] = b]
        /\ appErr' = appErr \/ appErr' = [appErr EXCEPT ![t[1]] = TRUE]
    BY <1>9 DEF ListenFails, StoreListener, TaskFails
  <2>3. task' \in [Tasks -> {"none", "start", "store", "serving", "failed", "exited"}]
    BY <2>1
  <2>4. Listener' \in [Names -> BOOLEAN] /\ appErr' \in [Apps -> BOOLEAN]
    BY <2>2
  <2> QED
    BY <2>1, <2>3, <2>4
<1>10. ASSUME NEW t \in Tasks, AcceptFails(t) PROVE TypeOK'
  BY <1>10 DEF AcceptFails, TaskGoes
<1>11. CASE InitFails \/ Signal
  BY <1>11 DEF InitFails, Signal
<1>12. CASE UNCHANGED vars
  BY <1>12 DEF vars
<1> QED
  BY <1>1, <1>2, <1>3, <1>4, <1>5, <1>6, <1>7, <1>8, <1>9, <1>10, <1>11, <1>12, <1>13, <1>14, <1>15
  DEF Next, Run, StopService, App, Task, Outside

-----------------------------------------------------------------------------
(* The inductive invariant.                                                *)

LEMMA InTasks ==
  /\ \A a \in Apps : \A k \in DOMAIN Services[a] : <<a, k>> \in Tasks
  /\ \A t \in Tasks : /\ t = <<t[1], t[2]>> /\ t[1] \in Apps
                       /\ t[2] \in DOMAIN Services[t[1]]
<1>1. \A a \in Apps : \A k \in DOMAIN Services[a] : <<a, k>> \in Tasks
  BY DEF Tasks
<1>2. ASSUME NEW t \in Tasks
      PROVE  t = <<t[1], t[2]>> /\ t[1] \in Apps /\ t[2] \in DOMAIN Services[t[1]]
  <2>1. PICK a \in Apps : t \in {<<a, k>> : k \in DOMAIN Services[a]}
    BY DEF Tasks
  <2>2. PICK k \in DOMAIN Services[a] : t = <<a, k>>
    BY <2>1
  <2> QED
    BY <2>2
<1> QED
  BY <1>1, <1>2

LEMMA InvInit == Init => Inv
<1> SUFFICES ASSUME Init PROVE Inv
  OBVIOUS
<1>1. TypeOK /\ SetupOK
  BY TypeInit
<1>2. Launched
  BY InTasks DEF Init, Launched
<1>3. ASSUME NEW a \in Apps PROVE Failed(a) = 0
  <2>1. {k \in DOMAIN Services[a] : task[<<a, k>>] = "exited"} = {}
    BY InTasks DEF Init
  <2> QED
    BY <2>1, FS_EmptySet DEF Failed
<1>4. Counted
  <2>1. 0 \notin Apps
    BY <1>1 DEF SetupOK, Apps
  <2>2. \A a : <<"none">> # <<"app", a>>
    OBVIOUS
  <2> QED
    BY <1>3, <2>1, <2>2 DEF Init, Counted, Reported
<1>5. Closed
  BY DEF Init, Closed
<1> QED
  BY <1>1, <1>2, <1>4, <1>5 DEF Inv

(* Nothing of an App runs before Run started it, and Stop begins at the    *)
(* first service.                                                          *)
LEMMA LaunchedStep ==
  ASSUME Inv, [Next]_vars
  PROVE  Launched'
<1>0. /\ Services' = Services /\ Posts' = Posts
      /\ Apps' = Apps /\ Tasks' = Tasks /\ Names' = Names
      /\ TypeOK /\ Launched /\ \A t \in Tasks : t[1] \in Apps
  BY SameSetup, InTasks DEF Inv
<1> USE <1>0 DEF Launched, running, apps, net
<1>1. CASE InitStep \/ WatchSignals
  BY <1>1 DEF InitStep, WatchSignals
<1>2. CASE StartApps
  BY <1>2 DEF StartApps, TypeOK
<1>3. CASE SelectSignal \/ SelectError
  BY <1>3 DEF SelectSignal, SelectError
<1>4. ASSUME NEW t \in Tasks, StopRpc(t) PROVE Launched'
  BY <1>4 DEF StopRpc, Stopping, TypeOK
<1>5. ASSUME NEW t \in Tasks, StopHttp(t) \/ StopTcp(t) PROVE Launched'
  BY <1>5 DEF StopHttp, StopTcp, Stopping
<1>6. CASE StopNext
  BY <1>6 DEF StopNext
<1>7. ASSUME NEW a \in Apps, StartServices(a) PROVE Launched'
  BY <1>7 DEF StartServices, AppGoes, TypeOK
<1>8. ASSUME NEW a \in Apps, PostsDone(a) \/ PostFails(a) \/ PostReturns(a) PROVE Launched'
  BY <1>8 DEF PostsDone, PostFails, PostReturns, AppGoes, TypeOK
<1>9. ASSUME NEW a \in Apps, AppFails(a) \/ Report(a) PROVE Launched'
  BY <1>9 DEF AppFails, Report, AppGoes, TypeOK
<1>10. ASSUME NEW t \in Tasks, Serve(t) \/ Route(t) \/ Listen(t) \/ ServeFails(t) PROVE Launched'
  BY <1>10 DEF Serve, Route, Listen, ServeFails, TaskGoes, TypeOK
<1>11. ASSUME NEW t \in Tasks, ListenFails(t) \/ StoreListener(t) \/ TaskFails(t) PROVE Launched'
  BY <1>11 DEF ListenFails, StoreListener, TaskFails, TaskGoes, TypeOK
<1>12. ASSUME NEW t \in Tasks, AcceptFails(t) PROVE Launched'
  BY <1>12 DEF AcceptFails, TaskGoes, TypeOK
<1>13. CASE InitFails \/ Signal
  BY <1>13 DEF InitFails, Signal
<1>14. CASE UNCHANGED vars
  BY <1>14 DEF vars
<1> QED
  BY <1>1, <1>2, <1>3, <1>4, <1>5, <1>6, <1>7, <1>8, <1>9, <1>10, <1>11, <1>12, <1>13, <1>14
  DEF Next, Run, StopService, App, Task, Outside

(* The goroutines of a's services that have sent their error, after a step *)
(* in which none sends and after one in which t does.                      *)
LEMMA FailedSame ==
  ASSUME Services' = Services, Apps' = Apps,
         \A t \in Tasks : (task'[t] = "exited") <=> (task[t] = "exited")
  PROVE  \A a \in Apps : Failed(a)' = Failed(a)
<1> SUFFICES ASSUME NEW a \in Apps PROVE Failed(a)' = Failed(a)
  OBVIOUS
<1>1. \A k \in DOMAIN Services[a] : (task'[<<a, k>>] = "exited") <=> (task[<<a, k>>] = "exited")
  BY InTasks
<1>2. {k \in DOMAIN Services'[a] : task'[<<a, k>>] = "exited"}
        = {k \in DOMAIN Services[a] : task[<<a, k>>] = "exited"}
  BY <1>1
<1> QED
  BY <1>2 DEF Failed

LEMMA FailedGrows ==
  ASSUME TypeOK, SetupOK, Services' = Services, Apps' = Apps,
         NEW t \in Tasks, task[t] # "exited", task' = [task EXCEPT ![t] = "exited"]
  PROVE  \A a \in Apps : /\ Failed(a) \in Nat
                         /\ Failed(a)' = IF a = t[1] THEN Failed(a) + 1 ELSE Failed(a)
<1> SUFFICES ASSUME NEW a \in Apps
             PROVE  /\ Failed(a) \in Nat
                    /\ Failed(a)' = IF a = t[1] THEN Failed(a) + 1 ELSE Failed(a)
  OBVIOUS
<1> DEFINE F == {k \in DOMAIN Services[a] : task[<<a, k>>] = "exited"}
<1>1. t = <<t[1], t[2]>> /\ t[1] \in Apps /\ t[2] \in DOMAIN Services[t[1]]
  BY InTasks
<1>2. IsFiniteSet(DOMAIN Services[a])
  <2>1. Services[a] \in Seq(DOMAIN Kind)
    BY DEF SetupOK, Apps
  <2>2. Len(Services[a]) \in Nat /\ DOMAIN Services[a] = 1..Len(Services[a])
    BY <2>1
  <2> QED
    BY <2>2, FS_Interval
<1>3. IsFiniteSet(F)
  BY <1>2, FS_Subset
<1>4. Cardinality(F) \in Nat
  BY <1>3, FS_CardinalityType
<1>5. CASE a = t[1]
  <2>1. t[2] \notin F
    BY <1>1, <1>5
  <2>2. \A k \in DOMAIN Services[a] : (task'[<<a, k>>] = "exited") <=> (k \in F \/ k = t[2])
    BY <1>1, <1>5, InTasks DEF TypeOK
  <2>3. {k \in DOMAIN Services'[a] : task'[<<a, k>>] = "exited"} = F \cup {t[2]}
    BY <1>1, <1>5, <2>2
  <2>4. Cardinality(F \cup {t[2]}) = Cardinality(F) + 1
    BY <1>3, <2>1, FS_AddElement
  <2> QED
    BY <1>4, <1>5, <2>3, <2>4 DEF Failed
<1>6. CASE a # t[1]
  <2>1. \A k \in DOMAIN Services[a] : task'[<<a, k>>] = task[<<a, k>>]
    BY <1>1, <1>6, InTasks DEF TypeOK
  <2>2. {k \in DOMAIN Services'[a] : task'[<<a, k>>] = "exited"} = F
    BY <2>1
  <2> QED
    BY <1>4, <1>6, <2>2 DEF Failed
<1> QED
  BY <1>5, <1>6

(* The errors on their way up.                                             *)
LEMMA CountedStep ==
  ASSUME Inv, [Next]_vars
  PROVE  Counted'
<1>0. /\ Services' = Services /\ Posts' = Posts
      /\ Apps' = Apps /\ Tasks' = Tasks /\ Names' = Names
      /\ TypeOK /\ SetupOK /\ Launched /\ Counted /\ \A t \in Tasks : t[1] \in Apps
  BY SameSetup, InTasks DEF Inv
<1>a. 0 \notin Apps /\ \A a \in Apps : Posts[a] \in Nat
  BY <1>0 DEF SetupOK, Apps
<1>b. \A a : <<"init">> # <<"app", a>> /\ <<"signal">> # <<"app", a>>
  OBVIOUS
<1>c. \A a, b : <<"app", b>> = <<"app", a>> => a = b
  OBVIOUS
<1>e. \A a : <<"none">> # <<"app", a>>
  OBVIOUS
<1> USE <1>0, <1>a DEF Counted, PostFailed, Reported, running, apps, net
<1>d. ASSUME \A t \in Tasks : (task'[t] = "exited") <=> (task[t] = "exited")
      PROVE  \A a \in Apps : Failed(a)' = Failed(a)
  BY <1>d, FailedSame
<1>1. CASE UNCHANGED <<app, posted, appErr, regErr, cause>>
           /\ \A t \in Tasks : (task'[t] = "exited") <=> (task[t] = "exited")
  BY <1>1, <1>d
<1>2. CASE InitStep \/ WatchSignals \/ Signal \/ UNCHANGED vars
  BY <1>1, <1>2 DEF InitStep, WatchSignals, Signal, vars
<1>3. CASE StopNext
  BY <1>1, <1>3 DEF StopNext
<1>4. ASSUME NEW t \in Tasks, StopRpc(t) \/ StopHttp(t) \/ StopTcp(t) PROVE Counted'
  BY <1>1, <1>4 DEF StopRpc, StopHttp, StopTcp, Stopping
<1>5. ASSUME NEW t \in Tasks, Serve(t) \/ Route(t) \/ Listen(t) \/ ServeFails(t) PROVE Counted'
  BY <1>1, <1>5 DEF Serve, Route, Listen, ServeFails, TaskGoes, TypeOK
<1>6. ASSUME NEW t \in Tasks, ListenFails(t) \/ StoreListener(t) \/ AcceptFails(t) PROVE Counted'
  BY <1>1, <1>6 DEF ListenFails, StoreListener, AcceptFails, TaskGoes, TypeOK
<1>7. CASE InitFails
  <2>1. \A a \in Apps : Failed(a)' = Failed(a)
    BY <1>7, <1>d DEF InitFails
  <2> QED
    BY <1>7, <1>b, <2>1 DEF InitFails, Launched
<1>8. CASE SelectSignal
  <2>1. \A a \in Apps : Failed(a)' = Failed(a)
    BY <1>8, <1>d DEF SelectSignal
  <2> QED
    BY <1>8, <1>b, <1>e, <2>1 DEF SelectSignal, Launched
<1>9. CASE SelectError
  <2>1. \A a \in Apps : Failed(a)' = Failed(a)
    BY <1>9, <1>d DEF SelectError
  <2>2. \A a \in Apps : (cause' = <<"app", a>> <=> regErr = a) /\ cause # <<"app", a>>
    BY <1>9, <1>c, <1>e DEF SelectError, Launched
  <2> QED
    BY <1>9, <2>1, <2>2 DEF SelectError
<1>10. CASE StartApps
  <2>1. \A a \in Apps : Failed(a)' = Failed(a)
    BY <1>10, <1>d DEF StartApps
  <2>2. \A a \in Apps : app[a] = "none" /\ app'[a] = "start"
    BY <1>10 DEF StartApps, Launched
  <2> QED
    BY <1>10, <2>1, <2>2 DEF StartApps
<1>11. ASSUME NEW a \in Apps, StartServices(a) PROVE Counted'
  <2>1. \A t \in Tasks : (task'[t] = "exited") <=> (task[t] = "exited")
    BY <1>11 DEF StartServices, AppGoes, Launched, TypeOK
  <2>2. \A b \in Apps : Failed(b)' = Failed(b)
    BY <2>1, <1>d
  <2> QED
    BY <1>11, <2>2 DEF StartServices, AppGoes, TypeOK
<1>12. ASSUME NEW a \in Apps, PostsDone(a) \/ PostFails(a) \/ PostReturns(a) PROVE Counted'
  <2>1. \A b \in Apps : Failed(b)' = Failed(b)
    BY <1>12, <1>d DEF PostsDone, PostFails, PostReturns
  <2> QED
    BY <1>12, <2>1 DEF PostsDone, PostFails, PostReturns, AppGoes, TypeOK
<1>13. ASSUME NEW a \in Apps, AppFails(a) \/ Report(a) PROVE Counted'
  <2>1. \A b \in Apps : Failed(b)' = Failed(b)
    BY <1>13, <1>d DEF AppFails, Report
  <2> QED
    BY <1>13, <2>1 DEF AppFails, Report, AppGoes, TypeOK
<1>14. ASSUME NEW t \in Tasks, TaskFails(t) PROVE Counted'
  <2>1. task[t] # "exited" /\ task' = [task EXCEPT ![t] = "exited"]
    BY <1>14 DEF TaskFails, TaskGoes, TypeOK
  <2>2. \A a \in Apps : /\ Failed(a) \in Nat
                        /\ Failed(a)' = IF a = t[1] THEN Failed(a) + 1 ELSE Failed(a)
    BY <2>1, FailedGrows
  <2>3. UNCHANGED <<app, posted, regErr, cause>>
    BY <1>14 DEF TaskFails, TaskGoes
  <2>4. \A a \in Apps : appErr'[a] = IF a = t[1] THEN TRUE ELSE appErr[a]
    BY <1>14 DEF TaskFails, TypeOK
  <2>5. ~appErr[t[1]]
    BY <1>14 DEF TaskFails
  <2>6. ASSUME NEW a \in Apps
        PROVE  PostFailed(a)' \/ Failed(a)' = (IF appErr'[a] THEN 1 ELSE 0)
                                 + (IF app'[a] \in {"report", "done"} THEN 1 ELSE 0)
    <3>1. CASE PostFailed(a)
      BY <2>3, <3>1
    <3>2. CASE ~PostFailed(a) /\ a = t[1]
      <4>1. Failed(a) = 0 + (IF app[a] \in {"report", "done"} THEN 1 ELSE 0)
        BY <2>5, <3>2
      <4>2. Failed(a)' = Failed(a) + 1 /\ appErr'[a] /\ app' = app
        BY <2>2, <2>3, <2>4, <3>2
      <4> QED
        BY <4>1, <4>2
    <3>3. CASE ~PostFailed(a) /\ a # t[1]
      <4>1. Failed(a)' = Failed(a) /\ appErr'[a] = appErr[a] /\ app' = app
        BY <2>2, <2>3, <2>4, <3>3
      <4> QED
        BY <3>3, <4>1
    <3> QED
      BY <3>1, <3>2, <3>3
  <2> QED
    BY <2>3, <2>6
<1> QED
  BY <1>2, <1>3, <1>4, <1>5, <1>6, <1>7, <1>8, <1>9, <1>10, <1>11, <1>12, <1>13, <1>14
  DEF Next, Run, StopService, App, Task, Outside

(* What Stop closed stays closed: a service never serves again once its    *)
(* server has returned, and an address that is listened on again has a     *)
(* goroutine that listens.                                                 *)
LEMMA ClosedStep ==
  ASSUME Inv, [Next]_vars
  PROVE  Closed'
<1>0. /\ Services' = Services /\ Apps' = Apps /\ Tasks' = Tasks
      /\ \A t : Svc(t)' = Svc(t)
      /\ TypeOK /\ SetupOK /\ Launched /\ Closed
  BY SameSetup DEF Inv
<1>a. \A t \in Tasks : /\ t = <<t[1], t[2]>> /\ t[1] \in Apps /\ Svc(t) \in Names
                       /\ t[1] \in Nat /\ t[1] >= 1 /\ t[1] <= Len(Services)
                       /\ t[2] \in Nat /\ t[2] >= 1 /\ t[2] <= Len(Services[t[1]])
  <2> SUFFICES ASSUME NEW t \in Tasks
               PROVE  /\ t = <<t[1], t[2]>> /\ t[1] \in Apps /\ Svc(t) \in Names
                      /\ t[1] \in Nat /\ t[1] >= 1 /\ t[1] <= Len(Services)
                      /\ t[2] \in Nat /\ t[2] >= 1 /\ t[2] <= Len(Services[t[1]])
    OBVIOUS
  <2>1. t = <<t[1], t[2]>> /\ t[1] \in Apps /\ t[2] \in DOMAIN Services[t[1]]
    BY InTasks
  <2>2. t[1] \in 1..Len(Services) /\ Services[t[1]] \in Seq(DOMAIN Kind)
    BY <1>0, <2>1 DEF SetupOK, Apps
  <2>3. t[2] \in 1..Len(Services[t[1]]) /\ Len(Services[t[1]]) \in Nat /\ Len(Services) \in Nat
    BY <1>0, <2>1, <2>2 DEF SetupOK
  <2>4. Svc(t) \in Names
    BY DEF Names, Svc
  <2> QED
    BY <2>1, <2>2, <2>3, <2>4
<1>b. at \in Nat /\ stopped \in Nat /\ serving \subseteq Tasks
  BY <1>0 DEF TypeOK
<1> USE <1>0 DEF running, apps, net
<1>1. CASE serving' = {}
  BY <1>1 DEF Closed
<1>2. CASE InitStep \/ StartApps \/ WatchSignals \/ InitFails
  BY <1>1, <1>2 DEF InitStep, StartApps, WatchSignals, InitFails, Launched
<1>3. CASE UNCHANGED <<main, at, stopped, serving, task, open, proc>>
  BY <1>3 DEF Closed, ClosedFor, StopReached, Up
<1>4. CASE UNCHANGED vars
  BY <1>3, <1>4 DEF vars
<1>5. ASSUME NEW a \in Apps,
             PostsDone(a) \/ PostFails(a) \/ PostReturns(a) \/ AppFails(a) \/ Report(a)
      PROVE  Closed'
  BY <1>3, <1>5 DEF PostsDone, PostFails, PostReturns, AppFails, Report, AppGoes
<1>6. CASE SelectSignal \/ SelectError
  <2>1. main' = "stop" /\ at' = 0 /\ stopped' = 0 /\ task' = task /\ serving' = Serving
    BY <1>6 DEF SelectSignal, SelectError, Launched
  <2>2. \A t \in Serving : t \in Tasks /\ task[t] = "serving"
    BY DEF Serving
  <2>3. \A t \in Tasks : ~StopReached(t)'
    BY <1>a, <2>1 DEF StopReached
  <2> QED
    BY <2>1, <2>2, <2>3 DEF Closed
<1>7. CASE StopNext
  <2>1. UNCHANGED <<serving, task, open, proc>> /\ main = "stop"
    BY <1>7 DEF StopNext
  <2>2. ASSUME NEW t \in Tasks, StopReached(t)' PROVE StopReached(t)
    <3>1. t[1] <= at \/ t[1] = at + 1
      BY <1>7, <1>a, <1>b, <2>1, <2>2 DEF StopNext, StopReached
    <3>2. t[1] = at + 1 => stopped = Len(Services[t[1]])
      BY <1>7, <1>a, <1>b, <1>0 DEF StopNext, SetupOK
    <3> QED
      BY <1>a, <2>1, <3>1, <3>2 DEF StopReached
  <2> QED
    BY <1>b, <2>1, <2>2 DEF Closed, ClosedFor, Up
<1>8. CASE Signal
  BY <1>8 DEF Signal, Closed, ClosedFor, StopReached, Up
<1>9. ASSUME NEW t \in Tasks, AcceptFails(t) PROVE Closed'
  BY <1>9 DEF AcceptFails, TaskGoes, Closed, Up
<1>10. ASSUME NEW t0 \in Tasks, NEW kind, Stopping(kind, t0)
       PROVE  /\ main' = main /\ serving' = serving /\ Kind[Svc(t0)] = kind /\ Up
              /\ \A t \in Tasks : StopReached(t)' => StopReached(t) \/ t = t0
  <2>1. main = "stop" /\ main' = "stop" /\ at' = at /\ stopped' = stopped + 1 /\ t0 = <<at + 1, stopped + 1>>
    BY <1>10 DEF Stopping
  <2>2. ASSUME NEW t \in Tasks, StopReached(t)', t # t0 PROVE StopReached(t)
    <3>1. t[1] = at + 1 => t[2] # stopped + 1
      BY <1>a, <2>1, <2>2
    <3> QED
      BY <1>a, <1>b, <2>1, <2>2, <3>1 DEF StopReached
  <2> QED
    BY <1>10, <2>1, <2>2 DEF Stopping
<1>11. ASSUME NEW t0 \in Tasks, StopRpc(t0) PROVE Closed'
  <2>1. \A t \in Tasks : task'[t] = IF Svc(t) = Svc(t0) /\ task[t] = "serving" THEN "failed" ELSE task[t]
    BY <1>11 DEF StopRpc
  <2>2. UNCHANGED <<open, proc, serving>> /\ Kind[Svc(t0)] = "rpc" /\ Up
    BY <1>11, <1>10 DEF StopRpc
  <2>3. ASSUME NEW t \in Tasks, StopReached(t) => ClosedFor(t), StopReached(t)' PROVE ClosedFor(t)'
    <3>1. StopReached(t) \/ t = t0
      BY <1>11, <1>10, <2>3 DEF StopRpc
    <3>2. CASE t = t0
      BY <2>1, <2>2, <3>2 DEF ClosedFor
    <3>3. CASE ClosedFor(t) /\ Kind[Svc(t)] = "rpc"
      BY <2>1, <3>3 DEF ClosedFor
    <3>4. CASE ClosedFor(t) /\ Kind[Svc(t)] # "rpc"
      <4>1. \A t2 \in Tasks : Svc(t2) = Svc(t) => task'[t2] = task[t2]
        BY <2>1, <2>2, <3>4
      <4> QED
        BY <2>2, <3>4, <4>1 DEF ClosedFor
    <3> QED
      BY <2>3, <3>1, <3>2, <3>3, <3>4
  <2> QED
    BY <1>b, <2>1, <2>2, <2>3 DEF Closed
<1>12. ASSUME NEW t0 \in Tasks, StopHttp(t0) PROVE Closed'
  <2>1. UNCHANGED <<task, open, proc, serving>> /\ Kind[Svc(t0)] = "http" /\ Up
    BY <1>12, <1>10 DEF StopHttp
  <2>2. ASSUME NEW t \in Tasks, StopReached(t) => ClosedFor(t), StopReached(t)' PROVE ClosedFor(t)'
    <3>1. StopReached(t) \/ t = t0
      BY <1>12, <1>10, <2>2 DEF StopHttp
    <3> QED
      BY <2>1, <2>2, <3>1 DEF ClosedFor
  <2> QED
    BY <1>b, <2>1, <2>2 DEF Closed
<1>13. ASSUME NEW t0 \in Tasks, StopTcp(t0) PROVE Closed'
  <2>1. UNCHANGED <<task, serving>> /\ Kind[Svc(t0)] = "tcp" /\ Up
    BY <1>13, <1>10 DEF StopTcp
  <2>2. ASSUME Up', NEW t \in serving, StopReached(t) => ClosedFor(t), StopReached(t)'
        PROVE  ClosedFor(t)'
    <3>1. StopReached(t) \/ t = t0
      BY <1>b, <1>13, <1>10, <2>2 DEF StopTcp
    <3>2. CASE open' = [open EXCEPT ![Svc(t0)] = FALSE]
      <4>1. open'[Svc(t)] => open[Svc(t)] /\ t # t0
        BY <1>a, <1>b, <3>2 DEF TypeOK
      <4> QED
        BY <2>1, <2>2, <3>1, <4>1 DEF ClosedFor
    <3>3. CASE UNCHANGED open /\ \E t2 \in Tasks : Svc(t2) = Svc(t0) /\ task[t2] = "store"
      <4>1. CASE t = t0
        <5>1. task[t] # "store"
          BY DEF Closed
        <5> QED
          BY <2>1, <3>3, <4>1, <5>1 DEF ClosedFor
      <4>2. CASE t # t0
        BY <2>1, <2>2, <3>1, <3>3, <4>2 DEF ClosedFor
      <4> QED
        BY <4>1, <4>2
    <3> QED
      BY <1>13, <2>2, <3>2, <3>3 DEF StopTcp, Up
  <2> QED
    BY <2>1, <2>2 DEF Closed
<1>14. ASSUME NEW a \in Apps, StartServices(a) PROVE Closed'
  <2>1. UNCHANGED <<main, at, stopped, serving, open, proc>>
    BY <1>14 DEF StartServices, AppGoes
  <2>2. \A t \in Tasks : task[t] # "none" => task'[t] = task[t]
    BY <1>14 DEF StartServices, AppGoes, Launched
  <2>3. \A t \in Tasks : task'[t] = task[t] \/ task'[t] = "start"
    BY <1>14 DEF StartServices
  <2> QED
    BY <1>b, <2>1, <2>2, <2>3 DEF Closed, ClosedFor, StopReached, Up
<1>15. ASSUME NEW t0 \in Tasks, NEW kinds, NEW from, NEW to, TaskGoes(t0, kinds, from, to),
              from # "exited", from \in {"serving", "failed"} => to \in {"failed", "exited"},
              from = "store" => to = "serving",
              from = "serving" => "tcp" \notin kinds,
              \A s \in Names : open'[s] => \/ open[s]
                                           \/ s = Svc(t0) /\ from = "start" /\ to = "store"
       PROVE  Closed'
  <2>1. /\ UNCHANGED <<main, at, stopped, serving>> /\ Up /\ Kind[Svc(t0)] \in kinds
        /\ task[t0] = from /\ \A t \in Tasks : task'[t] = IF t = t0 THEN to ELSE task[t]
    BY <1>15 DEF TaskGoes, TypeOK
  <2>2. ASSUME NEW t \in serving
        PROVE  /\ task'[t] \in {"serving", "failed", "exited"}
               /\ task[t] # "serving" => task'[t] # "serving"
    <3>1. t \in Tasks /\ task[t] \in {"serving", "failed", "exited"}
      BY <1>b, <2>2 DEF Closed
    <3>2. CASE t = t0 /\ task[t] = "exited"
      BY <1>15, <2>1, <3>2 DEF TaskGoes
    <3>3. CASE t = t0 /\ task[t] # "exited"
      BY <1>15, <2>1, <3>1, <3>3
    <3>4. CASE t # t0
      BY <2>1, <3>1, <3>4
    <3> QED
      BY <3>2, <3>3, <3>4
  <2>3. ASSUME NEW t \in serving, ClosedFor(t), Kind[Svc(t)] = "tcp", open'[Svc(t)]
        PROVE  \E t2 \in Tasks \ {t} : Svc(t2) = Svc(t) /\ task'[t2] \in {"store", "serving"}
    <3>1. CASE ~open[Svc(t)]
      <4>1. Svc(t) = Svc(t0) /\ from = "start" /\ to = "store"
        BY <1>a, <1>b, <1>15, <2>3, <3>1
      <4>2. t0 # t
        BY <2>1, <4>1 DEF Closed
      <4> QED
        BY <2>1, <4>1, <4>2
    <3>2. CASE open[Svc(t)]
      <4>1. PICK t2 \in Tasks \ {t} : Svc(t2) = Svc(t) /\ task[t2] \in {"store", "serving"}
        BY <2>3, <3>2 DEF ClosedFor
      <4>2. task'[t2] \in {"store", "serving"}
        BY <1>15, <2>1, <2>3, <4>1
      <4> QED
        BY <4>1, <4>2
    <3> QED
      BY <3>1, <3>2
  <2>4. ASSUME NEW t \in serving, ClosedFor(t) PROVE ClosedFor(t)'
    BY <2>2, <2>3, <2>4 DEF ClosedFor
  <2> QED
    BY <2>1, <2>2, <2>4 DEF Closed, StopReached
<1>16. ASSUME NEW t \in Tasks, Serve(t) \/ Route(t) PROVE Closed'
  BY <1>15, <1>16 DEF Serve, Route
<1>17. ASSUME NEW t \in Tasks, Listen(t) PROVE Closed'
  <2>1. TaskGoes(t, {"tcp"}, "start", "store") /\ open' = [open EXCEPT ![Svc(t)] = TRUE]
    BY <1>17 DEF Listen
  <2>2. \A s \in Names : open'[s] => open[s] \/ s = Svc(t)
    BY <2>1 DEF TypeOK
  <2> QED
    BY <1>15, <2>1, <2>2
<1>18. ASSUME NEW t \in Tasks, ServeFails(t) PROVE Closed'
  BY <1>15, <1>18 DEF ServeFails
<1>19. ASSUME NEW t \in Tasks, ListenFails(t) \/ StoreListener(t) \/ TaskFails(t) PROVE Closed'
  BY <1>15, <1>19 DEF ListenFails, StoreListener, TaskFails
<1> QED
  BY <1>2, <1>4, <1>5, <1>6, <1>7, <1>8, <1>9, <1>11, <1>12, <1>13, <1>14, <1>16, <1>17, <1>18, <1>19
  DEF Next, Run, StopService, App, Task, Outside

(* Spec keeps the inductive invariant. *)
THEOREM Invariance == Spec => []Inv
<1>1. Inv /\ [Next]_vars => Inv'
  <2> SUFFICES ASSUME Inv, [Next]_vars PROVE Inv'
    OBVIOUS
  <2>1. SetupOK'
    BY SameSetup DEF Inv, SetupOK
  <2> QED
    BY <2>1, TypeStep, LaunchedStep, CountedStep, ClosedStep DEF Inv
<1> QED
  BY InvInit, <1>1, PTL DEF Spec

(* Every variable keeps its type, however many Apps and services there are *)
(* (registry.go, app.go).                                                  *)
THEOREM TypeCorrect == Spec => []TypeOK
BY Invariance, PTL DEF Inv

(* However many services of an App fail, and in whatever order, its        *)
(* goroutine and Run act on no failure that did not happen, and none is    *)
(* lost or doubled in the channel of the App or in that of Run, of         *)
(* capacity one each (App.run, Registry.Run).                              *)
THEOREM Failures_Counted == Spec => []FailuresCounted
<1>1. Inv => FailuresCounted
  BY DEF Inv, TypeOK, Counted, PostFailed, Reported, FailuresCounted
<1> QED
  BY <1>1, Invariance, PTL

(* No other task runs the same instance. *)
Alone(t) == \A t2 \in Tasks \ {t} : Svc(t2) # Svc(t)

(* Of the services that served when Run left its select, once Run has      *)
(* returned: an rpcx server has returned; a TCP server is closed, unless   *)
(* another task of the same instance listens, or is still in its accept    *)
(* loop; so it is closed for certain if no other task shares the instance. *)
(* Nothing is said of the websocket server, whose Stop is empty, and which *)
(* goes on serving (Registry.Stop, App.stop, Tcp.Stop, Http.Stop).         *)
THEOREM Stopped ==
  Spec => [](/\ StopClosesServing
             /\ main = "returned" /\ Up =>
                  \A t \in serving :
                    Kind[Svc(t)] = "tcp" /\ Alone(t) => ~open[Svc(t)])
<1>1. Inv => StopClosesServing
  BY DEF Inv, Closed, StopReached, StopClosesServing
<1>2. StopClosesServing /\ main = "returned" /\ Up =>
        \A t \in serving : Kind[Svc(t)] = "tcp" /\ Alone(t) => ~open[Svc(t)]
  BY DEF StopClosesServing, ClosedFor, Alone
<1> QED
  BY <1>1, <1>2, Invariance, PTL

-----------------------------------------------------------------------------
(* The loops of Flags.  What they compute is proved by induction over      *)
(* their turns: the library's induction theorems cannot be used here, so   *)
(* Upward states induction over the members of a set.                      *)

(* Induction up to n.                                                      *)
LEMMA Upward ==
  ASSUME NEW n \in Nat, NEW T, 0 \in T, \A i \in 0..(n - 1) : i \in T => i + 1 \in T
  PROVE  \A i \in 0..n : i \in T
<1> DEFINE F == {i \in Nat : i <= n /\ i \notin T}
<1>1. ASSUME F # {} PROVE FALSE
  <2>1. PICK m \in F : \A i \in F : ~(<<i, m>> \in OpToRel(<, Nat))
    <3>1. F \subseteq Nat
      OBVIOUS
    <3> HIDE DEF F
    <3> QED
      BY <1>1, <3>1, WFMin, NatLessThanWellFounded
  <2>2. \A i \in F : ~(i < m)
    BY <2>1 DEF OpToRel
  <2>3. m # 0 /\ m - 1 \in 0..(n - 1) /\ m - 1 \in T
    BY <2>2
  <2> QED
    BY <2>3
<1> QED
  BY <1>1

(* A set of positions that is not empty has a last one.                    *)
LEMMA LastOf ==
  ASSUME NEW n \in Nat, NEW S, S \subseteq 1..n, S # {}
  PROVE  \E i \in S : \A j \in S : j <= i
<1> DEFINE D == {d \in Nat : n - d \in S}
<1>1. D # {}
  <2>1. PICK i \in S : TRUE
    OBVIOUS
  <2>2. n - i \in Nat /\ n - (n - i) = i
    BY <2>1
  <2> QED
    BY <2>1, <2>2
<1>2. PICK d \in D : \A e \in D : ~(<<e, d>> \in OpToRel(<, Nat))
  <2>1. D \subseteq Nat
    OBVIOUS
  <2> HIDE DEF D
  <2> QED
    BY <1>1, <2>1, WFMin, NatLessThanWellFounded
<1>3. \A e \in D : ~(e < d)
  BY <1>2 DEF OpToRel
<1>4. ASSUME NEW j \in S PROVE j <= n - d
  <2>1. n - j \in D
    <3>1. n - j \in Nat /\ n - (n - j) = j
      OBVIOUS
    <3> QED
      BY <3>1
  <2> QED
    BY <1>3, <2>1
<1> QED
  BY <1>4

(* Each loop is what its definition says of it, turn by turn.              *)
LEMMA DeclaringTurns ==
  ASSUME NEW declared, NEW fields, Len(fields) \in Nat, NEW env
  PROVE  Declaring(declared, fields, env) =
           [n \in 0..Len(fields) |->
              IF n = 0 THEN [out |-> "ok", value |-> declared]
              ELSE Declare(Declaring(declared, fields, env)[n - 1], fields[n], env)]
<1> DEFINE Start == [out |-> "ok", value |-> declared]
           Done(m) == \E f : f = [n \in 0..m |-> IF n = 0 THEN Start ELSE Declare(f[n - 1], fields[n], env)]
<1> HIDE DEF Start
<1>1. Done(0)
  <2> DEFINE f == [n \in 0..0 |-> Start]
  <2>1. f = [n \in 0..0 |-> IF n = 0 THEN Start ELSE Declare(f[n - 1], fields[n], env)]
    OBVIOUS
  <2> QED
    BY <2>1
<1>2. ASSUME NEW m \in Nat, Done(m) PROVE Done(m + 1)
  <2>1. PICK f : f = [n \in 0..m |-> IF n = 0 THEN Start ELSE Declare(f[n - 1], fields[n], env)]
    BY <1>2
  <2> DEFINE g == [n \in 0..(m + 1) |-> IF n <= m THEN f[n] ELSE Declare(f[m], fields[m + 1], env)]
  <2>2. \A n \in 0..m : g[n] = f[n]
    OBVIOUS
  <2>3. ASSUME NEW n \in 0..(m + 1)
        PROVE  g[n] = IF n = 0 THEN Start ELSE Declare(g[n - 1], fields[n], env)
    <3>1. CASE n = 0
      BY <2>1, <3>1
    <3>2. CASE n \in 1..m
      <4>1. n - 1 \in 0..m /\ n \in 0..m /\ n # 0
        BY <3>2
      <4> QED
        BY <2>1, <2>2, <4>1
    <3>3. CASE n = m + 1
      <4>1. g[n] = Declare(f[m], fields[m + 1], env) /\ g[n - 1] = f[m]
        BY <2>2, <3>3
      <4> QED
        BY <3>3, <4>1
    <3> QED
      BY <3>1, <3>2, <3>3
  <2>4. g = [n \in 0..(m + 1) |-> IF n = 0 THEN Start ELSE Declare(g[n - 1], fields[n], env)]
    BY <2>3
  <2> QED
    BY <2>4
<1> HIDE DEF Done
<1>3. Done(Len(fields))
  <2> DEFINE T == {m \in Nat : Done(m)}
  <2>1. 0 \in T /\ \A n \in 0..(Len(fields) - 1) : n \in T => n + 1 \in T
    BY <1>1, <1>2
  <2>2. \A m \in T : Done(m)
    OBVIOUS
  <2> HIDE DEF T
  <2>3. \A m \in 0..Len(fields) : m \in T
    BY <2>1, Upward
  <2> QED
    BY <2>2, <2>3
<1> QED
  BY <1>3 DEF Declaring, Done, Start

LEMMA AssigningTurns ==
  ASSUME NEW acc, NEW args, Len(args) \in Nat
  PROVE  Assigning(acc, args) =
           [n \in 0..Len(args) |-> IF n = 0 THEN acc ELSE Assign(Assigning(acc, args)[n - 1], args[n])]
<1> DEFINE Done(m) == \E f : f = [n \in 0..m |-> IF n = 0 THEN acc ELSE Assign(f[n - 1], args[n])]
<1>1. Done(0)
  <2> DEFINE f == [n \in 0..0 |-> acc]
  <2>1. f = [n \in 0..0 |-> IF n = 0 THEN acc ELSE Assign(f[n - 1], args[n])]
    OBVIOUS
  <2> QED
    BY <2>1
<1>2. ASSUME NEW m \in Nat, Done(m) PROVE Done(m + 1)
  <2>1. PICK f : f = [n \in 0..m |-> IF n = 0 THEN acc ELSE Assign(f[n - 1], args[n])]
    BY <1>2
  <2> DEFINE g == [n \in 0..(m + 1) |-> IF n <= m THEN f[n] ELSE Assign(f[m], args[m + 1])]
  <2>2. \A n \in 0..m : g[n] = f[n]
    OBVIOUS
  <2>3. ASSUME NEW n \in 0..(m + 1)
        PROVE  g[n] = IF n = 0 THEN acc ELSE Assign(g[n - 1], args[n])
    <3>1. CASE n = 0
      BY <2>1, <3>1
    <3>2. CASE n \in 1..m
      <4>1. n - 1 \in 0..m /\ n \in 0..m /\ n # 0
        BY <3>2
      <4> QED
        BY <2>1, <2>2, <4>1
    <3>3. CASE n = m + 1
      <4>1. g[n] = Assign(f[m], args[m + 1]) /\ g[n - 1] = f[m]
        BY <2>2, <3>3
      <4> QED
        BY <3>3, <4>1
    <3> QED
      BY <3>1, <3>2, <3>3
  <2>4. g = [n \in 0..(m + 1) |-> IF n = 0 THEN acc ELSE Assign(g[n - 1], args[n])]
    BY <2>3
  <2> QED
    BY <2>4
<1> HIDE DEF Done
<1>3. Done(Len(args))
  <2> DEFINE T == {m \in Nat : Done(m)}
  <2>1. 0 \in T /\ \A n \in 0..(Len(args) - 1) : n \in T => n + 1 \in T
    BY <1>1, <1>2
  <2>2. \A m \in T : Done(m)
    OBVIOUS
  <2> HIDE DEF T
  <2>3. \A m \in 0..Len(args) : m \in T
    BY <2>1, Upward
  <2> QED
    BY <2>2, <2>3
<1> QED
  BY <1>3 DEF Assigning, Done

-----------------------------------------------------------------------------
(* What the flag package has.                                              *)

(* The fields of Registry's table and those of a program, and arguments.    *)
FieldType == ToSet(GlobalCmdFlag) \cup [key : STRING, kind : STRING, default : STRING]
ArgType   == [key : STRING, text : STRING]

Shaped(a, outs) ==
  DOMAIN a = {"out", "value"} /\ a.out \in outs /\ \A k \in DOMAIN a.value : WellKinded(a.value[k])

LEMMA InitialKinded ==
  ASSUME NEW kind \in Kinds, NEW text
  PROVE  WellKinded(Initial(kind, text)) /\ Initial(kind, text)[1] = kind
BY DEF Initial, WellKinded, Kinds, Numeral

LEMMA FromCommandLineKinded ==
  ASSUME NEW kind \in Kinds, NEW text
  PROVE  WellKinded(FromCommandLine(kind, text)) /\ FromCommandLine(kind, text)[1] = kind
<1>1. CASE kind = "bool"
  BY <1>1 DEF FromCommandLine, WellKinded, Kinds
<1>2. CASE kind # "bool"
  BY <1>2, InitialKinded DEF FromCommandLine
<1> QED
  BY <1>1, <1>2

(* After n fields: each of them was declared with its text, or one of them *)
(* was of no kind or had another's key.                                    *)
DeclaredTo(a, fields, env, n) ==
  /\ Shaped(a, {"ok", "panic"})
  /\ a.out = "ok" =>
       /\ DOMAIN a.value = {fields[i].key : i \in 1..n}
       /\ \A i \in 1..n : /\ fields[i].kind \in Kinds
                          /\ a.value[fields[i].key] = Initial(fields[i].kind, DefaultText(fields[i], env))
       /\ \A i, j \in 1..n : i # j => fields[i].key # fields[j].key
  /\ a.out = "panic" =>
       \E i \in 1..n : fields[i].kind \notin Kinds \/ \E j \in 1..n : i # j /\ fields[i].key = fields[j].key

LEMMA DeclareStep ==
  ASSUME NEW fields, NEW env, NEW n \in Nat, NEW a, DeclaredTo(a, fields, env, n)
  PROVE  DeclaredTo(Declare(a, fields[n + 1], env), fields, env, n + 1)
<1> DEFINE f == fields[n + 1]
           b == Declare(a, f, env)
<1>1. 1..(n + 1) = 1..n \cup {n + 1} /\ n + 1 \notin 1..n
  OBVIOUS
<1>2. CASE a.out # "ok"
  <2>1. b = a /\ a.out = "panic"
    BY <1>2 DEF Declare, DeclaredTo, Shaped
  <2> QED
    BY <1>1, <2>1 DEF DeclaredTo
<1>3. CASE a.out = "ok" /\ (f.key \in DOMAIN a.value \/ f.kind \notin Kinds)
  <2>1. b = [a EXCEPT !.out = "panic"]
    BY <1>3 DEF Declare
  <2>2. Shaped(b, {"ok", "panic"}) /\ b.out = "panic"
    BY <2>1 DEF DeclaredTo, Shaped
  <2>3. f.kind \notin Kinds \/ \E i \in 1..n : fields[i].key = f.key
    BY <1>3 DEF DeclaredTo
  <2>4. \E i \in 1..(n + 1) : fields[i].kind \notin Kinds
                            \/ \E j \in 1..(n + 1) : i # j /\ fields[i].key = fields[j].key
    BY <1>1, <2>3
  <2> QED
    BY <2>2, <2>4 DEF DeclaredTo
<1>4. CASE a.out = "ok" /\ f.key \notin DOMAIN a.value /\ f.kind \in Kinds
  <2> DEFINE v == Initial(f.kind, DefaultText(f, env))
             more == [k \in DOMAIN a.value \cup {f.key} |-> IF k = f.key THEN v ELSE a.value[k]]
  <2>2. b = [a EXCEPT !.value = more]
    BY <1>4 DEF Declare
  <2>3. b.out = "ok" /\ b.value = more /\ DOMAIN b = {"out", "value"}
    BY <1>4, <2>2 DEF DeclaredTo, Shaped
  <2>4. WellKinded(v)
    BY <1>4, InitialKinded
  <2>5. Shaped(b, {"ok", "panic"})
    BY <2>3, <2>4 DEF DeclaredTo, Shaped
  <2>6. DOMAIN b.value = {fields[i].key : i \in 1..(n + 1)}
    BY <1>1, <1>4, <2>3 DEF DeclaredTo
  <2>7. \A i \in 1..n : fields[i].key # f.key
    BY <1>4 DEF DeclaredTo
  <2>8. ASSUME NEW i \in 1..(n + 1)
        PROVE  /\ fields[i].kind \in Kinds
               /\ b.value[fields[i].key] = Initial(fields[i].kind, DefaultText(fields[i], env))
    <3>1. CASE i = n + 1
      BY <1>4, <2>3, <3>1
    <3>2. CASE i \in 1..n
      <4>1. fields[i].key \in DOMAIN a.value /\ fields[i].key # f.key
        BY <1>4, <2>7, <3>2 DEF DeclaredTo
      <4>2. b.value[fields[i].key] = a.value[fields[i].key]
        BY <2>3, <4>1
      <4> QED
        BY <1>4, <3>2, <4>2 DEF DeclaredTo
    <3> QED
      BY <1>1, <3>1, <3>2
  <2>9. \A i, j \in 1..(n + 1) : i # j => fields[i].key # fields[j].key
    BY <1>1, <1>4, <2>7 DEF DeclaredTo
  <2> QED
    BY <2>3, <2>5, <2>6, <2>8, <2>9 DEF DeclaredTo
<1> QED
  BY <1>2, <1>3, <1>4

LEMMA Declared ==
  ASSUME NEW fields, Len(fields) \in Nat, NEW env
  PROVE  DeclaredTo(Declaring(<<>>, fields, env)[Len(fields)], fields, env, Len(fields))
<1> DEFINE after == Declaring(<<>>, fields, env)
           T == {n \in 0..Len(fields) : DeclaredTo(after[n], fields, env, n)}
<1>1. 0 \in T
  <2>1. after[0] = [out |-> "ok", value |-> <<>>]
    BY DeclaringTurns
  <2>2. DOMAIN after[0].value = {}
    BY <2>1
  <2>3. 1..0 = {}
    OBVIOUS
  <2> HIDE DEF after
  <2>4. DeclaredTo(after[0], fields, env, 0)
    BY <2>1, <2>2, <2>3 DEF DeclaredTo, Shaped
  <2> QED
    BY <2>4
<1>2. ASSUME NEW n \in 0..(Len(fields) - 1), n \in T PROVE n + 1 \in T
  <2>1. after[n + 1] = Declare(after[n], fields[n + 1], env)
    <3>1. n + 1 \in 0..Len(fields) /\ n + 1 # 0 /\ (n + 1) - 1 = n
      OBVIOUS
    <3> QED
      BY <3>1, DeclaringTurns
  <2> HIDE DEF after
  <2>2. DeclaredTo(after[n], fields, env, n)
    BY <1>2
  <2> QED
    BY <2>1, <2>2, DeclareStep
<1> HIDE DEF after
<1>3. \A n \in T : DeclaredTo(after[n], fields, env, n)
  OBVIOUS
<1> HIDE DEF T
<1>4. \A n \in 0..Len(fields) : n \in T
  BY <1>1, <1>2, Upward
<1> QED
  BY <1>3, <1>4 DEF after

(* A key that is there already panics, and nothing else is declared.       *)
LEMMA DeclaredAgain ==
  ASSUME NEW declared, NEW fields, Len(fields) \in Nat \ {0}, fields[1].key \in DOMAIN declared, NEW env
  PROVE  Declaring(declared, fields, env)[Len(fields)] = [out |-> "panic", value |-> declared]
<1> DEFINE after == Declaring(declared, fields, env)
           end == [out |-> "panic", value |-> declared]
           T == {n \in Nat : n + 1 \in 1..Len(fields) /\ after[n + 1] = end}
<1>1. after[0] = [out |-> "ok", value |-> declared]
  BY DeclaringTurns
<1>2. \A n \in 0..(Len(fields) - 1) : after[n + 1] = Declare(after[n], fields[n + 1], env)
  <2>1. \A n \in 0..(Len(fields) - 1) : n + 1 \in 0..Len(fields) /\ n + 1 # 0 /\ (n + 1) - 1 = n
    OBVIOUS
  <2> QED
    BY <2>1, DeclaringTurns
<1> HIDE DEF after
<1>3. 0 \in T
  <2>1. after[1] = Declare(after[0], fields[1], env)
    BY <1>2
  <2>2. after[1] = end
    BY <1>1, <2>1 DEF Declare
  <2> QED
    BY <2>2
<1>4. ASSUME NEW n \in 0..((Len(fields) - 1) - 1), n \in T PROVE n + 1 \in T
  <2>1. after[(n + 1) + 1] = Declare(after[n + 1], fields[(n + 1) + 1], env)
    BY <1>2
  <2>2. after[(n + 1) + 1] = end
    BY <1>4, <2>1 DEF Declare
  <2> QED
    BY <2>2
<1>5. \A n \in T : after[n + 1] = end
  OBVIOUS
<1> HIDE DEF T
<1>6. \A n \in 0..(Len(fields) - 1) : n \in T
  <2>1. Len(fields) - 1 \in Nat
    OBVIOUS
  <2> QED
    BY <1>3, <1>4, <2>1, Upward
<1>7. Len(fields) - 1 \in 0..(Len(fields) - 1) /\ (Len(fields) - 1) + 1 = Len(fields)
  OBVIOUS
<1> QED
  BY <1>5, <1>6, <1>7 DEF after

(* After n arguments: each was of a declared key and was read as one of    *)
(* its kind, the last of a key counts, and what has none is as declared.   *)
AssignedTo(a, value, args, n) ==
  /\ Shaped(a, {"ok", "exit"})
  /\ DOMAIN a.value = DOMAIN value
  /\ \A k \in DOMAIN value : a.value[k][1] = value[k][1]
  /\ a.out = "ok" =>
       /\ \A i \in 1..n : args[i].key \in DOMAIN value /\ Parses(value[args[i].key][1], args[i].text)
       /\ \A k \in DOMAIN value : (\A i \in 1..n : args[i].key # k) => a.value[k] = value[k]
       /\ \A i \in 1..n : (\A j \in 1..n : args[j].key = args[i].key => j <= i)
                          => a.value[args[i].key] = FromCommandLine(value[args[i].key][1], args[i].text)
  /\ a.out = "exit" =>
       \E i \in 1..n : args[i].key \notin DOMAIN value \/ ~Parses(value[args[i].key][1], args[i].text)

LEMMA AssignStep ==
  ASSUME NEW value, NEW args, NEW n \in Nat, NEW a, AssignedTo(a, value, args, n)
  PROVE  AssignedTo(Assign(a, args[n + 1]), value, args, n + 1)
<1> DEFINE x == args[n + 1]
           b == Assign(a, x)
<1>1. 1..(n + 1) = 1..n \cup {n + 1} /\ n + 1 \notin 1..n /\ \A i \in 1..n : i <= n + 1 /\ ~(n + 1 <= i)
  OBVIOUS
<1>2. CASE a.out # "ok"
  <2>1. b = a /\ a.out = "exit"
    BY <1>2 DEF Assign, AssignedTo, Shaped
  <2> QED
    BY <1>1, <2>1 DEF AssignedTo
<1>3. CASE a.out = "ok" /\ (x.key \notin DOMAIN a.value \/ ~Parses(a.value[x.key][1], x.text))
  <2>1. b = [a EXCEPT !.out = "exit"]
    BY <1>3 DEF Assign
  <2>2. Shaped(b, {"ok", "exit"}) /\ b.out = "exit" /\ b.value = a.value
    BY <2>1 DEF AssignedTo, Shaped
  <2>3. x.key \notin DOMAIN value \/ ~Parses(value[x.key][1], x.text)
    BY <1>3 DEF AssignedTo
  <2>4. \E i \in 1..(n + 1) : args[i].key \notin DOMAIN value \/ ~Parses(value[args[i].key][1], args[i].text)
    BY <1>1, <2>3
  <2> QED
    BY <2>2, <2>4 DEF AssignedTo
<1>4. CASE a.out = "ok" /\ x.key \in DOMAIN a.value /\ Parses(a.value[x.key][1], x.text)
  <2> DEFINE v == FromCommandLine(a.value[x.key][1], x.text)
  <2>1. b = [a EXCEPT !.value[x.key] = v]
    BY <1>4 DEF Assign
  <2>2. b.out = "ok" /\ b.value = [a.value EXCEPT ![x.key] = v] /\ DOMAIN b = {"out", "value"}
    BY <1>4, <2>1 DEF AssignedTo, Shaped
  <2>3. a.value[x.key][1] \in Kinds /\ a.value[x.key][1] = value[x.key][1]
    BY <1>4 DEF AssignedTo, Shaped, WellKinded
  <2>4. WellKinded(v) /\ v[1] = value[x.key][1] /\ v = FromCommandLine(value[x.key][1], x.text)
    BY <2>3, FromCommandLineKinded
  <2> HIDE DEF v, b
  <2>5. /\ DOMAIN b.value = DOMAIN a.value
        /\ b.value[x.key] = v
        /\ \A k \in DOMAIN a.value : k # x.key => b.value[k] = a.value[k]
    BY <1>4, <2>2
  <2>6. Shaped(b, {"ok", "exit"}) /\ DOMAIN b.value = DOMAIN value
    BY <2>2, <2>4, <2>5 DEF AssignedTo, Shaped
  <2>7. \A k \in DOMAIN value : b.value[k][1] = value[k][1]
    BY <2>4, <2>5 DEF AssignedTo
  <2>8. \A i \in 1..(n + 1) : args[i].key \in DOMAIN value /\ Parses(value[args[i].key][1], args[i].text)
    BY <1>1, <1>4, <2>3 DEF AssignedTo
  <2>9. ASSUME NEW k \in DOMAIN value, \A i \in 1..(n + 1) : args[i].key # k
        PROVE  b.value[k] = value[k]
    <3>1. k # x.key /\ \A i \in 1..n : args[i].key # k
      BY <1>1, <2>9
    <3> QED
      BY <1>4, <2>5, <3>1 DEF AssignedTo
  <2>10. ASSUME NEW i \in 1..(n + 1), \A j \in 1..(n + 1) : args[j].key = args[i].key => j <= i
         PROVE  b.value[args[i].key] = FromCommandLine(value[args[i].key][1], args[i].text)
    <3>1. CASE i = n + 1
      BY <2>4, <2>5, <3>1
    <3>2. CASE i \in 1..n
      <4>1. args[i].key # x.key
        BY <1>1, <2>10, <3>2
      <4>2. \A j \in 1..n : args[j].key = args[i].key => j <= i
        BY <1>1, <2>10
      <4>3. a.value[args[i].key] = FromCommandLine(value[args[i].key][1], args[i].text)
        BY <1>4, <3>2, <4>2 DEF AssignedTo
      <4>4. args[i].key \in DOMAIN a.value
        BY <1>4, <3>2 DEF AssignedTo
      <4> QED
        BY <2>5, <4>1, <4>3, <4>4
    <3> QED
      BY <1>1, <3>1, <3>2
  <2> QED
    BY <2>2, <2>6, <2>7, <2>8, <2>9, <2>10 DEF AssignedTo, b
<1> QED
  BY <1>2, <1>3, <1>4

LEMMA Assigned ==
  ASSUME NEW acc, Shaped(acc, {"ok"}), NEW args, Len(args) \in Nat
  PROVE  AssignedTo(Assigning(acc, args)[Len(args)], acc.value, args, Len(args))
<1> DEFINE after == Assigning(acc, args)
           T == {n \in 0..Len(args) : AssignedTo(after[n], acc.value, args, n)}
<1>1. 0 \in T
  <2>1. after[0] = acc /\ 1..0 = {}
    BY AssigningTurns
  <2> HIDE DEF after
  <2>2. AssignedTo(after[0], acc.value, args, 0)
    BY <2>1 DEF AssignedTo, Shaped
  <2> QED
    BY <2>2
<1>2. ASSUME NEW n \in 0..(Len(args) - 1), n \in T PROVE n + 1 \in T
  <2>1. after[n + 1] = Assign(after[n], args[n + 1])
    <3>1. n + 1 \in 0..Len(args) /\ n + 1 # 0 /\ (n + 1) - 1 = n
      OBVIOUS
    <3> QED
      BY <3>1, AssigningTurns
  <2> HIDE DEF after
  <2>2. AssignedTo(after[n], acc.value, args, n)
    BY <1>2
  <2> QED
    BY <2>1, <2>2, AssignStep
<1> HIDE DEF after
<1>3. \A n \in T : AssignedTo(after[n], acc.value, args, n)
  OBVIOUS
<1> HIDE DEF T
<1>4. \A n \in 0..Len(args) : n \in T
  BY <1>1, <1>2, Upward
<1> QED
  BY <1>3, <1>4 DEF after

(* What failed stays as it is.                                             *)
LEMMA AssignedNothing ==
  ASSUME NEW acc, acc.out # "ok", NEW args, Len(args) \in Nat
  PROVE  Assigning(acc, args)[Len(args)] = acc
<1> DEFINE after == Assigning(acc, args)
           T == {n \in 0..Len(args) : after[n] = acc}
<1>1. 0 \in T
  BY AssigningTurns
<1>2. ASSUME NEW n \in 0..(Len(args) - 1), n \in T PROVE n + 1 \in T
  <2>1. after[n + 1] = Assign(after[n], args[n + 1])
    <3>1. n + 1 \in 0..Len(args) /\ n + 1 # 0 /\ (n + 1) - 1 = n
      OBVIOUS
    <3> QED
      BY <3>1, AssigningTurns
  <2> HIDE DEF after
  <2> QED
    BY <1>2, <2>1 DEF Assign
<1> HIDE DEF after
<1>3. \A n \in T : after[n] = acc
  OBVIOUS
<1> HIDE DEF T
<1>4. \A n \in 0..Len(args) : n \in T
  BY <1>1, <1>2, Upward
<1> QED
  BY <1>3, <1>4 DEF after

(* The settings that come of it. *)
LEMMA SettingOf ==
  ASSUME NEW fields \in Seq(FieldType), NEW args \in Seq(ArgType), NEW env,
         NEW acc, DeclaredTo(acc, fields, env, Len(fields)), acc.out = "ok",
         NEW a, AssignedTo(a, acc.value, args, Len(args)), a.out = "ok"
  PROVE  \A i \in 1..Len(fields) : a.value[fields[i].key] = Setting(fields[i], env, args)
<1> SUFFICES ASSUME NEW n \in 1..Len(fields)
             PROVE  a.value[fields[n].key] = Setting(fields[n], env, args)
  OBVIOUS
<1> DEFINE f == fields[n]
<1>0. f.key \in DOMAIN acc.value /\ acc.value[f.key] = Initial(f.kind, DefaultText(f, env)) /\ f.kind \in Kinds
  BY DEF DeclaredTo
<1> SUFFICES a.value[f.key] = Setting(f, env, args)
  OBVIOUS
<1> HIDE DEF f
<1> DEFINE given == Given(f.key, args)
           final == CHOOSE i \in given : \A j \in given : j <= i
<1> Len(args) \in Nat /\ DOMAIN args = 1..Len(args)
  OBVIOUS
<1>1. CASE given = {}
  <2>1. \A i \in 1..Len(args) : args[i].key # f.key
    BY <1>1 DEF Given
  <2>2. a.value[f.key] = Initial(f.kind, DefaultText(f, env))
    BY <1>0, <2>1 DEF AssignedTo
  <2>3. DefaultText(f, env) = IF f.key \in DOMAIN env THEN env[f.key]
                              ELSE IF f.default = None THEN NotFound ELSE f.default
    BY DEF DefaultText
  <2>4. Setting(f, env, args) = Initial(f.kind, DefaultText(f, env))
    BY <1>1, <2>3 DEF Setting
  <2> QED
    BY <2>2, <2>4
<1>2. CASE given # {}
  <2>1. given \subseteq 1..Len(args)
    BY DEF Given
  <2>2. \E i \in given : \A j \in given : j <= i
    BY <1>2, <2>1, LastOf
  <2>3. final \in given /\ \A j \in given : j <= final
    BY <2>2
  <2>4. Setting(f, env, args) = FromCommandLine(f.kind, args[final].text)
    BY <1>2 DEF Setting
  <2> HIDE DEF final
  <2>5. final \in 1..Len(args) /\ args[final].key = f.key
    BY <2>1, <2>3 DEF Given
  <2>6. \A j \in 1..Len(args) : args[j].key = args[final].key => j <= final
    BY <2>3, <2>5 DEF Given
  <2>7. a.value[f.key] = FromCommandLine(acc.value[f.key][1], args[final].text)
    BY <2>5, <2>6 DEF AssignedTo
  <2>8. acc.value[f.key][1] = f.kind
    BY <1>0, InitialKinded
  <2> QED
    BY <2>4, <2>7, <2>8
<1> QED
  BY <1>1, <1>2

Misdeclared(fields) ==
  \/ \E i \in DOMAIN fields : fields[i].kind \notin Kinds
  \/ \E i, j \in DOMAIN fields : i # j /\ fields[i].key = fields[j].key

Misread(fields, args) ==
  \E arg \in ToSet(args) : \A f \in ToSet(fields) : f.key = arg.key => ~Parses(f.kind, arg.text)

(* Every field was declared and every argument looked at.                  *)
LEMMA ParsedOk ==
  ASSUME NEW fields \in Seq(FieldType), NEW args \in Seq(ArgType), NEW env,
         NEW acc, DeclaredTo(acc, fields, env, Len(fields)), acc.out = "ok",
         NEW r, AssignedTo(r, acc.value, args, Len(args))
  PROVE  /\ Shaped(r, {"ok", "panic", "exit"}) /\ r.out # "panic"
         /\ ~Misdeclared(fields) /\ \A i \in DOMAIN fields : fields[i].key \in DOMAIN r.value
         /\ r.out = "exit" => Misread(fields, args)
         /\ r.out = "ok" =>
              ~Misread(fields, args) /\ \A f \in ToSet(fields) : r.value[f.key] = Setting(f, env, args)
<1> /\ Len(fields) \in Nat /\ DOMAIN fields = 1..Len(fields)
    /\ Len(args) \in Nat /\ DOMAIN args = 1..Len(args)
  OBVIOUS
<1>1. Shaped(r, {"ok", "panic", "exit"}) /\ r.out # "panic"
  BY DEF AssignedTo, Shaped
<1>2. ~Misdeclared(fields) /\ \A i \in DOMAIN fields : fields[i].key \in DOMAIN r.value
  BY DEF DeclaredTo, AssignedTo, Misdeclared
<1>3. \A i \in 1..Len(fields) : /\ fields[i].kind \in Kinds /\ fields[i].key \in DOMAIN acc.value
                                /\ acc.value[fields[i].key] = Initial(fields[i].kind, DefaultText(fields[i], env))
                                /\ acc.value[fields[i].key][1] = fields[i].kind
  BY InitialKinded DEF DeclaredTo
<1>4. ToSet(fields) = {fields[i] : i \in 1..Len(fields)} /\ ToSet(args) = {args[i] : i \in 1..Len(args)}
  BY DEF ToSet
<1>5. ASSUME r.out = "exit" PROVE Misread(fields, args)
  <2>1. PICK i \in 1..Len(args) : args[i].key \notin DOMAIN acc.value
                                  \/ ~Parses(acc.value[args[i].key][1], args[i].text)
    BY <1>5 DEF AssignedTo
  <2>2. ASSUME NEW f \in ToSet(fields), f.key = args[i].key PROVE ~Parses(f.kind, args[i].text)
    <3>1. f.key \in DOMAIN acc.value /\ acc.value[f.key][1] = f.kind
      BY <1>3, <1>4
    <3> QED
      BY <2>1, <2>2, <3>1
  <2> QED
    BY <1>4, <2>2 DEF Misread
<1>6. ASSUME r.out = "ok", Misread(fields, args) PROVE FALSE
  <2>1. PICK i \in 1..Len(args) :
          \A f \in ToSet(fields) : f.key = args[i].key => ~Parses(f.kind, args[i].text)
    BY <1>4, <1>6 DEF Misread
  <2>2. args[i].key \in DOMAIN acc.value /\ Parses(acc.value[args[i].key][1], args[i].text)
    BY <1>6 DEF AssignedTo
  <2>3. PICK j \in 1..Len(fields) : fields[j].key = args[i].key
    BY <2>2 DEF DeclaredTo
  <2>4. fields[j] \in ToSet(fields) /\ acc.value[args[i].key][1] = fields[j].kind
    BY <1>3, <1>4, <2>3
  <2> QED
    BY <2>1, <2>2, <2>3, <2>4
<1>7. ASSUME r.out = "ok" PROVE \A f \in ToSet(fields) : r.value[f.key] = Setting(f, env, args)
  <2>1. \A i \in 1..Len(fields) : r.value[fields[i].key] = Setting(fields[i], env, args)
    BY <1>7, SettingOf
  <2> QED
    BY <1>4, <2>1
<1> QED
  BY <1>1, <1>2, <1>5, <1>6, <1>7

(* A first Run reads the settings, or says why not.                        *)
LEMMA ParsedFirst ==
  ASSUME NEW fields \in Seq(FieldType),
         NEW args \in Seq(ArgType), NEW env
  PROVE  LET r == Parse(<<>>, fields, env, args)
         IN /\ Shaped(r, {"ok", "panic", "exit"})
            /\ r.out = "panic" => Misdeclared(fields)
            /\ r.out # "panic" => ~Misdeclared(fields) /\ \A i \in DOMAIN fields : fields[i].key \in DOMAIN r.value
            /\ r.out = "exit" => Misread(fields, args)
            /\ r.out = "ok" =>
                 ~Misread(fields, args) /\ \A f \in ToSet(fields) : r.value[f.key] = Setting(f, env, args)
<1> DEFINE acc == Declaring(<<>>, fields, env)[Len(fields)]
           r == Parse(<<>>, fields, env, args)
<1> /\ Len(fields) \in Nat /\ DOMAIN fields = 1..Len(fields)
    /\ Len(args) \in Nat /\ DOMAIN args = 1..Len(args)
  OBVIOUS
<1>1. DeclaredTo(acc, fields, env, Len(fields))
  BY Declared
<1>2. r = Assigning(acc, args)[Len(args)]
  BY DEF Parse
<1> HIDE DEF acc, r
<1>3. CASE acc.out # "ok"
  <2>1. r = acc /\ acc.out = "panic"
    BY <1>1, <1>2, <1>3, AssignedNothing DEF DeclaredTo, Shaped
  <2>2. Misdeclared(fields)
    BY <1>1, <2>1 DEF DeclaredTo, Misdeclared
  <2>3. Shaped(r, {"ok", "panic", "exit"})
    BY <1>1, <2>1 DEF DeclaredTo, Shaped
  <2> QED
    BY <2>1, <2>2, <2>3 DEF r
<1>4. CASE acc.out = "ok"
  <2>1. AssignedTo(r, acc.value, args, Len(args))
    <3>1. Shaped(acc, {"ok"})
      BY <1>1, <1>4 DEF DeclaredTo, Shaped
    <3> QED
      BY <1>2, <3>1, Assigned
  <2> QED
    BY <1>1, <1>4, <2>1, ParsedOk DEF r
<1> QED
  BY <1>3, <1>4

(* A Run that is called again panics.                                      *)
LEMMA ParsedAgain ==
  ASSUME NEW declared, NEW fields, Len(fields) \in Nat \ {0}, fields[1].key \in DOMAIN declared,
         NEW args, Len(args) \in Nat, NEW env
  PROVE  Parse(declared, fields, env, args) = [out |-> "panic", value |-> declared]
<1>1. Declaring(declared, fields, env)[Len(fields)] = [out |-> "panic", value |-> declared]
  BY DeclaredAgain
<1> QED
  BY <1>1, AssignedNothing DEF Parse

-----------------------------------------------------------------------------
(* The programs.                                                           *)

LEMMA FieldsTyped ==
  ASSUME start \in Starts
  PROVE  /\ Fields \in Seq(FieldType) /\ Len(Fields) \in Nat \ {0} /\ DOMAIN Fields = 1..Len(Fields)
         /\ Fields[1].key = "global_id"
         /\ start.args \in Seq(ArgType) /\ Len(start.args) \in Nat
<1>1. GlobalCmdFlag \in Seq(FieldType) /\ Len(GlobalCmdFlag) = 3 /\ GlobalCmdFlag[1].key = "global_id"
  <2> DEFINE field(k) == [key |-> k, kind |-> "string", default |-> ""]
  <2>1. GlobalCmdFlag = <<field("global_id"), field("service_name"), field("boot_config_file")>>
    BY DEF GlobalCmdFlag
  <2>2. field("global_id").key = "global_id"
    OBVIOUS
  <2> HIDE DEF field
  <2>3. Len(GlobalCmdFlag) = 3 /\ GlobalCmdFlag = [i \in 1..3 |-> GlobalCmdFlag[i]] /\ GlobalCmdFlag[1].key = "global_id"
    BY <2>1, <2>2
  <2>4. \A i \in 1..3 : GlobalCmdFlag[i] \in FieldType
    BY <2>3 DEF FieldType, ToSet
  <2> QED
    BY <2>3, <2>4, IsASeq
<1>2. start.custom \in Seq(FieldType) /\ start.args \in Seq(ArgType)
  <2> DEFINE T == [key : STRING, kind : STRING, default : STRING]
  <2>1. start.custom \in Seq(T) /\ T \subseteq FieldType /\ start.args \in Seq(ArgType)
    BY StartupAssumption DEF FieldType, ArgType
  <2> HIDE DEF T
  <2> QED
    BY <2>1
<1> HIDE DEF GlobalCmdFlag
<1>3. Fields \in Seq(FieldType) /\ Len(Fields) = 3 + Len(start.custom) /\ Fields[1] = GlobalCmdFlag[1]
  <2>1. \A s, t \in Seq(FieldType) :
          s \o t \in Seq(FieldType) /\ Len(s \o t) = Len(s) + Len(t) /\ (Len(s) = 3 => (s \o t)[1] = s[1])
    OBVIOUS
  <2> QED
    BY <1>1, <1>2, <2>1, Zenon DEF Fields
<1>4. Len(start.custom) \in Nat /\ Len(start.args) \in Nat
  BY <1>2
<1> QED
  BY <1>1, <1>2, <1>3, <1>4

LEMMA CallsTyped ==
  ASSUME start \in Starts, done \in Nat, NEW g \in Goroutines
  PROVE  Calls(g) \in NewCalls
<1>1. start.apps \in Seq([init : NewCalls, posts : NewCalls])
  BY StartupAssumption
<1>2. CASE g = 0
  <2>1. <<>> \in NewCalls
    BY DEF NewCalls
  <2>2. done < Len(start.apps) => start.apps[done + 1] \in [init : NewCalls, posts : NewCalls]
    <3> DEFINE T == [init : NewCalls, posts : NewCalls]
    <3>1. start.apps \in Seq(T) /\ (done < Len(start.apps) => done + 1 \in 1..Len(start.apps))
      BY <1>1
    <3> HIDE DEF T
    <3>2. done < Len(start.apps) => start.apps[done + 1] \in T
      BY <3>1, ElementOfSeq
    <3> QED
      BY <3>2 DEF T
  <2> QED
    BY <1>2, <2>1, <2>2 DEF Calls
<1>3. CASE g \in AppIds /\ g # 0
  <2>1. start.apps[g] \in [init : NewCalls, posts : NewCalls]
    <3> DEFINE T == [init : NewCalls, posts : NewCalls]
    <3> HIDE DEF T
    <3>1. start.apps \in Seq(T) /\ g \in 1..Len(start.apps)
      BY <1>1, <1>3, LenProperties DEF AppIds, T
    <3>2. start.apps[g] \in T
      BY <3>1, ElementOfSeq
    <3> QED
      BY <3>2 DEF T
  <2> QED
    BY <1>3, <2>1 DEF Calls
<1> QED
  BY <1>2, <1>3 DEF Goroutines

-----------------------------------------------------------------------------
(* The inductive invariant.                                                *)

LEMMA StartInvInit == StartInit => StartInv
<1> SUFFICES ASSUME StartInit PROVE StartInv
  OBVIOUS
<1> USE DEF StartInit
<1>1. StartTypeOK
  BY StartupAssumption DEF StartTypeOK, Goroutines
<1>2. Repeated /\ FlagsResolved
  BY DEF Repeated, FlagsResolved
<1>3. \A g \in Goroutines : new[g] = Idle
  OBVIOUS
<1>4. Together /\ Meaning
  BY <1>3 DEF Together, Meaning, Goroutines
<1>5. Agreed
  BY <1>3 DEF Agreed, StoringAt, Sides
<1> QED
  BY <1>1, <1>2, <1>4, <1>5 DEF StartInv

(* What the News are doing is not disturbed by a step that leaves them and *)
(* the paths alone, nor are the flags by one that keeps the process within *)
(* the part of Run behind them.                                            *)
LEMMA NewsKept ==
  ASSUME Together, Agreed, Meaning, UNCHANGED <<start, base, new, last, made>>,
         pc' = pc \/ \A g \in Goroutines : new[g] = Idle,
         pc = "running" => pc' = "running"
  PROVE  Together' /\ Agreed' /\ Meaning'
<1>1. Goroutines' = Goroutines
  BY DEF Goroutines, AppIds
<1>2. Together'
  <2>1. CASE pc' = pc
    BY <1>1, <2>1 DEF Together
  <2>2. CASE \A g \in Goroutines : new[g] = Idle
    BY <1>1, <2>2 DEF Together, Goroutines
  <2> QED
    BY <2>1, <2>2
<1>3. \A s \in Sides : StoringAt(s)' = StoringAt(s)
  BY <1>1 DEF StoringAt
<1>4. Agreed'
  BY <1>3 DEF Agreed
<1>5. Meaning'
  <2>1. \A m : Settled(m)' = Settled(m)
    BY DEF Settled
  <2> QED
    BY <1>1, <2>1 DEF Meaning
<1> QED
  BY <1>2, <1>4, <1>5

Behind == {"config", "tasks", "inits", "running", "returned"}

LEMMA FlagsKept ==
  ASSUME StartTypeOK, Repeated, FlagsResolved, UNCHANGED <<start, runs, flag>>, pc \in Behind, pc' \in Behind
  PROVE  Repeated' /\ FlagsResolved'
<1>1. Fields' = Fields /\ (IllFormed' <=> IllFormed) /\ (Unreadable' <=> Unreadable)
  BY DEF Fields, IllFormed, Unreadable
<1>2. pc \notin {"parse", "panic", "exit"} /\ pc' \notin {"parse", "panic", "exit"}
  BY DEF Behind
<1>3. Repeated'
  BY <1>2 DEF Repeated
<1>4. FlagsResolved'
  BY <1>1, <1>2 DEF FlagsResolved
<1> QED
  BY <1>3, <1>4

(* A first Run starts with no flags, a later one with all of them.         *)
LEMMA ParseFlagsStep ==
  ASSUME StartInv, ParseFlags
  PROVE  StartInv'
<1> DEFINE parsed == Parse(flag, Fields, start.env, start.args)
           out    == IF start.table THEN parsed.out ELSE "panic"
<1> USE DEF StartInv
<1>1. /\ pc = "parse" /\ pc' = (IF out = "ok" THEN "config" ELSE out)
      /\ flag' = (IF start.table THEN parsed.value ELSE flag)
      /\ UNCHANGED <<start, done, runs, base, new, calls, last, made>>
  BY DEF ParseFlags, rpcx, Fields
<1>2. start \in Starts
  BY DEF StartTypeOK
<1>3. /\ Fields' = Fields /\ (IllFormed' <=> IllFormed) /\ (Unreadable' <=> Unreadable)
      /\ (IllFormed <=> ~start.table \/ Misdeclared(Fields))
      /\ (Unreadable <=> Misread(Fields, start.args))
  BY <1>1 DEF Fields, IllFormed, Unreadable, Misdeclared, Misread
<1>4. /\ Fields \in Seq(FieldType) /\ Len(Fields) \in Nat \ {0} /\ DOMAIN Fields = 1..Len(Fields)
      /\ Fields[1].key = "global_id"
      /\ start.args \in Seq(ArgType) /\ Len(start.args) \in Nat
  BY <1>2, FieldsTyped
<1> HIDE DEF parsed
<1> DEFINE Read == /\ pc' \in {"config", "panic", "exit"}
                   /\ \A k \in DOMAIN flag' : WellKinded(flag'[k])
                   /\ Repeated' /\ FlagsResolved'
<1>5. ASSUME ~start.table PROVE Read
  <2>1. pc' = "panic" /\ flag' = flag
    BY <1>1, <1>5
  <2>2. \A k \in DOMAIN flag' : WellKinded(flag'[k])
    BY <2>1 DEF StartTypeOK
  <2> QED
    BY <1>1, <1>3, <1>5, <2>1, <2>2 DEF Repeated, FlagsResolved
<1>6. ASSUME start.table, runs = 1 PROVE Read
  <2>1. flag = <<>>
    BY <1>1, <1>6 DEF Repeated
  <2>2. /\ Shaped(parsed, {"ok", "panic", "exit"})
        /\ parsed.out = "panic" => Misdeclared(Fields)
        /\ parsed.out # "panic" => ~Misdeclared(Fields) /\ \A i \in DOMAIN Fields : Fields[i].key \in DOMAIN parsed.value
        /\ parsed.out = "exit" => Misread(Fields, start.args)
        /\ parsed.out = "ok" => /\ ~Misread(Fields, start.args)
                                /\ \A f \in ToSet(Fields) : parsed.value[f.key] = Setting(f, start.env, start.args)
    BY <1>4, <2>1, ParsedFirst DEF parsed
  <2>3. pc' = (IF parsed.out = "ok" THEN "config" ELSE parsed.out) /\ flag' = parsed.value
    BY <1>1, <1>6
  <2>4. pc' \in {"config", "panic", "exit"} /\ \A k \in DOMAIN flag' : WellKinded(flag'[k])
    BY <2>2, <2>3 DEF Shaped
  <2>5. /\ pc' = "panic" <=> parsed.out = "panic"
        /\ pc' = "exit" <=> parsed.out = "exit"
        /\ pc' = "config" <=> parsed.out = "ok"
    BY <2>2, <2>3 DEF Shaped
  <2>6. parsed.out # "panic" => "global_id" \in DOMAIN flag'
    BY <1>4, <2>2, <2>3
  <2>7. Repeated'
    BY <1>1, <1>6, <2>4, <2>5, <2>6 DEF Repeated
  <2>8. FlagsResolved'
    BY <1>1, <1>3, <1>6, <2>2, <2>3, <2>4, <2>5 DEF FlagsResolved
  <2> QED
    BY <2>4, <2>7, <2>8
<1>7. ASSUME start.table, runs # 1 PROVE Read
  <2>1. runs > 1 /\ "global_id" \in DOMAIN flag
    BY <1>7 DEF Repeated, StartTypeOK
  <2>2. parsed = [out |-> "panic", value |-> flag]
    BY <1>4, <2>1, ParsedAgain DEF parsed
  <2>3. pc' = "panic" /\ flag' = flag
    BY <1>1, <1>7, <2>2
  <2>4. \A k \in DOMAIN flag' : WellKinded(flag'[k])
    BY <2>3 DEF StartTypeOK
  <2> QED
    BY <1>1, <2>1, <2>3, <2>4 DEF Repeated, FlagsResolved
<1>8. Read
  BY <1>5, <1>6, <1>7
<1>9. StartTypeOK'
  <2>1. Goroutines' = Goroutines /\ \A g \in Goroutines : Calls(g)' = Calls(g)
    BY <1>1 DEF Goroutines, AppIds, Calls
  <2> QED
    BY <1>1, <1>8, <2>1 DEF StartTypeOK
<1>10. \A g \in Goroutines : new[g] = Idle
  BY <1>1 DEF Together
<1>11. Together' /\ Agreed' /\ Meaning'
  BY <1>1, <1>10, NewsKept
<1> QED
  BY <1>8, <1>9, <1>11

(* What comes behind the flags in Run's goroutine.                         *)
LEMMA RunStep ==
  ASSUME StartInv, ReadConfig \/ InitTask \/ TasksDone \/ InitFunc \/ RunApps
  PROVE  StartInv'
<1> USE DEF StartInv
<1>1. /\ UNCHANGED <<start, runs, flag, base, new, last, made>>
      /\ pc \in Behind /\ pc' \in Behind /\ pc # "running"
  BY DEF ReadConfig, InitTask, TasksDone, InitFunc, RunApps, rpcx, Behind
<1>2. start \in Starts /\ start.tasks \in Nat /\ Len(start.apps) \in Nat
  <2>1. start \in Starts
    BY DEF StartTypeOK
  <2>2. start.tasks \in Nat /\ start.apps \in Seq([init : NewCalls, posts : NewCalls])
    BY <2>1, StartupAssumption
  <2> QED
    BY <2>1, <2>2, LenProperties
<1>3. Repeated' /\ FlagsResolved'
  BY <1>1, FlagsKept
<1>4. Goroutines' = Goroutines /\ \A g \in Goroutines \ {0} : Calls(g)' = Calls(g)
  BY <1>1 DEF Goroutines, AppIds, Calls
<1>5. 0 \in Goroutines /\ \A g \in Goroutines \ {0} : new[g] = Idle
  BY <1>1 DEF Together, Goroutines
<1>6. new[0] # Idle => pc = "inits"
  BY <1>5 DEF Together
<1>7. new[0] # Idle => UNCHANGED <<pc, done, calls>>
  <2>1. ~(ReadConfig \/ InitTask \/ TasksDone) \/ new[0] = Idle
    BY <1>6 DEF ReadConfig, InitTask, TasksDone
  <2>2. ~InitFunc \/ new[0] = Idle
    BY DEF InitFunc
  <2>3. ASSUME RunApps PROVE new[0] = Idle
    <3>1. Calls(0) = <<>>
      BY <1>2, <2>3 DEF RunApps, Calls
    <3>2. ~(calls[0] < Len(Calls(0)))
      BY <1>5, <3>1 DEF StartTypeOK
    <3> QED
      BY <1>5, <3>2 DEF StartTypeOK
  <2> QED
    BY <2>1, <2>2, <2>3
<1>8. StartTypeOK'
  <2>1. /\ pc' \in {"parse", "config", "tasks", "inits", "running", "returned", "panic", "exit"}
        /\ pc' \notin {"parse", "config"} /\ runs' \in 1..MaxRuns
    BY <1>1 DEF StartTypeOK, ReadConfig, InitTask, TasksDone, InitFunc, RunApps, Behind
  <2>2. done' \in Nat /\ (pc' = "tasks" => done' <= start.tasks) /\ (pc' = "inits" => done' <= Len(start.apps))
    BY <1>2 DEF StartTypeOK, ReadConfig, InitTask, TasksDone, InitFunc, RunApps, rpcx
  <2>3. calls' \in [Goroutines -> Nat]
    BY <1>5 DEF StartTypeOK, ReadConfig, InitTask, TasksDone, InitFunc, RunApps, rpcx
  <2>4. ASSUME NEW g \in Goroutines, new[g] # Idle PROVE calls'[g] < Len(Calls(g)')
    <3>1. g = 0
      BY <1>5, <2>4
    <3>2. calls' = calls /\ Calls(0)' = Calls(0)
      BY <1>1, <1>7, <2>4, <3>1 DEF Calls
    <3> QED
      BY <2>4, <3>1, <3>2 DEF StartTypeOK
  <2> QED
    BY <1>1, <1>4, <2>1, <2>2, <2>3, <2>4 DEF StartTypeOK
<1>9. Together' /\ Agreed' /\ Meaning'
  <2>1. pc' = pc \/ \A g \in Goroutines : new[g] = Idle
    BY <1>5, <1>7
  <2> QED
    BY <1>1, <2>1, NewsKept
<1> QED
  BY <1>3, <1>8, <1>9

(* Only a first Run returns an error, and the next one finds its keys.      *)
LEMMA RunAgainStep ==
  ASSUME StartInv, RunAgain
  PROVE  StartInv'
<1> USE DEF StartInv
<1>1. /\ pc = "returned" /\ pc' = "parse" /\ runs < MaxRuns /\ runs' = runs + 1 /\ done' = 0
      /\ calls' = [calls EXCEPT ![0] = 0] /\ UNCHANGED <<start, flag, base, new, last, made>>
  BY DEF RunAgain
<1>2. Goroutines' = Goroutines /\ 0 \in Goroutines /\ \A g \in Goroutines : new[g] = Idle
  BY <1>1 DEF Goroutines, AppIds, Together
<1>3. runs \in Nat /\ runs >= 1 /\ runs' \in 1..MaxRuns /\ runs' > 1
  BY <1>1, StartupAssumption DEF StartTypeOK
<1>4. StartTypeOK'
  <2>1. calls' \in [Goroutines -> Nat]
    BY <1>1, <1>2 DEF StartTypeOK
  <2> QED
    BY <1>1, <1>2, <1>3, <2>1 DEF StartTypeOK
<1>5. Repeated' /\ FlagsResolved'
  BY <1>1, <1>3 DEF Repeated, FlagsResolved
<1>6. Together' /\ Agreed' /\ Meaning'
  BY <1>1, <1>2, NewsKept
<1> QED
  BY <1>4, <1>5, <1>6

(* A New begins: what a Goroutine in New is.                               *)
NewType(n) ==
  /\ DOMAIN n = {"at", "side", "path", "meant", "crossed"}
  /\ n.at \in {"storing", "using"} /\ n.side \in Sides /\ n.crossed \in BOOLEAN

LEMMA BeginNewStep ==
  ASSUME StartInv, NEW g \in Goroutines, BeginNew(g)
  PROVE  StartInv'
<1> DEFINE side == Call(g).side
           path == Path(Call(g))
           others == Others(g, side)
           begun == [at      |-> IF path = "" THEN "using" ELSE "storing",
                     side    |-> side,
                     path    |-> path,
                     meant   |-> IF path = "" THEN last[side] ELSE path,
                     crossed |-> others # {}]
<1> USE DEF StartInv
<1>1. /\ UNCHANGED <<start, pc, done, runs, flag, base, calls, made>>
      /\ pc = (IF g = 0 THEN "inits" ELSE "running") /\ calls[g] < Len(Calls(g)) /\ new[g] = Idle
      /\ last' = (IF path = "" THEN last ELSE [last EXCEPT ![side] = IF others = {} THEN path ELSE Unclear])
      /\ new' = [h \in Goroutines |->
                   IF h = g THEN begun
                   ELSE IF h \in others THEN [new[h] EXCEPT !.crossed = TRUE] ELSE new[h]]
  BY DEF BeginNew, MayCall, Running
<1>2. side \in Sides
  <2>1. Calls(g) \in NewCalls
    BY CallsTyped DEF StartTypeOK
  <2> DEFINE T == [side : Sides, path : STRING]
  <2>2. Calls(g) \in Seq(T)
    BY <2>1 DEF NewCalls
  <2> HIDE DEF T
  <2>3. calls[g] + 1 \in 1..Len(Calls(g))
    <3>1. calls[g] \in Nat /\ Len(Calls(g)) \in Nat
      BY <2>2, LenProperties DEF StartTypeOK
    <3>2. \A i, n \in Nat : i < n => i + 1 \in 1..n
      OBVIOUS
    <3>3. calls[g] < Len(Calls(g))
      BY <1>1, Zenon
    <3> QED
      BY <3>1, <3>2, <3>3, Zenon
  <2>4. Call(g) \in T
    BY <2>2, <2>3, ElementOfSeq DEF Call
  <2> QED
    BY <2>4 DEF T
<1>3. /\ others = {h \in Goroutines \ {g} : new[h] # Idle /\ new[h].side = side}
      /\ g = 0 => others = {}
      /\ others # {} => pc = "running"
  BY <1>1 DEF Others, Together, Goroutines
<1>4. /\ begun # Idle /\ NewType(begun) /\ begun.side = side /\ begun.crossed = (others # {})
      /\ begun.path = path
      /\ path = "" => begun.at = "using" /\ begun.meant = last[side]
      /\ path # "" => begun.at = "storing" /\ begun.meant = path
  <2>1. "at" \in DOMAIN begun /\ "side" \in DOMAIN begun /\ DOMAIN Idle = {"at"} /\ "side" # "at"
    BY DEF Idle
  <2> QED
    BY <1>2, <2>1 DEF NewType
<1> HIDE DEF side, path, others, begun
<1>5. /\ Goroutines' = Goroutines /\ \A h \in Goroutines : Calls(h)' = Calls(h)
      /\ new'[g] = begun
  BY <1>1 DEF Goroutines, AppIds, Calls
<1>6. \A h \in Goroutines \ {g} :
        /\ new[h] = Idle => new'[h] = Idle
        /\ new[h] # Idle => /\ new'[h] # Idle /\ NewType(new'[h])
                            /\ new'[h].at = new[h].at /\ new'[h].side = new[h].side /\ new'[h].path = new[h].path
                            /\ new'[h].meant = new[h].meant
                            /\ (new'[h].crossed <=> new[h].crossed \/ new[h].side = side)
  <2> SUFFICES ASSUME NEW h \in Goroutines \ {g}
               PROVE  /\ new[h] = Idle => new'[h] = Idle
                      /\ new[h] # Idle => /\ new'[h] # Idle /\ NewType(new'[h])
                                          /\ new'[h].at = new[h].at /\ new'[h].side = new[h].side
                                          /\ new'[h].path = new[h].path /\ new'[h].meant = new[h].meant
                                          /\ (new'[h].crossed <=> new[h].crossed \/ new[h].side = side)
    OBVIOUS
  <2>1. CASE h \notin others
    BY <1>1, <1>3, <2>1 DEF StartTypeOK, NewType
  <2>2. CASE h \in others
    <3>1. new'[h] = [new[h] EXCEPT !.crossed = TRUE] /\ new[h] # Idle /\ new[h].side = side
      BY <1>1, <1>3, <2>2
    <3>2. NewType(new[h])
      BY <3>1 DEF StartTypeOK, NewType
    <3>3. DOMAIN new'[h] = DOMAIN new[h] /\ DOMAIN Idle = {"at"}
      BY <3>1 DEF Idle
    <3> QED
      BY <3>1, <3>2, <3>3 DEF NewType
  <2> QED
    BY <2>1, <2>2
<1>7. StartTypeOK'
  <2>1. \A h \in Goroutines : new'[h] # Idle => NewType(new'[h]) /\ calls[h] < Len(Calls(h))
    BY <1>1, <1>4, <1>5, <1>6 DEF StartTypeOK
  <2>2. new' = [h \in Goroutines |-> new'[h]] /\ last' = [s \in Sides |-> last'[s]]
    BY <1>1 DEF StartTypeOK
  <2> QED
    BY <1>1, <1>5, <2>1, <2>2 DEF StartTypeOK, NewType
<1>8. Repeated' /\ FlagsResolved'
  <2>1. pc \in Behind
    BY <1>1 DEF Behind
  <2> QED
    BY <1>1, <2>1, FlagsKept
<1>9. Together'
  <2>1. \A h \in Goroutines : new'[h] # Idle => pc = IF h = 0 THEN "inits" ELSE "running"
    BY <1>1, <1>5, <1>6 DEF Together
  <2>2. ASSUME NEW h \in Goroutines, NEW k \in Goroutines, h # k, new'[h] # Idle, new'[k] # Idle,
               new'[h].side = new'[k].side
        PROVE  new'[h].crossed
    <3>1. CASE h = g
      BY <1>3, <1>4, <1>5, <1>6, <2>2, <3>1
    <3>2. CASE k = g
      BY <1>3, <1>4, <1>5, <1>6, <2>2, <3>2
    <3>3. CASE h # g /\ k # g
      BY <1>6, <2>2, <3>3 DEF Together
    <3> QED
      BY <3>1, <3>2, <3>3
  <2>3. new'[0] # Idle => ~new'[0].crossed
    <3>1. CASE g = 0
      BY <1>3, <1>4, <1>5, <3>1
    <3>2. CASE g # 0
      BY <1>1, <1>6, <3>2 DEF Together, Goroutines
    <3> QED
      BY <3>1, <3>2
  <2>4. pc' = pc /\ Goroutines' = Goroutines
    BY <1>1, <1>5
  <2> QED
    BY <2>1, <2>2, <2>3, <2>4 DEF Together
<1>10. \A s \in Sides : StoringAt(s)' = StoringAt(s) \cup (IF s = side /\ path # "" THEN {g} ELSE {})
  <2> SUFFICES ASSUME NEW s \in Sides
               PROVE  StoringAt(s)' = StoringAt(s) \cup (IF s = side /\ path # "" THEN {g} ELSE {})
    OBVIOUS
  <2>1. StoringAt(s)' = {h \in Goroutines : new'[h] # Idle /\ new'[h].side = s /\ new'[h].at = "storing"}
    BY <1>5 DEF StoringAt
  <2>2. g \notin StoringAt(s) /\ (g \in StoringAt(s)' <=> s = side /\ path # "")
    BY <1>1, <1>4, <1>5, <2>1 DEF StoringAt
  <2>3. \A h \in Goroutines \ {g} : h \in StoringAt(s)' <=> h \in StoringAt(s)
    BY <1>6, <2>1 DEF StoringAt
  <2>4. StoringAt(s) \subseteq Goroutines /\ StoringAt(s)' \subseteq Goroutines
    BY <2>1 DEF StoringAt
  <2> QED
    BY <2>2, <2>3, <2>4
<1>11. others = {} => StoringAt(side) = {}
  BY <1>1, <1>3 DEF StoringAt
<1>12. Agreed'
  <2> SUFFICES ASSUME NEW s \in Sides
               PROVE  \/ pc' = "running" /\ last'[s] = Unclear
                      \/ StoringAt(s)' = {} /\ base'[s] = last'[s]
                      \/ \E h \in StoringAt(s)' : StoringAt(s)' = {h} /\ new'[h].path = last'[s]
    BY DEF Agreed
  <2>1. CASE s # side \/ path = ""
    <3>1. last'[s] = last[s] /\ StoringAt(s)' = StoringAt(s) /\ base' = base /\ pc' = pc
      BY <1>1, <1>10, <2>1 DEF StartTypeOK
    <3>2. \A h \in StoringAt(s) : new'[h].path = new[h].path
      BY <1>1, <1>6 DEF StoringAt
    <3> QED
      BY <3>1, <3>2 DEF Agreed
  <2>2. CASE s = side /\ path # "" /\ others = {}
    <3>1. last'[s] = path /\ StoringAt(s)' = {g} /\ new'[g].path = path
      BY <1>1, <1>4, <1>5, <1>10, <1>11, <2>2 DEF StartTypeOK
    <3> QED
      BY <3>1
  <2>3. CASE s = side /\ path # "" /\ others # {}
    BY <1>1, <1>3, <2>3 DEF StartTypeOK
  <2> QED
    BY <2>1, <2>2, <2>3
<1>13. Meaning'
  <2>1. ASSUME NEW h \in Goroutines, new'[h] # Idle
        PROVE  /\ new'[h].at = "storing" => new'[h].meant = new'[h].path
               /\ new'[h].at = "using" /\ ~new'[h].crossed =>
                    base[new'[h].side] = new'[h].meant \/ (h # 0 /\ new'[h].meant = Unclear)
    <3>1. CASE h = g
      <4>1. new'[h].at = "using" => path = "" /\ new'[h].meant = last[side]
        BY <1>4, <1>5, <3>1
      <4>2. ~new'[h].crossed => base[side] = last[side] \/ (g # 0 /\ last[side] = Unclear)
        BY <1>1, <1>2, <1>4, <1>5, <1>11, <3>1 DEF Agreed
      <4> QED
        BY <1>4, <1>5, <3>1, <4>1, <4>2
    <3>2. CASE h # g
      BY <1>6, <2>1, <3>2 DEF Meaning
    <3> QED
      BY <3>1, <3>2
  <2>2. \A m \in made' : Settled(m)' => m.base = m.meant
    BY <1>1 DEF Meaning, Settled
  <2> QED
    BY <1>1, <1>5, <2>1, <2>2 DEF Meaning
<1> QED
  BY <1>7, <1>8, <1>9, <1>12, <1>13

LEMMA StorePathStep ==
  ASSUME StartInv, NEW g \in Goroutines, StorePath(g)
  PROVE  StartInv'
<1> DEFINE side == new[g].side
<1> USE DEF StartInv
<1>1. /\ UNCHANGED <<start, pc, done, runs, flag, calls, last, made>>
      /\ new[g] # Idle /\ new[g].at = "storing"
      /\ new' = [new EXCEPT ![g].at = "using"]
  BY DEF StorePath
<1>2. PICK p : /\ base' = [base EXCEPT ![side] = p]
               /\ Storing(g, side) = {} => p = new[g].path
  BY DEF StorePath
<1>3. NewType(new[g]) /\ side \in Sides
  BY <1>1 DEF StartTypeOK, NewType
<1>4. /\ Goroutines' = Goroutines /\ \A h \in Goroutines : Calls(h)' = Calls(h)
      /\ \A h \in Goroutines \ {g} : new'[h] = new[h]
      /\ new'[g] = [new[g] EXCEPT !.at = "using"]
  BY <1>1 DEF Goroutines, AppIds, Calls, StartTypeOK
<1>5. /\ new'[g] # Idle /\ NewType(new'[g]) /\ new'[g].at = "using" /\ new'[g].side = side
      /\ new'[g].path = new[g].path /\ new'[g].meant = new[g].meant /\ new'[g].crossed = new[g].crossed
  <2>1. DOMAIN Idle = {"at"} /\ DOMAIN new'[g] = DOMAIN new[g] /\ "side" \in DOMAIN new[g] /\ "side" # "at"
    BY <1>3, <1>4 DEF Idle, NewType
  <2> QED
    BY <1>3, <1>4, <2>1 DEF NewType
<1>6. pc = IF g = 0 THEN "inits" ELSE "running"
  BY <1>1 DEF Together
<1>7. new[g].crossed \/ StoringAt(side) = {g}
  BY <1>1 DEF StoringAt, Together
<1>8. StoringAt(side) = {g} => p = new[g].path
  BY <1>2 DEF StoringAt, Storing, Others
<1>9. StartTypeOK'
  <2>1. \A h \in Goroutines : new'[h] # Idle => NewType(new'[h]) /\ calls[h] < Len(Calls(h))
    BY <1>1, <1>4, <1>5 DEF StartTypeOK, NewType
  <2>2. new' = [h \in Goroutines |-> new'[h]] /\ base' = [s \in Sides |-> base'[s]]
    BY <1>1, <1>2 DEF StartTypeOK
  <2> QED
    BY <1>1, <1>4, <2>1, <2>2 DEF StartTypeOK, NewType
<1>10. Repeated' /\ FlagsResolved'
  <2>1. pc \in Behind
    BY <1>6 DEF Behind
  <2> QED
    BY <1>1, <2>1, FlagsKept
<1>11. Together'
  <2>1. \A h \in Goroutines : /\ new'[h] # Idle <=> new[h] # Idle
                              /\ new[h] # Idle => new'[h].side = new[h].side /\ new'[h].crossed = new[h].crossed
    BY <1>1, <1>4, <1>5
  <2> QED
    BY <1>1, <1>4, <2>1 DEF Together, Goroutines
<1>12. base'[side] = p /\ \A s \in Sides \ {side} : base'[s] = base[s]
  BY <1>2, <1>3 DEF StartTypeOK
<1>13. Agreed'
  <2> SUFFICES ASSUME NEW s \in Sides
               PROVE  \/ pc' = "running" /\ last'[s] = Unclear
                      \/ StoringAt(s)' = {} /\ base'[s] = last'[s]
                      \/ \E h \in StoringAt(s)' : StoringAt(s)' = {h} /\ new'[h].path = last'[s]
    BY DEF Agreed
  <2>1. StoringAt(s)' = StoringAt(s) \ {g}
    BY <1>1, <1>4, <1>5 DEF StoringAt
  <2>2. g \in StoringAt(side) /\ (s # side => g \notin StoringAt(s))
    BY <1>1 DEF StoringAt
  <2>3. CASE s # side
    <3>1. StoringAt(s)' = StoringAt(s) /\ base'[s] = base[s] /\ last'[s] = last[s] /\ pc' = pc
      BY <1>1, <1>12, <2>1, <2>2, <2>3
    <3>2. \A h \in StoringAt(s) : new'[h].path = new[h].path
      BY <1>4, <2>2, <2>3 DEF StoringAt
    <3> QED
      BY <3>1, <3>2 DEF Agreed
  <2>4. CASE s = side
    <3>1. \/ pc = "running" /\ last[s] = Unclear
          \/ StoringAt(s) = {g} /\ new[g].path = last[s]
      BY <2>2, <2>4 DEF Agreed
    <3> QED
      BY <1>1, <1>8, <1>12, <2>1, <2>4, <3>1
  <2> QED
    BY <2>3, <2>4
<1>14. Meaning'
  <2>1. ASSUME NEW h \in Goroutines, new'[h] # Idle
        PROVE  /\ new'[h].at = "storing" => new'[h].meant = new'[h].path
               /\ new'[h].at = "using" /\ ~new'[h].crossed =>
                    base'[new'[h].side] = new'[h].meant \/ (h # 0 /\ new'[h].meant = Unclear)
    <3>1. CASE h = g
      <4>1. ~new[g].crossed => base'[side] = new[g].path /\ new[g].meant = new[g].path
        BY <1>1, <1>7, <1>8, <1>12 DEF Meaning
      <4> QED
        BY <1>5, <3>1, <4>1
    <3>2. CASE h # g
      <4>1. new'[h] = new[h] /\ new[h] # Idle /\ new[h].side \in Sides
        BY <1>4, <2>1, <3>2 DEF StartTypeOK
      <4>2. new[h].side = side => new[h].crossed
        BY <1>1, <3>2, <4>1 DEF Together
      <4> QED
        BY <1>12, <4>1, <4>2 DEF Meaning
    <3> QED
      BY <3>1, <3>2
  <2>2. \A m \in made' : Settled(m)' => m.base = m.meant
    BY <1>1 DEF Meaning, Settled
  <2> QED
    BY <1>4, <2>1, <2>2 DEF Meaning
<1> QED
  BY <1>9, <1>10, <1>11, <1>13, <1>14

LEMMA UsePathStep ==
  ASSUME StartInv, NEW g \in Goroutines, UsePath(g)
  PROVE  StartInv'
<1> DEFINE side == new[g].side
<1> USE DEF StartInv
<1>1. /\ UNCHANGED <<start, pc, done, runs, flag, base, last>>
      /\ new[g] # Idle /\ new[g].at = "using"
      /\ new' = [new EXCEPT ![g] = Idle] /\ calls' = [calls EXCEPT ![g] = @ + 1]
  BY DEF UsePath
<1>2. /\ Goroutines' = Goroutines /\ \A h \in Goroutines : Calls(h)' = Calls(h)
      /\ \A h \in Goroutines \ {g} : new'[h] = new[h] /\ calls'[h] = calls[h]
      /\ new'[g] = Idle
  BY <1>1 DEF Goroutines, AppIds, Calls, StartTypeOK
<1>3. pc = IF g = 0 THEN "inits" ELSE "running"
  BY <1>1 DEF Together
<1>4. StartTypeOK'
  <2>1. calls[g] + 1 \in Nat /\ calls \in [Goroutines -> Nat]
    BY DEF StartTypeOK
  <2>2. calls' \in [Goroutines -> Nat]
    BY <1>1, <2>1
  <2>3. new' = [h \in Goroutines |-> new'[h]]
    BY <1>1 DEF StartTypeOK
  <2> QED
    BY <1>1, <1>2, <2>2, <2>3 DEF StartTypeOK
<1>5. Repeated' /\ FlagsResolved'
  <2>1. pc \in Behind
    BY <1>3 DEF Behind
  <2> QED
    BY <1>1, <2>1, FlagsKept
<1>6. Together'
  BY <1>1, <1>2 DEF Together, Goroutines
<1>7. Agreed'
  <2>1. \A s \in Sides : StoringAt(s)' = StoringAt(s) /\ \A h \in StoringAt(s) : new'[h] = new[h]
    BY <1>1, <1>2 DEF StoringAt
  <2> QED
    BY <1>1, <2>1 DEF Agreed
<1>8. Meaning'
  <2>1. ASSUME NEW m \in made', m \notin made, Settled(m) PROVE m.base = m.meant
    <3>1. PICK p \in Seen(g) : m = [side |-> side, base |-> p, meant |-> new[g].meant,
                                    by |-> g, crossed |-> new[g].crossed]
      BY <2>1 DEF UsePath
    <3>2. ~new[g].crossed /\ (g = 0 \/ new[g].meant # Unclear)
      BY <1>1, <2>1, <3>1 DEF Settled, Together
    <3>3. Storing(g, side) = {}
      BY <1>1, <3>2 DEF Storing, Others, Together
    <3>4. p = base[side]
      BY <3>1, <3>3 DEF Seen
    <3>5. base[side] = new[g].meant
      BY <1>1, <3>2 DEF Meaning
    <3> QED
      BY <3>1, <3>4, <3>5
  <2>2. \A m : Settled(m)' = Settled(m)
    BY DEF Settled
  <2> QED
    BY <1>1, <1>2, <2>1, <2>2 DEF Meaning
<1> QED
  BY <1>4, <1>5, <1>6, <1>7, <1>8

LEMMA StartInvNext == StartInv /\ [StartNext]_startVars => StartInv'
<1> SUFFICES ASSUME StartInv, [StartNext]_startVars PROVE StartInv'
  OBVIOUS
<1>1. CASE ParseFlags
  BY <1>1, ParseFlagsStep
<1>2. CASE ReadConfig \/ InitTask \/ TasksDone \/ InitFunc \/ RunApps
  BY <1>2, RunStep
<1>3. CASE RunAgain
  BY <1>3, RunAgainStep
<1>4. ASSUME NEW g \in Goroutines, New(g) PROVE StartInv'
  BY <1>4, BeginNewStep, StorePathStep, UsePathStep DEF New
<1>5. CASE UNCHANGED startVars
  <2>1. Goroutines' = Goroutines /\ \A g \in Goroutines : Calls(g)' = Calls(g)
    BY <1>5 DEF startVars, Goroutines, AppIds, Calls
  <2>2. StartTypeOK'
    BY <1>5, <2>1 DEF startVars, StartInv, StartTypeOK
  <2>3. Repeated' /\ FlagsResolved'
    BY <1>5 DEF startVars, StartInv, Repeated, FlagsResolved, IllFormed, Unreadable, Fields
  <2>4. Together' /\ Agreed' /\ Meaning'
    BY <1>5, NewsKept DEF startVars, StartInv
  <2> QED
    BY <2>2, <2>3, <2>4 DEF StartInv
<1> QED
  BY <1>1, <1>2, <1>3, <1>4, <1>5 DEF StartNext, RunSteps

(* The conjuncts of Inv hold in every state (Registry.initialize, Run and  *)
(* New of rpcx/service and rpcx/client).                                   *)
THEOREM StartInvariance == StartSpec => []StartInv
<1> QED
  BY StartInvInit, StartInvNext, PTL DEF StartSpec

(* Every variable of a start-up keeps its type.                            *)
THEOREM StartTypeCorrect == StartSpec => []StartTypeOK
<1>1. StartInv => StartTypeOK
  BY DEF StartInv
<1> QED
  BY <1>1, StartInvariance, PTL

(* Whatever fields a program declares, whatever its environment and its    *)
(* command line: a process that gets past its flags has each setting from  *)
(* the place that counts, one that ends there has a reason, and only the   *)
(* first Run gets past them (ParseWithStructPointers).                     *)
THEOREM Resolved == StartSpec => []FlagsResolved
<1>1. StartInv => FlagsResolved
  BY DEF StartInv
<1> QED
  BY <1>1, StartInvariance, PTL

(* Whatever Apps there are and whatever they call New with: a server and a *)
(* client that initFuncs made, or post tasks that were alone in New of     *)
(* their package, have the same etcd path exactly when their callers meant *)
(* the same (rpcx_service.go, rpcx_client.go).                             *)
THEOREM Meeting == StartSpec => []PathsMeet
<1>1. StartInv => PathsMeet
  BY DEF StartInv, Meaning, PathsMeet
<1> QED
  BY <1>1, StartInvariance, PTL
=============================================================================
