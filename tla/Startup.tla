------------------------------ MODULE Startup -------------------------------
(***************************************************************************)
(* How a process gets from main to its running Apps: Registry.Run of       *)
(* app/registry.go up to the goroutines of the Apps, with the flags it     *)
(* parses, and the rpcx servers and clients made on the way with New of    *)
(* rpcx/service and rpcx/client.  Each of the two packages keeps the etcd  *)
(* path in a variable of its own, which a New with a path overwrites.      *)
(* initFuncs run one after another in Run's goroutine, the post tasks of   *)
(* an App in that App's; nothing synchronises the News of two Apps.        *)
(***************************************************************************)
EXTENDS Flags, FiniteSets

CONSTANTS
  Starts,           \* the programs in question, with environment and command line
  Failing,          \* what may fail, among "config", "task", "init", "etcd"
  MaxRuns           \* bound: how often main calls Run

Sides == {"server", "client"}

NewCalls == Seq([side : Sides, path : STRING])

ASSUME StartupAssumption ==
  /\ MaxRuns \in Nat \ {0}
  /\ \A p \in Starts : /\ p.custom \in Seq([key : STRING, kind : STRING, default : STRING])
                       /\ p.args \in Seq([key : STRING, text : STRING])
                       /\ p.tasks \in Nat /\ p.apps \in Seq([init : NewCalls, posts : NewCalls])

VARIABLES
  start,            \* the program: table, custom, config, tasks, apps, env, args
  pc, done,         \* where Run is, and how many tasks or initFuncs are done
  runs,             \* how often Run was called
  flag,             \* the flag package: the value of every declared key
  base,             \* basePath of rpcx/service and of rpcx/client
  new,              \* the New each goroutine is in: main is 0, App a is a
  calls,            \* how many News of its initFunc or posts it has made
  last,             \* history: the path last given to each package by a caller
  made              \* history: the servers and clients there are

startVars == <<start, pc, done, runs, flag, base, new, calls, last, made>>

Default == "/zhangbin/rpcx"
Torn    == "torn"       \* half of one string and half of another
Unclear == "unclear"    \* given by two callers at once

AppIds     == DOMAIN start.apps
Goroutines == {0} \cup AppIds
Idle       == [at |-> "idle"]

(* AddRegistryGlobalCmdFlag's table, ProGlobalBootFlag of registry_data.go. *)
GlobalCmdFlag ==
  LET field(k) == [key |-> k, kind |-> "string", default |-> ""]
  IN <<field("global_id"), field("service_name"), field("boot_config_file")>>

StartInit ==
  /\ start \in Starts
  /\ pc = "parse" /\ done = 0 /\ runs = 1
  /\ flag = <<>>
  /\ base = [s \in Sides |-> Default]
  /\ new = [g \in Goroutines |-> Idle] /\ calls = [g \in Goroutines |-> 0]
  /\ last = [s \in Sides |-> Default]
  /\ made = {}

CanFail(what) == what \in Failing

rpcx == <<base, new, calls, last, made>>

-----------------------------------------------------------------------------
(* Registry.initialize.  No App has a boot configuration yet, as nothing   *)
(* applies the options of an AppOutSideInfo.  Without a table a nil        *)
(* pointer is looked into.                                                 *)
ParseFlags ==
  /\ pc = "parse"
  /\ LET parsed == Parse(flag, GlobalCmdFlag \o start.custom, start.env, start.args)
         out == IF start.table THEN parsed.out ELSE "panic"
     IN /\ pc' = IF out = "ok" THEN "config" ELSE out
        /\ flag' = IF start.table THEN parsed.value ELSE flag
  /\ UNCHANGED <<start, done, runs, rpcx>>

HasConfig == start.config /\ flag["boot_config_file"][2] # ""

ReadConfig ==
  /\ pc = "config"
  /\ \/ pc' = "tasks"
     \/ HasConfig /\ CanFail("config") /\ pc' = "returned"
  /\ UNCHANGED <<start, done, runs, flag, rpcx>>

(* Slip: one init task too many. *)
InitTaskPastEnd ==
  /\ pc = "tasks" /\ done <= start.tasks
  /\ \/ done' = done + 1 /\ UNCHANGED pc
     \/ CanFail("task") /\ pc' = "returned" /\ UNCHANGED done
  /\ UNCHANGED <<start, runs, flag, rpcx>>

InitTask ==
  /\ pc = "tasks" /\ done < start.tasks
  /\ \/ done' = done + 1 /\ UNCHANGED pc
     \/ CanFail("task") /\ pc' = "returned" /\ UNCHANGED done
  /\ UNCHANGED <<start, runs, flag, rpcx>>

TasksDone ==
  /\ pc = "tasks" /\ done = start.tasks
  /\ pc' = "inits" /\ done' = 0
  /\ UNCHANGED <<start, runs, flag, rpcx>>

Calls(g) ==
  IF g = 0 THEN IF done < Len(start.apps) THEN start.apps[done + 1].init ELSE <<>>
           ELSE start.apps[g].posts

(* The initFunc of the next App returns; its error ends Run. *)
InitFunc ==
  /\ pc = "inits" /\ done < Len(start.apps)
  /\ new[0] = Idle
  /\ \/ calls[0] = Len(Calls(0)) /\ done' = done + 1 /\ calls' = [calls EXCEPT ![0] = 0] /\ UNCHANGED pc
     \/ CanFail("init") /\ pc' = "returned" /\ UNCHANGED <<done, calls>>
  /\ UNCHANGED <<start, runs, flag, base, new, last, made>>

(* Slip: an App starts as soon as the Apps before it are initialized. *)
RunningEarly(a) == pc \in {"inits", "running"} /\ done >= a

Running(a) == pc = "running"

(* One goroutine per App. *)
RunApps ==
  /\ pc = "inits" /\ done = Len(start.apps)
  /\ pc' = "running"
  /\ UNCHANGED <<start, done, runs, flag, rpcx>>

(* The application calls Run again when it returned an error. *)
RunAgain ==
  /\ pc = "returned" /\ runs < MaxRuns
  /\ runs' = runs + 1
  /\ pc' = "parse" /\ done' = 0 /\ calls' = [calls EXCEPT ![0] = 0]
  /\ UNCHANGED <<start, flag, base, new, last, made>>

-----------------------------------------------------------------------------
(* New of rpcx/service and rpcx/client, in an initFunc or a post task.  A  *)
(* call's path is a literal or the value of a flag.                        *)

MayCall(g) == (IF g = 0 THEN pc = "inits" ELSE Running(g)) /\ calls[g] < Len(Calls(g))

Call(g) == Calls(g)[calls[g] + 1]
Path(c) == IF c.path \in DOMAIN flag THEN flag[c.path][2] ELSE c.path

Others(g, side) == {h \in Goroutines \ {g} : new[h] # Idle /\ new[h].side = side}
Storing(g, side) == {h \in Others(g, side) : new[h].at = "storing"}

BeginNew(g) ==
  /\ MayCall(g) /\ new[g] = Idle
  /\ LET side == Call(g).side
         path == Path(Call(g))
     IN /\ last' = IF path = "" THEN last
                   ELSE [last EXCEPT ![side] = IF Others(g, side) = {} THEN path ELSE Unclear]
        /\ new' = [h \in Goroutines |->
             IF h = g THEN [at      |-> IF path = "" THEN "using" ELSE "storing",
                            side    |-> side,
                            path    |-> path,
                            meant   |-> IF path = "" THEN last[side] ELSE path,
                            crossed |-> Others(g, side) # {}]
             ELSE IF h \in Others(g, side) THEN [new[h] EXCEPT !.crossed = TRUE] ELSE new[h]]
  /\ UNCHANGED <<start, pc, done, runs, flag, base, calls, made>>

(* basePath = etcdBasePath, a string of two words. *)
StorePath(g) ==
  /\ new[g] # Idle /\ new[g].at = "storing"
  /\ LET side == new[g].side
     IN \E p \in {new[g].path} \cup (IF Storing(g, side) # {} THEN {Torn} ELSE {}) :
          base' = [base EXCEPT ![side] = p]
  /\ new' = [new EXCEPT ![g].at = "using"]
  /\ UNCHANGED <<start, pc, done, runs, flag, calls, last, made>>

(* basePath is read for etcd: unlike a client, whose discovery's error is  *)
(* dropped, a server that cannot register is not made, and its initFunc    *)
(* may go on without it.                                                   *)
Seen(g) ==
  LET storing == Storing(g, new[g].side)
  IN {base[new[g].side]} \cup {new[h].path : h \in storing} \cup (IF storing # {} THEN {Torn} ELSE {})

UsePath(g) ==
  /\ new[g] # Idle /\ new[g].at = "using"
  /\ \/ \E p \in Seen(g) :
          made' = made \cup {[side |-> new[g].side, base |-> p, meant |-> new[g].meant,
                              by |-> g, crossed |-> new[g].crossed]}
     \/ new[g].side = "server" /\ CanFail("etcd") /\ UNCHANGED made
  /\ new' = [new EXCEPT ![g] = Idle]
  /\ calls' = [calls EXCEPT ![g] = @ + 1]
  /\ UNCHANGED <<start, pc, done, runs, flag, base, last>>

New(g) == BeginNew(g) \/ StorePath(g) \/ UsePath(g)

-----------------------------------------------------------------------------
RunSteps == ParseFlags \/ ReadConfig \/ InitTask \/ TasksDone \/ InitFunc \/ RunApps \/ RunAgain

StartNext == RunSteps \/ \E g \in Goroutines : New(g)

StartSpec == StartInit /\ [][StartNext]_startVars

-----------------------------------------------------------------------------
(* Properties.                                                             *)

(* Every variable keeps its type. *)
WellKinded(v) == v[1] \in Kinds /\ (v[1] = "int" => v[2] \in Nat) /\ (v[1] = "bool" => v[2] \in BOOLEAN)

StartTypeOK ==
  /\ start \in Starts
  /\ pc \in {"parse", "config", "tasks", "inits", "running", "returned", "panic", "exit"}
  /\ done \in Nat /\ (pc \in {"parse", "config"} => done = 0)
  /\ (pc = "tasks" => done <= start.tasks) /\ (pc = "inits" => done <= Len(start.apps))
  /\ runs \in 1..MaxRuns
  /\ \A k \in DOMAIN flag : WellKinded(flag[k])
  /\ calls \in [Goroutines -> Nat] /\ new = [g \in Goroutines |-> new[g]]
  /\ \A g \in Goroutines : new[g] # Idle =>
       /\ DOMAIN new[g] = {"at", "side", "path", "meant", "crossed"}
       /\ new[g].at \in {"storing", "using"} /\ new[g].side \in Sides /\ new[g].crossed \in BOOLEAN
       /\ calls[g] < Len(Calls(g))
  /\ base = [s \in Sides |-> base[s]] /\ last = [s \in Sides |-> last[s]]

(* A process gets past its flags only on its first Run, with every setting *)
(* from the place that counts: the command line, else the environment,     *)
(* else the tag (ParseWithStructPointers).  It ends in a panic or an exit  *)
(* for a reason, and a Run after one that failed always panics, as the     *)
(* keys are declared already.                                              *)
Fields == GlobalCmdFlag \o start.custom

IllFormed ==
  \/ ~start.table
  \/ \E i \in DOMAIN Fields : Fields[i].kind \notin Kinds
  \/ \E i, j \in DOMAIN Fields : i # j /\ Fields[i].key = Fields[j].key

Unreadable ==
  \E arg \in ToSet(start.args) :
    \A f \in ToSet(Fields) : f.key = arg.key => ~Parses(f.kind, arg.text)

FlagsResolved ==
  /\ pc = "panic" => IllFormed \/ runs > 1
  /\ pc = "exit" => Unreadable /\ ~IllFormed
  /\ pc \notin {"parse", "panic", "exit"} =>
       /\ ~IllFormed /\ ~Unreadable /\ runs = 1
       /\ \A f \in ToSet(Fields) : flag[f.key] = Setting(f, start.env, start.args)

(* A server and a client of the process look for each other under the same *)
(* etcd path exactly when their callers meant the same one: the path that  *)
(* was given, else the one given last to that package, be it to a New that *)
(* failed.  This holds of all that initFuncs make, whatever Apps there     *)
(* are, as none of them runs yet, and of what post tasks make unless two   *)
(* Apps are in New of one package at once (rpcx_service.go,                *)
(* rpcx_client.go:25: the paths must agree).                               *)
Settled(m) == m.by = 0 \/ (~m.crossed /\ m.meant # Unclear)

PathsMeet ==
  \A s, c \in {m \in made : Settled(m)} :
    s.side = "server" /\ c.side = "client" => (s.base = c.base <=> s.meant = c.meant)

(* The inductive invariant behind them.  A Run that is called again finds  *)
(* its keys declared, and gets no further.                                 *)
Repeated ==
  /\ pc = "parse" /\ runs = 1 => flag = <<>>
  /\ pc \notin {"parse", "panic", "exit"} => "global_id" \in DOMAIN flag
  /\ runs > 1 => pc \in {"parse", "panic"} /\ "global_id" \in DOMAIN flag

(* initFuncs are alone; of two News of one package at once both know.      *)
Together ==
  /\ \A g \in Goroutines : new[g] # Idle => pc = IF g = 0 THEN "inits" ELSE "running"
  /\ \A g, h \in Goroutines : g # h /\ new[g] # Idle /\ new[h] # Idle /\ new[g].side = new[h].side
                              => new[g].crossed
  /\ new[0] # Idle => ~new[0].crossed

(* A package has the path last given to it, or one New is about to store   *)
(* it there, unless two gave it one at once.                               *)
StoringAt(s) == {g \in Goroutines : new[g] # Idle /\ new[g].side = s /\ new[g].at = "storing"}

Agreed ==
  \A s \in Sides :
    \/ pc = "running" /\ last[s] = Unclear
    \/ StoringAt(s) = {} /\ base[s] = last[s]
    \/ \E g \in StoringAt(s) : StoringAt(s) = {g} /\ new[g].path = last[s]

(* A New that is alone uses the path its caller meant, and has used it.    *)
Meaning ==
  /\ \A g \in Goroutines : new[g] # Idle =>
       /\ new[g].at = "storing" => new[g].meant = new[g].path
       /\ new[g].at = "using" /\ ~new[g].crossed =>
            base[new[g].side] = new[g].meant \/ (g # 0 /\ new[g].meant = Unclear)
  /\ \A m \in made : Settled(m) => m.base = m.meant

StartInv == StartTypeOK /\ Repeated /\ FlagsResolved /\ Together /\ Agreed /\ Meaning
=============================================================================
