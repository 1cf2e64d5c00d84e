# golang_tools in TLA+

Models of the parts of this library in which something can go wrong that a unit
test would hardly reach: connections served by several goroutines, the start and
stop of a process, a log directory that two goroutines and several processes
share, consumers on a broker, a bucket made under `sync.Once` and the objects in
it, the settings and paths a process starts with, and the control block of KCP. TLC
checks the models on small instances. TLAPS proves every safety property the runs check,
and that both connections, the log directory and the topic implement their abstract
specifications, for every instance; only liveness is left to TLC.

To check a run: `tlc -config MCClientConn.cfg MCClientConn` (module and
configuration of each run are listed below). To check the proofs: `tlapm` on
each of `ConnProofs`, `ClientConnProofs`, `ClientConnWsProofs`, `RegistryProofs`,
`DivisionLoggerProofs`, `TopicProofs`, `ObjectsProofs` and `KcpProofs`. Definitions marked *Slip* in a comment are not
part of any specification: each is a wrong form of the definition that follows
it, and putting it in its place makes a property of the runs fail.

## The system

| Part | Code | State it keeps | Operations | What makes it hard |
|---|---|---|---|---|
| client connection over TCP | `net/clientConn/client_conn.go`, `net/tcp/tcp.go` | the socket; unbuffered `recvQueue`, `sendQueue`; three goroutines | `SendMsg` from any goroutine; `ReadRecvMsg`, `DeliverRecvMsg`, `WriteMsg`; callbacks of the session | goroutines that wait for each other and for the client; a link lost at any moment |
| client connection over WebSocket | `net/clientConn/client_conn_http.go`, `net/http/http.go` | the same, and the sticky write error of gorilla/websocket | the same; the reader refuses malformed messages with a Close frame; deferred functions | two goroutines that write; three that may call `DisConnectCallBack` |
| registry and apps | `app/registry.go`, `app/app.go`, `net/net.go`, the `Run` and `Stop` of the three servers | two kinds of error channel with room for one error, the listener, the signal channel | `Registry.Run`, `Stop`, `App.run`, `stop` | failures that meet in full channels, signals at any time, `Stop` beside `Run` |
| division logger | `zlog/lumberjack.go` | the open file, the directory, `millCh` | `Write`, `Close`, `Rotate`, the goroutine `millRun` | the mill works on the directory without the mutex; midnight; kills |
| RabbitMQ topic | `mq/rabbitmq/consumers.go`, `producers.go` | two connections; at the broker, an exclusive queue per consumer | `Publish`, `RegisterConsumers`, `consume` and its worker | publishing beside registering; lost connections |
| DFS bucket | `dfs/handler_minio.go`, `handler_s3.go`, `handler_cloud_storage.go` | `sync.Once` per handler; the bucket, its lifecycle and its objects at the store | `TryMakeBucket`, `GetObject`, `PutObject` | several callers, requests that fail after they took effect, or take effect after they failed |
| KCP | `kcp/kcp.go`, `parse.go`, `seg.go` | send and receive buffers and queues, acks, windows | `Send`, `Flush`, `Input` | reordered and repeated segments, slices changed while a loop ranges over them, panics half-way |
| start-up: flags, options, rpcx paths | `app/registry.go`, `app/flags`, `app/*_option.go`, `rpcx/client`, `rpcx/service` | the declared flags; a base path per rpcx package | `Run` up to its Apps, `ParseWithStructPointers`, `New` | the base path is shared by every `New` of a process; post tasks of several Apps run at once |
| `lib`, `net/register`, log wrapper | `lib`, `net/register`, `zlog/im_log.go` | none, or a table nothing uses | - | - |

How they interact: `Registry.Run` starts one goroutine per App, and each App one
per service (an rpcx server, or the TCP or WebSocket server that
`net.InitServer` hands out, one instance per protocol and process). A server
starts three goroutines per connection, which call the callbacks of the
application's session. The others are libraries of their own: the application
calls them, and they call a callback (RabbitMQ), a store (DFS) or an output
function (KCP). The log wrapper writes through the division logger.

What makes each part correct:

- **connections**: requests reach the callback in order, none lost or repeated;
  what one goroutine sends arrives in order; `DisConnectCallBack` is called,
  once, unless a panic ends the process; nobody stays blocked on a connection that is gone;
- **start-up**: every setting comes from the place that counts; a server and a
  client of one process meet exactly when their callers meant the same path;
- **registry**: a signal or a failure ends `Run`; no failure is lost or counted
  twice; what served is stopped, as far as its `Stop` does anything;
- **logger**: a line `Write` acknowledged stays; a backup goes only when
  retention says so, and then it does go;
- **topic**: each consumer's callback is called once, in order, with what its
  queue was given;
- **bucket**: nil from `TryMakeBucket` means a bucket; every call returns; what
  `PutObject` confirmed is what `GetObject` loads;
- **KCP**: nothing unacknowledged leaves the send buffer; the receive queue is
  the stream of the other end.

## Modules

`Session` is an abstract specification; `Conn`, the part both connections
share, is extended by `ClientConn` and `ClientConnWs`, and each of these
implements `Session` through the mapping in its definition `Abstract`.
`DivisionLogger` extends `LogRetention` and implements `LogStore`, a second
abstract specification, through its definition `Stored`. `Topic` implements
`Subscription`, a third one, through `Promised`. `Objects` extends
`Bucket`, and `Startup` extends `Flags`. `Registry` and `Kcp` stand by
themselves: `Registry` takes up where `Startup` leaves off, at the start of the
Apps. The `MC*` modules only give constants their values, and the `*Proofs` modules hold
the proofs.

**Session**: what the user of a connection is promised. The requests form a
line; `Handle` takes the next one, at most one of them after the disconnection
was announced. A source (an application goroutine, the callback, the replies)
hands over numbered messages, which are put on the wire or, once the
connection is broken, lost, in order per source. A request is answered at most
once.

**Conn, ClientConn**: each goroutine is a variable that says where it is
(`reader`, `deliver`, `writer`) and what it holds (`packet`, `msg`, `sendMsg`).
A send on an unbuffered channel is a rendezvous: `HandOver` is the send of the
reader and the receive of the deliverer in one step; goroutines blocked in
`sendQueue <- buf` stand in the sequence `sendQueue` in the order in which Go
wakes them, and `TakeSend` serves the first. Frames are abstracted to their
number in the stream; a frame of which only a part arrived before the link went
down is no frame (`uncode` fails in the middle of it). `Write` succeeds as long
as the socket's buffer has room, whether or not anybody will read it, and fails
once the connection is closed or its path is down. A callback may
reply, fail, return something that cannot be encoded, return nothing (then
`res.Tag` panics and the process ends) or send to its own connection.
**ClientConnWs** adds malformed messages, the Close frame by which the reader
refuses them (a second writer on the socket), the write error that stays, and
the deferred functions. Over WebSocket a goroutine that panics first calls
`DisConnectCallBack` (`UnwindNotify`), on a connection that may still be open, then closes it
(`UnwindClose`), and then the process ends (`ProcessEnds`): three steps, between which the
other goroutines go on and may panic, too.

**Flags, Startup**: `Flags` is one call of `ParseWithStructPointers` as an operator:
declare every field, each with its text from the environment or its tag, then assign
the command line (`flag.Parse`, external); both are recursive functions of how many
fields and arguments have been seen. A struct that is no pointer, at which the code panics,
stands among the fields as one of a kind the code does not know. `Setting` is the reference definition, made
from the comment of that function. `Startup` is `Registry.Run` up to the goroutines of
its Apps: `pc` and `done` say where it is. A `New` of rpcx takes two steps, storing its
path (`StorePath`) and using the variable (`UsePath`), so that post tasks of several
Apps interleave; a string read while it is written may be half of each (`Torn`). What a
caller meant is kept beside what its server or client got (`meant`, `base` in `made`).

**Registry**: `main` walks through `Run` and `Stop`, `app[a]` through `App.run`,
`task[t]` through the goroutine of a service. `regErr` and `appErr` are the
channels with room for one error, and each sender is an action that needs the
room. `StopTcp` distinguishes what `Stop` can see of an interface value that
another goroutine is storing: nothing, its type word alone, or all of it.

**LogRetention, DivisionLogger**: `LogRetention` is what one pass of
`millRunOnce` decides; the order of a listing is any order an unstable sort may
leave. `LogStore` is what those who log are promised: a line stays unless today's log
is truncated today, a backup stays whole until retention lets it go. `DivisionLogger` is the logger around it: `Write`, `Close` and `Rotate`
are single steps, as they hold the mutex, and the mill takes one step per call
to the file system, so that everything can happen in between. The name of a
file is the sequence of the dates in it; the logger's own files have one (`Logs`), and
what `oldLogFiles` recognises has two, today's first. The loops of `millRunOnce` pick the
elements of a listing at some indices (`Picked`): which indices, `Past` and `TooOld` say.

**Subscription, Topic**: `Subscription` is what publishers and consumers are promised: one
stream of messages, which a consumer joins somewhere; from there on its callback takes the
next message it is bound to, none skipped and none twice, and a lost connection only ends
the stream for it, at a message of its choice. There are no queues in it. `Topic` has them: the producer's socket, the exchange, the queues, what was delivered
to each consumer and not yet handled, and where `RegisterConsumers` and each
`consume` are. How far a consumer's stream reaches (`Upto`) is the end of what was routed
while its queue is bound, and afterwards the end of what the broker had delivered to it. The
broker is external.

**Bucket**: `once`, where its function is, and what each caller's last call
returned. A request may fail without an effect or after it. **Objects** adds what the
callers store and load. A `PutObject` that failed may still be on its way (`strays`) and
take effect at any later moment, also after a restart. `Key` is the concatenation in the
code, and `Parts` what it is to name: the directory, without the slash a path may end in,
and the file, so that a path with and without its slash is one object. `confirmed` remembers the last Put that returned nil and met no other one.

**Kcp**: the fields of `IKCPCB` that control it. `Delete` is
`append(s[:i-1], s[i:]...)` on an array and a length, so that the loops that
range over a slice they shorten do what they do in Go: skip an element, see old
ones, or panic. Each of the loops of `Parse_Una`, of `Input` and of the step that moves
segments to `rcv_queue` is a function from the number of turns to what they have made of
the slice; `Parse_Ack` deletes one segment at most. Timers, fast retransmission and the round trip time are left
out, as nothing depends on them: `Flush` panics at the first segment it makes
(`seg.go:9`), `Update` is empty, and `Input` never gets past its loop to where the
congestion window grows. `SetNodelay` switches the congestion window on and off. The caller recovers from panics. A datagram
of several segments does what several datagrams would do, unless one of them
panics, so `MaxSegments = 1` in the runs.

## Runs

The eight runs that show no violation also check the inductive invariant that the proofs
rest on: `Inv`, `StartInv` in `startup` and `ObjInv` in `bucket`. Its first conjunct is the
type invariant.

| Run | Module, configuration | What it shows |
|---|---|---|
| `tcp` | MCClientConn, MCClientConn.cfg | order, no loss, no repetition; one `DisConnectCallBack`, on a closed connection, at most one request after it; `ImplementsSession`; a lost link is noticed; with a client that reads, every `SendMsg` returns, and every request is handled and its answer written (`RequestsAnswered`) |
| `ws` | MCClientConnWs, MCClientConnWs.cfg | the same with malformed messages and panics; nothing is handled past a malformed message; the reader and the writer overlap only after one; unless a panic ends the process, one `DisConnectCallBack`, by the reader, on a closed connection; a refusal ends the session. Order of the requests, order per source and the single late request follow from `ImplementsSession` |
| `startup` | MCStartup, MCStartup.cfg | every setting is the one of the reference definition, or the process ends for a reason; a start that failed cannot be repeated (the second `Run` panics); servers and clients meet exactly when their callers meant the same path, unless two Apps are in `New` at once |
| `registry` | MCRegistry, MCRegistry.cfg | every call may fail: failures are counted one by one, on their way to `Run`, too; rpcx and TCP servers that served are closed, a signal or a failure ends `Run`, though both kinds of channel are full |
| `registry_graceful` | MCRegistry, MCRegistryGraceful.cfg | *violated*: instead of the announced graceful stop, a signal that finds all services at work makes the accept loop of the TCP server panic, on the nil connection of a failed `Accept` |
| `log` | MCDivisionLogger, MCLogger.cfg | the logger and its mill implement `LogStore`; each pass of the mill does exactly what retention defines; old backups go in the end |
| `log_retention` | MCDivisionLogger, MCLoggerRetention.cfg | *violated*: the logger's own old files are never deleted |
| `topic` | MCTopic, MCTopic.cfg | callbacks in order and once (`OncePerConsumer`); one call at a time takes the next message of the consumer's stream, while others come and connections break (`ImplementsSubscription`); what is under way when `RegisterConsumers` returns arrives |
| `bucket` | MCBucket, MCBucket.cfg | for the three stores: the caller that ran `makeFun` and got nil has a bucket (except on S3), the others wait for it, every call returns; an object that was stored is the one that is loaded (except on cloud storage) |
| `bucket_again` | Bucket, MCBucketAgain.cfg | *violated*: a second `TryMakeBucket` returns nil after the first one failed |
| `kcp` | Kcp, MCKcp.cfg | nothing unacknowledged leaves `snd_buf`; `rcv_queue` is a prefix of the stream within its window |
| `kcp_order` | Kcp, MCKcpOrder.cfg | *violated*: after one segment out of order the next one is never moved to `rcv_queue` |

`FifoPerSource` follows from `ImplementsSession` and is a conjunct of the invariant of `tcp`,
on which the mapping to `Session` rests. Deadlock is not checked: every one of these systems
may stop (a connection that is gone, a process that has returned, a finished
number of lines or messages).

### Bounds, and why they are enough

- `tcp`: two application goroutines with one message each, a callback that
  may send one itself, three requests, two frames towards the server, one towards
  the client. Every goroutine can be blocked at once, behind a client that does
  not read; three requests put one into the deliverer's hands, one into the
  reader's and one into the socket. The proofs remove these bounds.
- `ws`: the same with two requests, one of which, or both, may be malformed.
- `startup`: 2,760 starts. Most have one flag of each kind (and of one the code does not
  know), with each kind of default, environment and command line of up to two arguments; the
  rest have two Apps that make up to four servers and clients each, with paths of their own,
  from a flag, or none. Two `Run`s, so that one can follow a failure.
- `registry`: three processes: two Apps that share the TCP server, which both run and
  stop; two that share the WebSocket server; and three services that may fail in one App,
  so that one error is read, one waits in the channel and one in its goroutine. In the first
  and the last a post task may fail, so that Apps meet in `Run`'s channel.
- `log`: two days, with backups under the name of either, among them one that is
  too old and one more than `MaxBackups`; two lines, so that one is written before
  and one after midnight, a close or a rotation; one restart and one failing call of the
  mill, anywhere.
- `topic`: two consumers with overlapping keys and three messages: one may be
  handled, one delivered and one in the queue.
- `bucket`: two callers, three calls of `TryMakeBucket` and a restart: one runs `makeFun`
  while the other waits, and one comes later, in the same process or the next. One object
  under two spellings and three requests for it: one Put overtaken by another, and a Get.
- `registry_graceful`: one App with an rpcx and a TCP server, in which no
  call fails of itself, so that what panics does so because of the signal.
- `bucket_again`: three callers.
- `kcp`: three segments in each direction, windows of three and two, room for three acks:
  repetition, reordering, a gap, a closed window, a full ack list, the congestion window
  on and off.

### Fairness

Go runs every goroutine that can run: weak fairness of each goroutine, and of
the receiving end of each channel. Callbacks, the broker's routing and delivery,
and calls with a deadline return. Nothing is assumed of a client, of signals, of
failures, of kills, of midnight or of callers. What a property needs beyond that is a premise inside it:

- `ClientReads` (the client reads what it is sent while it is there) in
  `SendMsgReturns`, `RequestsAnswered`, `RefusalEnds`: no write has a
  deadline, so a client that does not read holds up the writer, then the deliverer,
  then the reader. `DisconnectNoticed` needs no such premise: a lost link ends the
  wait.
- `PostsReturn` in `FailureStops`: `App.run` looks at the errors of its services only
  after its post tasks.
- `StoreAnswers` in `CallsReturn`: MinIO and S3 set the lifecycle without a deadline.
  `ObjFairSpec` says that `makeFun` and the callers of `once.Do` go on; nothing is assumed
  of Puts and Gets.

`OldBackupsGo` starts where the bounded failures and restarts are used up: the mill
only has to clean up once it is left in peace.

## Proofs

Every theorem is about a specification with all its failures, kills and late effects, for
any values of its constants that satisfy the assumption beside it.

| Module | Theorem | Statement | What it says of the code |
|---|---|---|---|
| `ClientConnProofs` | `Invariance`, `TypeCorrect` | `Spec => []Inv`, `[]TypeOK` | the inductive invariant |
| | `Order` | `[]RequestsInOrder` | requests reach the callback in order, once each |
| | `Disconnection` | `[]DisconnectOnce` | one `DisConnectCallBack`, on a closed connection |
| | `LateRequests` | `[]OneLateRequest` | at most one request after it |
| | `Fifo` | `[]FifoPerSource` | what one goroutine sends is written in order |
| | `Refinement` | `ImplementsSession` | all that `Session` promises |
| `ClientConnWsProofs` | `Invariance`, `TypeCorrect`, `Order` | as above | with malformed messages and panics |
| | `Refusal` | `[]NothingPastMalformed` | nothing from the first malformed message on is handled |
| | `Disconnection` | `[]DisconnectOnceUnlessPanic` | once, by the reader, on a closed connection, unless a panic ends the process; then perhaps on an open one, and twice, or three times if the client sent a malformed message |
| | `NoOverlap` | `[]NoOverlapUnlessMalformed` | two goroutines write at once only after a malformed message |
| | `Refinement` | `ImplementsSession` | all that `Session` promises |
| `RegistryProofs` | `Invariance`, `TypeCorrect` | `Spec => []Inv`, `[]TypeOK` | the inductive invariant |
| | `Failures_Counted` | `[]FailuresCounted` | no failure is lost, doubled or made up in the channels of the Apps or in that of `Run` |
| | `Stopped` | `[]StopClosesServing`, and more for a TCP server no other task shares | once `Run` has returned, an rpcx server that served has returned, and a TCP server is closed, for certain if no other task shares it, else unless one of these listens or is still in its accept loop; the websocket server, whose `Stop` is empty, is excepted |
| | `StartInvariance`, `StartTypeCorrect` | `StartSpec => []StartInv`, `[]StartTypeOK` | the inductive invariant of `Startup` |
| | `Resolved` | `[]FlagsResolved` | every setting is that of the reference definition, or the process ends for a reason, on a first `Run` |
| | `Meeting` | `[]PathsMeet` | a server and a client meet exactly when their callers meant the same path, unless two Apps are in `New` at once |
| `DivisionLoggerProofs` | `Invariance` | `Spec => []Inv` | the inductive invariant |
| | `Plan_Is_Definition` | `PlanIsDefinition` (of every step) | `millRunOnce` decides what retention says, in any order the sort leaves |
| | `Refinement` | `ImplementsStore` | all that `LogStore` promises |
| `TopicProofs` | `Invariance`, `TypeCorrect` | `Spec => []Inv`, `[]TypeOK` | the inductive invariant |
| | `Delivery` | `[]OncePerConsumer` | each callback, in order and once, with what its queue was given |
| | `Refinement` | `ImplementsSubscription` | all that `Subscription` promises |
| `ObjectsProofs` | `BucketInvariance`, `Invariance`, `TypeCorrect` | `Spec => []Inv`, `ObjSpec => []ObjInv`, `[]ObjTypeOK` | the inductive invariants |
| | `UsesBucket` | `ObjSpec => Spec` | objects do to the bucket only what `Bucket` allows |
| | `Runner`, `Ready` | `[]RunnerHasBucket`, `[]NilMeansReady` | what nil from `TryMakeBucket` means |
| | `Storage` | `[]StoredIsLoaded` | what `PutObject` confirmed is what `GetObject` loads, expiry left out |
| `KcpProofs` | `Invariance` | `Spec => []Inv` | the inductive invariant |
| | `Kept` | `[]UnackedKept` | nothing unacknowledged leaves `snd_buf` |
| | `InOrder` | `[]ReceivedInOrder` | `rcv_queue` is the stream of the other end, from its start |

The assumptions are what the code takes for granted: bounds are natural numbers, buffers
and windows have room for one; names of goroutines differ from the sources `"reply"` and
`"callback"` (`ConnAssumption`), names of callers from `None` (`BucketAssumption`); paths
are not empty (`ObjectsAssumption`; an empty one panics); data are what `Send` does not
refuse (`KcpAssumption`); the files a logger starts with have names it can tell apart
(`LoggerAssumption`); the fields, arguments and calls of a program have the types of the
code (`StartupAssumption`).

### The inductive invariants

Few of the properties are inductive by themselves. What each rests on:

**ClientConn.** `Chain`: requests carry consecutive numbers along the socket, the reader, the
deliverer and the handled ones. `RequestsInOrder` is the same fact told of one
sequence; `Chain` says where each goroutine stands in it, which is what a step of
one goroutine changes. `Shutdown`: the reader leaves its loop only when the link is down
and nothing is left to read, and it closes the connection before it notifies
(`DisconnectOnce`). `LastRequest`: once the reader left its loop, the deliverer holds at most the
one request it was handed before (`OneLateRequest`). `OneOffer` and `Numbered`: a goroutine
offers one message at a time, with the last number it issued, and what left the queue is
older than what is queued (`FifoPerSource`).

**ClientConnWs.** The conjuncts of `Conn` again: `ConnProofs` proves once that the steps
both connections share keep them. Its own `Shutdown` counts the other ways out: the reader
notifies once, behind a `Close`, and each of the three goroutines once on its way through a
panic, before a `Close`; so the connection is closed when the reader is at its deferred
function or a goroutine that panicked is through its own. `Refusing`: what is malformed lies
beyond what the reader fetched, and a write overlaps, or the reader or the writer panics,
only after a refusal; that is why three goroutines can notify only after a malformed message.

**Registry.** The sets of Apps and services are chosen in the initial state, so `SetupOK`
keeps them well formed. `Launched`: nothing runs before it is started, and nothing is
stopped before `Run` left its `select`. `Counted`: every error a service sent is in its
App's channel or was taken out by that App, which reports once, and its report is in `Run`'s
channel or is the cause for which `Run` ends; `FailuresCounted` says the same of an App that
got through its post tasks. `Closed`: what `Stop` has reached is stopped (`ClosedFor`) and
stays so, although another App may still be storing the listener of a server they share.

**Startup.** `Repeated`: a `Run` that follows one that failed finds its first key declared,
and so panics. `Together`: initFuncs are alone in `New`, as no App runs yet, and of two News
of one package at once each knows of the other. `Agreed`: a package's base path is the one
given to it last, or the one `New` that is storing there has it, unless two Apps gave one at
once. `Meaning`: so a `New` that was alone uses what its caller meant, and what it made has
it, which is `PathsMeet`. `FlagsResolved` needs no more than `Repeated`, but what the two loops of
`Flags` compute: `DeclaredTo` says it of the first n fields, `AssignedTo` of the first n
arguments, and `SettingOf` compares that with the reference definition, whose `CHOOSE` of
the last argument for a key `LastOf` justifies.

**DivisionLogger.** `LinesDated`: a line is in a log of its own day or of an earlier one, so
that what is lost when today's log is truncated is of today. `Listing`: backups are never
made, and what the mill has found is what it may see under the prefix of that listing.
`Planned`: each removal still to do is of a backup that `LogStore` lets go, which stays true
over midnight and over further steps (`DismissedForGood`); each compression still to do is
of a file that is there, no removal and no other compression takes it away, and its source
goes only when the copy is whole. That a pass only removes what `LogStore` lets go is the
lemma `LetGo`: the backups it found that are newer are among those there ever were, so
`MaxBackups` newer ones found are `MaxBackups` newer ones. `Plan_Is_Definition` rests on what
the loops pick (`PickedIs`), on the listing being sorted (`SortedLists`), and on the count
of the distinct names up to a file (`PastAre`).

**Topic.** `Outgoing`: what is on its way to the exchange comes next. `Registered`: a
consumer has nothing before its queue is bound. `OncePerConsumer` itself is inductive beside
these: what was called, delivered and queued, put one behind the other, is in the order of
`Publish` and leaves out nothing that is due. `Refinement` rests on it: the first message
held for a consumer is the least one ahead of its callback (`NextCall`), as what it holds,
behind what it was called with, ends where its stream does (`Holdings`, `EndBounds`); routing a
message that does not match, binding, subscribing, delivering and a callback that returns
or fails move nothing in `Subscription` but that end.

**Bucket, Objects.** `InOnce`, `ErrKept`, `AllMade` follow `makeFun`: who runs it, that it
carries its error to the end, and that everything is made when all went well. `Keyed`: a
request is for the key of its object, which is what `Key` and `Parts` come to. `Alone`: a Put
that will be confirmed is the only one of its object that can still take effect. `Kept`: what
is confirmed is stored and nothing on its way can change it. The steps of `Objects` are those
of `Bucket` or leave it alone (`UsesBucket`), so `Bucket`'s theorems hold of `ObjSpec` too.

**Kcp.** `Sending`: what is in `snd_buf` was sent before anything was received, so the `una`
of each segment there is 0, and `snd_una`, which `Shrink_Buf` takes from it by mistake, stays
behind `snd_nxt`. `Blocked`: a segment out of order blocks `rcv_buf` for good, so that the
loop that moves segments, and deletes from the slice it ranges over, never comes to a second
deletion. That `Parse_Una` skips every second segment does no harm: what its loop
deletes is acknowledged, and what it leaves stays in order.

Each proof has one lemma per action, or per conjunct with one case per action; lemmas on
sequences are stated once and cited. The loops of `Kcp`, `LogRetention` and `Flags` are recursive
functions, and what they compute is proved by induction over their turns. The library's
induction theorems cannot be instantiated by the installed provers, so the lemma `Upward`
states induction for a set of natural numbers and gets it from the well-foundedness of `<`.

### Only model-checked

- Liveness and fairness, out of the prover's reach: `SendMsgReturns`, `RequestsAnswered`,
  `DisconnectNoticed`, `RefusalEnds`, `SignalStops`, `FailureStops`, `OldBackupsGo`,
  `CallsReturn` and what `Topic` says of messages on their way (`PublishedIsCalled`).
- The four runs that show a violation.

## Where the code and its comments part

Four runs show a violated property and are described in `PROJECT.json` under
`findings`. The models contain, as the code does, other behaviours that differ from
what comments and tests say:

- nothing calls `ConnectCallBack` (`net/clientConn/conn.go:19`; `net/tcp/tcp.go:38`);
- `Registry.Run` returns nil after the failure of an App (`app/registry.go:108`, where
  line 90 announces the error);
- `Write` keeps the file of the day it was opened (`zlog/lumberjack.go:169`, where line
  6 announces a file per day), and `Rotate` truncates today's file (line 253) instead of
  moving it aside (line 215);
- `Stop` of the TCP server panics when there is no listener yet, and does nothing when it sees
  half of the one another goroutine is storing (`net/tcp/tcp.go:47`), and that of the websocket server is empty
  (`net/http/http.go:52`);
- over WebSocket a panic announces the disconnection before the connection is closed
  (`net/clientConn/client_conn_http.go:140`);
- a `New` of rpcx without a path takes the one given last in the process, not the default
  (`rpcx/service/rpcx_service.go:24`), so a server and a client without one may miss each
  other;
- on S3 the errors of `makeFun` are lost in a shadowed variable (`dfs/handler_s3.go:55`);
  a bucket that exists, made by hand or by a process killed half-way, never gets its
  lifecycle (`dfs/handler_minio.go:48`), whatever `ExpireDays` says (`dfs/dfs.go:23`);
- `PutObject` of cloud storage returns nil when the store refuses the object: the payload
  is sent by `Close`, in a defer that drops its error (`dfs/handler_cloud_storage.go:108`).
  `ReportsFailure` models this, and `StoredIsLoaded` leaves cloud storage out;
- `registry_data.go` says of two flags that an empty one is replaced by a random text or by
  the name of the executable; nothing does so. The environment's `1` is not true for a
  boolean flag, while the command line's is; an integer flag without a number is 0; a flag
  that is set nowhere holds a text of the code's own (`app/flags/parse_flags.go:57`). What the
  options of an `AppOutSideInfo` collect is applied nowhere;
- `New` of `rpcx/client` drops the error of the discovery and goes on with what it has;
- KCP: `Parse_Una` skips every second segment (`kcp/parse.go:13`), `Shrink_Buf` takes `Una`
  for `Sn` (`parse.go:23`, where line 20 announces the least number that is not confirmed), `Send` drops the end of a long buffer (`kcp.go:63`; the
  model counts segments only), `Input` panics behind the last segment (`kcp.go:112`),
  every segment panics in `Encode` (`seg.go:9`), and `SetNodelay` takes the interval from
  `nodelay` (`kcp.go:523`; nothing reads it).

## Not modelled

- Two connections that send to each other: a callback of one session may call `SendMsg` of
  another, and waits until that one's writer takes the message. In `ClientConn` this is a
  goroutine of the application on the one side, and on the other a callback that has not
  returned, so `SendMsgReturns` says when it ends.
- The size limit of `Write` and an empty `Filename` of the logger; an empty path of an
  object, which panics.
- The expiry of the objects in a bucket with a lifecycle: `StoredIsLoaded` speaks of objects
  that have not expired.
- The body of messages; the header of frames; addresses, credentials and the contents of
  configuration files.
- KCP: everything a comment above names as empty or unreachable; sequence numbers do not
  wrap (they have 32 bits).
- What rpcx does with its path at etcd, and with a discovery that is nil.
- `lib/compare.go` (minimum and maximum), `net/register` (a table nothing uses) and the log
  wrapper (the configuration of zap) have no behaviour of their own.
- `init` functions and tests.

## Plan

In order of importance; the first nine are done.

1. `Session`, `Conn`, `ClientConn`: run `tcp`.
2. `ClientConnWs`: run `ws`.
3. `Registry`: runs `registry`, `registry_graceful`.
4. `LogStore`, `LogRetention`, `DivisionLogger`: runs `log`, `log_retention`.
5. `Topic`: run `topic`.
6. `Bucket`, `Objects`: runs `bucket`, `bucket_again`.
7. `Flags`, `Startup`: run `startup`.
8. `Kcp`: runs `kcp`, `kcp_order`.
9. Proofs of every safety property for all of these, and the refinements of `Session`,
   `LogStore` and `Subscription`.
10. What is left: an abstract specification of `Registry` (what serves, and when it stops)
    with its refinement; more action properties, in particular of the order in which `Stop`
    goes through the services; liveness, if the proof system learns `ENABLED`.
