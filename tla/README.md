# mini_ray in TLA+

Specifications of [mini_ray](../src/README.md), a small clone of Ray in Go: a
driver submits tasks, a scheduler sends them to workers, a worker executes them
and keeps the results as objects, the GCS notes which worker has which object.
The nodes talk over TCP (gnet), with frames of a fixed header and a protobuf
payload.

The modules are model-checked with TLC on small instances, and their main safety
properties are proved with TLAPS for every value of the constants. `PROJECT.json`
lists the runs, maps each definition to the lines it models, and gives for each
property a mutation of the model that violates it.

## 1. The system

| component | state | operations |
|---|---|---|
| outbound connection, `common/client_conn.go` | `started`, `established`, `rawConn`, `subCtx`/`subCancel`, dial and idle timers, failures | `Start`, `Stop`, `Send`, `Loop` (dial, Establish, wait, close, redial), `onTick`, `OnPacket`, `OnClose` |
| gnet client handler, `common/eventHandler.go` | none of its own; the one gnet client | `OnClose`, `OnTraffic`, `DialWithTimeout` |
| framing, `common/rpc_conn.go`, `codec/header.go` | buffered bytes of a socket | `MakeFrame`, `EncodePayload`, `ZeroCopyDecode` |
| redial backoff, `getBackOff`, `floorToSecond` | failures in a row | `backOffDial` |
| scheduler, `core/scheduler` | `taskChan`, `pendingTasks`, `workerConns`, `gcsConns`, inbound `conns` | `PushTask`, `Loop`/`AssignTask`, `onAssignTaskResp`, `onEstablishAck`, `onEstablish` |
| worker, `core/worker` | `objectStorage`, `registerObjectChan`, `gcsConn`, `connAddrs`, maps of waiting queries (never made) | `onAssignTask`, `onAddTowInt`, `Loop`, `onEstablish`, `onGetObjectData`, `onGetObjectLocationResp`, `onGetObjectDataResp`, `getRemoteObject` |
| object encoding, `core/worker/codec_util.go` | none | `EncodeInt`, `DecodeInt` and those of the other types |
| GCS, `core/gcs` | `objectLocationMap`, inbound `conns` | `onReportTaskResult`, `onGetObjectLocation`, `Loop`/`Ontick` |
| inbound connections, four `core/*/connection.go` and `connection_manager.go` | registry `conns`, `established`, transport | `OnOpen`, `OnClose`, `OnTraffic`, `onEstablish`, `Send`, `Ontick` |
| driver, `core/driver` | `typeConns` | `SubmitTask`, `onEstablish` |
| goroutine pool (ants) | running goroutines, at most the pool's size | `Submit`, which blocks while the pool is full; a panic ends the job and is caught |
| main programs, options, signals | flags | start-up |

Two of these never run as they are. `NewDriver` calls itself without end
(`driver.go:25`). The main programs stop at "Failed to get addr", because no flag
is bound to an address, and that of the scheduler would start a driver. What
brings nodes up and connects them is the tests.

Who calls whom. The scheduler and the GCS dial the workers (`Connect`), each
through an outbound connection. The dialling side sends `Establish`, the other
side answers `EstablishAck` and the dialling side treats nothing else before that.
The scheduler sends `AssignTask` to every worker it knows and gets
`AssignTaskResp`. The worker reports each result object on the connection that
the GCS opened. All handlers of one node run on its gnet event loop (one for the
sockets it accepted, one for those it dialled); `Scheduler.Loop`, the worker's
`connectionManager.Loop` and each outbound connection's `Loop` are goroutines of
their own, and share fields with the event loops without locks.

What is hard in this code:

* An outbound connection is driven by four threads: its `Loop`, the event loop,
  callers of `Send` and callers of `Stop`. A close, an acknowledgement or a cancel
  that belongs to one socket can take effect when `Loop` is already at the next.
* The scheduler keeps a task in several places at once (channel, hand of
  `AssignTask`, `pendingTasks`, links), broadcasts it, and handles rejections with
  three separate steps while the loop goes on.
* The worker hands results from the event loop to a goroutine over a bounded
  channel, and the goroutine sends on a field the event loop overwrites.
* Links break, and messages on them are lost without notice; nobody retries.
* A peer that vanished shows only in silence, and timers decide what silence means.
* A task is broadcast, repeated and computed from objects of whoever runs it; the
  ids of the results are not unique; and the GCS's map outlives the storages.
* The nodes of one process share a pool of 8 goroutines, and most jobs never end; they
  start, dial and fail in any order.

## 2. The modules

| module | models | |
|---|---|---|
| `Session` | what an outbound connection promises: numbered sessions, each up at most once, by its own acknowledgement | abstract |
| `ClientConn` | `common/client_conn.go` and the socket callbacks of `common/eventHandler.go` | implements `Session` |
| `Scheduler` | `core/scheduler`: channel, assignment loop, answers; workers and links outside | |
| `Reports` | what worker and GCS promise about results: stored once, then reported; noted or missed, once | abstract |
| `Worker` | `core/worker` from a task to its report, and the GCS's location map; scheduler and link outside | implements `Reports` |
| `Channel` | what a TCP connection with frames promises: messages once each, in order, until it closes | abstract |
| `FrameStream` | `codec/header.go`, `common/rpc_conn.go` and the `OnTraffic` loops: messages as frames (`Frames`) on a stream of bytes cut anywhere | implements `Channel` |
| `Objects` | tasks that use the results of other tasks, the storages, the GCS's map and the queries, with deaths and restarts: `core/worker`, `core/gcs` a handler at a time | |
| `Ints` | `core/worker/codec_util.go`: an int as digits of a base (`Digits`) | |
| `Cluster` | how nodes come up, connect, disconnect and stop: `Start`, `Connect`, the goroutine pool, the inbound side of all roles and the acknowledgements of the dialling side | |
| `Backoff` | `getBackOff`, `floorToSecond` and the wait of `Loop` | |
| `Frames` | `codec/header.go` and `common/rpc_conn.go` byte by byte (`Digits`) | |
| `Digits` | `encoding/binary` as the two use it: big-endian numbers that lose what does not fit | |
| `Heartbeat` | the timers of one connection without tasks: `onTick`, `maybeShake` and the rounds of `GCS.Loop`, in discrete time | |
| `DataLemmas` | members of a queue under `Append` and `Tail`, parts of sequences, functions by recursion on numbers, powers and digits | lemmas |
| `ClientConnProofs`, `SchedulerProofs`, `WorkerProofs`, `FrameStreamProofs`, `HeartbeatProofs`, `ObjectsProofs`, `ClusterProofs` | theorems and their proofs | |
| `MCClientConn`, `MCScheduler`, `MCWorker`, `MCFrameStream`, `MCHeartbeat`, `MCObjects`, `MCCluster` | the instances for TLC | |

### ClientConn

One action is one step between two accesses to shared fields. The `Loop`
goroutine moves `pc` through `head`, `dial`, `backoff`, `sub` (make the sub
context), `reset` (clear `established`), `establish` (send Establish), `inner`
(wait for `subCtx` while `onTick` runs), `drop` (clear `established`), `close`
(ask gnet to close), `await` (wait for the callback). The event loop executes
queued closes, `OnClose` (read `subCancel`, then cancel) and `OnPacket`. `Send`
is three steps: read `rawConn`, read `established`, read `rawConn` again and
write. `Stop` is four.

The i-th successful dial yields socket `i`; `hs[i]` is how far its Establish
exchange has come. Sub contexts are numbered (`subGen`) and only whether the
last one is cancelled is kept, since a cancel of an older one has no effect.
A `ctx` that is done makes every sub context done. Time is abstract: an armed
timer may fire. `MaxDials` bounds the successful dials; failed ones are free.

gnet is external and modelled from its use: one event loop thread; closing an
open socket calls `OnClose` once; `Close` and `CloseWithCallback` are queued.

### Scheduler

`taskChan`, `pending`, `workerConns` are the fields; `curTask`, `todo`, `target`
are `AssignTask`'s variables, one round of its range over `workerConns` being
`AssignStore` then `AssignSend`. A rejection is `OnRejected` (load), `RejectDelete`,
`RejectRequeue`; any step of the loop may come between. `PushTask` fails without
effect on a full channel, so that only the requeue's unread error loses a task.

The workers are seen through their answers: `WorkerAccepts`, `WorkerRejects`. The verdict
is that of the task (`Computable`): `AddTowIntFunc` looks at the arguments only and an
unknown function is accepted, so every worker gives the same one each time (`OneVerdict` of
`Objects`). A task with bad arguments is rejected and requeued for ever; `NoStarvation` says what
becomes of it and of the others meanwhile. A
rejection is answered on a connection that stays open, because the error of the
task is overwritten by that of `EncodePayload` (`worker/connection_manger.go:204`).
A link is `up` or `down`; what is on it when it goes down is lost. `MapRace` is the Go runtime's
reaction to a map write during a range, `SendPanics` that of `Send` on a
connection being torn down (`SendNeverPanics` below). History variables: `pushed`,
`accepted`, `dropped` (by the code, at one of two places), `cut` (lost with a link).

`MaxDrops` bounds the links that break, and `MaxOnLink` what is on one link at a time;
neither rejections nor connects are bounded. `AssignSend` waits while a link has `MaxOnLink`
messages, which only delays it: the worker and the event loop take them off without waiting for
the loop of the scheduler.

### Worker

The event loop is in `onAssignTask` before `SetObject` (`store`), at
`registerObjectChan <- id` (`register`), or in `onEstablish` between setting
`gcsConn` and sending the acknowledgement (`ack`). A send on a full channel
blocks it there, and with it every other handler. `RegisterDirect` is the
rendezvous of an unbuffered channel, the default of `RegisterObjectChanSize`.
`Loop` takes an id and sends it on whatever `gcsConn` is: nil (`LoopDies`: the
pool recovers the panic and the goroutine is gone), a closed connection (`lost`)
or the open one. When the context given to `NewWorker` is done (`Cancel`) it returns from its
select (`LoopReturns`), perhaps after some more ids, as the select may take either case. The
event loop is gnet's and goes on; the ids it still registers stay in the channel, and once that
is full it blocks for ever. `LoopEnded` is either end of the goroutine.

The GCS dials again after a break (`GcsDial`, `LinkDown`); an Establish that was
read by the worker's event loop only after a later one leaves the older
connection in `gcsConn`. The GCS ignores what arrives before the acknowledgement
(`ignored`), as `client_conn.go:383` does. Results are numbered by their request.
`OnUntypedArguments` is the index out of range at `connection_manger.go:178`; the
panic is on the event loop and ends the process.

`Reports` has none of this: a result is stored, and its report, under way from then on, is
noted or missed. `ReportsUnderWay` collects what is in the event loop's hand, the channel,
`Loop`'s hand and on the connection; an id in the hand of a dead `Loop`, or in the channel when
`Loop` has ended, stays under way for ever.

### FrameStream

TCP keeps the bytes and their order, so the inbound buffer (`Inbound`) lies between two
cursors, `consumed` and `arrived`, in the stream of all bytes sent. `Send` is
`EncodePayload` (header and body), `MakeFrame` (the length before it) and one
`AsyncWrite`, which gnet queues as a whole. `Arrive` reads any part of what was sent and
starts `OnTraffic`. Each of its rounds is `ZeroCopyDecode` of what is in the buffer
(`Decoded`), of nothing else: it takes a frame off (`OnPacket`), closes on an
error (`OnPacketFails`) or waits for more (`WaitForMore`). Which message begins where
is kept in `frames`, for the properties only; that the decoder, which sees lengths and
bodies as the same bytes, stands where a frame begins is `Aligned`. A message has to fit the
length field (less than 4 GiB), as nothing in the code refuses one that does not.
The `OnTraffic` of `eventHandler.go` and those of the inbound managers are the
same loop; one module stands for all.

`Scheduler` and `Worker` treat a connection as a queue of messages that a break
empties, which is `Channel`.

`MCFrameStream` has bytes of two values and fields of 3, 1 and 2 of them, and evaluates
for all short streams that a message is read back whatever follows and not before its last
byte (`RoundTrip`), and that `ReadFrameFromGnet` with `DecodeInnerPayload` and
`ZeroCopyDecode` agree except about a frame without room for a header (`TwoReaders`); both
are proved too. `TooLarge` and `LengthWraps` say what becomes of frames that are too
large: `MakeFrame` has no limit, so a frame may be announced by what its length leaves in
four bytes.

### Objects

Handlers run to their end on the event loop of their process, so an action is a
whole `OnPacket`. `tasks` numbers the tasks and keeps with each what it should
`yield`: what `AddTowInt` makes of its arguments in a single process that has all
results. An object id is the task's id and a reading of the clock (`Stamps`; the
function follows from the task): with one stamp all runs of a task come to the same id
and overwrite each other, as nothing in `objectStorage` forbids. A
task may be sent to any worker and any number of times, which is what broadcast,
requeue and two schedulers amount to.

`OnAddTowInt` stores and registers before it looks at the error, as `onAddTowInt`
does, so a rejected task leaves an object, of value 0. A task whose object is not at hand
panics in `objectID.(ObjectID)` (`connection_manger.go:188`: the id is a string
there), on the event loop: the worker dies (`OnRemoteObject`). An answer that
nobody asked for is sent on a channel looked up in a nil map; a send on a nil
channel blocks for ever, and the worker with it (`OnUnaskedResponse`). Death takes
the storage; `Restart` is an empty worker at the same address.

The GCS asserts a `RayGetObjectLocation` to be a `GetObjectDataRequest`
(`gcs/connection_manager.go:117`): the pointer is nil and reading it panics before
`onGetObjectLocation` is called. On a connection that the GCS accepted nobody recovers, so a
query there ends the GCS and its map (`OnGetObjectLocation`). On one that it dialled `OnPacket` of
`client_conn.go` (375-379) recovers and returns an error, and the connection is closed. `Decoded` is the table of `unmarshalByURI`, `Asserted` what the
three `OnPacket` take each packet for; the assumption `OneWrongAssertion` of
`MCObjects` says that this is the only place where the two differ.

`Ints` models the encoding because a result may overflow, an argument may be too
short, and neither may make two copies differ. Decoding is the inverse of encoding,
wraps, and ignores what follows (`RoundTrip` of `MCObjects`, proved as `IntsWrap` and
`AddWraps`); what is read when the types differ is `OtherTypes`, evaluated only.

### Cluster

A process is a `program`: calls of `Start` and `Connect`, each of which submits jobs to
one pool. `Submit` blocks while `PoolSize` jobs run. `gnet.Run` (`serve`), the
worker's empty `select` (`idle`) and the `Loop` of a dialled connection (`dial`) run
until the end; the reporting loop and the dials end with the context (`Cancel`).
`ListenFails` is the panic of `gnet.Run` without a port: the pool catches it, and
`started` stays set, so that nobody can start the node again.

Each link is one outbound connection in outline (`ClientConn` has the detail):
`Dial` succeeds once the peer listens and sends Establish, `OnAck` handles the
acknowledgement, `LeaveInner` closes what was cut, then it dials again. The connection
with number `nr` of a link is in `incoming` until the server's `OnOpen`, then in
`conns` until its `OnClose`; `marked` is the server's `established`. The
`onEstablish` of a worker sets `gcsConn`; the scheduler files its peers by the mode in the
acknowledgement, and that of a GCS has none (`GcsOnEstablish`), so `gcsConns` stays
empty. `connAddrs` only grows.

`Cut` is a link that breaks, at most `MaxCuts` times in a behaviour; `ListenFails` at
most `MaxBadListens` times. A connection given up for its silence is a `Cut` too.

### Backoff

Milliseconds and failures are numbers; a wait is rounded down when `backOffDial`
computes it and once more when `Loop` arms its timer with what is left.

### Heartbeat

One connection from its `sendEstablish` to its close, as long as no task uses it.
`sinceRecv` and `sinceSent` are the time since `lastRecv` and `lastSent`; `Tick` is
one tick of `Loop`: `onTick`, then `maybeShake`. The other side marks the connection
(`OnEstablish`), then acknowledges (`SendAck`); if it is a GCS, `Ontick` is a round of
`GCS.Loop`, on a goroutine of its own, which may come between the two and sends a
ShakeHand to whatever is marked. A worker or scheduler has an `Ontick` too, but nothing
calls it. `Vanish` takes the peer or the path away without a FIN.

Time advances by `Pass`, which waits for what is due: a tick every `TickPeriod`, a
round at least every `PeerPeriod` (its ticker is made anew each time, so a round lasts
the period and the work), a message, its handling included, within `MaxDelay`, and the
acknowledgement at once. A vanished peer owes nothing. `SlackAssumption` says what
the timeouts must leave for this; the defaults (10 s and 30 s, with periods of 1 s)
leave it for delays of up to 5 s.

## 3. The runs

| run | instance | what it shows |
|---|---|---|
| `client` | 2 dials, fair | no socket leaks (`NoLeakedSocket`); `established` is never left over from the previous socket while `Loop` serves one (`EstablishedMeansAcked`); `ClientConn` implements `Session`; a closed socket is noticed even if `OnClose` came before its sub context (`CloseNoticed`); a cancelled `Loop` ends (`StopTerminates`) |
| `client_early_send` | 2 dials | **violated** `SendNeedsEstablish`, finding 1 |
| `client_nil_send` | 2 dials | **violated** `SendNeverPanics`, finding 2 |
| `scheduler` | 2 tasks, one of them computable, 2 workers, channel 2, 2 messages on a link, 1 drop, fair | no pushed task is forgotten (`NoTaskVanishes`); a pending task is awaited or was cut (`PendingIsAwaited`); a task that is rejected for ever keeps no other from being accepted, and is handled again and again itself, unless dropped, cut, or the process died (`NoStarvation`); as long as one worker only was known, an accepted task is not run again (`AcceptedIsFinal`), a rejection finds its task (`RejectionFindsPending`), a requeue finds room (`RequeueFindsRoom`) |
| `worker` | channel 1, 4 requests, 3 connections, fair | `Worker` implements `Reports` (so what the GCS locates is stored, and what was missed is not noted later); no report is dropped between the threads (`NoReportForgotten`); after one Establish the reporting goroutine survives all connections and ends after a cancel only (`ReporterSurvives`); a full channel does not stop the event loop for ever (`EventLoopUnblocks`) and stored objects get located, lost or ignored (`ReportsArrive`), both as long as the goroutine has not ended |
| `frames` | 3 of three messages that look like frames and lengths (bodies of 0, 3 and 4 bytes), fields of 3, 1 and 2 bytes of two values, fair | the decoder never leaves the frame boundaries (`Aligned`); no whole frame waits for another read (`NothingLeftBehind`); `FrameStream` implements `Channel`; every message is delivered unless the connection closes (`EverythingArrives`) |
| `heartbeat` | periods 1 and 2, delay 2, timeouts 4, fair | a connection to a GCS that works is never given up (`HealthyGcsStaysUp`); a peer that vanished is given up at the first tick after the timeout (`SilenceIsNoticed`), and it is given up (`DeadPeerGivenUp`) |
| `heartbeat_silent` | the same | **violated** `ShakeHandKeepsUp`, finding 5 |
| `objects` | 2 tasks of seven kinds, 2 workers, ints of two bits, 1 death, 1 query, symmetric | every copy of a result is what a single process computes (`CopiesAgree`); no task is accepted here and rejected there (`OneVerdict`); only who holds the arguments answers (`AnsweredByHolders`); a location is right unless its worker has died (`LocatedOrForgotten`); what a query finds is the task's result (`FoundIsResult`) |
| `cluster` | the tests' programs and one of 9 jobs, pool 8, 1 cut, 1 server without a port, fair | both ends agree that a connection is established (`BothEnds`); the roles know each other (`PeersAreKnown`); no call blocks for ever if the pool has room (`CallsReturn`); every connection with its two goroutines comes up, also when the server came later (`LinksComeUp`); after a cancel nothing of the connections is left (`CancelCleansUp`) |
| `worker_early_report` | channel 1, 2 requests, 1 connection | **violated** `EarlyReportKept`, finding 3 |
| `worker_untyped` | 1 request | **violated** `WorkerSurvives`, finding 4 |

Why the bounds suffice. Threads interfere only through fields that refer to the
current or the previous socket, so two dials show a leftover of the first at the
second; the proofs remove the bound for the safety properties.
Two tasks and two workers give a duplicate (two rejections of one task, with a round of
`AssignTask` between them) and a task requeued between the rounds of another, with channel size
2 full when the other is queued too. Two messages on a link are a request of each task, or a copy
of the same. Four requests fill a channel of one, with one id
in each thread and one on the link. Three frames allow a read that ends one frame,
brings a whole one and starts a third, with a cut at every byte. The bodies are zeros, which
read as a length of nothing, and bytes that read as the length of what follows; the body of no
bytes is a frame of the least length. The periods and timeouts of `heartbeat` are those of the
code scaled down until `SlackAssumption` holds with equality; with one more for the
delay or for the period of the rounds, and the assumption dropped, TLC finds a healthy
connection given up. `ShakeEvery` falls between tick and timeouts, as 3 s does.

In `objects` the second task may name the first's result, which is what makes one
copy depend on another; ints from -2 to 1 overflow at 1 + 1; the calls
cover a result, too few arguments, an argument too short, objects in each place
and a function nobody has. One stamp makes every repetition collide; a second stamp only
adds ids that never meet. One death is enough for a
location to outlive its storage, for a repetition on a restarted worker and for a
report that arrives after its worker's death. In `cluster` a pool of 8 is what the tests have:
`TestSampleObjectTest` needs all of it. One cut on any of a program's links at any
moment gives two connections of one link, and with them an Establish, an acknowledgement,
an `OnOpen` and an `OnClose` of the older one in every order with those of the
newer; the proofs remove the bounds.

Deadlock is not checked: a stopped connection, a scheduler all of whose tasks are
settled, and a process that died have nothing to do, and the environment's
bounds end the others.

Fairness. `Loop` goroutines and event loops are scheduled by the Go runtime, so
each group of their steps is weakly fair; `onTick` is driven by a ticker, so the
establish timer fires. In `ClientConn` the peer owes nothing. In `Scheduler`
`WorkerSteps(w)` is fair: an answer comes, good or bad, or the link breaks, as an idle link is
given up after `recvIdleTimeout`; and `OnAnswer(w)` is strongly fair: the event loop serves every
connection that is readable before it polls again, so that the answers of one worker, which come
without end, do not keep it from those of another. In `Worker` the steps of the GCS's connection
are fair: it dials again after a break (what `ClientConn` does) and reads what has arrived.
In `FrameStream` TCP delivers while the connection is open and `OnTraffic` runs to
its end. `Cluster` has one fairness condition for all steps of the process: it does not
stop while one of its goroutines can go on. Every such step is bounded by the
program and the cuts, so that none can keep another from its turn; links need not
break, servers need not fail, and nobody has to cancel. `Objects` states no liveness: nothing in the
code repeats a report or a query. In `Heartbeat` time goes on and whatever is due is done. Nobody has
to push, connect, accept, send, stop, cancel or request.

## 4. Findings

1. `Send` can write on a socket that has not sent Establish yet: an
   acknowledgement of the old socket handled after `waitClose` cleared
   `established` leaves it set until `sendEstablish` clears it (`client_conn.go:143`
   says Establish is needed).
2. `Send` reads `rawConn` twice; `waitClose` may set it to nil in between, and the
   call, `AssignTask` of the scheduler for one, panics instead of returning the error of line 145.
3. `onEstablish` of the worker makes `gcsConn` visible before it sends the
   acknowledgement; a report that goes out first is ignored by the GCS.
4. `onAssignTask` indexes `ArgsType` by the arguments, and the scheduler never
   sends `ArgsType`: the task of `test/network_test.go` takes the worker down.
5. `codec/header.go:19` pairs `ShakeHandResp` with `ShakeHand` as `EstablishAck` with
   `Establish`, but nobody sends one, and only the GCS sends a ShakeHand of its own
   accord: a healthy connection to a worker or scheduler that carries no answer for
   `recvIdleTimeout` is given up and dialled again.

Also seen, with no document or test that says otherwise: a location query on a connection
that the GCS accepted ends it (`OneWrongAssertion`); a task with bad arguments is rejected and
requeued for ever; a remote argument or an unasked answer takes a worker down; a node whose
server failed to listen cannot be started again; the waits lose a whole second from 40 failures
on (`SecondLost`); the scheduler never files a GCS; nothing refuses a frame on the sending side.

## 5. What is proved

All theorems are for arbitrary constants, from the assumptions in the modules
(the bounds are naturals; computable tasks are tasks; the sentinels are no tasks and no workers; the timeouts of
`Heartbeat` leave the slack above; roles have different addresses, programs call only these
and connect a link once; bytes have a value, fields a byte, and messages fit the length field).

| theorem | says |
|---|---|
| `ClientConnProofs!TypeCorrect` | `Spec => []TypeOK` |
| `ClientConnProofs!NoLeak` | `Spec => []NoLeakedSocket` |
| `ClientConnProofs!NeverStale` | `Spec => []EstablishedMeansAcked` |
| `ClientConnProofs!Refinement` | `Spec => ImplementsSession` |
| `SchedulerProofs!TypeCorrect` | `Spec => []TypeOK` |
| `SchedulerProofs!NeverForgotten` | `Spec => []NoTaskVanishes` |
| `SchedulerProofs!OrphansAreCut` | `Spec => []PendingIsAwaited` |
| `SchedulerProofs!AcceptedOnce` | `Spec => []AcceptedIsFinal` |
| `SchedulerProofs!RejectionsFind` | `Spec => []RejectionFindsPending` |
| `SchedulerProofs!RoomForAll` | `Spec => RequeueFindsRoom`, if `Tasks` is finite |
| `WorkerProofs!TypeCorrect` | `Spec => []TypeOK` |
| `WorkerProofs!LocationsAreStored` | `Spec => []LocationIsStored` |
| `WorkerProofs!Refinement` | `Spec => ImplementsReports` |
| `WorkerProofs!ReportsInOnePlace` | a stored result is under way, known or missed, and never two of them |
| `WorkerProofs!ReportsAreKept` | `Spec => []NoReportForgotten` |
| `WorkerProofs!ReporterLives` | `Spec => ReporterSurvives` |
| `FrameStreamProofs!FramesRoundTrip` | a frame is decoded as its message, whatever follows, and no proper prefix of it is |
| `FrameStreamProofs!ReadersAgree` | the two ways to read a buffer agree, but for a frame shorter than a header |
| `FrameStreamProofs!TypeCorrect` | `Spec => []TypeOK` |
| `FrameStreamProofs!StaysAligned` | `Spec => []Aligned` |
| `FrameStreamProofs!NoFrameWaits` | `Spec => []NothingLeftBehind` |
| `FrameStreamProofs!Refinement` | `Spec => ImplementsChannel` |
| `HeartbeatProofs!TypeCorrect` | `Spec => []TypeOK` |
| `HeartbeatProofs!HealthyIsKept` | `Spec => []HealthyGcsStaysUp` |
| `HeartbeatProofs!SilenceNoticed` | `Spec => []SilenceIsNoticed` |
| `ObjectsProofs!TypeCorrect` | `Spec => []TypeOK` |
| `ObjectsProofs!IntsWrap` | `DecodeInt` undoes `EncodeInt`, up to the modulus and whatever follows |
| `ObjectsProofs!AddWraps` | the sum of two ints is right or off by the modulus once |
| `ObjectsProofs!CopiesAlwaysAgree` | `Spec => []CopiesAgree` |
| `ObjectsProofs!VerdictsAgree` | `Spec => []OneVerdict` |
| `ObjectsProofs!HoldersAnswer` | `Spec => []AnsweredByHolders` |
| `ObjectsProofs!LocationsHold` | `Spec => []LocatedOrForgotten` |
| `ObjectsProofs!QueriesGetResults` | `Spec => []FoundIsResult` |
| `ClusterProofs!TypeCorrect` | `Spec => []TypeOK` |
| `ClusterProofs!EndsAgree` | `Spec => []BothEnds` |
| `ClusterProofs!PeersKnown` | `Spec => []PeersAreKnown` |
| `ClusterProofs!WaitBounds` | a redial comes no later than the backoff and less than a second earlier |
| `ClusterProofs!BackOffGrows` | more failures never wait less |
| `ClusterProofs!SecondLost` | from 40 failures on the wait is a whole second short |

The inductive invariants, and why the properties alone are not inductive:

* `ClientConn`: sockets are numbered by dials, so the invariant says that only
  `rawConn` or a socket queued for closing is open, that `rawConn` is the newest
  socket exactly where `Loop` holds one, and that the newest socket's handshake
  has not started at `reset` and was only just started at `establish`. Then an acknowledgement
  handled in `inner` is that of `rawConn`, and `established` at `inner` was set
  after `reset`. The refinement maps `Loop`'s points to the phases of a session.
* `Scheduler`: `AnswerInv` (an accepting answer names an accepted task) makes the
  delete of `OnAccepted` harmless, and `KeptInv` sharpens `NoTaskVanishes` (a task
  in the hand of `AssignTask` alone still has a round to come), which is what
  makes `AssignDone` harmless. For the properties of a single worker `OneCopy`
  counts the copies of a task: channel, hand, requests, answers and requeue
  together hold it at most once (`Once`), what is sent or answered is pending and
  what was accepted is nowhere else (`Settled`). It needs `Strangers` (no
  messages on the links of unknown workers) and `PushedInv` (whatever is
  anywhere was pushed, so a push brings in a task that is nowhere yet).
* `Worker`: `StoredInv` says of every place on the way to the map that its ids are
  stored; `ConnInv` that `gcsConn` is set once an Establish was handled, so that `LoopDies` is out and
  only `LoopReturns` ends the goroutine. For the refinement a step has to
  take a report from one place only: `QueuesOnce` and `Apart` say that no id is twice in a queue or
  in two places, which holds because a result about to be stored is a new one (`FreshInv`) and
  everything on its way, or missed (`MissedInv`), is stored.
* `FrameStream`: `FramesInv` lays the frames end to end, and `StreamInv` has the bytes of each
  where it begins. With `Aligned` the buffer then begins with the next frame or a part of it, so
  that `FramesRoundTrip` applies (`NextDecoded`): it is decoded, as the message that was sent,
  exactly when all of it has arrived. `OrderInv` says that what was delivered is what was sent.
* `Heartbeat`: `AnswerUnderWay` follows the Establish to its acknowledgement (in a queue,
  in `onEstablish`, in the other queue), each leg no older than the delay allows;
  `GcsSpeaks` bounds `sinceRecv` by the age of the next message or by `sinceRound`.
  With the slack the two deny `onTick` a reason. `TimersInOrder` (the last tick
  found no timer run out) and `NothingSinceGone` (nothing is received from the
  vanished) give the bound on the silence.

* `Objects`: `Shape` is the types without the digits of the data; `Typed` and `Maps` add them, by
  what `AddTowIntFunc` yields for any data. `Copies` adds to
  `CopiesAgree` that every task's `yield` is what its arguments yield, so that a
  run on any storage computes it; `Verdicts` ties an answer to `yield.ok`, which
  does not depend on who answers; `Answers` and `LocatedAt` follow an object from storage
  over `forgotten` and `reports` to the map.
* `Cluster`: `Types` adds `Budget`, without which the number of dials is not bounded:
  every dial but the first follows a cut. `EndsInv` has each acknowledgement on its
  way come from a connection that is marked, and in the registry or cut; `PeersInv` has the
  modes in requests and acknowledgements tell the role of the sender.

What a recursive definition computes (powers, shifts, digits) is proved without the
library's induction theorems, which take an operator that the provers cannot instantiate: a set
of naturals with a member has a least one (`WFMin`), so `Induction` in `DataLemmas` holds for
sets, and `Recursion` gives the function that a recursive definition describes.

Only model-checked: the liveness properties, which are out of the prover's reach. Only evaluated,
for small inputs or the constants of the code: `TooLarge`, `LengthWraps`, `OtherTypes`,
`RedialWaits`, and `OneWrongAssertion`, which is about all packets there are.

## 6. Not modelled, and the plan

Not modelled:

* the driver, of which no state is reachable, and the main programs, which end
  before they make a node; signals, flags, logging;
* generated code: a message is a record of the fields that are read;
* code without a caller: `Ontick` of the scheduler and the worker, `EncodeAndSend`, and of the inbound
  connections `Start`, `Loop`, `Establish`, `Close`, `NotifyEstablish` and `writeFull`;
* code that cannot be reached: the bodies of `getRemoteObject` and `onGetObjectLocation`, behind
  assertions that fail. What the two were meant to promise can be stated (a query names a worker that
  holds the object) but no behaviour of this code would bear on it;
* gnet, ants and TCP, except for what the code relies on.

Planned:

1. `MiniRay`: `Scheduler` with several `Worker`s and the GCS in one module, and an
   abstract specification "a task's result is located" for it. Today the links
   between them are what `Scheduler` and `Worker` say of the other side: a task sent is accepted,
   rejected or cut, at any time.
2. In `Objects`, the way of a report step by step, as in `Worker`: ids that are not unique there
   would leave `Reports` a map of reports and not of results.
3. `Cluster` as one `Session` for each link, which needs a history of the answers: an
   acknowledgement that is thrown away with its connection leaves no trace.
