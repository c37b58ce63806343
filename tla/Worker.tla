-------------------------------- MODULE Worker --------------------------------
(***************************************************************************)
(* core/worker and core/gcs: the way of a task's result, from onAssignTask *)
(* to the location map of the GCS.  The worker's gnet event loop runs      *)
(* every handler: it executes a task, stores the result and queues its id  *)
(* on registerObjectChan; the goroutine connectionManager.Loop takes the   *)
(* ids off and sends them on gcsConn, a field that the event loop sets     *)
(* when the GCS, which dials the worker, sends Establish.                  *)
(*                                                                         *)
(* External: the scheduler, which sends requests, and the connection of    *)
(* the GCS, a succession of sessions as in module Session.  Object ids are *)
(* unique (task id, function and time), so a result is named by the number *)
(* of its request.  Worker is shown to implement Reports.                  *)
(***************************************************************************)
EXTENDS Naturals, Sequences, Functions

CONSTANTS ChanSize,      \* options.RegisterObjectChanSize, 0 unless the caller sets it
          MaxTasks,      \* bound on the requests
          MaxDials       \* bound on the connections of the GCS

ASSUME WorkerAssumption == ChanSize \in Nat /\ MaxTasks \in Nat /\ MaxDials \in Nat

Objects == 1 .. MaxTasks
Conns   == 1 .. MaxDials
NoConn  == 0             \* gcsConn is nil
NoObject == 0
Ack     == 0             \* the EstablishAck among the messages to the GCS

VARIABLES
    taken,               \* requests received
    storage,             \* objectStorage.objects
    registerChan,        \* registerObjectChan
    gcsConn,
    \* the event loop: in onAssignTask before SetObject ("store"), at
    \* registerObjectChan <- id ("register"), or in onEstablish ("ack")
    evPc, evObject,
    \* connectionManager.Loop: at its select, before Send, dead of a panic, or
    \* returned
    loopPc, loopObject,
    crashed,             \* a handler panicked: the process is gone
    cancelled,           \* the context given to NewWorker
    \* the connection of the GCS
    dials, up,           \* connections so far; the last one is open
    asked,               \* connections whose Establish the worker has not handled
    wire,                \* messages to the GCS on the last connection
    gcsEst,              \* established of the GCS's connection
    locations,           \* GCS.objectLocationMap
    \* history of the reports that never reached the map
    lost,                \* sent on a closed connection, or closed with it
    ignored              \* received before the acknowledgement

taskVars == <<taken, storage, registerChan>>
evVars   == <<evPc, evObject>>
loopVars == <<loopPc, loopObject>>
procVars == <<crashed, cancelled>>
linkVars == <<dials, up, asked, wire, gcsEst>>
history  == <<lost, ignored>>
vars     == <<taskVars, gcsConn, evVars, loopVars, procVars, linkVars, locations, history>>

QueueOK ==
    /\ taken \in 0 .. MaxTasks
    /\ storage \subseteq Objects
    /\ registerChan \in Seq(Objects) /\ Len(registerChan) <= ChanSize

ThreadsOK ==
    /\ evPc \in {"idle", "store", "register", "ack"}
    /\ evObject \in Objects \cup {NoObject}
    /\ (evPc \in {"store", "register"}) <=> (evObject # NoObject)
    /\ loopPc \in {"select", "send", "dead", "returned"}
    /\ loopObject \in Objects \cup {NoObject}
    /\ (loopPc \in {"select", "returned"}) <=> (loopObject = NoObject)
    /\ crashed \in BOOLEAN /\ cancelled \in BOOLEAN

LinkOK ==
    /\ gcsConn \in 0 .. dials
    /\ dials \in 0 .. MaxDials /\ up \in BOOLEAN
    /\ asked \subseteq 1 .. dials
    /\ wire \in Seq(Objects \cup {Ack})
    /\ gcsEst \in BOOLEAN
    /\ ~up => wire = <<>> /\ ~gcsEst

ReportsOK ==
    /\ locations \subseteq Objects
    /\ lost \subseteq Objects /\ ignored \subseteq Objects

TypeOK == QueueOK /\ ThreadsOK /\ LinkOK /\ ReportsOK

Init ==
    /\ taken = 0 /\ storage = {} /\ registerChan = <<>>
    /\ gcsConn = NoConn
    /\ evPc = "idle" /\ evObject = NoObject
    /\ loopPc = "select" /\ loopObject = NoObject
    /\ crashed = FALSE /\ cancelled = FALSE
    /\ dials = 0 /\ up = FALSE /\ asked = {} /\ wire = <<>> /\ gcsEst = FALSE
    /\ locations = {} /\ lost = {} /\ ignored = {}

-----------------------------------------------------------------------------
(* The event loop: onAssignTask                                            *)

NextRequest == evPc = "idle" /\ taken < MaxTasks

\* mutant: the id is registered before the object is stored.
OnAddTowIntRegistersFirst ==
    /\ NextRequest
    /\ taken' = taken + 1
    /\ evPc' = "register" /\ evObject' = taken + 1
    /\ UNCHANGED <<storage, registerChan, gcsConn, loopVars, procVars, linkVars,
                   locations, history>>

\* addTowInt with typed arguments runs.  A failing one (not two numbers) goes
\* the same way with result 0, and is rejected only after it was registered.
OnAddTowInt ==
    /\ NextRequest
    /\ taken' = taken + 1
    /\ evPc' = "store" /\ evObject' = taken + 1
    /\ UNCHANGED <<storage, registerChan, gcsConn, loopVars, procVars, linkVars,
                   locations, history>>

\* A function the worker does not know: accepted, and nothing is done.
OnUnknownFunction ==
    /\ NextRequest
    /\ taken' = taken + 1
    /\ UNCHANGED <<storage, registerChan, gcsConn, evVars, loopVars, procVars, linkVars,
                   locations, history>>

\* A request with arguments and without ArgsType, which is how AssignTask of
\* the scheduler sends them: ArgsType[i] is out of range.
OnUntypedArguments ==
    /\ NextRequest
    /\ taken' = taken + 1
    /\ crashed' = TRUE
    /\ UNCHANGED <<storage, registerChan, gcsConn, evVars, loopVars, cancelled, linkVars,
                   locations, history>>

StoreObject ==
    /\ evPc = "store"
    /\ storage' = storage \cup {evObject}
    /\ evPc' = "register"
    /\ UNCHANGED <<taken, registerChan, gcsConn, evObject, loopVars, procVars, linkVars,
                   locations, history>>

\* mutants: an off-by-one in the capacity; a full channel drops the id.
RegisterOverfills ==
    /\ evPc = "register" /\ Len(registerChan) <= ChanSize
    /\ registerChan' = Append(registerChan, evObject)
    /\ evPc' = "idle" /\ evObject' = NoObject
    /\ UNCHANGED <<taken, storage, gcsConn, loopVars, procVars, linkVars, locations,
                   history>>
RegisterOrDrop ==
    /\ evPc = "register"
    /\ registerChan' = IF Len(registerChan) < ChanSize
                       THEN Append(registerChan, evObject) ELSE registerChan
    /\ evPc' = "idle" /\ evObject' = NoObject
    /\ UNCHANGED <<taken, storage, gcsConn, loopVars, procVars, linkVars, locations,
                   history>>

\* The event loop waits here while the channel is full.  The answer to the
\* scheduler follows.
RegisterBuffered ==
    /\ evPc = "register" /\ Len(registerChan) < ChanSize
    /\ registerChan' = Append(registerChan, evObject)
    /\ evPc' = "idle" /\ evObject' = NoObject
    /\ UNCHANGED <<taken, storage, gcsConn, loopVars, procVars, linkVars, locations,
                   history>>

\* Loop waits on the channel and takes the id directly.
RegisterDirect ==
    /\ evPc = "register" /\ loopPc = "select" /\ registerChan = <<>>
    /\ loopPc' = "send" /\ loopObject' = evObject
    /\ evPc' = "idle" /\ evObject' = NoObject
    /\ UNCHANGED <<taskVars, gcsConn, procVars, linkVars, locations, history>>

-----------------------------------------------------------------------------
(* The event loop: onEstablish of the GCS                                  *)

\* gcsConn is set ...
OnEstablish(c) ==
    /\ evPc = "idle" /\ c \in asked
    /\ asked' = asked \ {c}
    /\ gcsConn' = c
    /\ evPc' = "ack"
    /\ UNCHANGED <<taskVars, evObject, loopVars, procVars, dials, up, wire, gcsEst,
                   locations, history>>

\* ... and then the acknowledgement is sent.
SendAck ==
    /\ evPc = "ack"
    /\ wire' = IF up /\ gcsConn = dials THEN Append(wire, Ack) ELSE wire
    /\ evPc' = "idle"
    /\ UNCHANGED <<taskVars, gcsConn, evObject, loopVars, procVars, dials, up, asked,
                   gcsEst, locations, history>>

-----------------------------------------------------------------------------
(* connectionManager.Loop                                                  *)

\* mutant: Loop waits for a second id before it takes one.
LoopReceivesPairs ==
    /\ loopPc = "select" /\ Len(registerChan) > 1
    /\ loopPc' = "send" /\ loopObject' = Head(registerChan)
    /\ registerChan' = Tail(registerChan)
    /\ UNCHANGED <<taken, storage, gcsConn, evVars, procVars, linkVars, locations, history>>

LoopReceive ==
    /\ loopPc = "select" /\ registerChan # <<>>
    /\ loopPc' = "send" /\ loopObject' = Head(registerChan)
    /\ registerChan' = Tail(registerChan)
    /\ UNCHANGED <<taken, storage, gcsConn, evVars, procVars, linkVars, locations, history>>

\* mutant: the report waits until the connection is open.
LoopSendWaits ==
    /\ loopPc = "send" /\ up /\ gcsConn = dials
    /\ wire' = Append(wire, loopObject)
    /\ loopPc' = "select" /\ loopObject' = NoObject
    /\ UNCHANGED <<taskVars, gcsConn, evVars, procVars, dials, up, asked, gcsEst,
                   locations, history>>

\* The report is sent on gcsConn, whatever comes of it.
LoopSend ==
    /\ loopPc = "send" /\ gcsConn # NoConn
    /\ IF up /\ gcsConn = dials
       THEN wire' = Append(wire, loopObject) /\ UNCHANGED lost
       ELSE lost' = lost \cup {loopObject} /\ UNCHANGED wire
    /\ loopPc' = "select" /\ loopObject' = NoObject
    /\ UNCHANGED <<taskVars, gcsConn, evVars, procVars, dials, up, asked, gcsEst,
                   locations, ignored>>

\* Send on a nil gcsConn panics; the pool swallows the panic and Loop is gone.
LoopDies ==
    /\ loopPc = "send" /\ gcsConn = NoConn
    /\ loopPc' = "dead"
    /\ UNCHANGED <<taskVars, gcsConn, evVars, loopObject, procVars, linkVars, locations,
                   history>>

\* The context is done: Loop returns, while the event loop goes on.  With an id
\* on the channel too the select may take either case.
LoopReturns ==
    /\ loopPc = "select" /\ cancelled
    /\ loopPc' = "returned"
    /\ UNCHANGED <<taskVars, gcsConn, evVars, loopObject, procVars, linkVars, locations,
                   history>>

\* The worker's program ends the context.
Cancel ==
    /\ ~cancelled
    /\ cancelled' = TRUE
    /\ UNCHANGED <<taskVars, gcsConn, evVars, loopVars, crashed, linkVars, locations,
                   history>>

-----------------------------------------------------------------------------
(* The GCS and its connection                                              *)

\* GCS.Connect and every redial; Establish is sent at once.
GcsDial ==
    /\ ~up /\ dials < MaxDials
    /\ dials' = dials + 1 /\ up' = TRUE
    /\ asked' = asked \cup {dials + 1}
    /\ wire' = <<>> /\ gcsEst' = FALSE
    /\ UNCHANGED <<taskVars, gcsConn, evVars, loopVars, procVars, locations, history>>

\* mutant: the worker forgets a closed gcsConn.
DownForgetsConn ==
    /\ up
    /\ up' = FALSE /\ wire' = <<>> /\ gcsEst' = FALSE
    /\ lost' = lost \cup (Range(wire) \ {Ack})
    /\ gcsConn' = NoConn
    /\ UNCHANGED <<taskVars, evVars, loopVars, procVars, dials, asked, locations, ignored>>

\* The connection closes, with what was on it.  The worker's OnClose does not
\* touch gcsConn, and an Establish may still be read after a later one.
LinkDown ==
    /\ up
    /\ up' = FALSE /\ wire' = <<>> /\ gcsEst' = FALSE
    /\ lost' = lost \cup (Range(wire) \ {Ack})
    /\ UNCHANGED <<taskVars, gcsConn, evVars, loopVars, procVars, dials, asked, locations,
                   ignored>>

GcsOnAck ==
    /\ up /\ wire # <<>> /\ Head(wire) = Ack
    /\ gcsEst' = TRUE
    /\ wire' = Tail(wire)
    /\ UNCHANGED <<taskVars, gcsConn, evVars, loopVars, procVars, dials, up, asked,
                   locations, history>>

\* A report: the location is noted, unless Establish is not acknowledged yet.
OnReportTaskResult ==
    /\ up /\ wire # <<>> /\ Head(wire) # Ack
    /\ wire' = Tail(wire)
    /\ IF gcsEst
       THEN locations' = locations \cup {Head(wire)} /\ UNCHANGED ignored
       ELSE ignored' = ignored \cup {Head(wire)} /\ UNCHANGED locations
    /\ UNCHANGED <<taskVars, gcsConn, evVars, loopVars, procVars, dials, up, asked,
                   gcsEst, lost>>

-----------------------------------------------------------------------------
EventLoop ==
    \/ StoreObject \/ RegisterBuffered \/ RegisterDirect \/ SendAck
    \/ \E c \in Conns : OnEstablish(c)

Loop == LoopReceive \/ LoopSend \/ LoopDies \/ LoopReturns

Gcs == GcsDial \/ GcsOnAck \/ OnReportTaskResult

Next ==
    /\ ~crashed
    /\ \/ OnAddTowInt \/ OnUnknownFunction \/ OnUntypedArguments
       \/ EventLoop \/ Loop \/ Cancel \/ Gcs \/ LinkDown

Spec == Init /\ [][Next]_vars

\* The event loop, the goroutine of Loop and the GCS's connection (whose Loop
\* redials, see ClientConn) are scheduled.  Nobody has to send requests or to cancel.
FairSpec ==
    /\ Spec
    /\ WF_vars(~crashed /\ EventLoop)
    /\ WF_vars(~crashed /\ Loop)
    /\ WF_vars(~crashed /\ Gcs)

-----------------------------------------------------------------------------
(* Properties                                                              *)

\* An object the GCS locates at the worker is in the worker's storage: the
\* report overtakes the event loop, so the object must be stored first.
LocationIsStored == locations \subseteq storage

\* What is on its way from onAddTowInt to the GCS, in whatever thread, channel or
\* connection it is.
ReportsUnderWay ==
    {o \in {evObject} : evPc = "register"} \cup {loopObject} \cup Range(registerChan)
        \cup Range(wire)

\* Threads, channel and connections implement what Reports promises: a report is
\* of a stored object, is noted or missed, never both and never twice.
Promise == INSTANCE Reports
    WITH Results <- Objects, stored <- storage, underWay <- ReportsUnderWay \ {NoObject, Ack},
         known <- locations, missed <- lost \cup ignored
ImplementsReports == Promise!ReportsSpec

\* The report of a stored object is under way, noted, or was lost with a
\* connection or ignored; it is never dropped between the threads.
NoReportForgotten ==
    \A o \in storage :
        \/ o \in {evObject, loopObject} \cup Range(registerChan) \cup Range(wire)
        \/ o \in locations \cup lost \cup ignored

\* Loop reports no more: it has panicked, or returned after a cancel.
LoopEnded == loopPc \in {"dead", "returned"}

\* Once one Establish of the GCS was handled, whatever becomes of that connection
\* and of the later ones, the reporting goroutine does not die of them: it ends
\* after a cancel only, and then with no id in its hands.
ReporterSurvives ==
    [][(1 .. dials) \ asked # {} /\ ~LoopEnded /\ LoopEnded'
           => cancelled /\ loopObject = NoObject]_vars

\* The event loop is never stuck at a full registerObjectChan, which would stop
\* every handler, the one that sets gcsConn included, unless Loop has ended: after
\* a panic or a cancel nobody empties the channel, and gnet's event loop goes on
\* until it is full.
EventLoopUnblocks ==
    (evPc = "register") ~> (evPc # "register" \/ LoopEnded \/ crashed)

\* Every stored object is located by the GCS in the end, unless its report was
\* lost or ignored, or Loop has ended, or the process.
ReportsArrive ==
    \A o \in Objects : (o \in storage) ~>
        (o \in locations \cup lost \cup ignored \/ LoopEnded \/ crashed)

\* "Report the result and the object's location, and the GCS updates lineage and
\* state" (timeline.md:29): no report reaches a GCS that throws it away.
EarlyReportKept == ignored = {}

\* The task of test/network_test.go:80 (addTowInt, two arguments, no ArgsType)
\* does not take the worker down.
WorkerSurvives == ~crashed

=============================================================================
