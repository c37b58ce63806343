-------------------------------- MODULE Objects --------------------------------
(***************************************************************************)
(* Tasks that use the results of other tasks: the workers that execute and *)
(* store, the GCS that is told where, and the peers that ask either for it.*)
(* Every handler runs to its end on the event loop of its process, so an   *)
(* action is a whole OnPacket.  A worker or the GCS may die, of a panic or *)
(* otherwise, and is started again with empty maps.                        *)
(*                                                                         *)
(* The way of a report, from registerObjectChan to the GCS, with all that  *)
(* can delay or lose it, is module Worker; here it arrives or it does not. *)
(* External: the senders of the requests.  They fill in ArgsType (what     *)
(* happens to a request without is in Worker), send a task to any worker   *)
(* and any number of times, as AssignTask does, and name only objects that *)
(* were made.                                                              *)
(***************************************************************************)
EXTENDS Ints, FiniteSets

CONSTANTS Workers,       \* addresses; a worker restarts at its own
          Functions,     \* names of functions
          AddTowInt,     \* the one the workers have
          Calls,         \* what a task may be: a function and its arguments
          Stamps,        \* readings of time.Now() in object ids
          MaxTasks, MaxDeaths, MaxQueries,      \* bounds
          NoAnswer

TaskNumbers == 1 .. MaxTasks

\* An object id is made of the task's id, the function and the time.  Two
\* workers, or two runs, may come to the same id.
ObjectIDs == [task : TaskNumbers, stamp : Stamps]

\* An argument of type "object" is the name of one, the others are values.
Arg  == [type : {"value"}, data : Data] \cup [type : {"object"}, id : ObjectIDs]
Call == [func : Functions, args : Seq(Arg)]

ASSUME ObjectsAssumption ==
    /\ Calls \subseteq Call
    /\ MaxTasks \in Nat /\ MaxDeaths \in Nat /\ MaxQueries \in Nat

VARIABLES
    tasks,               \* history: the tasks sent, with what they should yield
    storage,             \* of each worker: objectStorage.objects
    running,             \* the workers that are
    reports,             \* of each worker: ids on their way to the GCS
    locations,           \* GCS.objectLocationMap
    gcsRunning,
    answer,              \* the last GetObjectDataResponse
    \* history
    accepted, rejected,  \* of each worker: tasks it has answered
    forgotten,           \* of each worker: objects it held when it died
    deaths, queries

gcsVars == <<locations, gcsRunning, queries>>
history == <<accepted, rejected, forgotten>>
vars    == <<tasks, storage, running, reports, gcsVars, answer, history, deaths>>

\* yield is what AddTowInt makes of the arguments if every object is what its
\* own task yields, wherever it was made.
Result == [ok : BOOLEAN, data : Data]
Task   == [func : Functions, args : Seq(Arg), yield : Result]
Answer == [id : ObjectIDs, found : BOOLEAN, data : Data]

\* The rest of these requests is not read.
ReportTaskResultRequest == ObjectIDs
GetObjectDataRequest    == ObjectIDs

Held(w)   == DOMAIN storage[w]
Located   == DOMAIN locations

StoresOK ==
    /\ tasks \in Seq(Task) /\ Len(tasks) <= MaxTasks
    /\ DOMAIN storage = Workers
    /\ \A w \in Workers : /\ Held(w) \subseteq ObjectIDs
                          /\ storage[w] \in [Held(w) -> Data]
    /\ reports \in [Workers -> SUBSET ReportTaskResultRequest]
    /\ Located \subseteq ObjectIDs /\ locations \in [Located -> Workers]

TypeOK ==
    /\ StoresOK
    /\ running \subseteq Workers /\ gcsRunning \in BOOLEAN
    /\ answer \in Answer \cup {NoAnswer}
    /\ accepted \in [Workers -> SUBSET TaskNumbers]
    /\ rejected \in [Workers -> SUBSET TaskNumbers]
    /\ forgotten \in [Workers -> SUBSET ObjectIDs]
    /\ deaths \in 0 .. MaxDeaths /\ queries \in 0 .. MaxQueries

Init ==
    /\ tasks = <<>>
    /\ storage = [w \in Workers |-> <<>>]
    /\ running = Workers
    /\ reports = [w \in Workers |-> {}]
    /\ locations = <<>> /\ gcsRunning = TRUE
    /\ answer = NoAnswer
    /\ accepted = [w \in Workers |-> {}] /\ rejected = [w \in Workers |-> {}]
    /\ forgotten = [w \in Workers |-> {}]
    /\ deaths = 0 /\ queries = 0

-----------------------------------------------------------------------------
(* Packets: what unmarshalByURI makes of a body, and what the handlers     *)
(* assert it to be.  A failed assertion leaves a nil pointer.              *)

MetaUris == {"MetaEstablish", "MetaEstablishAck", "MetaShakeHand", "MetaShakeHandResp"}

Decoded(uri) ==
    CASE uri = "MetaEstablish"            -> "EstablishReq"
      [] uri = "MetaEstablishAck"         -> "EstablishResponse"
      [] uri = "MetaShakeHand"            -> "ShakeHandReq"
      [] uri = "MetaShakeHandResp"        -> "ShakeHandResp"
      [] uri = "DriverSubmitTask"         -> "DriverSubmitTaskRequest"
      [] uri = "SchedulerSubmitTaskResp"  -> "SchedulerSubmitTaskResponse"
      [] uri = "RayRegisterTaskToGCS"     -> "RegisterTaskToGCSRequest"
      [] uri = "RayRegisterTaskToGCSResp" -> "RegisterTaskToGCSResponse"
      [] uri = "RayFetchTask"             -> "FetchTaskRequest"
      [] uri = "RayFetchTaskResp"         -> "FetchTaskResponse"
      [] uri = "RayGetObjectLocation"     -> "GetObjectLocationRequest"
      [] uri = "RayGetObjectLocationResp" -> "GetObjectLocationResponse"
      [] uri = "RayReportTaskResult"      -> "ReportTaskResultRequest"
      [] uri = "RayReportTaskResultResp"  -> "ReportTaskResultResponse"
      [] uri = "RayGetTaskResult"         -> "GetTaskResultRequest"
      [] uri = "RayGetTaskResultResp"     -> "GetTaskResultResponse"
      [] uri = "RayAssignTask"            -> "AssignTaskRequest"
      [] uri = "RayAssignTaskResp"        -> "AssignTaskResponse"
      [] uri = "RayGetObjectData"         -> "GetObjectDataRequest"
      [] uri = "RayGetObjectDataResp"     -> "GetObjectDataResponse"

IsNil(uri, asserted) == Decoded(uri) # asserted

\* Which packets the three OnPacket read, as what.
Asserted ==
    [scheduler |-> {<<"MetaEstablish", "EstablishReq">>,
                    <<"MetaEstablishAck", "EstablishResponse">>,
                    <<"RayAssignTaskResp", "AssignTaskResponse">>},
     worker    |-> {<<"MetaEstablish", "EstablishReq">>,
                    <<"RayAssignTask", "AssignTaskRequest">>,
                    <<"RayGetObjectData", "GetObjectDataRequest">>,
                    <<"RayGetObjectLocationResp", "GetObjectLocationResponse">>,
                    <<"RayGetObjectDataResp", "GetObjectDataResponse">>},
     gcs       |-> {<<"MetaEstablish", "EstablishReq">>,
                    <<"RayReportTaskResult", "ReportTaskResultRequest">>,
                    <<"RayGetObjectLocation", "GetObjectDataRequest">>}]

-----------------------------------------------------------------------------
(* The worker                                                              *)

\* AddTowIntFunc: two ints, or an error and 0.
AddTowIntFunc(data) ==
    IF Len(data) = 2 /\ \A i \in 1 .. Len(data) : Decodable(data[i])
    THEN [ok |-> TRUE,  data |-> EncodeInt(DecodeInt(data[1]) + DecodeInt(data[2]))]
    ELSE [ok |-> FALSE, data |-> EncodeInt(0)]

\* The arguments with the objects replaced by their data.
Resolve(args, objects) ==
    [i \in 1 .. Len(args) |->
        IF args[i].type = "object" THEN objects[args[i].id] ELSE args[i].data]

Needs(args) == {args[i].id : i \in {j \in 1 .. Len(args) : args[j].type = "object"}}

Die(w) ==
    /\ running' = running \ {w}
    /\ forgotten' = [forgotten EXCEPT ![w] = @ \cup Held(w)]
    /\ storage' = [storage EXCEPT ![w] = <<>>]
    /\ deaths' = deaths + 1
    /\ UNCHANGED <<tasks, reports, gcsVars, answer, accepted, rejected>>

Answered(w, t, ok) ==
    /\ accepted' = IF ok THEN [accepted EXCEPT ![w] = @ \cup {t}] ELSE accepted
    /\ rejected' = IF ok THEN rejected ELSE [rejected EXCEPT ![w] = @ \cup {t}]

\* mutant: the int is stored as one digit.
SetObjectRaw(w, id, data) ==
    storage' = [storage EXCEPT ![w] =
                   [o \in Held(w) \cup {id} |-> IF o = id THEN <<DecodeInt(data)>> ELSE @[o]]]

\* objectStorage.SetObject
SetObject(w, id, data) ==
    storage' = [storage EXCEPT ![w] =
                   [o \in Held(w) \cup {id} |-> IF o = id THEN data ELSE @[o]]]

Executable(w, t) ==
    /\ w \in running
    /\ ~IsNil("RayAssignTask", "AssignTaskRequest")
    /\ Needs(tasks[t].args) \subseteq Held(w)

\* mutant: the result of a task that failed is registered and not stored.
StoreUnlessFailed(w, t) ==
    LET result == AddTowIntFunc(Resolve(tasks[t].args, storage[w]))
    IN  /\ Executable(w, t) /\ tasks[t].func = AddTowInt
        /\ \E s \in Stamps :
              LET id == [task |-> t, stamp |-> s]
              IN  /\ IF result.ok THEN SetObject(w, id, result.data)
                                  ELSE UNCHANGED storage
                  /\ reports' = [reports EXCEPT ![w] = @ \cup {id}]
        /\ Answered(w, t, result.ok)
        /\ UNCHANGED <<tasks, running, gcsVars, answer, forgotten, deaths>>

\* onAssignTask of addTowInt, every object at hand.  The result is stored and
\* registered before the error of AddTowIntFunc is looked at.
OnAddTowInt(w, t) ==
    LET result == AddTowIntFunc(Resolve(tasks[t].args, storage[w]))
    IN  /\ Executable(w, t) /\ tasks[t].func = AddTowInt
        /\ \E s \in Stamps :
              LET id == [task |-> t, stamp |-> s]
              IN  /\ SetObject(w, id, result.data)
                  /\ reports' = [reports EXCEPT ![w] = @ \cup {id}]
        /\ Answered(w, t, result.ok)
        /\ UNCHANGED <<tasks, running, gcsVars, answer, forgotten, deaths>>

\* A function nobody has: accepted, and nothing is done.
OnUnknownFunction(w, t) ==
    /\ Executable(w, t) /\ tasks[t].func # AddTowInt
    /\ Answered(w, t, TRUE)
    /\ UNCHANGED <<tasks, storage, running, reports, gcsVars, answer, forgotten, deaths>>

\* mutant: an argument that is not at hand is passed on as it came.
RunWithoutObject(w, t) ==
    /\ w \in running /\ deaths < MaxDeaths /\ tasks[t].func = AddTowInt
    /\ ~(Needs(tasks[t].args) \subseteq Held(w))
    /\ \E s \in Stamps :
          /\ SetObject(w, [task |-> t, stamp |-> s], EncodeInt(0))
          /\ reports' = [reports EXCEPT ![w] = @ \cup {[task |-> t, stamp |-> s]}]
    /\ Answered(w, t, FALSE)
    /\ UNCHANGED <<tasks, running, gcsVars, answer, forgotten, deaths>>

\* mutant: the function runs with what there is, and the error is lost.
RunAnyway(w, t) ==
    /\ w \in running /\ deaths < MaxDeaths
    /\ ~(Needs(tasks[t].args) \subseteq Held(w))
    /\ Answered(w, t, TRUE)
    /\ UNCHANGED <<tasks, storage, running, reports, gcsVars, answer, forgotten, deaths>>

\* One that is not: objectID.(ObjectID) fails on the string it holds, before
\* getRemoteObject is called, and the panic ends the process.
OnRemoteObject(w, t) ==
    /\ w \in running /\ deaths < MaxDeaths
    /\ ~(Needs(tasks[t].args) \subseteq Held(w))
    /\ Die(w)

\* onGetObjectLocationResp and onGetObjectDataResp: the channels are looked up
\* in maps nobody makes, and the event loop waits for ever to send on a nil one.
\* Such a worker answers nothing until it is killed and started again.
OnUnaskedResponse(w) ==
    /\ w \in running /\ deaths < MaxDeaths
    /\ Die(w)

\* mutant: the answer is always Found.
AlwaysFound(w, o) ==
    /\ w \in running
    /\ answer' = [id |-> o, found |-> TRUE,
                  data |-> IF o \in Held(w) THEN storage[w][o] ELSE <<>>]
    /\ UNCHANGED <<tasks, storage, running, reports, gcsVars, history, deaths>>

\* onGetObjectData
OnGetObjectData(w, o) ==
    /\ w \in running /\ ~IsNil("RayGetObjectData", "GetObjectDataRequest")
    /\ answer' = IF o \in Held(w)
                 THEN [id |-> o, found |-> TRUE,  data |-> storage[w][o]]
                 ELSE [id |-> o, found |-> FALSE, data |-> <<>>]
    /\ UNCHANGED <<tasks, storage, running, reports, gcsVars, history, deaths>>

-----------------------------------------------------------------------------
(* The GCS                                                                 *)

\* onReportTaskResult: the sender is where the object is.
OnReportTaskResult(w, o) ==
    /\ gcsRunning /\ o \in reports[w]
    /\ ~IsNil("RayReportTaskResult", "ReportTaskResultRequest")
    /\ locations' = [p \in Located \cup {o} |-> IF p = o THEN w ELSE locations[p]]
    /\ reports' = [reports EXCEPT ![w] = @ \ {o}]
    /\ UNCHANGED <<tasks, storage, running, gcsRunning, queries, answer, history, deaths>>

\* A location query of an inbound connection: req is nil, reading req.ObjectId
\* panics before onGetObjectLocation is called, and no loop of gnet.Run recovers.
OnGetObjectLocation ==
    /\ gcsRunning /\ queries < MaxQueries
    /\ IsNil("RayGetObjectLocation", "GetObjectDataRequest")
    /\ gcsRunning' = FALSE
    /\ queries' = queries + 1
    /\ UNCHANGED <<tasks, storage, running, reports, locations, answer, history, deaths>>

-----------------------------------------------------------------------------
(* External                                                                *)

\* The objects as a single process would have them.
Ideal == [o \in {p \in ObjectIDs : p.task <= Len(tasks)} |-> tasks[o.task].yield.data]

Made(o) == \E w \in Workers : o \in Held(w) \cup forgotten[w]

\* A peer makes up a task.
Submit(call) ==
    /\ Len(tasks) < MaxTasks
    /\ \A o \in Needs(call.args) : Made(o)
    /\ tasks' = Append(tasks,
           [func |-> call.func, args |-> call.args,
            yield |-> AddTowIntFunc(Resolve(call.args, Ideal))])
    /\ UNCHANGED <<storage, running, reports, gcsVars, answer, history, deaths>>

\* The report is lost: a connection broke, or the GCS was not up.
LoseReport(w, o) ==
    /\ o \in reports[w]
    /\ reports' = [reports EXCEPT ![w] = @ \ {o}]
    /\ UNCHANGED <<tasks, storage, running, gcsVars, answer, history, deaths>>

Killed(w) == w \in running /\ deaths < MaxDeaths /\ Die(w)

Restart(w) ==
    /\ w \notin running
    /\ running' = running \cup {w}
    /\ UNCHANGED <<tasks, storage, reports, gcsVars, answer, history, deaths>>

GcsRestart ==
    /\ ~gcsRunning
    /\ gcsRunning' = TRUE
    /\ locations' = <<>>
    /\ UNCHANGED <<tasks, storage, running, reports, queries, answer, history, deaths>>

-----------------------------------------------------------------------------
Worker(w) ==
    \/ \E t \in 1 .. Len(tasks) :
          OnAddTowInt(w, t) \/ OnUnknownFunction(w, t) \/ OnRemoteObject(w, t)
    \/ \E o \in GetObjectDataRequest : OnGetObjectData(w, o)
    \/ OnUnaskedResponse(w)

Gcs ==
    \/ \E w \in Workers, o \in ReportTaskResultRequest : OnReportTaskResult(w, o)
    \/ OnGetObjectLocation

External ==
    \/ \E call \in Calls : Submit(call)
    \/ \E w \in Workers, o \in ObjectIDs : LoseReport(w, o)
    \/ \E w \in Workers : Killed(w) \/ Restart(w)
    \/ GcsRestart

Next == Gcs \/ External \/ \E w \in Workers : Worker(w)

Spec == Init /\ [][Next]_vars

-----------------------------------------------------------------------------
(* Properties                                                              *)

\* However a task is spread, repeated, and its arguments taken from the storage
\* of whoever runs it, every copy of its result is what a single process would
\* have computed: with that, it does no harm that two objects may have one id,
\* and that a run may overwrite the result of another.
CopiesAgree ==
    \A w \in Workers : \A o \in Held(w) :
        o \in DOMAIN Ideal /\ storage[w][o] = Ideal[o]

\* No task is accepted by one worker and rejected by another, or first the one
\* and then the other: a rejection is never the fault of the worker.
OneVerdict == \A v, w \in Workers : accepted[v] \cap rejected[w] = {}

\* A task that names objects is answered only by a worker that holds, or held
\* before it died, all of them; the others do not come back with an error.
AnsweredByHolders ==
    \A w \in Workers : \A t \in accepted[w] \cup rejected[w] :
        Needs(tasks[t].args) \subseteq Held(w) \cup forgotten[w]

\* The GCS names a worker that holds the object, unless the worker has died
\* since: its map outlives the storage, and nothing is ever taken out.
LocatedOrForgotten ==
    \A o \in Located : o \in Held(locations[o]) \cup forgotten[locations[o]]

\* Data that is handed out is the result of the task in the object's name.
FoundIsResult ==
    answer # NoAnswer /\ answer.found =>
        answer.id \in DOMAIN Ideal /\ answer.data = Ideal[answer.id]

=============================================================================
