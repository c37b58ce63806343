----------------------------- MODULE ObjectsProofs -----------------------------
(***************************************************************************)
(* Proofs about Objects for any functions and calls, any number of workers,*)
(* tasks and deaths, and ints of any width: copies agree, verdicts agree,  *)
(* a task with objects is answered where they are, and locations hold.     *)
(*                                                                         *)
(* Of this nothing depends on what AddTowIntFunc computes, only on its     *)
(* being a function of its arguments.  What it does compute, for any base  *)
(* and number of digits, is stated before the types, which rest on it.     *)
(***************************************************************************)
EXTENDS Objects, DataLemmas, TLAPS

-----------------------------------------------------------------------------
(* Shapes                                                                  *)

TasksOK == tasks \in Seq({tasks[i] : i \in 1 .. Len(tasks)}) /\ Len(tasks) <= MaxTasks

StoragesOK == DOMAIN storage = Workers /\ \A w \in Workers : Held(w) \subseteq ObjectIDs

SetsOK ==
    /\ reports \in [Workers -> SUBSET ObjectIDs]
    /\ accepted \in [Workers -> SUBSET TaskNumbers]
    /\ rejected \in [Workers -> SUBSET TaskNumbers]
    /\ forgotten \in [Workers -> SUBSET ObjectIDs]
    /\ Located \subseteq ObjectIDs /\ locations \in [Located -> Workers]

Shape == TasksOK /\ StoragesOK /\ SetsOK

\* A task keeps its number.
LEMMA Submitted ==
    ASSUME TasksOK, NEW call \in Calls, Submit(call)
    PROVE  /\ TasksOK' /\ Len(tasks) \in Nat /\ Len(tasks') = Len(tasks) + 1
           /\ \A t \in 1 .. Len(tasks) : tasks'[t] = tasks[t]
           /\ tasks'[Len(tasks) + 1].args = call.args
           /\ tasks'[Len(tasks) + 1].yield = AddTowIntFunc(Resolve(call.args, Ideal))
<1> DEFINE task == [func |-> call.func, args |-> call.args,
                    yield |-> AddTowIntFunc(Resolve(call.args, Ideal))]
           Old == {tasks[i] : i \in 1 .. Len(tasks)}
           New == Old \cup {task}
<1>1. tasks' = Append(tasks, task) /\ Len(tasks) < MaxTasks
  BY DEF Submit
<1>2. tasks \in Seq(Old) /\ Len(tasks) \in Nat /\ MaxTasks \in Nat
  BY ObjectsAssumption DEF TasksOK
<1>3. tasks \in Seq(New) /\ task \in New
  BY <1>2, SeqMonotonic
<1>4. task.args = call.args /\ task.yield = AddTowIntFunc(Resolve(call.args, Ideal))
  OBVIOUS
<1> HIDE DEF task, New
<1>5. /\ tasks' \in Seq(New) /\ Len(tasks') = Len(tasks) + 1
      /\ \A t \in 1 .. Len(tasks) : tasks'[t] = tasks[t]
      /\ tasks'[Len(tasks) + 1] = task
  BY <1>1, <1>2, <1>3, AppendProperties
<1>6. New \subseteq {tasks'[i] : i \in 1 .. Len(tasks')}
  <2>1. task \in {tasks'[i] : i \in 1 .. Len(tasks')}
    BY <1>2, <1>5
  <2>2. \A i \in 1 .. Len(tasks) : tasks[i] \in {tasks'[j] : j \in 1 .. Len(tasks')}
    BY <1>2, <1>5
  <2>3. QED
    BY <2>1, <2>2 DEF New
<1>7. tasks' \in Seq({tasks'[i] : i \in 1 .. Len(tasks')})
  BY <1>5, <1>6, SeqMonotonic
<1>8. Len(tasks') <= MaxTasks
  BY <1>1, <1>2, <1>5
<1>9. QED
  BY <1>2, <1>4, <1>5, <1>7, <1>8 DEF TasksOK

\* SetObject adds one object to one worker's storage, or overwrites it.
LEMMA Stored ==
    ASSUME StoragesOK, NEW w \in Workers, NEW id \in ObjectIDs, NEW data, SetObject(w, id, data)
    PROVE  /\ StoragesOK'
           /\ Held(w)' = Held(w) \cup {id}
           /\ storage'[w][id] = data
           /\ \A o \in Held(w) \ {id} : storage'[w][o] = storage[w][o]
           /\ \A v \in Workers \ {w} : storage'[v] = storage[v]
BY DEF StoragesOK, SetObject, Held

\* A worker that dies leaves its objects to the history.
LEMMA Died ==
    ASSUME Shape, NEW w \in Workers, Die(w)
    PROVE  /\ Shape'
           /\ Held(w)' = {} /\ forgotten'[w] = forgotten[w] \cup Held(w)
           /\ \A v \in Workers \ {w} : /\ storage'[v] = storage[v]
                                       /\ forgotten'[v] = forgotten[v]
<1>1. storage' = [storage EXCEPT ![w] = <<>>] /\ DOMAIN storage = Workers
  BY DEF Die, Shape, StoragesOK
<1>2. Held(w)' = {} /\ \A v \in Workers \ {w} : storage'[v] = storage[v]
  BY <1>1 DEF Held
<1>3. StoragesOK'
  BY <1>1, <1>2 DEF StoragesOK, Shape, Held
<1>4. /\ forgotten' \in [Workers -> SUBSET ObjectIDs]
      /\ forgotten'[w] = forgotten[w] \cup Held(w)
      /\ \A v \in Workers \ {w} : forgotten'[v] = forgotten[v]
  BY DEF Die, Shape, SetsOK, StoragesOK
<1>5. TasksOK' /\ SetsOK'
  BY <1>4 DEF Die, Shape, TasksOK, SetsOK, Located, gcsVars
<1>6. QED
  BY <1>2, <1>3, <1>4, <1>5 DEF Shape

\* An answer is noted with one worker, as one verdict.
LEMMA Noted ==
    ASSUME SetsOK, NEW w \in Workers, NEW t \in TaskNumbers, NEW ok \in BOOLEAN,
           Answered(w, t, ok)
    PROVE  /\ accepted' \in [Workers -> SUBSET TaskNumbers]
           /\ rejected' \in [Workers -> SUBSET TaskNumbers]
           /\ \A v \in Workers : /\ accepted'[v] \subseteq accepted[v] \cup {t}
                                 /\ rejected'[v] \subseteq rejected[v] \cup {t}
                                 /\ ~ok => accepted'[v] = accepted[v]
                                 /\ ok => rejected'[v] = rejected[v]
                                 /\ v # w => /\ accepted'[v] = accepted[v]
                                             /\ rejected'[v] = rejected[v]
BY DEF SetsOK, Answered

LEMMA ErrorOrNot == \A data : AddTowIntFunc(data).ok \in BOOLEAN
BY DEF AddTowIntFunc

\* The arguments are what the stores have in common.
LEMMA ResolveAgrees ==
    ASSUME NEW args, NEW f, NEW g, \A o \in Needs(args) : f[o] = g[o]
    PROVE  Resolve(args, f) = Resolve(args, g)
<1>1. \A i \in 1 .. Len(args) : args[i].type = "object" => f[args[i].id] = g[args[i].id]
  BY DEF Needs
<1>2. QED
  BY <1>1 DEF Resolve

LEMMA InitShape == Init => Shape
<1> SUFFICES ASSUME Init PROVE Shape
  OBVIOUS
<1>1. TasksOK
  BY ObjectsAssumption DEF Init, TasksOK
<1>2. StoragesOK
  BY DEF Init, StoragesOK, Held
<1>3. SetsOK
  BY DEF Init, SetsOK, Located
<1>4. QED
  BY <1>1, <1>2, <1>3 DEF Shape

\* A worker executes only tasks that were sent.
LEMMA Numbers == TasksOK => Len(tasks) \in Nat /\ 1 .. Len(tasks) \subseteq TaskNumbers
BY ObjectsAssumption DEF TasksOK, TaskNumbers

LEMMA NextShape == Shape /\ [Next]_vars => Shape'
<1> SUFFICES ASSUME Shape, [Next]_vars PROVE Shape'
  OBVIOUS
<1> USE DEF Shape
<1>0. Len(tasks) \in Nat /\ 1 .. Len(tasks) \subseteq TaskNumbers
  BY Numbers
<1>1. ASSUME NEW w \in Workers, NEW t \in 1 .. Len(tasks), OnAddTowInt(w, t) PROVE Shape'
  <2> DEFINE result == AddTowIntFunc(Resolve(tasks[t].args, storage[w]))
  <2>1. PICK id \in ObjectIDs : SetObject(w, id, result.data)
                                /\ reports' = [reports EXCEPT ![w] = @ \cup {id}]
    BY <1>0, <1>1 DEF OnAddTowInt, ObjectIDs
  <2>2. Answered(w, t, result.ok) /\ result.ok \in BOOLEAN
    BY <1>1, ErrorOrNot DEF OnAddTowInt
  <2>3. UNCHANGED <<tasks, locations, forgotten>>
    BY <1>1 DEF OnAddTowInt, gcsVars
  <2> HIDE DEF result
  <2>4. StoragesOK'
    BY <2>1, Stored
  <2>5. /\ accepted' \in [Workers -> SUBSET TaskNumbers]
        /\ rejected' \in [Workers -> SUBSET TaskNumbers]
    BY <1>0, <2>2, Noted
  <2>6. TasksOK' /\ SetsOK'
    BY <2>1, <2>3, <2>5 DEF TasksOK, SetsOK, Located
  <2>7. QED
    BY <2>4, <2>6
<1>2. ASSUME NEW w \in Workers, NEW t \in 1 .. Len(tasks), OnUnknownFunction(w, t) PROVE Shape'
  <2>1. /\ accepted' \in [Workers -> SUBSET TaskNumbers]
        /\ rejected' \in [Workers -> SUBSET TaskNumbers]
    BY <1>0, <1>2, Noted DEF OnUnknownFunction
  <2>2. UNCHANGED <<tasks, storage, reports, locations, forgotten>>
    BY <1>2 DEF OnUnknownFunction, gcsVars
  <2>3. QED
    BY <2>1, <2>2 DEF TasksOK, StoragesOK, SetsOK, Held, Located
<1>3. ASSUME NEW w \in Workers, Die(w) PROVE Shape'
  BY <1>3, Died
<1>4. ASSUME NEW w \in Workers, NEW o \in ObjectIDs, OnReportTaskResult(w, o) PROVE Shape'
  <2>1. locations' = [p \in Located \cup {o} |-> IF p = o THEN w ELSE locations[p]]
    BY <1>4 DEF OnReportTaskResult
  <2>2. Located' \subseteq ObjectIDs /\ locations' \in [Located' -> Workers]
    BY <2>1 DEF Located, SetsOK
  <2>3. reports' \in [Workers -> SUBSET ObjectIDs]
    BY <1>4 DEF OnReportTaskResult, SetsOK
  <2>4. UNCHANGED <<tasks, storage, accepted, rejected, forgotten>>
    BY <1>4 DEF OnReportTaskResult, history
  <2>5. QED
    BY <2>2, <2>3, <2>4 DEF TasksOK, StoragesOK, SetsOK, Held
<1>5. ASSUME NEW call \in Calls, Submit(call) PROVE Shape'
  <2>1. TasksOK'
    BY <1>5, Submitted
  <2>2. UNCHANGED <<storage, reports, locations, accepted, rejected, forgotten>>
    BY <1>5 DEF Submit, gcsVars, history
  <2>3. QED
    BY <2>1, <2>2 DEF StoragesOK, SetsOK, Held, Located
<1>6. ASSUME NEW w \in Workers, NEW o \in ObjectIDs, LoseReport(w, o) PROVE Shape'
  BY <1>6 DEF LoseReport, TasksOK, StoragesOK, SetsOK, Held, Located, gcsVars, history
<1>7. CASE GcsRestart
  <2>1. Located' \subseteq ObjectIDs /\ locations' \in [Located' -> Workers]
    BY <1>7 DEF GcsRestart, Located
  <2>2. QED
    BY <1>7, <2>1 DEF GcsRestart, TasksOK, StoragesOK, SetsOK, Held, history
<1>8. CASE UNCHANGED <<tasks, storage, reports, locations, history>>
  BY <1>8 DEF TasksOK, StoragesOK, SetsOK, Held, Located, history
<1>9. QED
  <2>1. ASSUME NEW w \in Workers, NEW t \in 1 .. Len(tasks), OnRemoteObject(w, t) PROVE Shape'
    BY <2>1, <1>3 DEF OnRemoteObject
  <2>2. ASSUME NEW w \in Workers, NEW o \in ObjectIDs, OnGetObjectData(w, o) PROVE Shape'
    BY <2>2, <1>8 DEF OnGetObjectData, gcsVars
  <2>3. ASSUME NEW w \in Workers, Killed(w) \/ OnUnaskedResponse(w) \/ Restart(w) PROVE Shape'
    BY <2>3, <1>3, <1>8 DEF Killed, OnUnaskedResponse, Restart, gcsVars
  <2>4. CASE OnGetObjectLocation
    BY <2>4, <1>8 DEF OnGetObjectLocation
  <2>5. CASE UNCHANGED vars
    BY <2>5, <1>8 DEF vars, gcsVars
  <2>6. QED
    BY <1>1, <1>2, <1>4, <1>5, <1>6, <1>7, <2>1, <2>2, <2>3, <2>4, <2>5
       DEF Next, Worker, Gcs, External, GetObjectDataRequest,
       ReportTaskResultRequest

-----------------------------------------------------------------------------
(* What is never undone                                                    *)

\* A task keeps what it is and what it should yield.
LEMMA TasksStay ==
    ASSUME Shape, [Next]_vars
    PROVE  /\ Len(tasks) \in Nat /\ Len(tasks') \in Nat /\ Len(tasks) <= Len(tasks')
           /\ \A t \in 1 .. Len(tasks) : tasks'[t] = tasks[t]
           /\ \A o \in DOMAIN Ideal : o \in DOMAIN Ideal' /\ Ideal'[o] = Ideal[o]
<1>1. Len(tasks) \in Nat
  BY Numbers DEF Shape
<1>2. CASE UNCHANGED tasks
  BY <1>1, <1>2 DEF Ideal
<1>3. ASSUME NEW call \in Calls, Submit(call)
      PROVE  /\ Len(tasks') = Len(tasks) + 1
             /\ \A t \in 1 .. Len(tasks) : tasks'[t] = tasks[t]
  BY <1>3, Submitted DEF Shape
<1>4. CASE \E call \in Calls : Submit(call)
  <2>1. Len(tasks') = Len(tasks) + 1 /\ \A t \in 1 .. Len(tasks) : tasks'[t] = tasks[t]
    BY <1>3, <1>4
  <2>2. \A o \in ObjectIDs : o.task \in Nat /\ o.task >= 1
    BY ObjectsAssumption DEF ObjectIDs, TaskNumbers
  <2>3. QED
    BY <1>1, <2>1, <2>2 DEF Ideal
<1>5. UNCHANGED tasks \/ \E call \in Calls : Submit(call)
  BY DEF Next, Worker, Gcs, External, GetObjectDataRequest,
       ReportTaskResultRequest,
       OnAddTowInt, OnUnknownFunction, OnRemoteObject,
         OnGetObjectData, OnReportTaskResult, OnGetObjectLocation, LoseReport, Killed,
          OnUnaskedResponse,
         Restart, GcsRestart, Die, vars
<1>6. QED
  BY <1>2, <1>4, <1>5

\* What a worker holds, it goes on holding, or is remembered to have held.
LEMMA HoldingsStay ==
    ASSUME Shape, [Next]_vars, NEW w \in Workers
    PROVE  /\ Held(w) \cup forgotten[w] \subseteq Held(w)' \cup forgotten'[w]
           /\ forgotten[w] \subseteq forgotten'[w]
<1>1. ASSUME NEW v \in Workers, NEW t \in 1 .. Len(tasks), OnAddTowInt(v, t)
      PROVE  Held(w) \subseteq Held(w)' /\ forgotten' = forgotten
  <2>1. PICK id \in ObjectIDs : \E data : SetObject(v, id, data)
    BY <1>1, Numbers DEF OnAddTowInt, ObjectIDs, Shape
  <2>2. Held(v)' = Held(v) \cup {id} /\ \A u \in Workers \ {v} : storage'[u] = storage[u]
    BY <2>1, Stored DEF Shape
  <2>3. QED
    BY <1>1, <2>2 DEF Held, OnAddTowInt
<1>2. ASSUME NEW v \in Workers, Die(v)
      PROVE  Held(w) \cup forgotten[w] \subseteq forgotten'[w] \cup Held(w)'
             /\ forgotten[w] \subseteq forgotten'[w]
  BY <1>2, Died DEF Held
<1>3. CASE UNCHANGED <<storage, forgotten>>
  BY <1>3 DEF Held
<1>4. \/ UNCHANGED <<storage, forgotten>>
      \/ \E v \in Workers : Die(v)
      \/ \E v \in Workers, t \in 1 .. Len(tasks) : OnAddTowInt(v, t)
  BY DEF Next, Worker, Gcs, External, GetObjectDataRequest,
       ReportTaskResultRequest,
       OnUnknownFunction, OnRemoteObject,
         OnGetObjectData, OnReportTaskResult, OnGetObjectLocation, Submit, LoseReport,
         Killed, OnUnaskedResponse, Restart, GcsRestart, vars, history
<1>5. QED
  BY <1>1, <1>2, <1>3, <1>4

-----------------------------------------------------------------------------
(* Copies                                                                  *)

\* Every task would yield what AddTowInt makes of the ideal objects it names,
\* and they are the results of tasks.
Yields ==
    \A t \in 1 .. Len(tasks) :
        /\ Needs(tasks[t].args) \subseteq DOMAIN Ideal
        /\ tasks[t].yield = AddTowIntFunc(Resolve(tasks[t].args, Ideal))

Copies == CopiesAgree /\ Yields /\ \A w \in Workers : forgotten[w] \subseteq DOMAIN Ideal

\* A worker that holds the arguments computes what the task should yield.
LEMMA Computes ==
    ASSUME Copies, NEW w \in Workers, NEW t \in 1 .. Len(tasks), Executable(w, t)
    PROVE  AddTowIntFunc(Resolve(tasks[t].args, storage[w])) = tasks[t].yield
<1>1. \A o \in Needs(tasks[t].args) : storage[w][o] = Ideal[o]
  BY DEF Copies, CopiesAgree, Executable
<1>2. Resolve(tasks[t].args, storage[w]) = Resolve(tasks[t].args, Ideal)
  <2> DEFINE args == tasks[t].args
             f == storage[w]
             g == Ideal
  <2>1. \A o \in Needs(args) : f[o] = g[o]
    BY <1>1
  <2> HIDE DEF args, f, g
  <2>2. Resolve(args, f) = Resolve(args, g)
    BY <2>1, ResolveAgrees
  <2>3. QED
    BY <2>2 DEF args, f, g
<1>3. QED
  BY <1>2 DEF Copies, Yields

LEMMA NextYields ==
    ASSUME Shape, Copies, [Next]_vars
    PROVE  Yields'
<1>1. /\ Len(tasks) \in Nat /\ Len(tasks') \in Nat
      /\ \A t \in 1 .. Len(tasks) : tasks'[t] = tasks[t]
      /\ \A o \in DOMAIN Ideal : o \in DOMAIN Ideal' /\ Ideal'[o] = Ideal[o]
  BY TasksStay
<1>2. ASSUME NEW args, Needs(args) \subseteq DOMAIN Ideal
      PROVE  /\ Needs(args) \subseteq DOMAIN Ideal'
             /\ Resolve(args, Ideal') = Resolve(args, Ideal)
  <2> DEFINE f == Ideal'
             g == Ideal
  <2>1. \A o \in Needs(args) : f[o] = g[o]
    BY <1>1, <1>2
  <2> HIDE DEF f, g
  <2>2. Resolve(args, f) = Resolve(args, g)
    BY <2>1, ResolveAgrees
  <2>3. QED
    BY <1>1, <1>2, <2>2 DEF f, g
<1>3. ASSUME NEW t \in 1 .. Len(tasks)
      PROVE  /\ Needs(tasks'[t].args) \subseteq DOMAIN Ideal'
             /\ tasks'[t].yield = AddTowIntFunc(Resolve(tasks'[t].args, Ideal'))
  BY <1>1, <1>2, <1>3 DEF Copies, Yields
<1>4. CASE UNCHANGED tasks
  BY <1>3, <1>4 DEF Yields
<1>5. ASSUME NEW call \in Calls, Submit(call) PROVE Yields'
  <2>1. /\ Len(tasks') = Len(tasks) + 1
        /\ tasks'[Len(tasks) + 1].args = call.args
        /\ tasks'[Len(tasks) + 1].yield = AddTowIntFunc(Resolve(call.args, Ideal))
    BY <1>5, Submitted DEF Shape
  <2>2. Needs(call.args) \subseteq DOMAIN Ideal
    BY <1>5 DEF Submit, Made, Copies, CopiesAgree
  <2>3. \A t \in 1 .. Len(tasks') : t \in 1 .. Len(tasks) \/ t = Len(tasks) + 1
    BY <1>1, <2>1
  <2>4. /\ Needs(tasks'[Len(tasks) + 1].args) \subseteq DOMAIN Ideal'
        /\ tasks'[Len(tasks) + 1].yield =
               AddTowIntFunc(Resolve(tasks'[Len(tasks) + 1].args, Ideal'))
    BY <1>2, <2>1, <2>2
  <2>5. QED
    BY <1>3, <2>3, <2>4 DEF Yields
<1>6. UNCHANGED tasks \/ \E call \in Calls : Submit(call)
  BY DEF Next, Worker, Gcs, External, GetObjectDataRequest,
       ReportTaskResultRequest,
       OnAddTowInt, OnUnknownFunction, OnRemoteObject,
         OnGetObjectData, OnReportTaskResult, OnGetObjectLocation, LoseReport, Killed,
          OnUnaskedResponse,
         Restart, GcsRestart, Die, vars
<1>7. QED
  BY <1>4, <1>5, <1>6

LEMMA NextCopies == Shape /\ Copies /\ [Next]_vars => Copies'
<1> SUFFICES ASSUME Shape, Copies, [Next]_vars PROVE Copies'
  OBVIOUS
<1>1. /\ Len(tasks) \in Nat
      /\ \A o \in DOMAIN Ideal : o \in DOMAIN Ideal' /\ Ideal'[o] = Ideal[o]
  BY TasksStay
<1>2. Yields'
  BY NextYields
<1> DEFINE Good(w) == /\ forgotten'[w] \subseteq DOMAIN Ideal'
                      /\ \A o \in Held(w)' : o \in DOMAIN Ideal' /\ storage'[w][o] = Ideal'[o]
<1>3. SUFFICES \A w \in Workers : Good(w)
  BY <1>2 DEF Copies, CopiesAgree
<1>4. ASSUME NEW w \in Workers, storage'[w] = storage[w], forgotten'[w] = forgotten[w]
      PROVE  Good(w)
  BY <1>1, <1>4 DEF Held, Copies, CopiesAgree
<1>5. ASSUME NEW w \in Workers, NEW t \in 1 .. Len(tasks), OnAddTowInt(w, t)
      PROVE  \A v \in Workers : Good(v)
  <2>1. AddTowIntFunc(Resolve(tasks[t].args, storage[w])) = tasks[t].yield
    BY <1>5, Computes DEF OnAddTowInt
  <2>2. PICK s \in Stamps : SetObject(w, [task |-> t, stamp |-> s], tasks[t].yield.data)
    BY <1>5, <2>1 DEF OnAddTowInt
  <2> DEFINE id == [task |-> t, stamp |-> s]
  <2>3. id \in ObjectIDs /\ id.task = t
    BY Numbers DEF ObjectIDs, Shape
  <2>4. id \in DOMAIN Ideal /\ Ideal[id] = tasks[t].yield.data
    BY <1>1, <2>3 DEF Ideal
  <2>5. SetObject(w, id, tasks[t].yield.data)
    BY <2>2
  <2> HIDE DEF id
  <2>6. /\ Held(w)' = Held(w) \cup {id}
        /\ storage'[w][id] = tasks[t].yield.data
        /\ \A o \in Held(w) \ {id} : storage'[w][o] = storage[w][o]
        /\ \A v \in Workers \ {w} : storage'[v] = storage[v]
    BY <2>3, <2>5, Stored DEF Shape
  <2>7. forgotten' = forgotten
    BY <1>5 DEF OnAddTowInt
  <2>8. Good(w)
    BY <1>1, <2>4, <2>6, <2>7 DEF Copies, CopiesAgree
  <2>9. QED
    BY <1>4, <2>6, <2>7, <2>8
<1>6. ASSUME NEW w \in Workers, Die(w) PROVE \A v \in Workers : Good(v)
  <2>1. /\ Held(w)' = {} /\ forgotten'[w] = forgotten[w] \cup Held(w)
        /\ \A v \in Workers \ {w} : storage'[v] = storage[v] /\ forgotten'[v] = forgotten[v]
    BY <1>6, Died
  <2>2. Good(w)
    BY <1>1, <2>1 DEF Copies, CopiesAgree
  <2>3. QED
    BY <1>4, <2>1, <2>2
<1>7. CASE UNCHANGED <<storage, forgotten>>
  BY <1>4, <1>7
<1>8. \/ UNCHANGED <<storage, forgotten>>
      \/ \E v \in Workers : Die(v)
      \/ \E v \in Workers, t \in 1 .. Len(tasks) : OnAddTowInt(v, t)
  BY DEF Next, Worker, Gcs, External, GetObjectDataRequest,
       ReportTaskResultRequest,
       OnUnknownFunction, OnRemoteObject,
         OnGetObjectData, OnReportTaskResult, OnGetObjectLocation, Submit, LoseReport,
         Killed, OnUnaskedResponse, Restart, GcsRestart, vars, history
<1>9. QED
  BY <1>5, <1>6, <1>7, <1>8

LEMMA InitCopies == Init => Copies
<1> SUFFICES ASSUME Init PROVE Copies
  OBVIOUS
<1>1. \A w \in Workers : Held(w) = {} /\ forgotten[w] = {}
  BY DEF Init, Held
<1>2. Len(tasks) = 0
  BY DEF Init
<1>3. QED
  BY <1>1, <1>2 DEF Copies, CopiesAgree, Yields

\* Every copy of an object, wherever and however often it was made, is what a
\* single process would have computed.
THEOREM CopiesAlwaysAgree == Spec => []CopiesAgree
<1>1. Init => Shape /\ Copies
  BY InitShape, InitCopies
<1>2. Shape /\ Copies /\ [Next]_vars => Shape' /\ Copies'
  BY NextShape, NextCopies
<1>3. Copies => CopiesAgree
  BY DEF Copies
<1>4. QED
  BY <1>1, <1>2, <1>3, PTL DEF Spec

-----------------------------------------------------------------------------
(* Verdicts                                                                *)

\* Accepted, a task did not fail where it ran; rejected, it must.
Verdicts ==
    \A w \in Workers :
        /\ \A t \in accepted[w] : /\ t \in 1 .. Len(tasks)
                                  /\ tasks[t].func = AddTowInt => tasks[t].yield.ok
        /\ \A t \in rejected[w] : /\ t \in 1 .. Len(tasks)
                                  /\ tasks[t].func = AddTowInt /\ ~tasks[t].yield.ok

\* The objects a task needs are, or were, where it was answered.
Answers ==
    \A w \in Workers : \A t \in accepted[w] \cup rejected[w] :
        t \in 1 .. Len(tasks) /\ Needs(tasks[t].args) \subseteq Held(w) \cup forgotten[w]

\* The steps that answer a task.
LEMMA WhoAnswers ==
    ASSUME [Next]_vars
    PROVE  \/ UNCHANGED <<accepted, rejected>>
           \/ \E w \in Workers, t \in 1 .. Len(tasks) :
                 /\ Executable(w, t) /\ UNCHANGED tasks
                 /\ \/ tasks[t].func # AddTowInt /\ Answered(w, t, TRUE)
                    \/ /\ tasks[t].func = AddTowInt
                       /\ Answered(w, t,
                             AddTowIntFunc(Resolve(tasks[t].args, storage[w])).ok)
BY ZenonT(60) DEF Next, Worker, Gcs, External, GetObjectDataRequest,
       ReportTaskResultRequest,
       OnAddTowInt, OnUnknownFunction,
       OnRemoteObject, OnGetObjectData, OnReportTaskResult, OnGetObjectLocation, Submit,
       LoseReport, Killed, OnUnaskedResponse, Restart, GcsRestart, Die, vars, history

LEMMA NextVerdicts == Shape /\ Copies /\ Verdicts /\ [Next]_vars => Verdicts'
<1> SUFFICES ASSUME Shape, Copies, Verdicts, [Next]_vars PROVE Verdicts'
  OBVIOUS
<1>1. /\ Len(tasks) \in Nat /\ Len(tasks') \in Nat /\ Len(tasks) <= Len(tasks')
      /\ \A t \in 1 .. Len(tasks) : tasks'[t] = tasks[t]
  BY TasksStay
<1>2. CASE UNCHANGED <<accepted, rejected>>
  BY <1>1, <1>2 DEF Verdicts
<1>3. ASSUME NEW w \in Workers, NEW t \in 1 .. Len(tasks), Executable(w, t), UNCHANGED tasks,
             \/ tasks[t].func # AddTowInt /\ Answered(w, t, TRUE)
             \/ /\ tasks[t].func = AddTowInt
                /\ Answered(w, t, AddTowIntFunc(Resolve(tasks[t].args, storage[w])).ok)
      PROVE  Verdicts'
  <2>1. AddTowIntFunc(Resolve(tasks[t].args, storage[w])) = tasks[t].yield
    BY <1>3, Computes
  <2>2. tasks[t].yield.ok \in BOOLEAN
    BY <2>1, ErrorOrNot
  <2>3. PICK ok \in BOOLEAN : /\ Answered(w, t, ok)
                              /\ ok => (tasks[t].func = AddTowInt => tasks[t].yield.ok)
                              /\ ~ok => tasks[t].func = AddTowInt /\ ~tasks[t].yield.ok
    BY <1>3, <2>1, <2>2
  <2>4. \A v \in Workers : /\ accepted'[v] \subseteq accepted[v] \cup {t}
                           /\ rejected'[v] \subseteq rejected[v] \cup {t}
                           /\ ~ok => accepted'[v] = accepted[v]
                           /\ ok => rejected'[v] = rejected[v]
    BY <2>3, Noted, Numbers DEF Shape
  <2>5. QED
    BY <1>3, <2>3, <2>4 DEF Verdicts
<1>4. QED
  BY <1>2, <1>3, WhoAnswers

LEMMA NextAnswers == Shape /\ Answers /\ [Next]_vars => Answers'
<1> SUFFICES ASSUME Shape, Answers, [Next]_vars PROVE Answers'
  OBVIOUS
<1>1. /\ Len(tasks) \in Nat /\ Len(tasks') \in Nat /\ Len(tasks) <= Len(tasks')
      /\ \A t \in 1 .. Len(tasks) : tasks'[t] = tasks[t]
  BY TasksStay
<1>2. \A w \in Workers : Held(w) \cup forgotten[w] \subseteq Held(w)' \cup forgotten'[w]
  BY HoldingsStay
<1>3. CASE UNCHANGED <<accepted, rejected>>
  BY <1>1, <1>2, <1>3 DEF Answers
<1>4. ASSUME NEW w \in Workers, NEW t \in 1 .. Len(tasks), NEW ok \in BOOLEAN,
             Executable(w, t), Answered(w, t, ok)
      PROVE  Answers'
  <2>1. Needs(tasks[t].args) \subseteq Held(w)
    BY <1>4 DEF Executable
  <2>2. \A v \in Workers :
           /\ accepted'[v] \cup rejected'[v] \subseteq accepted[v] \cup rejected[v] \cup {t}
           /\ v # w => accepted'[v] \cup rejected'[v] = accepted[v] \cup rejected[v]
    BY <1>4, Noted, Numbers DEF Shape
  <2>3. ASSUME NEW v \in Workers, NEW u \in accepted'[v] \cup rejected'[v]
        PROVE  u \in 1 .. Len(tasks) /\ Needs(tasks[u].args) \subseteq Held(v) \cup forgotten[v]
    BY <2>1, <2>2, <2>3 DEF Answers
  <2>4. QED
    BY <1>1, <1>2, <2>3 DEF Answers
<1>5. QED
  BY <1>3, <1>4, WhoAnswers, ErrorOrNot

LEMMA InitAnswers == Init => Verdicts /\ Answers
BY DEF Init, Verdicts, Answers

\* No task is accepted here and rejected there.
THEOREM VerdictsAgree == Spec => []OneVerdict
<1>1. Init => Shape /\ Copies /\ Verdicts
  BY InitShape, InitCopies, InitAnswers
<1>2. Shape /\ Copies /\ Verdicts /\ [Next]_vars => Shape' /\ Copies' /\ Verdicts'
  BY NextShape, NextCopies, NextVerdicts
<1>3. Verdicts => OneVerdict
  BY DEF Verdicts, OneVerdict
<1>4. QED
  BY <1>1, <1>2, <1>3, PTL DEF Spec

\* A task is answered only by a worker that holds, or held, its objects.
THEOREM HoldersAnswer == Spec => []AnsweredByHolders
<1>1. Init => Shape /\ Answers
  BY InitShape, InitAnswers
<1>2. Shape /\ Answers /\ [Next]_vars => Shape' /\ Answers'
  BY NextShape, NextAnswers
<1>3. Answers => AnsweredByHolders
  BY DEF Answers, AnsweredByHolders
<1>4. QED
  BY <1>1, <1>2, <1>3, PTL DEF Spec

-----------------------------------------------------------------------------
(* Locations                                                               *)

\* A report that is on its way is about an object the sender has, or had.
Reported == \A w \in Workers : reports[w] \subseteq Held(w) \cup forgotten[w]

LocatedAt ==
    \A o \in Located, w \in Workers : locations[o] = w => o \in Held(w) \cup forgotten[w]

LEMMA LocatedThere == Shape /\ LocatedAt => LocatedOrForgotten
BY DEF Shape, SetsOK, LocatedAt, LocatedOrForgotten

LEMMA NextLocations ==
    Shape /\ Reported /\ LocatedAt /\ [Next]_vars => Reported' /\ LocatedAt'
<1> SUFFICES ASSUME Shape, Reported, LocatedAt, [Next]_vars
             PROVE  Reported' /\ LocatedAt'
  OBVIOUS
<1>1. \A w \in Workers : Held(w) \cup forgotten[w] \subseteq Held(w)' \cup forgotten'[w]
  BY HoldingsStay
<1>2. locations \in [Located -> Workers]
  BY DEF Shape, SetsOK
<1>3. ASSUME \A w \in Workers : reports'[w] \subseteq reports[w] PROVE Reported'
  BY <1>1, <1>3 DEF Reported
<1>4. ASSUME locations' = locations PROVE LocatedAt'
  BY <1>1, <1>2, <1>4 DEF LocatedAt, Located
<1>5. ASSUME NEW w \in Workers, NEW t \in 1 .. Len(tasks), OnAddTowInt(w, t)
      PROVE  Reported' /\ LocatedAt'
  <2>1. PICK id \in ObjectIDs : \E data : SetObject(w, id, data)
                                      /\ reports' = [reports EXCEPT ![w] = @ \cup {id}]
    BY <1>5, Numbers DEF OnAddTowInt, ObjectIDs, Shape
  <2>2. Held(w)' = Held(w) \cup {id}
    BY <2>1, Stored DEF Shape
  <2>3. Reported'
    BY <1>1, <2>1, <2>2 DEF Reported, Shape, SetsOK
  <2>4. locations' = locations
    BY <1>5 DEF OnAddTowInt, gcsVars
  <2>5. QED
    BY <1>4, <2>3, <2>4
<1>6. ASSUME NEW w \in Workers, NEW o \in ObjectIDs, OnReportTaskResult(w, o)
      PROVE  Reported' /\ LocatedAt'
  <2>1. /\ locations' = [p \in Located \cup {o} |-> IF p = o THEN w ELSE locations[p]]
        /\ o \in reports[w] /\ reports' = [reports EXCEPT ![w] = @ \ {o}]
    BY <1>6 DEF OnReportTaskResult
  <2>2. o \in Held(w) \cup forgotten[w]
    BY <2>1 DEF Reported
  <2>3. \A p \in Located' : /\ p \in Located \cup {o}
                            /\ locations'[p] = IF p = o THEN w ELSE locations[p]
    BY <2>1 DEF Located
  <2>4. LocatedAt'
    <3> SUFFICES ASSUME NEW p \in Located', NEW v \in Workers, locations'[p] = v
                 PROVE  p \in Held(v)' \cup forgotten'[v]
      BY DEF LocatedAt
    <3>1. CASE p = o
      BY <1>1, <2>2, <2>3, <3>1
    <3>2. CASE p # o
      <4>1. locations[p] = v /\ p \in Located
        BY <2>3, <3>2
      <4>2. p \in Held(v) \cup forgotten[v]
        BY <4>1 DEF LocatedAt
      <4>3. QED
        BY <1>1, <4>2
    <3>3. QED
      BY <3>1, <3>2
  <2>5. QED
    BY <1>3, <2>1, <2>4 DEF Shape, SetsOK
<1>7. CASE GcsRestart
  BY <1>3, <1>7 DEF GcsRestart, LocatedAt, Located
<1>8. ASSUME NEW w \in Workers, NEW o \in ObjectIDs, LoseReport(w, o)
      PROVE  Reported' /\ LocatedAt'
  BY <1>3, <1>4, <1>8 DEF LoseReport, gcsVars, Shape, SetsOK
<1>9. CASE UNCHANGED <<reports, locations>>
  BY <1>3, <1>4, <1>9
<1>10. \/ UNCHANGED <<reports, locations>> \/ GcsRestart
       \/ \E w \in Workers, t \in 1 .. Len(tasks) : OnAddTowInt(w, t)
       \/ \E w \in Workers, o \in ObjectIDs : OnReportTaskResult(w, o) \/ LoseReport(w, o)
  BY DEF Next, Worker, Gcs, External, GetObjectDataRequest,
       ReportTaskResultRequest,
       OnUnknownFunction, OnRemoteObject, OnGetObjectData,
         OnGetObjectLocation, Submit, Killed, OnUnaskedResponse, Restart, Die, vars, gcsVars
<1>11. QED
  BY <1>5, <1>6, <1>7, <1>8, <1>9, <1>10

\* The GCS names a worker that holds the object, or held it before it died.
THEOREM LocationsHold == Spec => []LocatedOrForgotten
<1>1. Init => Shape /\ Reported /\ LocatedAt
  BY InitShape DEF Init, Reported, LocatedAt, Located
<1>2. Shape /\ Reported /\ LocatedAt /\ [Next]_vars => Shape' /\ Reported' /\ LocatedAt'
  BY NextShape, NextLocations
<1>3. Shape /\ LocatedAt => LocatedOrForgotten
  BY LocatedThere
<1>4. QED
  BY <1>1, <1>2, <1>3, PTL DEF Spec

-----------------------------------------------------------------------------
(* Answers to queries                                                      *)

LEMMA WhoHandsOut ==
    ASSUME [Next]_vars
    PROVE  \/ answer' = answer
           \/ \E w \in Workers, o \in ObjectIDs : OnGetObjectData(w, o)
BY DEF Next, Worker, Gcs, External, GetObjectDataRequest,
       ReportTaskResultRequest,
       OnAddTowInt, OnUnknownFunction, OnRemoteObject,
       OnReportTaskResult, OnGetObjectLocation, Submit, LoseReport, Killed,
        OnUnaskedResponse, Restart,
       GcsRestart, Die, vars

LEMMA NextFound ==
    ASSUME Shape, Copies, FoundIsResult, [Next]_vars
    PROVE  FoundIsResult'
<1>1. \A o \in DOMAIN Ideal : o \in DOMAIN Ideal' /\ Ideal'[o] = Ideal[o]
  BY TasksStay
<1>2. ASSUME NEW w \in Workers, NEW o \in ObjectIDs, OnGetObjectData(w, o)
      PROVE  FoundIsResult'
  <2>1. CASE o \in Held(w)
    <3>1. answer'.id = o /\ answer'.data = storage[w][o]
      BY <1>2, <2>1 DEF OnGetObjectData
    <3>2. o \in DOMAIN Ideal /\ storage[w][o] = Ideal[o]
      BY <2>1 DEF Copies, CopiesAgree
    <3>3. answer'.id \in DOMAIN Ideal' /\ answer'.data = Ideal'[answer'.id]
      BY <1>1, <3>1, <3>2
    <3>4. QED
      BY <3>3 DEF FoundIsResult
  <2>2. CASE o \notin Held(w)
    <3>1. answer' = [id |-> o, found |-> FALSE, data |-> <<>>]
      BY <1>2, <2>2 DEF OnGetObjectData
    <3>2. ~answer'.found
      BY <3>1
    <3>3. QED
      BY <3>2 DEF FoundIsResult
  <2>3. QED
    BY <2>1, <2>2
<1>3. CASE answer' = answer
  <2>1. CASE answer # NoAnswer /\ answer.found
    <3>1. answer.id \in DOMAIN Ideal' /\ answer.data = Ideal'[answer.id]
      BY <1>1, <2>1 DEF FoundIsResult
    <3>2. answer'.id \in DOMAIN Ideal' /\ answer'.data = Ideal'[answer'.id]
      BY <1>3, <3>1
    <3>3. QED
      BY <3>2 DEF FoundIsResult
  <2>2. CASE ~(answer # NoAnswer /\ answer.found)
    BY <1>3, <2>2 DEF FoundIsResult
  <2>3. QED
    BY <2>1, <2>2
<1>4. QED
  BY <1>2, <1>3, WhoHandsOut

\* Data handed out is the result of the task in the object's name.
THEOREM QueriesGetResults == Spec => []FoundIsResult
<1>1. Init => Shape /\ Copies /\ FoundIsResult
  BY InitShape, InitCopies DEF Init, FoundIsResult
<1>2. Shape /\ Copies /\ FoundIsResult /\ [Next]_vars => Shape' /\ Copies' /\ FoundIsResult'
  BY NextShape, NextCopies, NextFound
<1>3. QED
  BY <1>1, <1>2, PTL DEF Spec

-----------------------------------------------------------------------------
(* Ints                                                                    *)

\* As many values as digits allow, some of them negative.
LEMMA IntRange ==
    /\ Base \in Bases /\ IntBytes \in Nat
    /\ Modulus \in Nat /\ MaxInt \in Int /\ MinInt \in Int
    /\ MaxInt = MinInt + Modulus - 1
    /\ 0 <= MaxInt + 1 /\ MinInt <= 0
<1>1. Base \in Bases /\ IntBytes \in Nat
  BY IntsAssumption DEF Bases
<1>2. Modulus \in Nat
  BY <1>1, PowerDef DEF Modulus
<1>3. QED
  BY <1>1, <1>2 DEF MaxInt, MinInt

\* What is encoded is bytes, of the number of an int.
LEMMA EncodedInt ==
    ASSUME NEW v \in Int
    PROVE  EncodeInt(v) \in Data /\ Len(EncodeInt(v)) = IntBytes
BY IntRange, PutUintDigits DEF EncodeInt, Data, Byte

\* What is decoded is an int of that width.
LEMMA DecodedInt ==
    ASSUME NEW data \in Data, Decodable(data)
    PROVE  /\ Unsigned(data) \in Nat /\ Unsigned(data) < Modulus
           /\ DecodeInt(data) \in MinInt .. MaxInt
           /\ DecodeInt(data) = Unsigned(data) \/ DecodeInt(data) = Unsigned(data) - Modulus
<1> DEFINE d == SubSeq(data, 1, IntBytes)
<1>1. d \in Seq(Byte) /\ Len(d) = IntBytes
  <2>1. IntBytes <= Len(data) /\ IntBytes \in Nat /\ data \in Seq(Byte)
    BY IntRange DEF Decodable, Data
  <2>2. /\ d \in Seq(Byte)
        /\ Len(d) = IF 1 <= IntBytes THEN IntBytes - 1 + 1 ELSE 0
    BY <2>1, Part
  <2>3. QED
    BY <2>1, <2>2
<1> HIDE DEF d
<1>2. Uint(Base, d) \in Nat /\ Uint(Base, d) < Power(Base)[IntBytes]
  BY <1>1, IntRange, UintRange DEF Byte
<1>3. Unsigned(data) \in Nat /\ Unsigned(data) < Modulus
  BY <1>2 DEF Unsigned, Modulus, d
<1>4. QED
  BY <1>3, IntRange DEF DecodeInt

\* What follows the digits is not read.
LEMMA DecodesFront ==
    ASSUME NEW v \in Int, NEW rest \in Data
    PROVE  /\ EncodeInt(v) \o rest \in Data /\ Decodable(EncodeInt(v) \o rest)
           /\ Unsigned(EncodeInt(v) \o rest) = Uint(Base, EncodeInt(v))
<1> DEFINE data == EncodeInt(v)
<1>1. data \in Seq(Byte) /\ Len(data) = IntBytes /\ rest \in Seq(Byte)
  BY EncodedInt DEF Data
<1> HIDE DEF data
<1>2. SubSeq(data \o rest, 1, IntBytes) = data
  BY <1>1, Parted
<1>3. data \o rest \in Seq(Byte) /\ Len(data \o rest) >= IntBytes
  BY <1>1, ConcatProperties
<1>4. QED
  BY <1>2, <1>3 DEF Data, Decodable, Unsigned, data

\* Any integer is wrapped into the range of an int, and one that is in it is
\* what it was, also when something follows its digits.
THEOREM IntsWrap ==
    \A v \in Int, rest \in Data :
        LET w == DecodeInt(EncodeInt(v) \o rest)
        IN  /\ w \in MinInt .. MaxInt
            /\ \E k \in Int : w = v + k * Modulus
            /\ v \in MinInt .. MaxInt => w = v
<1> SUFFICES ASSUME NEW v \in Int, NEW rest \in Data
             PROVE  LET w == DecodeInt(EncodeInt(v) \o rest)
                    IN  /\ w \in MinInt .. MaxInt
                        /\ \E k \in Int : w = v + k * Modulus
                        /\ v \in MinInt .. MaxInt => w = v
  OBVIOUS
<1> DEFINE data == EncodeInt(v) \o rest
           w == DecodeInt(data)
<1>1. /\ data \in Data /\ Decodable(data)
      /\ Unsigned(data) = Uint(Base, PutUint(Base, v, IntBytes))
  BY DecodesFront DEF EncodeInt
<1>2. PICK q \in Int : Unsigned(data) = v - q * Modulus
  BY <1>1, IntRange, PutUintModulo DEF Modulus
<1>3. /\ w \in MinInt .. MaxInt /\ Unsigned(data) \in Nat
      /\ w = Unsigned(data) \/ w = Unsigned(data) - Modulus
  BY <1>1, DecodedInt
<1> HIDE DEF data, w
<1>4. PICK k \in Int : w = v - k * Modulus
  <2>1. CASE w = Unsigned(data)
    BY <1>2, <2>1
  <2>2. CASE w = Unsigned(data) - Modulus
    <3>1. (q + 1) * Modulus = q * Modulus + Modulus
      BY IntRange
    <3>2. w = v - (q + 1) * Modulus
      BY <1>2, <2>2, <3>1, IntRange
    <3>3. QED
      BY <3>2
  <2>3. QED
    BY <1>3, <2>1, <2>2
<1>5. w = v + (-k) * Modulus
  BY <1>4, IntRange
<1>6. ASSUME v \in MinInt .. MaxInt PROVE w = v
  <2>1. w \in Int /\ w - v < Modulus /\ v - w < Modulus
    BY <1>3, <1>6, IntRange
  <2>2. QED
    BY <1>4, <2>1, IntRange, SmallMultiple
<1>7. QED
  BY <1>3, <1>5, <1>6 DEF w, data

\* The same of the digits alone.
LEMMA IntAlone ==
    ASSUME NEW v \in Int
    PROVE  /\ DecodeInt(EncodeInt(v)) \in MinInt .. MaxInt
           /\ \E k \in Int : DecodeInt(EncodeInt(v)) = v + k * Modulus
           /\ v \in MinInt .. MaxInt => DecodeInt(EncodeInt(v)) = v
<1>1. EncodeInt(v) \in Seq(Byte) /\ <<>> \in Data
  BY EncodedInt DEF Data
<1>2. EncodeInt(v) \o <<>> = EncodeInt(v)
  BY <1>1, ConcatEmptySeq
<1>3. LET w == DecodeInt(EncodeInt(v) \o <<>>)
      IN  /\ w \in MinInt .. MaxInt
          /\ \E k \in Int : w = v + k * Modulus
          /\ v \in MinInt .. MaxInt => w = v
  BY <1>1, IntsWrap
<1>4. QED
  BY <1>2, <1>3

\* addTowInt on two ints is their sum, too large or too small by at most one
\* round of the ints.
THEOREM AddWraps ==
    \A v, w \in MinInt .. MaxInt :
        LET sum == AddTowIntFunc(<<EncodeInt(v), EncodeInt(w)>>)
        IN  sum.ok /\ \E k \in {-1, 0, 1} : DecodeInt(sum.data) = v + w + k * Modulus
<1> SUFFICES ASSUME NEW v \in MinInt .. MaxInt, NEW w \in MinInt .. MaxInt
             PROVE  LET sum == AddTowIntFunc(<<EncodeInt(v), EncodeInt(w)>>)
                    IN  /\ sum.ok
                        /\ \E k \in {-1, 0, 1} : DecodeInt(sum.data) = v + w + k * Modulus
  OBVIOUS
<1> DEFINE data == <<EncodeInt(v), EncodeInt(w)>>
           total == v + w
<1>1. v \in Int /\ w \in Int /\ total \in Int
  BY IntRange
<1>2. Decodable(EncodeInt(v)) /\ Decodable(EncodeInt(w))
  BY <1>1, EncodedInt, IntRange DEF Decodable
<1>3. DecodeInt(EncodeInt(v)) = v /\ DecodeInt(EncodeInt(w)) = w
  BY <1>1, IntAlone
<1>4. AddTowIntFunc(data) = [ok |-> TRUE, data |-> EncodeInt(total)]
  <2>1. Len(data) = 2 /\ data[1] = EncodeInt(v) /\ data[2] = EncodeInt(w)
    OBVIOUS
  <2>2. \A i \in 1 .. Len(data) : i = 1 \/ i = 2
    BY <2>1
  <2> HIDE DEF data
  <2>3. \A i \in 1 .. Len(data) : Decodable(data[i])
    BY <1>2, <2>1, <2>2
  <2>4. DecodeInt(data[1]) + DecodeInt(data[2]) = total
    BY <1>3, <2>1
  <2>5. QED
    BY <2>1, <2>3, <2>4 DEF AddTowIntFunc
<1> DEFINE sum == DecodeInt(EncodeInt(total))
<1>5. sum \in MinInt .. MaxInt /\ \E k \in Int : sum = total + k * Modulus
  BY <1>1, IntAlone
<1>6. PICK k \in Int : sum = total + k * Modulus
  BY <1>5
<1> HIDE DEF sum, data
<1>7. k \in {-1, 0, 1}
  <2> SUFFICES ASSUME k >= 2 \/ k <= -2 PROVE FALSE
    BY <1>6
  <2>1. /\ 2 * MinInt <= total /\ total <= 2 * MaxInt /\ MinInt <= sum /\ sum <= MaxInt
        /\ MaxInt = MinInt + Modulus - 1 /\ 0 <= MaxInt + 1 /\ MinInt <= 0
    BY <1>5, IntRange
  <2>2. CASE k >= 2
    <3>1. (k - 2) * Modulus \in Nat /\ k * Modulus = (k - 2) * Modulus + 2 * Modulus
      BY <2>2, IntRange, Products, k - 2 \in Nat
    <3>2. QED
      BY <1>1, <1>5, <1>6, <2>1, <3>1, IntRange
  <2>3. CASE k <= -2
    <3>1. (-2 - k) * Modulus \in Nat /\ k * Modulus = -((-2 - k) * Modulus) - 2 * Modulus
      BY <2>3, IntRange, Products, -2 - k \in Nat
    <3>2. QED
      BY <1>1, <1>5, <1>6, <2>1, <3>1, IntRange
  <2>4. QED
    BY <2>2, <2>3
<1>8. QED
  BY <1>4, <1>6, <1>7 DEF sum, data

\* The bits of a float64 are read back.
THEOREM FloatsRoundTrip ==
    \A bits \in 0 .. Modulus - 1, rest \in Data :
        DecodeFloat64(EncodeFloat64(bits) \o rest) = bits
<1> SUFFICES ASSUME NEW bits \in 0 .. Modulus - 1, NEW rest \in Data
             PROVE  DecodeFloat64(EncodeFloat64(bits) \o rest) = bits
  OBVIOUS
<1>1. bits \in Int /\ EncodeFloat64(bits) = EncodeInt(bits)
  BY IntRange DEF EncodeFloat64, EncodeInt
<1>2. Uint(Base, EncodeInt(bits)) = bits
  BY IntRange, PutUintFits DEF EncodeInt, Modulus
<1>3. QED
  BY <1>1, <1>2, DecodesFront DEF DecodeFloat64

-----------------------------------------------------------------------------
(* Types                                                                   *)

Typed == tasks \in Seq(Task)

\* A storage maps the ids it holds, and no more can be said of its data without
\* the tasks.
Maps == \A w \in Workers : storage[w] = [o \in Held(w) |-> storage[w][o]]

\* From bytes come bytes, in the form of a result.
LEMMA ResultTyped ==
    ASSUME NEW args \in Seq(Arg), NEW objects, \A o \in Needs(args) : objects[o] \in Data
    PROVE  AddTowIntFunc(Resolve(args, objects)) \in Result
<1> DEFINE data == Resolve(args, objects)
<1>1. Len(args) \in Nat /\ \A i \in 1 .. Len(args) : args[i] \in Arg
  OBVIOUS
<1>2. \A i \in 1 .. Len(args) : data[i] \in Data
  <2> TAKE i \in 1 .. Len(args)
  <2>1. CASE args[i].type = "object"
    <3>1. args[i].id \in Needs(args)
      BY <2>1 DEF Needs
    <3>2. QED
      BY <2>1, <3>1 DEF Resolve
  <2>2. CASE args[i].type # "object"
    <3>1. args[i].data \in Data
      BY <1>1, <2>2 DEF Arg
    <3>2. QED
      BY <2>2, <3>1 DEF Resolve
  <2>3. QED
    BY <2>1, <2>2
<1>3. Len(data) = Len(args)
  BY <1>1 DEF Resolve
<1> HIDE DEF data
<1>4. EncodeInt(0) \in Data
  BY EncodedInt
<1>5. ASSUME Len(data) = 2, \A i \in 1 .. Len(data) : Decodable(data[i])
      PROVE  EncodeInt(DecodeInt(data[1]) + DecodeInt(data[2])) \in Data
  <2>1. 1 \in 1 .. Len(data) /\ 2 \in 1 .. Len(data)
    BY <1>5
  <2>2. DecodeInt(data[1]) \in Int /\ DecodeInt(data[2]) \in Int
    BY <1>2, <1>3, <1>5, <2>1, DecodedInt, IntRange
  <2> DEFINE sum == DecodeInt(data[1]) + DecodeInt(data[2])
  <2>3. sum \in Int
    BY <2>2
  <2> HIDE DEF sum
  <2>4. EncodeInt(sum) \in Data
    BY <2>3, EncodedInt
  <2>5. QED
    BY <2>4 DEF sum
<1>6. AddTowIntFunc(data) \in Result
  BY <1>4, <1>5 DEF AddTowIntFunc, Result
<1>7. QED
  BY <1>6 DEF data

\* A task is submitted with objects that were made, and so with bytes.
LEMMA NextTyped == Shape /\ Copies /\ Typed /\ [Next]_vars => Typed'
<1> SUFFICES ASSUME Shape, Copies, Typed, [Next]_vars PROVE Typed'
  OBVIOUS
<1>1. ASSUME NEW call \in Calls, Submit(call) PROVE Typed'
  <2>1. call \in Call
    BY ObjectsAssumption
  <2>2. call.func \in Functions /\ call.args \in Seq(Arg)
    BY <2>1 DEF Call
  <2>3. \A o \in Needs(call.args) : o \in DOMAIN Ideal
    BY <1>1 DEF Submit, Made, Copies, CopiesAgree
  <2>4. \A o \in DOMAIN Ideal : Ideal[o] \in Data
    <3>1. \A o \in DOMAIN Ideal : o.task \in 1 .. Len(tasks)
      BY Numbers DEF Ideal, ObjectIDs, TaskNumbers, Shape
    <3>2. \A t \in 1 .. Len(tasks) : tasks[t] \in Task
      BY DEF Typed
    <3>3. \A t \in 1 .. Len(tasks) : tasks[t].yield.data \in Data
      BY <3>2 DEF Task, Result
    <3>4. QED
      BY <3>1, <3>3 DEF Ideal
  <2> DEFINE objects == Ideal
             yield == AddTowIntFunc(Resolve(call.args, objects))
             task == [func |-> call.func, args |-> call.args, yield |-> yield]
  <2>5. yield \in Result
    <3>1. \A o \in Needs(call.args) : objects[o] \in Data
      BY <2>3, <2>4
    <3> HIDE DEF objects
    <3>2. QED
      BY <2>2, <3>1, ResultTyped
  <2>6. task \in Task
    <3> HIDE DEF yield
    <3> QED BY <2>2, <2>5 DEF Task
  <2>7. tasks' = Append(tasks, task)
    BY <1>1 DEF Submit
  <2> HIDE DEF task
  <2>8. QED
    BY <2>6, <2>7, AppendProperties DEF Typed
<1>2. UNCHANGED tasks \/ \E call \in Calls : Submit(call)
  BY DEF Next, Worker, Gcs, External, GetObjectDataRequest, ReportTaskResultRequest,
       OnAddTowInt, OnUnknownFunction, OnRemoteObject, OnGetObjectData,
       OnReportTaskResult, OnGetObjectLocation, LoseReport, Killed, OnUnaskedResponse,
       Restart, GcsRestart, Die, vars
<1>3. QED
  BY <1>1, <1>2 DEF Typed

\* Storing adds to a map, and dying leaves an empty one.
LEMMA NextMaps == Shape /\ Maps /\ [Next]_vars => Maps'
<1> SUFFICES ASSUME Shape, Maps, [Next]_vars PROVE Maps'
  OBVIOUS
<1> USE DEF Maps, Held
<1>0. DOMAIN storage = Workers
  BY DEF Shape, StoragesOK
<1>1. ASSUME NEW w \in Workers, NEW id, NEW data, SetObject(w, id, data) PROVE Maps'
  <2> DEFINE stored == [o \in Held(w) \cup {id} |-> IF o = id THEN data ELSE storage[w][o]]
  <2>1. storage' = [storage EXCEPT ![w] = stored]
    BY <1>1 DEF SetObject
  <2>2. stored = [o \in DOMAIN stored |-> stored[o]]
    OBVIOUS
  <2> HIDE DEF stored
  <2>3. storage'[w] = stored /\ \A v \in Workers \ {w} : storage'[v] = storage[v]
    BY <1>0, <2>1
  <2>4. QED
    BY <2>2, <2>3
<1>2. ASSUME NEW w \in Workers, Die(w) PROVE Maps'
  <2>1. storage'[w] = <<>> /\ \A v \in Workers \ {w} : storage'[v] = storage[v]
    BY <1>0, <1>2 DEF Die
  <2>2. QED
    BY <2>1
<1>3. \/ UNCHANGED storage
      \/ \E w \in Workers : Die(w)
      \/ \E w \in Workers : \E id, data : SetObject(w, id, data)
  BY DEF Next, Worker, Gcs, External, GetObjectDataRequest, ReportTaskResultRequest,
       OnAddTowInt, OnUnknownFunction, OnRemoteObject, OnGetObjectData,
       OnReportTaskResult, OnGetObjectLocation, Submit, LoseReport, Killed,
       OnUnaskedResponse, Restart, GcsRestart, vars
<1>4. QED
  BY <1>1, <1>2, <1>3

\* A stored object is the yield of a task, and with it bytes.
LEMMA StoresTyped ==
    ASSUME Shape, Copies, Typed, Maps
    PROVE  StoresOK /\ \A w \in Workers : \A o \in Held(w) : storage[w][o] \in Data
<1>1. \A w \in Workers : \A o \in Held(w) : storage[w][o] \in Data
  <2> SUFFICES ASSUME NEW w \in Workers, NEW o \in Held(w) PROVE storage[w][o] \in Data
    OBVIOUS
  <2>1. o \in DOMAIN Ideal /\ storage[w][o] = Ideal[o]
    BY DEF Copies, CopiesAgree
  <2>2. o.task \in 1 .. Len(tasks) /\ Ideal[o] = tasks[o.task].yield.data
    BY <2>1, Numbers DEF Ideal, ObjectIDs, TaskNumbers, Shape
  <2>3. tasks[o.task] \in Task
    BY <2>2 DEF Typed
  <2>4. tasks[o.task].yield.data \in Data
    BY <2>3 DEF Task, Result
  <2>5. QED
    BY <2>1, <2>2, <2>4
<1>2. StoresOK
  <2>1. \A w \in Workers : storage[w] \in [Held(w) -> Data]
    BY <1>1 DEF Maps
  <2>2. QED
    BY <2>1 DEF StoresOK, Shape, TasksOK, StoragesOK, SetsOK, Typed,
       ReportTaskResultRequest
<1>3. QED
  BY <1>1, <1>2

\* The rest of the variables.
RestOK ==
    /\ running \subseteq Workers /\ gcsRunning \in BOOLEAN
    /\ answer \in Answer \cup {NoAnswer}
    /\ deaths \in 0 .. MaxDeaths /\ queries \in 0 .. MaxQueries

\* An answer has the data of a stored object or none.
LEMMA NextRest ==
    ASSUME RestOK, \A w \in Workers : \A o \in Held(w) : storage[w][o] \in Data,
           [Next]_vars
    PROVE  RestOK'
<1> USE DEF RestOK
<1>1. ASSUME NEW w \in Workers, NEW o \in ObjectIDs, OnGetObjectData(w, o) PROVE RestOK'
  <2>1. <<>> \in Data
    BY DEF Data
  <2>2. answer' \in Answer
    BY <1>1, <2>1 DEF OnGetObjectData, Answer
  <2>3. QED
    BY <1>1, <2>2 DEF OnGetObjectData, gcsVars
<1>2. ASSUME NEW w \in Workers, Die(w), deaths < MaxDeaths PROVE RestOK'
  BY <1>2, ObjectsAssumption DEF Die, gcsVars
<1>3. CASE OnGetObjectLocation
  <2>1. /\ UNCHANGED <<running, answer, deaths>>
        /\ gcsRunning' = FALSE /\ queries' = queries + 1 /\ queries < MaxQueries
    BY <1>3 DEF OnGetObjectLocation
  <2>2. queries' \in 0 .. MaxQueries
    BY <2>1, ObjectsAssumption
  <2>3. gcsRunning' \in BOOLEAN
    BY <2>1
  <2>4. QED
    BY <2>1, <2>2, <2>3
<1>4. CASE GcsRestart
  BY <1>4 DEF GcsRestart
<1>5. ASSUME NEW w \in Workers, Restart(w) PROVE RestOK'
  BY <1>5 DEF Restart, gcsVars
<1>6. CASE UNCHANGED <<running, gcsRunning, answer, deaths, queries>>
  BY <1>6
<1>7. \/ UNCHANGED <<running, gcsRunning, answer, deaths, queries>>
      \/ OnGetObjectLocation \/ GcsRestart
      \/ \E w \in Workers : (Die(w) /\ deaths < MaxDeaths) \/ Restart(w)
      \/ \E w \in Workers, o \in ObjectIDs : OnGetObjectData(w, o)
  BY DEF Next, Worker, Gcs, External, GetObjectDataRequest, ReportTaskResultRequest,
       OnAddTowInt, OnUnknownFunction, OnRemoteObject, OnReportTaskResult, Submit,
       LoseReport, Killed, OnUnaskedResponse, vars, gcsVars
<1>8. QED
  BY <1>1, <1>2, <1>3, <1>4, <1>5, <1>6, <1>7

\* Every variable has its type: whatever the functions yield, and however their
\* results come to be arguments again, it is bytes.
THEOREM TypeCorrect == Spec => []TypeOK
<1> DEFINE IInv == Shape /\ Copies /\ Typed /\ Maps /\ RestOK
<1>1. Init => IInv
  <2> SUFFICES ASSUME Init PROVE IInv
    OBVIOUS
  <2>1. Typed /\ Maps /\ RestOK
    BY ObjectsAssumption DEF Init, Typed, Maps, Held, RestOK
  <2>2. QED
    BY <2>1, InitShape, InitCopies
<1>2. IInv /\ [Next]_vars => IInv'
  BY NextShape, NextCopies, NextTyped, NextMaps, NextRest, StoresTyped
<1>3. IInv => TypeOK
  BY StoresTyped DEF TypeOK, RestOK, Shape, SetsOK
<1>4. QED
  BY <1>1, <1>2, <1>3, PTL DEF Spec

=============================================================================
