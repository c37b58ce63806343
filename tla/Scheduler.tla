------------------------------- MODULE Scheduler -------------------------------
(***************************************************************************)
(* core/scheduler: tasks are pushed on a bounded channel, a loop takes     *)
(* each one and sends it to every known worker, a rejected task goes back  *)
(* on the channel.  The threads are the callers of PushTask, the goroutine *)
(* of Scheduler.Loop and the one event loop of the gnet client, which runs *)
(* OnPacket for all outbound connections.  They share taskChan,            *)
(* pendingTasks and, without a lock, the map workerConns.                  *)
(*                                                                         *)
(* External: the workers, of which only the answers matter, and the links, *)
(* the connections of ClientConn seen from outside.  A link keeps the      *)
(* order of its messages and loses them when it goes down; Send on a dead  *)
(* link reports an error nobody reads, or writes to a closed socket.       *)
(***************************************************************************)
EXTENDS Naturals, Sequences, FiniteSets, Functions

CONSTANTS Tasks,         \* tasks the callers push, each once (ids are unique)
          Computable,    \* those a worker accepts: addTowInt of two ints, and
                         \* functions it does not know
          Workers,       \* addresses given to Scheduler.Connect
          NoTask, NoWorker,
          ChanSize,      \* options.TaskChanSize, 0 unless the caller sets it
          MaxOnLink,     \* bound on the requests and answers on one link
          MaxDrops       \* bound on the links that break

ASSUME SchedulerAssumption ==
    /\ Computable \subseteq Tasks
    /\ ChanSize \in Nat /\ MaxOnLink \in Nat \ {0} /\ MaxDrops \in Nat
    /\ NoTask \notin Tasks /\ NoWorker \notin Workers

VARIABLES
    \* fields of Scheduler
    taskChan, pending, workerConns,
    \* Scheduler.Loop in AssignTask: the task it holds, the workers the range
    \* has still to visit, and the one it has stored the task for
    curTask, todo, target,
    \* the event loop in onAssignTaskResp of a rejected task
    evPc, evTask,
    \* the links, with the requests and the answers on their way
    link,                \* "down" or "up"
    reqs, resps,
    drops,
    crashed,             \* the Go runtime has ended the process
    \* history
    pushed,              \* PushTask returned nil
    accepted,            \* some worker accepted it
    dropped,             \* AssignTask found no worker, or PushTask failed to requeue
    cut                  \* a request or an answer of it was lost with its link

loopVars == <<curTask, todo, target>>
evVars   == <<evPc, evTask>>
linkVars == <<link, reqs, resps>>
history  == <<pushed, accepted, dropped, cut>>
vars     == <<taskChan, pending, workerConns, loopVars, evVars, linkVars, drops,
              crashed, history>>

Answers == [task : Tasks, ok : BOOLEAN]

QueueOK ==
    /\ taskChan \in Seq(Tasks) /\ Len(taskChan) <= ChanSize
    /\ pending \subseteq Tasks
    /\ workerConns \subseteq Workers

ThreadsOK ==
    /\ curTask \in Tasks \cup {NoTask}
    /\ todo \subseteq workerConns
    /\ target \in Workers \cup {NoWorker}
    /\ curTask = NoTask => target = NoWorker
    /\ evPc \in {"idle", "delete", "push"}
    /\ evTask \in Tasks \cup {NoTask}
    /\ evPc # "idle" => evTask \in Tasks

LinksOK ==
    /\ link \in [Workers -> {"down", "up"}]
    /\ reqs \in [Workers -> Seq(Tasks)]
    /\ resps \in [Workers -> Seq(Answers)]
    /\ drops \in 0 .. MaxDrops

HistoryOK ==
    /\ crashed \in BOOLEAN
    /\ pushed \subseteq Tasks /\ accepted \subseteq Tasks
    /\ dropped \subseteq Tasks /\ cut \subseteq Tasks

TypeOK == QueueOK /\ ThreadsOK /\ LinksOK /\ HistoryOK

Init ==
    /\ taskChan = <<>> /\ pending = {} /\ workerConns = {}
    /\ curTask = NoTask /\ todo = {} /\ target = NoWorker
    /\ evPc = "idle" /\ evTask = NoTask
    /\ link = [w \in Workers |-> "down"]
    /\ reqs = [w \in Workers |-> <<>>]
    /\ resps = [w \in Workers |-> <<>>]
    /\ drops = 0 /\ crashed = FALSE
    /\ pushed = {} /\ accepted = {} /\ dropped = {} /\ cut = {}

\* The tasks whose request, or whose answer, is on the link of w.
Requested(w) == Range(reqs[w])
Answered(w)  == {a.task : a \in Range(resps[w])}
InFlight(w)  == Requested(w) \cup Answered(w)

-----------------------------------------------------------------------------
(* The callers of PushTask                                                 *)

\* The task is queued, unless the channel is full and the caller gets an error.
PushTask(t) ==
    /\ t \notin pushed
    /\ Len(taskChan) < ChanSize
    /\ taskChan' = Append(taskChan, t)
    /\ pushed' = pushed \cup {t}
    /\ UNCHANGED <<pending, workerConns, loopVars, evVars, linkVars, drops,
                   crashed, accepted, dropped, cut>>

-----------------------------------------------------------------------------
(* Scheduler.Loop                                                          *)

\* mutant: the task taken stays on the channel.
TakeKeepsTask ==
    /\ curTask = NoTask /\ workerConns # {} /\ taskChan # <<>>
    /\ curTask' = Head(taskChan)
    /\ todo' = workerConns
    /\ UNCHANGED <<taskChan, pending, workerConns, target, evVars, linkVars, drops,
                   crashed, history>>

\* AssignTask takes a task and starts to range over workerConns.
AssignTake ==
    /\ curTask = NoTask /\ workerConns # {} /\ taskChan # <<>>
    /\ curTask' = Head(taskChan)
    /\ taskChan' = Tail(taskChan)
    /\ todo' = workerConns
    /\ UNCHANGED <<pending, workerConns, target, evVars, linkVars, drops, crashed,
                   history>>

\* With no worker known the range is empty, and nobody has the task any more.
AssignToNobody ==
    /\ curTask = NoTask /\ workerConns = {} /\ taskChan # <<>>
    /\ taskChan' = Tail(taskChan)
    /\ dropped' = dropped \cup {Head(taskChan)}
    /\ UNCHANGED <<pending, workerConns, loopVars, evVars, linkVars, drops, crashed,
                   pushed, accepted, cut>>

\* mutant: the task is sent and never stored.
SendWithoutStore(w) ==
    /\ curTask # NoTask /\ target = NoWorker /\ w \in todo
    /\ todo' = todo \ {w}
    /\ target' = w
    /\ UNCHANGED <<taskChan, pending, workerConns, curTask, evVars, linkVars, drops,
                   crashed, history>>

\* One round of the range, in the map's arbitrary order: the task is stored ...
AssignStore(w) ==
    /\ curTask # NoTask /\ target = NoWorker /\ w \in todo
    /\ pending' = pending \cup {curTask}
    /\ todo' = todo \ {w}
    /\ target' = w
    /\ UNCHANGED <<taskChan, workerConns, curTask, evVars, linkVars, drops, crashed,
                   history>>

\* ... and sent, whatever comes of it.  (MaxOnLink only delays it: a link is
\* emptied by its worker and by the event loop, which wait for nobody.)
AssignSend ==
    /\ target # NoWorker
    /\ link[target] = "up" => Len(reqs[target]) + Len(resps[target]) < MaxOnLink
    /\ IF link[target] = "up"
       THEN reqs' = [reqs EXCEPT ![target] = Append(@, curTask)] /\ UNCHANGED cut
       ELSE cut' = cut \cup {curTask} /\ UNCHANGED reqs
    /\ target' = NoWorker
    /\ UNCHANGED <<taskChan, pending, workerConns, curTask, todo, evVars, link, resps,
                   drops, crashed, pushed, accepted, dropped>>

\* On a link that is not established any more Send may also panic (see
\* SendNeverPanics in ClientConn), in a goroutine that recovers nothing.
SendPanics ==
    /\ target # NoWorker /\ link[target] # "up"
    /\ crashed' = TRUE
    /\ UNCHANGED <<taskChan, pending, workerConns, loopVars, evVars, linkVars, drops,
                   history>>

AssignDone ==
    /\ curTask # NoTask /\ target = NoWorker /\ todo = {}
    /\ curTask' = NoTask
    /\ UNCHANGED <<taskChan, pending, workerConns, todo, target, evVars, linkVars,
                   drops, crashed, history>>

-----------------------------------------------------------------------------
(* The event loop: onEstablishAck and onAssignTaskResp                     *)

\* A worker acknowledges, on the first connection or a later one.  It is put
\* in workerConns, where it stays; a range in progress may or may not see it.
OnEstablishAck(w) ==
    /\ evPc = "idle" /\ link[w] = "down"
    /\ link' = [link EXCEPT ![w] = "up"]
    /\ workerConns' = workerConns \cup {w}
    /\ \/ UNCHANGED todo
       \/ curTask # NoTask /\ w \notin workerConns /\ todo' = todo \cup {w}
    /\ UNCHANGED <<taskChan, pending, curTask, target, evVars, reqs, resps, drops,
                   crashed, history>>

\* The same write while AssignTask ranges over the map: if the runtime sees
\* it, the process ends ("concurrent map iteration and map write").
MapRace(w) ==
    /\ evPc = "idle" /\ link[w] = "down" /\ curTask # NoTask
    /\ crashed' = TRUE
    /\ UNCHANGED <<taskChan, pending, workerConns, loopVars, evVars, linkVars, drops,
                   history>>

NextAnswer(w, ok) ==
    /\ evPc = "idle" /\ resps[w] # <<>> /\ Head(resps[w]).ok = ok

\* What was on the link of w is gone, but for the answer being handled.
Cut(w, answers) ==
    /\ link' = [link EXCEPT ![w] = "down"]
    /\ reqs' = [reqs EXCEPT ![w] = <<>>]
    /\ resps' = [resps EXCEPT ![w] = <<>>]
    /\ cut' = cut \cup Requested(w) \cup {a.task : a \in Range(answers)}

\* mutants: an accepted task stays pending; it goes the way of a rejected one.
AcceptKeepsPending(w) ==
    /\ NextAnswer(w, TRUE)
    /\ resps' = [resps EXCEPT ![w] = Tail(@)]
    /\ UNCHANGED <<taskChan, pending, workerConns, loopVars, evVars, link, reqs, drops,
                   crashed, history>>
AcceptFallsThrough(w) ==
    /\ NextAnswer(w, TRUE)
    /\ resps' = [resps EXCEPT ![w] = Tail(@)]
    /\ evPc' = "delete"
    /\ evTask' = Head(resps[w]).task
    /\ UNCHANGED <<taskChan, pending, workerConns, loopVars, link, reqs, drops,
                   crashed, history>>

\* onAssignTaskResp, accepted.
OnAccepted(w) ==
    /\ NextAnswer(w, TRUE)
    /\ resps' = [resps EXCEPT ![w] = Tail(@)]
    /\ pending' = pending \ {Head(resps[w]).task}
    /\ UNCHANGED <<taskChan, workerConns, loopVars, evVars, link, reqs, drops, crashed,
                   history>>

\* Rejected and pending: the task is loaded ...
OnRejected(w) ==
    /\ NextAnswer(w, FALSE)
    /\ Head(resps[w]).task \in pending
    /\ resps' = [resps EXCEPT ![w] = Tail(@)]
    /\ evPc' = "delete"
    /\ evTask' = Head(resps[w]).task
    /\ UNCHANGED <<taskChan, pending, workerConns, loopVars, link, reqs, drops, crashed,
                   history>>

\* ... rejected and not pending: the error closes the connection ...
OnRejectedUnknown(w) ==
    /\ NextAnswer(w, FALSE)
    /\ Head(resps[w]).task \notin pending
    /\ Cut(w, Tail(resps[w]))
    /\ UNCHANGED <<taskChan, pending, workerConns, loopVars, evVars, drops, crashed,
                   pushed, accepted, dropped>>

\* ... deleted from pendingTasks ...
RejectDelete ==
    /\ evPc = "delete"
    /\ pending' = pending \ {evTask}
    /\ evPc' = "push"
    /\ UNCHANGED <<taskChan, workerConns, loopVars, evTask, linkVars, drops, crashed,
                   history>>

\* mutants: the rejected task is not queued again; it is queued without limit; it
\* goes before those that have waited.
RejectForgets ==
    /\ evPc = "push"
    /\ evPc' = "idle" /\ evTask' = NoTask
    /\ UNCHANGED <<taskChan, pending, workerConns, loopVars, linkVars, drops, crashed,
                   history>>
RejectOverfills ==
    /\ evPc = "push"
    /\ taskChan' = Append(taskChan, evTask)
    /\ evPc' = "idle" /\ evTask' = NoTask
    /\ UNCHANGED <<pending, workerConns, loopVars, linkVars, drops, crashed, history>>

RejectToTheFront ==
    /\ evPc = "push"
    /\ IF Len(taskChan) < ChanSize
       THEN taskChan' = <<evTask>> \o taskChan /\ UNCHANGED dropped
       ELSE dropped' = dropped \cup {evTask} /\ UNCHANGED taskChan
    /\ evPc' = "idle" /\ evTask' = NoTask
    /\ UNCHANGED <<pending, workerConns, loopVars, linkVars, drops, crashed, pushed,
                   accepted, cut>>

\* ... and pushed.  Nobody reads the error of a full channel.
RejectRequeue ==
    /\ evPc = "push"
    /\ IF Len(taskChan) < ChanSize
       THEN taskChan' = Append(taskChan, evTask) /\ UNCHANGED dropped
       ELSE dropped' = dropped \cup {evTask} /\ UNCHANGED taskChan
    /\ evPc' = "idle" /\ evTask' = NoTask
    /\ UNCHANGED <<pending, workerConns, loopVars, linkVars, drops, crashed, pushed,
                   accepted, cut>>

-----------------------------------------------------------------------------
(* Workers and links (external)                                            *)

\* worker.onAssignTask.  The connection stays open in either case: the error of a
\* rejection is overwritten by that of EncodePayload before it is returned.
Answer(w, ok) ==
    /\ link[w] = "up" /\ reqs[w] # <<>>
    /\ reqs' = [reqs EXCEPT ![w] = Tail(@)]
    /\ resps' = [resps EXCEPT ![w] = Append(@, [task |-> Head(reqs[w]), ok |-> ok])]
    /\ UNCHANGED <<taskChan, pending, workerConns, loopVars, evVars, link, drops,
                   crashed, pushed, dropped, cut>>

\* The verdict, if one comes, is that of the task, the same from every worker and
\* each time (OneVerdict in Objects).
WorkerAccepts(w) ==
    /\ Answer(w, TRUE)
    /\ Head(reqs[w]) \in Computable
    /\ accepted' = accepted \cup {Head(reqs[w])}

WorkerRejects(w) ==
    /\ Answer(w, FALSE)
    /\ Head(reqs[w]) \notin Computable
    /\ UNCHANGED accepted

\* The connection breaks.
LinkDown(w) ==
    /\ link[w] = "up" /\ drops < MaxDrops
    /\ drops' = drops + 1
    /\ Cut(w, resps[w])
    /\ UNCHANGED <<taskChan, pending, workerConns, loopVars, evVars, crashed,
                   pushed, accepted, dropped>>

-----------------------------------------------------------------------------
Loop ==
    \/ AssignTake \/ AssignToNobody \/ AssignSend \/ AssignDone
    \/ \E w \in Workers : AssignStore(w)

OnAnswer(w) == OnAccepted(w) \/ OnRejected(w) \/ OnRejectedUnknown(w)

EventLoop == RejectDelete \/ RejectRequeue \/ \E w \in Workers : OnAnswer(w)

\* A worker answers, either way, or its link breaks.
WorkerSteps(w) == WorkerAccepts(w) \/ WorkerRejects(w) \/ LinkDown(w)

Next ==
    /\ ~crashed
    /\ \/ \E t \in Tasks : PushTask(t)
       \/ Loop \/ SendPanics
       \/ EventLoop
       \/ \E w \in Workers : OnEstablishAck(w) \/ MapRace(w) \/ WorkerSteps(w)

Spec == Init /\ [][Next]_vars

\* The goroutine of Loop and the event loop are scheduled, and the event loop
\* serves every connection that has data before it polls again: no other
\* connection keeps it from the answers of w for ever.  A worker answers or its
\* link breaks, since a link on which nothing is received for recvIdleTimeout is
\* given up.  Nobody has to push or to connect, and no answer has to be a good one.
FairSpec ==
    /\ Spec
    /\ WF_vars(~crashed /\ Loop) /\ WF_vars(~crashed /\ EventLoop)
    /\ \A w \in Workers : SF_vars(~crashed /\ OnAnswer(w))
    /\ \A w \in Workers : WF_vars(~crashed /\ WorkerSteps(w))

-----------------------------------------------------------------------------
(* Properties                                                              *)

\* A task that PushTask took is never forgotten: it is on the channel, in the
\* hands of AssignTask or of onAssignTaskResp, pending, or accepted, unless it
\* was dropped where no worker is known or where a requeue finds the channel
\* full.  Load, Delete and PushTask of a rejection race with the Store and the
\* Send of every round of AssignTask.
NoTaskVanishes ==
    \A t \in pushed :
        \/ t \in Range(taskChan) \/ t = curTask \/ t = evTask
        \/ t \in pending \cup accepted \cup dropped

\* A pending task has a request or an answer under way, or is about to be sent
\* or deleted, unless a lost link took its request or answer with it.  (Such an
\* orphan stays pending for ever: nothing reads pendingTasks but a rejection.)
PendingIsAwaited ==
    \A t \in pending :
        \/ \E w \in Workers : t \in InFlight(w)
        \/ target # NoWorker /\ t = curTask
        \/ evPc = "delete" /\ t = evTask
        \/ t \in cut

\* A task that no worker accepts is rejected and requeued for ever.  It starves
\* nobody, and is not forgotten either: unless it is dropped or orphaned as above
\* or the process dies, a pushed task is accepted in the end if it can be, and
\* otherwise gets its round, and its rejection, again and again.
NoStarvation ==
    \A t \in Tasks :
        t \in pushed ~>
            \/ crashed
            \/ t \in dropped \cup cut
            \/ IF t \in Computable THEN t \in accepted ELSE t = evTask

(* What holds as long as one worker only was ever known, and with more does  *)
(* not: the others were broadcast copies that live on.                       *)

SingleWorker == \A v, w \in workerConns : v = w

\* A task that was accepted is nowhere from where it would be executed again.
AcceptedIsFinal ==
    SingleWorker =>
        \A t \in accepted :
            /\ t \notin Range(taskChan) /\ t # evTask
            /\ t = curTask => target = NoWorker /\ todo = {}
            /\ \A w \in Workers : t \notin Requested(w)

\* "task not found": a rejection that arrives finds its task pending, so that
\* onAssignTaskResp never closes a healthy connection.
RejectionFindsPending ==
    SingleWorker =>
        \A w \in Workers : NextAnswer(w, FALSE) => Head(resps[w]).task \in pending

\* With a channel as large as the number of tasks, and the worker known, no
\* task is dropped: the channel has room for every rejected task, however it is
\* interleaved with new ones.
RequeueFindsRoom ==
    [][Cardinality(Tasks) <= ChanSize /\ workerConns # {} /\ SingleWorker'
           => dropped' = dropped]_vars

=============================================================================
