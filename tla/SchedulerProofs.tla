--------------------------- MODULE SchedulerProofs ---------------------------
(***************************************************************************)
(* Proofs about Scheduler for any tasks, workers, channel size and bounds: *)
(* its types, that no pushed task is forgotten, and that a pending task is *)
(* awaited unless a lost link orphaned it; and, as long as one worker only *)
(* is known, that there is one copy of a task, which is executed once.     *)
(***************************************************************************)
EXTENDS Scheduler, DataLemmas, FiniteSetTheorems, TLAPS

-----------------------------------------------------------------------------
(* Types                                                                   *)

\* The event loop holds a task exactly while it handles its rejection.
EvInv == evPc = "idle" => evTask = NoTask

LEMMA InitTypes == Init => TypeOK /\ EvInv
<1> SUFFICES ASSUME Init PROVE TypeOK /\ EvInv
  OBVIOUS
<1> USE SchedulerAssumption DEF Init
<1>1. QueueOK /\ ThreadsOK /\ EvInv
  BY DEF QueueOK, ThreadsOK, EvInv
<1>2. LinksOK
  BY DEF LinksOK
<1>3. HistoryOK
  BY DEF HistoryOK
<1>4. QED
  BY <1>1, <1>2, <1>3 DEF TypeOK

\* Each step keeps the types.
LEMMA NextTypes == TypeOK /\ EvInv /\ [Next]_vars => TypeOK' /\ EvInv'
<1> SUFFICES ASSUME TypeOK, EvInv, [Next]_vars PROVE TypeOK' /\ EvInv'
  OBVIOUS
<1> USE SchedulerAssumption
    DEF TypeOK, QueueOK, ThreadsOK, LinksOK, HistoryOK, EvInv, loopVars, evVars,
        linkVars, history
<1>1. ASSUME NEW t \in Tasks, PushTask(t) PROVE TypeOK' /\ EvInv'
  BY <1>1, AppendRange DEF PushTask
<1>2. CASE AssignTake
  <2>1. Head(taskChan) \in Tasks /\ Tail(taskChan) \in Seq(Tasks)
        /\ Len(Tail(taskChan)) < Len(taskChan)
    BY <1>2, TailRange DEF AssignTake
  <2>2. QED
    BY <1>2, <2>1 DEF AssignTake
<1>3. CASE AssignToNobody
  <2>1. Head(taskChan) \in Tasks /\ Tail(taskChan) \in Seq(Tasks)
        /\ Len(Tail(taskChan)) < Len(taskChan)
    BY <1>3, TailRange DEF AssignToNobody
  <2>2. QED
    BY <1>3, <2>1 DEF AssignToNobody
<1>4. ASSUME NEW w \in Workers, AssignStore(w) PROVE TypeOK' /\ EvInv'
  BY <1>4 DEF AssignStore
<1>5. CASE AssignSend
  <2>1. Append(reqs[target], curTask) \in Seq(Tasks)
    BY <1>5, AppendRange DEF AssignSend
  <2>2. QED
    BY <1>5, <2>1, ZenonT(30) DEF AssignSend
<1>6. CASE SendPanics \/ AssignDone
  BY <1>6 DEF SendPanics, AssignDone
<1>7. ASSUME NEW w \in Workers, OnEstablishAck(w) \/ MapRace(w)
      PROVE  TypeOK' /\ EvInv'
  BY <1>7 DEF OnEstablishAck, MapRace
<1>8. ASSUME NEW w \in Workers, OnAccepted(w) \/ OnRejected(w)
      PROVE  TypeOK' /\ EvInv'
  <2>1. /\ Tail(resps[w]) \in Seq(Answers)
        /\ Head(resps[w]) \in Answers
    BY <1>8, TailRange DEF OnAccepted, OnRejected, NextAnswer
  <2>2. Head(resps[w]).task \in Tasks
    BY <2>1 DEF Answers
  <2>3. resps' \in [Workers -> Seq(Answers)]
    BY <1>8, <2>1 DEF OnAccepted, OnRejected
  <2>4. CASE OnAccepted(w)
    BY <2>3, <2>4 DEF OnAccepted
  <2>5. CASE OnRejected(w)
    BY <2>2, <2>3, <2>5 DEF OnRejected
  <2>6. QED
    BY <1>8, <2>4, <2>5
<1>9. ASSUME NEW w \in Workers, OnRejectedUnknown(w) PROVE TypeOK' /\ EvInv'
  <2>1. /\ Tail(resps[w]) \in Seq(Answers)
        /\ Range(Tail(resps[w])) \subseteq Answers
        /\ Requested(w) \subseteq Tasks
    BY <1>9, TailRange, SomeRange DEF OnRejectedUnknown, NextAnswer, Requested
  <2>2. QED
    BY <1>9, <2>1 DEF OnRejectedUnknown, Cut, Answers
<1>10. CASE RejectDelete
  BY <1>10 DEF RejectDelete
<1>11. CASE RejectRequeue
  <2>1. /\ Append(taskChan, evTask) \in Seq(Tasks)
        /\ Len(Append(taskChan, evTask)) = Len(taskChan) + 1
    BY <1>11, AppendRange DEF RejectRequeue
  <2>2. CASE Len(taskChan) < ChanSize
    <3>1. taskChan' = Append(taskChan, evTask) /\ UNCHANGED <<pending, workerConns>>
      BY <1>11, <2>2 DEF RejectRequeue
    <3>2. Len(taskChan') <= ChanSize
      BY <2>1, <2>2, <3>1
    <3>3. QueueOK'
      BY <2>1, <3>1, <3>2
    <3>4. QED
      BY <1>11, <2>2, <3>3 DEF RejectRequeue
  <2>3. CASE ~(Len(taskChan) < ChanSize)
    BY <1>11, <2>3 DEF RejectRequeue
  <2>4. QED
    BY <2>2, <2>3
<1>12. ASSUME NEW w \in Workers, WorkerAccepts(w) PROVE TypeOK' /\ EvInv'
  <2>1. Head(reqs[w]) \in Tasks /\ Tail(reqs[w]) \in Seq(Tasks)
    BY <1>12, TailRange DEF WorkerAccepts, Answer
  <2>2. Append(resps[w], [task |-> Head(reqs[w]), ok |-> TRUE]) \in Seq(Answers)
    BY <2>1, AppendRange DEF Answers
  <2>3. QED
    BY <1>12, <2>1, <2>2 DEF WorkerAccepts, Answer
<1>13. ASSUME NEW w \in Workers, WorkerRejects(w) PROVE TypeOK' /\ EvInv'
  <2>1. Head(reqs[w]) \in Tasks /\ Tail(reqs[w]) \in Seq(Tasks)
    BY <1>13, TailRange DEF WorkerRejects, Answer
  <2>2. Append(resps[w], [task |-> Head(reqs[w]), ok |-> FALSE]) \in Seq(Answers)
    BY <2>1, AppendRange DEF Answers
  <2>3. QED
    BY <1>13, <2>1, <2>2 DEF WorkerRejects, Answer
<1>14. ASSUME NEW w \in Workers, LinkDown(w) PROVE TypeOK' /\ EvInv'
  <2>1. Range(resps[w]) \subseteq Answers /\ Requested(w) \subseteq Tasks
    BY SomeRange DEF Requested
  <2>2. QueueOK'
    BY <1>14, <2>1 DEF LinkDown, Cut, Answers
  <2>3. ThreadsOK' /\ EvInv'
    BY <1>14, <2>1 DEF LinkDown, Cut, Answers
  <2>4. LinksOK'
    <3>1. drops' \in 0 .. MaxDrops
      BY <1>14, EmptySeq DEF LinkDown, Cut
    <3>2. link' \in [Workers -> {"down", "up"}]
      BY <1>14, EmptySeq DEF LinkDown, Cut
    <3>3. reqs' \in [Workers -> Seq(Tasks)]
      BY <1>14, EmptySeq DEF LinkDown, Cut
    <3>4. resps' \in [Workers -> Seq(Answers)]
      BY <1>14, EmptySeq DEF LinkDown, Cut
    <3>5. QED
      BY <3>1, <3>2, <3>3, <3>4
  <2>5. HistoryOK'
    BY <1>14, <2>1 DEF LinkDown, Cut, Answers
  <2>6. QED
    BY <2>2, <2>3, <2>4, <2>5
<1>15. CASE UNCHANGED vars
  BY <1>15 DEF vars
<1>16. QED
  BY <1>1, <1>2, <1>3, <1>4, <1>5, <1>6, <1>7, <1>8, <1>9, <1>10, <1>11, <1>12,
     <1>13, <1>14, <1>15 DEF Next, Loop, EventLoop, OnAnswer, WorkerSteps

LEMMA Types == Spec => [](TypeOK /\ EvInv)
BY InitTypes, NextTypes, PTL DEF Spec

\* The channel never holds more than its capacity, and every task, worker and
\* message stays within its type, for any number of them.
THEOREM TypeCorrect == Spec => []TypeOK
BY Types, PTL

-----------------------------------------------------------------------------
(* No pushed task is forgotten                                             *)

\* An accepting answer speaks of an accepted task: deleting it from
\* pendingTasks loses nothing.
AnswerInv == \A w \in Workers : \A a \in Range(resps[w]) : a.ok => a.task \in accepted

LEMMA NextAnswers ==
    TypeOK /\ AnswerInv /\ [Next]_vars => AnswerInv'
<1> SUFFICES ASSUME TypeOK, AnswerInv, [Next]_vars,
                    NEW v \in Workers, NEW b \in Range(resps'[v]), b.ok
             PROVE  b.task \in accepted'
  BY DEF AnswerInv
<1> USE DEF TypeOK, LinksOK, AnswerInv, linkVars, history
<1>1. accepted \subseteq accepted'
  BY DEF Next, Loop, EventLoop, OnAnswer, WorkerSteps, PushTask, AssignTake, AssignToNobody,
     AssignStore, AssignSend, SendPanics, AssignDone, OnEstablishAck, MapRace,
     OnAccepted, OnRejected, OnRejectedUnknown, RejectDelete, RejectRequeue,
     WorkerAccepts, WorkerRejects, Answer, LinkDown, vars
<1>2. CASE UNCHANGED resps
  BY <1>1, <1>2
<1>3. ASSUME NEW w \in Workers, OnAccepted(w) \/ OnRejected(w)
      PROVE  b.task \in accepted'
  <2>1. resps' = [resps EXCEPT ![w] = Tail(@)] /\ resps[w] # <<>>
    BY <1>3 DEF OnAccepted, OnRejected, NextAnswer
  <2>2. Range(Tail(resps[w])) \subseteq Range(resps[w])
    BY <2>1, TailRange
  <2>3. QED
    BY <1>1, <2>1, <2>2
<1>4. ASSUME NEW w \in Workers, OnRejectedUnknown(w) \/ LinkDown(w)
      PROVE  b.task \in accepted'
  BY <1>1, <1>4, SomeRange DEF OnRejectedUnknown, LinkDown, Cut
<1>5. ASSUME NEW w \in Workers, NEW ok \in BOOLEAN, Answer(w, ok),
             ok => Head(reqs[w]) \in accepted'
      PROVE  b.task \in accepted'
  <2> DEFINE a == [task |-> Head(reqs[w]), ok |-> ok]
  <2>1. a \in Answers /\ (a.ok => a.task \in accepted')
    BY <1>5, TailRange DEF Answer, Answers
  <2>2. resps' = [resps EXCEPT ![w] = Append(@, a)]
    BY <1>5 DEF Answer
  <2>3. Range(Append(resps[w], a)) = Range(resps[w]) \cup {a}
    <3> HIDE DEF a
    <3>1. resps[w] \in Seq(Answers)
      OBVIOUS
    <3>2. QED
      BY <2>1, <3>1, AppendRange
  <2>4. QED
    <3> HIDE DEF a
    <3>1. QED
      BY <1>1, <2>1, <2>2, <2>3
<1>6. ASSUME NEW w \in Workers, WorkerAccepts(w) \/ WorkerRejects(w)
      PROVE  b.task \in accepted'
  BY <1>5, <1>6 DEF WorkerAccepts, WorkerRejects
<1>7. QED
  BY <1>2, <1>3, <1>4, <1>5, <1>6 DEF Next, Loop, EventLoop, OnAnswer, WorkerSteps,
     PushTask, AssignTake, AssignToNobody, AssignStore, AssignSend, SendPanics, AssignDone,
     OnEstablishAck, MapRace, RejectDelete, RejectRequeue, vars

\* A task is kept somewhere other than in the hands of AssignTask.  AssignTask
\* may let go of a task once one round has stored it.
Kept(t) == t \in Range(taskChan) \/ t = evTask \/ t \in pending \cup accepted \cup dropped
KeptInv == \A t \in pushed : Kept(t) \/ (t = curTask /\ todo # {})

LEMMA NextKept ==
    TypeOK /\ EvInv /\ AnswerInv /\ KeptInv /\ [Next]_vars => KeptInv'
<1> SUFFICES ASSUME TypeOK, EvInv, AnswerInv, KeptInv, [Next]_vars,
                    NEW t \in pushed'
             PROVE  Kept(t)' \/ (t = curTask' /\ todo' # {})
  BY DEF KeptInv
<1> USE SchedulerAssumption DEF TypeOK, QueueOK, ThreadsOK, HistoryOK, EvInv, KeptInv,
        Kept, loopVars, evVars, history
<1>1. ASSUME NEW u \in Tasks, PushTask(u)
      PROVE  Kept(t)' \/ (t = curTask' /\ todo' # {})
  BY <1>1, AppendRange DEF PushTask
<1>2. CASE AssignTake \/ AssignToNobody
  <2>1. Range(taskChan) = {Head(taskChan)} \cup Range(Tail(taskChan))
    BY <1>2, TailRange DEF AssignTake, AssignToNobody
  <2>2. CASE AssignTake
    BY <2>1, <2>2 DEF AssignTake
  <2>3. CASE AssignToNobody
    BY <2>1, <2>3 DEF AssignToNobody
  <2>4. QED
    BY <1>2, <2>2, <2>3
<1>3. ASSUME NEW w \in Workers, AssignStore(w)
      PROVE  Kept(t)' \/ (t = curTask' /\ todo' # {})
  BY <1>3 DEF AssignStore
<1>4. CASE AssignSend \/ SendPanics \/ AssignDone
  <2>1. UNCHANGED <<taskChan, pending, todo, evVars, pushed, accepted, dropped>>
    BY <1>4 DEF AssignSend, SendPanics, AssignDone
  <2>2. curTask' = curTask \/ todo = {}
    BY <1>4 DEF AssignSend, SendPanics, AssignDone
  <2>3. QED
    BY <2>1, <2>2
<1>5. ASSUME NEW w \in Workers, OnEstablishAck(w) \/ MapRace(w)
      PROVE  Kept(t)' \/ (t = curTask' /\ todo' # {})
  BY <1>5 DEF OnEstablishAck, MapRace
<1>6. ASSUME NEW w \in Workers, OnAccepted(w)
      PROVE  Kept(t)' \/ (t = curTask' /\ todo' # {})
  <2>1. Head(resps[w]).task \in accepted
    <3>1. Head(resps[w]) \in Range(resps[w]) /\ Head(resps[w]).ok
      BY <1>6, TailRange DEF OnAccepted, NextAnswer, LinksOK
    <3>2. QED
      BY <3>1 DEF AnswerInv
  <2>2. QED
    BY <1>6, <2>1 DEF OnAccepted
<1>7. ASSUME NEW w \in Workers, OnRejected(w)
      PROVE  Kept(t)' \/ (t = curTask' /\ todo' # {})
  <2>1. evTask = NoTask
    BY <1>7 DEF OnRejected, NextAnswer
  <2>2. QED
    BY <1>7, <2>1 DEF OnRejected
<1>8. ASSUME NEW w \in Workers,
             OnRejectedUnknown(w) \/ WorkerRejects(w) \/ LinkDown(w)
      PROVE  Kept(t)' \/ (t = curTask' /\ todo' # {})
  <2>1. UNCHANGED <<taskChan, pending, loopVars, evVars, pushed, accepted, dropped>>
    BY <1>8 DEF OnRejectedUnknown, WorkerRejects, Answer, LinkDown
  <2>2. QED
    BY <2>1
<1>9. CASE RejectDelete
  BY <1>9 DEF RejectDelete
<1>10. CASE RejectRequeue
  <2>1. CASE Len(taskChan) < ChanSize
    <3>0. taskChan' = Append(taskChan, evTask) /\ evTask \in Tasks
      BY <1>10, <2>1 DEF RejectRequeue
    <3>1. Range(taskChan') = Range(taskChan) \cup {evTask}
      BY <3>0, AppendRange
    <3>2. QED
      BY <1>10, <2>1, <3>1 DEF RejectRequeue
  <2>2. CASE ~(Len(taskChan) < ChanSize)
    BY <1>10, <2>2 DEF RejectRequeue
  <2>3. QED
    BY <2>1, <2>2
<1>11. ASSUME NEW w \in Workers, WorkerAccepts(w)
       PROVE  Kept(t)' \/ (t = curTask' /\ todo' # {})
  BY <1>11 DEF WorkerAccepts, Answer
<1>12. CASE UNCHANGED vars
  BY <1>12 DEF vars
<1>13. QED
  BY <1>1, <1>2, <1>3, <1>4, <1>5, <1>6, <1>7, <1>8, <1>9, <1>10, <1>11, <1>12
     DEF Next, Loop, EventLoop, OnAnswer, WorkerSteps

\* No task that PushTask took is ever forgotten, for any number of tasks and
\* workers, any channel size and any interleaving of rejections and rounds.
THEOREM NeverForgotten == Spec => []NoTaskVanishes
<1>1. Init => AnswerInv /\ KeptInv
  BY SomeRange DEF Init, AnswerInv, KeptInv
<1>2. KeptInv => NoTaskVanishes
  BY DEF KeptInv, Kept, NoTaskVanishes
<1>3. QED
  BY <1>1, <1>2, Types, NextAnswers, NextKept, PTL DEF Spec

-----------------------------------------------------------------------------
(* A pending task is awaited                                               *)

\* The reasons why a task may be pending.
Awaited(t) ==
    \/ \E w \in Workers : t \in InFlight(w)
    \/ target # NoWorker /\ t = curTask
    \/ evPc = "delete" /\ t = evTask
    \/ t \in cut

\* Removing the head of a link's queue of answers takes one task off the link.
LEMMA AnswerTaken ==
    ASSUME NEW w \in Workers, resps[w] \in Seq(Answers), resps[w] # <<>>,
           NEW v \in Workers, NEW t \in InFlight(v), t # Head(resps[w]).task,
           UNCHANGED reqs, resps' = [resps EXCEPT ![w] = Tail(@)],
           resps \in [Workers -> Seq(Answers)]
    PROVE  t \in InFlight(v)'
<1>1. Range(resps[w]) = {Head(resps[w])} \cup Range(Tail(resps[w]))
  BY TailRange
<1>2. QED
  BY <1>1 DEF InFlight, Requested, Answered

LEMMA NextAwaited ==
    TypeOK /\ EvInv /\ PendingIsAwaited /\ [Next]_vars => PendingIsAwaited'
<1> SUFFICES ASSUME TypeOK, EvInv, PendingIsAwaited, [Next]_vars, NEW t \in pending'
             PROVE  Awaited(t)'
  BY DEF PendingIsAwaited, Awaited
<1>0. t \in pending => Awaited(t)
  BY DEF PendingIsAwaited, Awaited
<1> USE SchedulerAssumption DEF TypeOK, QueueOK, ThreadsOK, LinksOK, HistoryOK, EvInv,
        loopVars, evVars, linkVars, history
<1> DEFINE SameFlight == UNCHANGED <<reqs, resps>>
<1>1. SameFlight => \A w \in Workers : InFlight(w)' = InFlight(w)
  BY DEF InFlight, Requested, Answered
<1>2. ASSUME NEW u \in Tasks, PushTask(u) PROVE Awaited(t)'
  BY <1>0, <1>1, <1>2 DEF PushTask, Awaited
<1>3. CASE AssignTake \/ AssignToNobody \/ AssignDone
  BY <1>0, <1>1, <1>3 DEF AssignTake, AssignToNobody, AssignDone, Awaited
<1>4. ASSUME NEW w \in Workers, AssignStore(w) PROVE Awaited(t)'
  BY <1>0, <1>1, <1>4 DEF AssignStore, Awaited
<1>5. CASE AssignSend
  <2>1. CASE link[target] = "up"
    <3>0. /\ curTask \in Tasks /\ target \in Workers /\ reqs[target] \in Seq(Tasks)
          /\ reqs'[target] = Append(reqs[target], curTask)
      BY <1>5, <2>1 DEF AssignSend
    <3>1. Range(reqs'[target]) = Range(reqs[target]) \cup {curTask}
      BY <3>0, AppendRange
    <3>2. \E w \in Workers : curTask \in InFlight(w)'
      BY <1>5, <3>1 DEF AssignSend, InFlight, Requested
    <3>3. \A w \in Workers : InFlight(w) \subseteq InFlight(w)'
      BY <1>5, <2>1, <3>1 DEF AssignSend, InFlight, Requested, Answered
    <3>4. t \in pending /\ UNCHANGED <<curTask, evPc, evTask, cut>>
      BY <1>5, <2>1 DEF AssignSend
    <3>5. QED
      BY <1>0, <3>2, <3>3, <3>4 DEF Awaited
  <2>2. CASE link[target] # "up"
    BY <1>0, <1>1, <1>5, <2>2 DEF AssignSend, Awaited
  <2>3. QED
    BY <2>1, <2>2
<1>6. CASE SendPanics
  BY <1>0, <1>1, <1>6 DEF SendPanics, Awaited
<1>7. ASSUME NEW w \in Workers, OnEstablishAck(w) \/ MapRace(w) PROVE Awaited(t)'
  BY <1>0, <1>1, <1>7 DEF OnEstablishAck, MapRace, Awaited
<1>8. ASSUME NEW w \in Workers, OnAccepted(w) PROVE Awaited(t)'
  <2>1. t \in pending /\ t # Head(resps[w]).task
    BY <1>8 DEF OnAccepted
  <2>2. \A v \in Workers : t \in InFlight(v) => t \in InFlight(v)'
    BY <1>8, <2>1, AnswerTaken DEF OnAccepted, NextAnswer
  <2>3. QED
    BY <1>0, <1>8, <2>1, <2>2 DEF OnAccepted, Awaited
<1>9. ASSUME NEW w \in Workers, OnRejected(w) PROVE Awaited(t)'
  <2>1. CASE t = Head(resps[w]).task
    BY <1>9, <2>1 DEF OnRejected, Awaited
  <2>2. CASE t # Head(resps[w]).task
    <3>1. \A v \in Workers : t \in InFlight(v) => t \in InFlight(v)'
      BY <1>9, <2>2, AnswerTaken DEF OnRejected, NextAnswer
    <3>2. QED
      BY <1>0, <1>9, <3>1 DEF OnRejected, NextAnswer, Awaited
  <2>3. QED
    BY <2>1, <2>2
<1>10. ASSUME NEW w \in Workers, OnRejectedUnknown(w) PROVE Awaited(t)'
  <2>1. t \in pending /\ t # Head(resps[w]).task
    BY <1>10 DEF OnRejectedUnknown
  <2>2. Range(resps[w]) = {Head(resps[w])} \cup Range(Tail(resps[w]))
    BY <1>10, TailRange DEF OnRejectedUnknown, NextAnswer
  <2>3. \A v \in Workers : t \in InFlight(v) => t \in InFlight(v)' \/ t \in cut'
    BY <1>10, <2>1, <2>2 DEF OnRejectedUnknown, Cut, InFlight, Requested, Answered
  <2>4. QED
    BY <1>0, <1>10, <2>1, <2>3 DEF OnRejectedUnknown, Cut, Awaited
<1>11. CASE RejectDelete \/ RejectRequeue
  BY <1>0, <1>1, <1>11 DEF RejectDelete, RejectRequeue, Awaited
<1>12. ASSUME NEW w \in Workers, NEW ok \in BOOLEAN, Answer(w, ok) PROVE Awaited(t)'
  <2> DEFINE a == [task |-> Head(reqs[w]), ok |-> ok]
  <2>1. a \in Answers /\ a.task = Head(reqs[w])
    BY <1>12, TailRange DEF Answer, Answers
  <2>2. Range(reqs[w]) = {Head(reqs[w])} \cup Range(Tail(reqs[w]))
    BY <1>12, TailRange DEF Answer
  <2>3. resps' = [resps EXCEPT ![w] = Append(@, a)]
    BY <1>12 DEF Answer
  <2>4. Range(resps'[w]) = Range(resps[w]) \cup {a}
    <3> HIDE DEF a
    <3>1. QED
      BY <2>1, <2>3, AppendRange
  <2>5. \A v \in Workers : InFlight(v) \subseteq InFlight(v)'
    <3> HIDE DEF a
    <3>1. \A v \in Workers : v # w => InFlight(v)' = InFlight(v)
      BY <1>12, <2>3 DEF Answer, InFlight, Requested, Answered
    <3>2. reqs'[w] = Tail(reqs[w])
      BY <1>12 DEF Answer
    <3>3. InFlight(w) \subseteq InFlight(w)'
      BY <2>1, <2>2, <2>4, <3>2 DEF InFlight, Requested, Answered
    <3>4. QED
      BY <3>1, <3>3
  <2>6. QED
    BY <1>0, <1>12, <2>5 DEF Answer, Awaited
<1>13. ASSUME NEW w \in Workers, WorkerAccepts(w) \/ WorkerRejects(w) PROVE Awaited(t)'
  BY <1>12, <1>13 DEF WorkerAccepts, WorkerRejects
<1>14. ASSUME NEW w \in Workers, LinkDown(w) PROVE Awaited(t)'
  <2>1. \A v \in Workers : InFlight(v) \subseteq InFlight(v)' \cup cut'
    BY <1>14 DEF LinkDown, Cut, InFlight, Requested, Answered
  <2>2. cut \subseteq cut' /\ UNCHANGED <<pending, curTask, target, evPc, evTask>>
    BY <1>14 DEF LinkDown, Cut
  <2>3. QED
    BY <1>0, <2>1, <2>2 DEF Awaited
<1>15. CASE UNCHANGED vars
  BY <1>0, <1>1, <1>15 DEF vars, Awaited
<1>16. QED
  BY <1>2, <1>3, <1>4, <1>5, <1>6, <1>7, <1>8, <1>9, <1>10, <1>11, <1>12, <1>13,
     <1>14, <1>15 DEF Next, Loop, EventLoop, OnAnswer, WorkerSteps

\* Only the loss of a link orphans a pending task, for any number of tasks and
\* workers: no interleaving of rounds and answers does.
THEOREM OrphansAreCut == Spec => []PendingIsAwaited
<1>1. Init => PendingIsAwaited
  BY DEF Init, PendingIsAwaited
<1>2. QED
  BY <1>1, Types, NextAwaited, PTL DEF Spec

-----------------------------------------------------------------------------
(* While one worker only is known                                          *)

\* What holds of workers not known, and of AssignTask between two of its rounds.
Strangers ==
    /\ \A w \in Workers \ workerConns :
          link[w] = "down" /\ reqs[w] = <<>> /\ resps[w] = <<>>
    /\ target \in workerConns \cup {NoWorker} /\ target \notin todo
    /\ curTask # NoTask => workerConns # {}
    /\ curTask = NoTask => todo = {}

\* The places from where a task may yet be executed.
Queued == Range(taskChan)
Hand   == IF todo # {} \/ target # NoWorker THEN {curTask} ELSE {}
Back   == {evTask} \ {NoTask}

\* A task that is anywhere was pushed.
PushedInv ==
    /\ Queued \cup Back \cup accepted \subseteq pushed
    /\ curTask \in pushed \cup {NoTask}
    /\ \A w \in Workers : InFlight(w) \subseteq pushed

TasksOf(answers) == [i \in DOMAIN answers |-> answers[i].task]

\* A task is in one place, once.
Once ==
    /\ IsInjective(taskChan)
    /\ Queued \cap Hand = {} /\ Queued \cap Back = {} /\ Hand \cap Back = {}
    /\ \A w \in Workers :
          /\ IsInjective(reqs[w]) /\ IsInjective(TasksOf(resps[w]))
          /\ Requested(w) \cap Answered(w) = {}
          /\ InFlight(w) \cap (Queued \cup Hand \cup Back) = {}

\* What is sent or under way is pending, what was accepted is nowhere else.
Settled ==
    /\ target # NoWorker => curTask \in pending
    /\ \A w \in Workers : InFlight(w) \subseteq pending
    /\ accepted \cap (Queued \cup Hand \cup Back) = {}
    /\ \A w \in Workers :
          /\ accepted \cap Requested(w) = {}
          /\ \A a \in Range(resps[w]) : a.task \in accepted => a.ok

OneCopy == SingleWorker => Once /\ Settled

\* The tasks of a queue of answers are a queue.
LEMMA TasksOfAnswers ==
    ASSUME NEW q \in Seq(Answers)
    PROVE  /\ TasksOf(q) \in Seq(Tasks)
           /\ Len(TasksOf(q)) = Len(q)
           /\ \A i \in 1 .. Len(q) : TasksOf(q)[i] = q[i].task
           /\ Range(TasksOf(q)) = {a.task : a \in Range(q)}
<1>1. /\ Len(q) \in Nat /\ DOMAIN q = 1 .. Len(q) /\ DOMAIN TasksOf(q) = 1 .. Len(q)
      /\ \A i \in 1 .. Len(q) : q[i] \in Answers /\ TasksOf(q)[i] = q[i].task
  BY DEF TasksOf
<1>2. \A a \in Answers : a.task \in Tasks
  BY DEF Answers
<1>3. TasksOf(q) \in Seq(Tasks)
  BY <1>1, <1>2, IsASeq DEF TasksOf
<1>4. Len(TasksOf(q)) = Len(q)
  <2> HIDE DEF TasksOf
  <2>1. QED
    BY <1>1, <1>3, LenProperties
<1>5. QED
  BY <1>1, <1>3, <1>4 DEF Range

LEMMA TailElements ==
    ASSUME NEW s \in Seq(Tasks), s # <<>>
    PROVE  /\ Tail(s) \in Seq(Tasks) /\ Len(Tail(s)) = Len(s) - 1
           /\ \A i \in 1 .. Len(s) - 1 : Tail(s)[i] = s[i + 1]
BY HeadTailProperties

LEMMA TasksOfTail ==
    ASSUME NEW q \in Seq(Answers), q # <<>>
    PROVE  /\ TasksOf(q) # <<>> /\ Head(TasksOf(q)) = Head(q).task
           /\ TasksOf(Tail(q)) = Tail(TasksOf(q))
<1>1. /\ Len(q) \in Nat /\ Len(q) > 0 /\ DOMAIN q = 1 .. Len(q) /\ Head(q) = q[1]
      /\ Tail(q) \in Seq(Answers) /\ Len(Tail(q)) = Len(q) - 1
      /\ \A i \in 1 .. Len(q) - 1 : Tail(q)[i] = q[i + 1]
  BY HeadTailProperties
<1>2. TasksOf(q) \in Seq(Tasks) /\ Len(TasksOf(q)) = Len(q)
      /\ \A i \in 1 .. Len(q) : TasksOf(q)[i] = q[i].task
  BY <1>1, TasksOfAnswers
<1>3. /\ TasksOf(q) \in Seq(Tasks) /\ Len(TasksOf(q)) = Len(q)
      /\ TasksOf(q) # <<>> /\ Head(TasksOf(q)) = Head(q).task
  BY <1>1, <1>2
<1>4. /\ Tail(TasksOf(q)) \in Seq(Tasks) /\ Len(Tail(TasksOf(q))) = Len(q) - 1
      /\ \A i \in 1 .. Len(q) - 1 : Tail(TasksOf(q))[i] = TasksOf(q)[i + 1]
  BY <1>3, TailElements, SMTT(30)
<1>5. /\ TasksOf(Tail(q)) \in Seq(Tasks) /\ Len(TasksOf(Tail(q))) = Len(q) - 1
      /\ \A i \in 1 .. Len(q) - 1 : TasksOf(Tail(q))[i] = Tail(q)[i].task
  BY <1>1, TasksOfAnswers
<1>6. \A i \in 1 .. Len(q) - 1 : TasksOf(Tail(q))[i] = Tail(TasksOf(q))[i]
  BY <1>1, <1>2, <1>4, <1>5
<1>7. TasksOf(Tail(q)) = Tail(TasksOf(q))
  BY <1>1, <1>4, <1>5, <1>6, SeqEqual
<1>8. QED
  BY <1>3, <1>7

LEMMA TasksOfAppend ==
    ASSUME NEW q \in Seq(Answers), NEW a \in Answers
    PROVE  TasksOf(Append(q, a)) = Append(TasksOf(q), a.task)
<1>1. Len(q) \in Nat /\ a.task \in Tasks
  BY DEF Answers
<1>2. /\ Append(q, a) \in Seq(Answers) /\ Len(Append(q, a)) = Len(q) + 1
      /\ \A i \in 1 .. Len(q) : Append(q, a)[i] = q[i]
      /\ Append(q, a)[Len(q) + 1] = a
  OBVIOUS
<1>3. TasksOf(q) \in Seq(Tasks) /\ Len(TasksOf(q)) = Len(q)
      /\ \A i \in 1 .. Len(q) : TasksOf(q)[i] = q[i].task
  BY TasksOfAnswers
<1>4. /\ TasksOf(Append(q, a)) \in Seq(Tasks) /\ Len(TasksOf(Append(q, a))) = Len(q) + 1
      /\ \A i \in 1 .. Len(q) + 1 : TasksOf(Append(q, a))[i] = Append(q, a)[i].task
  BY <1>2, TasksOfAnswers
<1>5. /\ Append(TasksOf(q), a.task) \in Seq(Tasks)
      /\ Len(Append(TasksOf(q), a.task)) = Len(q) + 1
      /\ \A i \in 1 .. Len(q) : Append(TasksOf(q), a.task)[i] = TasksOf(q)[i]
      /\ Append(TasksOf(q), a.task)[Len(q) + 1] = a.task
  BY <1>1, <1>3
<1>6. \A i \in 1 .. Len(q) + 1 :
          TasksOf(Append(q, a))[i] = Append(TasksOf(q), a.task)[i]
  <2> TAKE i \in 1 .. Len(q) + 1
  <2>1. CASE i = Len(q) + 1
    BY <1>2, <1>4, <1>5, <2>1
  <2>2. CASE i # Len(q) + 1
    <3>1. i \in 1 .. Len(q)
      BY <1>1, <2>2
    <3>2. QED
      BY <1>2, <1>3, <1>4, <1>5, <3>1
  <2>3. QED
    BY <2>1, <2>2
<1>7. QED
  BY <1>4, <1>5, <1>6, SeqEqual

LEMMA NextStrangers == TypeOK /\ Strangers /\ [Next]_vars => Strangers'
<1> SUFFICES ASSUME TypeOK, Strangers, [Next]_vars PROVE Strangers'
  OBVIOUS
<1> USE SchedulerAssumption DEF TypeOK, QueueOK, ThreadsOK, LinksOK, Strangers, loopVars,
        linkVars
<1>1. CASE UNCHANGED <<linkVars, workerConns, loopVars>>
  BY <1>1
<1>2. CASE AssignTake \/ AssignDone
  <2>1. Head(taskChan) # NoTask \/ AssignDone
    BY <1>2, TailRange DEF AssignTake
  <2>2. QED
    BY <1>2, <2>1 DEF AssignTake, AssignDone
<1>3. ASSUME NEW w \in Workers, AssignStore(w) PROVE Strangers'
  BY <1>3 DEF AssignStore
<1>4. CASE AssignSend
  BY <1>4 DEF AssignSend
<1>5. ASSUME NEW w \in Workers, OnEstablishAck(w) PROVE Strangers'
  BY <1>5 DEF OnEstablishAck
<1>6. ASSUME NEW w \in Workers, OnAccepted(w) \/ OnRejected(w) PROVE Strangers'
  BY <1>6 DEF OnAccepted, OnRejected, NextAnswer
<1>7. ASSUME NEW w \in Workers, OnRejectedUnknown(w) \/ LinkDown(w) PROVE Strangers'
  BY <1>7 DEF OnRejectedUnknown, LinkDown, Cut
<1>8. ASSUME NEW w \in Workers, WorkerAccepts(w) \/ WorkerRejects(w) PROVE Strangers'
  BY <1>8 DEF WorkerAccepts, WorkerRejects, Answer
<1>9. QED
  BY <1>1, <1>2, <1>3, <1>4, <1>5, <1>6, <1>7, <1>8 DEF Next, Loop, EventLoop,
     OnAnswer, WorkerSteps, PushTask, AssignToNobody, SendPanics, MapRace, RejectDelete,
     RejectRequeue, vars

\* What the steps on a link do to the tasks on it: an answer is taken off.
LEMMA TakenOff ==
    ASSUME TypeOK, NEW w \in Workers, NEW ok \in BOOLEAN, NextAnswer(w, ok),
           resps' = [resps EXCEPT ![w] = Tail(@)], UNCHANGED reqs
    PROVE  /\ Head(resps[w]) \in Range(resps[w])
           /\ Head(resps[w]).task \in Tasks
           /\ Range(resps[w])' \subseteq Range(resps[w])
           /\ Answered(w) = Answered(w)' \cup {Head(resps[w]).task}
           /\ Requested(w)' = Requested(w)
           /\ \A v \in Workers \ {w} : resps'[v] = resps[v] /\ InFlight(v)' = InFlight(v)
<1>1. resps[w] \in Seq(Answers) /\ resps[w] # <<>> /\ resps'[w] = Tail(resps[w])
  BY DEF TypeOK, LinksOK, NextAnswer
<1>2. /\ Head(resps[w]) \in Answers
      /\ Range(resps[w]) = {Head(resps[w])} \cup Range(Tail(resps[w]))
  BY <1>1, TailRange
<1>3. \A v \in Workers \ {w} : resps'[v] = resps[v]
  BY DEF TypeOK, LinksOK
<1>4. QED
  BY <1>1, <1>2, <1>3 DEF Answers, Answered, Requested, InFlight

\* A worker moves a task from its requests to its answers.
LEMMA Replied ==
    ASSUME TypeOK, NEW w \in Workers, NEW ok \in BOOLEAN, Answer(w, ok)
    PROVE  /\ Head(reqs[w]) \in Requested(w)
           /\ Requested(w) = Requested(w)' \cup {Head(reqs[w])}
           /\ Answered(w)' = Answered(w) \cup {Head(reqs[w])}
           /\ Range(resps'[w]) = Range(resps[w]) \cup {[task |-> Head(reqs[w]), ok |-> ok]}
           /\ \A v \in Workers \ {w} : /\ reqs'[v] = reqs[v] /\ resps'[v] = resps[v]
                                       /\ InFlight(v)' = InFlight(v)
<1> DEFINE a == [task |-> Head(reqs[w]), ok |-> ok]
<1>1. reqs[w] \in Seq(Tasks) /\ reqs[w] # <<>> /\ reqs'[w] = Tail(reqs[w])
  BY DEF TypeOK, LinksOK, Answer
<1>2. Head(reqs[w]) \in Tasks /\ Range(reqs[w]) = {Head(reqs[w])} \cup Range(Tail(reqs[w]))
  BY <1>1, TailRange
<1>3. a \in Answers /\ a.task = Head(reqs[w])
  BY <1>2 DEF Answers
<1>4. resps[w] \in Seq(Answers) /\ resps'[w] = Append(resps[w], a)
  BY DEF TypeOK, LinksOK, Answer
<1>5. Range(resps'[w]) = Range(resps[w]) \cup {a}
  <2> HIDE DEF a
  <2>1. QED
    BY <1>3, <1>4, AppendRange
<1>6. \A v \in Workers \ {w} : reqs'[v] = reqs[v] /\ resps'[v] = resps[v]
  BY DEF TypeOK, LinksOK, Answer
<1>7. Answered(w)' = Answered(w) \cup {Head(reqs[w])}
  <2> HIDE DEF a
  <2>1. QED
    BY <1>3, <1>5 DEF Answered
<1>8. QED
  BY <1>1, <1>2, <1>5, <1>6, <1>7 DEF Answered, Requested, InFlight

\* A link that goes down keeps nothing.
LEMMA CutOff ==
    ASSUME TypeOK, NEW w \in Workers, NEW answers, Cut(w, answers)
    PROVE  /\ reqs'[w] = <<>> /\ resps'[w] = <<>> /\ InFlight(w)' = {}
           /\ Requested(w)' = {} /\ Answered(w)' = {} /\ Range(resps'[w]) = {}
           /\ \A v \in Workers \ {w} : /\ reqs'[v] = reqs[v] /\ resps'[v] = resps[v]
                                       /\ InFlight(v)' = InFlight(v)
<1>1. reqs'[w] = <<>> /\ resps'[w] = <<>> /\ Range(<<>>) = {}
  BY SomeRange DEF TypeOK, LinksOK, Cut
<1>2. \A v \in Workers \ {w} : reqs'[v] = reqs[v] /\ resps'[v] = resps[v]
  BY DEF TypeOK, LinksOK, Cut
<1>3. QED
  BY <1>1, <1>2 DEF Answered, Requested, InFlight

\* A request goes to the end of one link.
LEMMA Sent ==
    ASSUME TypeOK, AssignSend, NEW w \in Workers, w = target, link[w] = "up"
    PROVE  /\ curTask \in Tasks /\ reqs'[w] = Append(reqs[w], curTask)
           /\ Requested(w)' = Requested(w) \cup {curTask}
           /\ Answered(w)' = Answered(w)
           /\ \A v \in Workers \ {w} : reqs'[v] = reqs[v] /\ InFlight(v)' = InFlight(v)
<1>1. /\ curTask \in Tasks /\ reqs[w] \in Seq(Tasks)
      /\ reqs'[w] = Append(reqs[w], curTask) /\ UNCHANGED resps
      /\ \A v \in Workers \ {w} : reqs'[v] = reqs[v]
  BY SchedulerAssumption DEF TypeOK, ThreadsOK, LinksOK, AssignSend
<1>2. Range(reqs'[w]) = Range(reqs[w]) \cup {curTask}
  BY <1>1, AppendRange
<1>3. QED
  BY <1>1, <1>2 DEF Answered, Requested, InFlight

\* What the steps on the channel do to the tasks on it.
LEMMA Taken ==
    ASSUME TypeOK, AssignTake \/ AssignToNobody
    PROVE  /\ taskChan \in Seq(Tasks) /\ taskChan # <<>> /\ taskChan' = Tail(taskChan)
           /\ Head(taskChan) \in Tasks
           /\ Queued = Queued' \cup {Head(taskChan)}
<1>1. taskChan \in Seq(Tasks) /\ taskChan # <<>> /\ taskChan' = Tail(taskChan)
  BY DEF TypeOK, QueueOK, AssignTake, AssignToNobody
<1>2. QED
  BY <1>1, TailRange DEF Queued

LEMMA Put ==
    ASSUME TypeOK, NEW t \in Tasks, taskChan' = Append(taskChan, t)
    PROVE  taskChan \in Seq(Tasks) /\ Queued' = Queued \cup {t}
BY AppendRange DEF TypeOK, QueueOK, Queued

LEMMA NextPushed ==
    TypeOK /\ EvInv /\ Strangers /\ PushedInv /\ [Next]_vars => PushedInv'
<1> SUFFICES ASSUME TypeOK, EvInv, Strangers, PushedInv, [Next]_vars PROVE PushedInv'
  OBVIOUS
<1> USE DEF PushedInv
<1>0. UNCHANGED <<reqs, resps>> => \A w \in Workers : InFlight(w)' = InFlight(w)
  BY DEF InFlight, Requested, Answered
<1>1. ASSUME NEW t \in Tasks, PushTask(t) PROVE PushedInv'
  BY <1>0, <1>1, Put DEF PushTask, Back, loopVars, evVars, linkVars
<1>2. CASE AssignTake \/ AssignToNobody
  BY <1>0, <1>2, Taken DEF AssignTake, AssignToNobody, Back, loopVars, evVars,
     linkVars, history
<1>3. ASSUME NEW w \in Workers, AssignStore(w) PROVE PushedInv'
  BY <1>0, <1>3 DEF AssignStore, Queued, Back, evVars, linkVars, history
<1>4. CASE AssignSend
  <2>1. curTask \in pushed
    BY <1>4 DEF AssignSend, TypeOK, ThreadsOK
  <2>2. Queued' = Queued /\ Back' = Back /\ UNCHANGED <<accepted, pushed, curTask>>
    BY <1>4 DEF AssignSend, Queued, Back, evVars
  <2>3. \A w \in Workers : InFlight(w)' \subseteq InFlight(w) \cup {curTask}
    <3>1. CASE link[target] = "up"
      <4>1. target \in Workers
        BY <1>4 DEF AssignSend, TypeOK, ThreadsOK
      <4>2. QED
        BY <1>4, <3>1, <4>1, Sent DEF InFlight
    <3>2. CASE link[target] # "up"
      BY <1>0, <1>4, <3>2 DEF AssignSend
    <3>3. QED
      BY <3>1, <3>2
  <2>4. QED
    BY <2>1, <2>2, <2>3
<1>5. CASE SendPanics \/ AssignDone \/ \E w \in Workers : MapRace(w)
  BY <1>0, <1>5 DEF SendPanics, AssignDone, MapRace, Queued, Back, loopVars,
     evVars, linkVars, history
<1>6. ASSUME NEW w \in Workers, OnEstablishAck(w) PROVE PushedInv'
  BY <1>0, <1>6 DEF OnEstablishAck, Queued, Back, evVars, history
<1>7. ASSUME NEW w \in Workers, OnAccepted(w) \/ OnRejected(w) PROVE PushedInv'
  <2>1. \E ok \in BOOLEAN : NextAnswer(w, ok)
    BY <1>7 DEF OnAccepted, OnRejected
  <2>2. resps' = [resps EXCEPT ![w] = Tail(@)] /\ UNCHANGED reqs
    BY <1>7 DEF OnAccepted, OnRejected
  <2>3. /\ Head(resps[w]).task \in InFlight(w)
        /\ \A v \in Workers : InFlight(v)' \subseteq InFlight(v)
    BY <2>1, <2>2, TakenOff DEF InFlight
  <2>4. QED
    BY <1>7, <2>3 DEF OnAccepted, OnRejected, Queued, Back, loopVars, evVars, history
<1>8. ASSUME NEW w \in Workers, OnRejectedUnknown(w) \/ LinkDown(w) PROVE PushedInv'
  <2>1. \E answers : Cut(w, answers)
    BY <1>8 DEF OnRejectedUnknown, LinkDown
  <2>2. \A v \in Workers : InFlight(v)' \subseteq InFlight(v)
    BY <2>1, CutOff
  <2>3. QED
    BY <1>8, <2>2 DEF OnRejectedUnknown, LinkDown, Queued, Back, loopVars, evVars
<1>9. CASE RejectDelete
  BY <1>0, <1>9 DEF RejectDelete, Queued, Back, loopVars, linkVars, history
<1>10. CASE RejectRequeue
  <2>1. evTask \in Tasks /\ evTask \in pushed
    BY <1>10, SchedulerAssumption DEF RejectRequeue, Back, TypeOK, ThreadsOK
  <2>2. Queued' \subseteq Queued \cup {evTask}
    BY <1>10, <2>1, Put DEF RejectRequeue, Queued
  <2>3. QED
    BY <1>0, <1>10, <2>1, <2>2 DEF RejectRequeue, Back, loopVars, linkVars
<1>11. ASSUME NEW w \in Workers, WorkerAccepts(w) \/ WorkerRejects(w) PROVE PushedInv'
  <2>1. \E ok \in BOOLEAN : Answer(w, ok)
    BY <1>11 DEF WorkerAccepts, WorkerRejects
  <2>2. /\ Head(reqs[w]) \in InFlight(w)
        /\ \A v \in Workers : InFlight(v)' \subseteq InFlight(v)
    BY <2>1, Replied DEF InFlight
  <2>3. QED
    BY <1>11, <2>2 DEF WorkerAccepts, WorkerRejects, Answer, Queued, Back, loopVars,
       evVars
<1>12. CASE UNCHANGED vars
  BY <1>0, <1>12 DEF vars, Queued, Back, loopVars, evVars, linkVars, history
<1>13. QED
  BY <1>1, <1>2, <1>3, <1>4, <1>5, <1>6, <1>7, <1>8, <1>9, <1>10, <1>11, <1>12
     DEF Next, Loop, EventLoop, OnAnswer, WorkerSteps

\* With one worker known, nothing is on the links of the others.
LEMMA TheOnly ==
    ASSUME TypeOK, Strangers, SingleWorker, NEW w \in workerConns
    PROVE  /\ w \in Workers /\ workerConns = {w}
           /\ target # NoWorker => target = w /\ todo = {}
           /\ \A v \in Workers \ {w} :
                 /\ reqs[v] = <<>> /\ resps[v] = <<>> /\ Range(resps[v]) = {}
                 /\ Requested(v) = {} /\ Answered(v) = {} /\ InFlight(v) = {}
<1>1. w \in Workers /\ workerConns = {w}
  BY DEF TypeOK, QueueOK, SingleWorker
<1>2. target # NoWorker => target = w /\ todo = {}
  BY <1>1 DEF TypeOK, ThreadsOK, Strangers
<1>3. \A v \in Workers \ {w} : reqs[v] = <<>> /\ resps[v] = <<>>
  BY <1>1 DEF Strangers
<1>4. QED
  BY <1>1, <1>2, <1>3, SomeRange DEF Requested, Answered, InFlight

\* No step makes a second copy: what a step puts in one place it takes from another.
LEMMA NextOneCopy ==
    TypeOK /\ EvInv /\ AnswerInv /\ Strangers /\ PushedInv /\ OneCopy /\ [Next]_vars
        => OneCopy'
<1> SUFFICES ASSUME TypeOK, EvInv, AnswerInv, Strangers, PushedInv, OneCopy, [Next]_vars,
                    SingleWorker'
             PROVE  Once' /\ Settled'
  BY DEF OneCopy
<1>0. workerConns \subseteq workerConns'
  BY DEF Next, Loop, EventLoop, OnAnswer, WorkerSteps, PushTask, AssignTake, AssignToNobody,
     AssignStore, AssignSend, SendPanics, AssignDone, OnEstablishAck, MapRace,
     OnAccepted, OnRejected, OnRejectedUnknown, RejectDelete, RejectRequeue,
     WorkerAccepts, WorkerRejects, Answer, LinkDown, vars
<1>s. SingleWorker
  BY <1>0 DEF SingleWorker
<1>i. Once /\ Settled
  BY <1>s DEF OneCopy
<1> USE <1>i DEF Once, Settled
<1>f. UNCHANGED <<reqs, resps>> =>
         \A w \in Workers : /\ InFlight(w)' = InFlight(w) /\ Requested(w)' = Requested(w)
                            /\ Answered(w)' = Answered(w)
  BY DEF InFlight, Requested, Answered
<1>1. ASSUME NEW t \in Tasks, PushTask(t) PROVE Once' /\ Settled'
  <2>1. UNCHANGED <<pending, loopVars, evVars, reqs, resps, accepted>>
    BY <1>1 DEF PushTask, linkVars
  <2>2. Hand' = Hand /\ Back' = Back
    BY <2>1 DEF Hand, Back, loopVars, evVars
  <2>3. /\ t \notin Queued \cup Back \cup accepted /\ \A w \in Workers : t \notin InFlight(w)
        /\ t \notin Hand
    <3>1. t \notin pushed /\ t # NoTask
      BY <1>1, SchedulerAssumption DEF PushTask
    <3>2. Hand \subseteq {curTask}
      BY DEF Hand
    <3>3. QED
      BY <3>1, <3>2 DEF PushedInv
  <2>4. Queued' = Queued \cup {t} /\ IsInjective(taskChan')
    BY <1>1, <2>3, Put, AppendOnce DEF PushTask, Queued
  <2>5. QED
    BY <1>f, <2>1, <2>2, <2>3, <2>4 DEF loopVars
<1>2. CASE AssignTake
  <2>1. UNCHANGED <<pending, target, evVars, reqs, resps, accepted>>
    BY <1>2 DEF AssignTake, linkVars, history
  <2>2. Back' = Back /\ Hand' = {Head(taskChan)} /\ target = NoWorker
    BY <1>2 DEF AssignTake, Hand, Back, evVars, TypeOK, ThreadsOK
  <2>3. /\ IsInjective(taskChan') /\ Head(taskChan) \notin Queued'
        /\ Queued = Queued' \cup {Head(taskChan)}
    BY <1>2, Taken, TailOnce DEF Queued
  <2>4. QED
    BY <1>f, <2>1, <2>2, <2>3
<1>3. CASE AssignToNobody
  <2>1. UNCHANGED <<pending, loopVars, evVars, reqs, resps, accepted>>
    BY <1>3 DEF AssignToNobody, linkVars
  <2>2. Back' = Back /\ Hand' = Hand
    BY <2>1 DEF Hand, Back, loopVars, evVars
  <2>3. IsInjective(taskChan') /\ Queued' \subseteq Queued
    BY <1>3, Taken, TailOnce
  <2>4. QED
    BY <1>f, <2>1, <2>2, <2>3 DEF loopVars
<1>4. ASSUME NEW w \in Workers, AssignStore(w) PROVE Once' /\ Settled'
  <2>1. UNCHANGED <<taskChan, curTask, evVars, reqs, resps, accepted>>
    BY <1>4 DEF AssignStore, linkVars, history
  <2>2. Back' = Back /\ Queued' = Queued /\ Hand' = Hand /\ pending' = pending \cup {curTask}
    BY <1>4, <2>1, SchedulerAssumption DEF AssignStore, Hand, Back, Queued, evVars
  <2>3. QED
    BY <1>f, <2>1, <2>2
<1>5. CASE AssignSend
  <2>1. UNCHANGED <<taskChan, pending, curTask, evVars, resps, accepted>> /\ target' = NoWorker
    BY <1>5 DEF AssignSend
  <2>2. target \in workerConns /\ target # NoWorker /\ todo = {} /\ todo' = {}
    BY <1>s, <1>5, TheOnly DEF AssignSend, Strangers
  <2>3. Back' = Back /\ Queued' = Queued /\ Hand = {curTask} /\ Hand' = {}
    BY <2>1, <2>2 DEF Hand, Back, Queued, evVars
  <2>4. CASE link[target] = "up"
    <3>1. PICK w \in Workers : w = target
      BY <2>2 DEF TypeOK, QueueOK
    <3>2. /\ Requested(w)' = Requested(w) \cup {curTask} /\ Answered(w)' = Answered(w)
          /\ \A v \in Workers \ {w} : reqs'[v] = reqs[v] /\ InFlight(v)' = InFlight(v)
          /\ reqs'[w] = Append(reqs[w], curTask) /\ curTask \in Tasks
      BY <1>5, <2>4, <3>1, Sent
    <3>3. curTask \notin InFlight(w)
      BY <2>3, <3>1
    <3>4. IsInjective(reqs'[w])
      BY <3>1, <3>2, <3>3, AppendOnce DEF TypeOK, LinksOK, InFlight, Requested
    <3>5. \A v \in Workers \ {w} : Requested(v)' = Requested(v) /\ Answered(v)' = Answered(v)
      BY <2>1, <3>2 DEF Requested, Answered
    <3>6. curTask \in pending
      BY <2>2
    <3>7. /\ InFlight(w)' = InFlight(w) \cup {curTask}
          /\ Requested(w)' \cap Answered(w)' = {}
      BY <3>2, <3>3 DEF InFlight
    <3>8. \A v \in Workers :
              /\ InFlight(v)' \subseteq InFlight(v) \cup Hand
              /\ Requested(v)' \subseteq Requested(v) \cup Hand
              /\ IsInjective(reqs'[v]) /\ Requested(v)' \cap Answered(v)' = {}
      <4> TAKE v \in Workers
      <4>1. CASE v = w
        BY <2>3, <3>2, <3>4, <3>7, <4>1
      <4>2. CASE v # w
        BY <3>2, <3>5, <4>2
      <4>3. QED
        BY <4>1, <4>2
    <3>9. Once'
      BY <2>1, <2>3, <3>8
    <3>10. Settled'
      BY <2>1, <2>3, <3>6, <3>8
    <3>11. QED
      BY <3>9, <3>10
  <2>5. CASE link[target] # "up"
    <3>1. UNCHANGED reqs
      BY <1>5, <2>5 DEF AssignSend
    <3>2. QED
      BY <1>f, <2>1, <2>3, <3>1
  <2>6. QED
    BY <2>4, <2>5
<1>6. CASE UNCHANGED <<taskChan, pending, loopVars, evVars, reqs, resps, accepted>>
  <2>1. Hand' = Hand /\ Back' = Back /\ Queued' = Queued
    BY <1>6 DEF Hand, Back, Queued, loopVars, evVars
  <2>2. QED
    BY <1>f, <1>6, <2>1 DEF loopVars
<1>7. CASE AssignDone
  <2>1. Hand' = {} /\ Back' = Back /\ Queued' = Queued
        /\ UNCHANGED <<taskChan, pending, target, reqs, resps, accepted>> /\ target = NoWorker
    BY <1>7 DEF AssignDone, Hand, Back, Queued, evVars, linkVars, history
  <2>2. QED
    BY <1>f, <2>1
<1>8. ASSUME NEW w \in Workers, OnEstablishAck(w) PROVE Once' /\ Settled'
  <2>1. UNCHANGED todo
    BY <1>8 DEF OnEstablishAck, Strangers, SingleWorker, TypeOK, QueueOK
  <2>2. QED
    BY <1>6, <1>8, <2>1 DEF OnEstablishAck, loopVars, history
<1>9. ASSUME NEW w \in Workers, OnAccepted(w) \/ OnRejected(w) PROVE Once' /\ Settled'
  <2> DEFINE t == Head(resps[w]).task
  <2>1. PICK ok \in BOOLEAN : NextAnswer(w, ok)
    BY <1>9 DEF OnAccepted, OnRejected
  <2>2. resps' = [resps EXCEPT ![w] = Tail(@)]
        /\ UNCHANGED <<taskChan, curTask, target, todo, reqs, accepted>>
    BY <1>9 DEF OnAccepted, OnRejected, loopVars, history
  <2>3. /\ Head(resps[w]) \in Range(resps[w]) /\ t \in Tasks
        /\ Answered(w) = Answered(w)' \cup {t} /\ Requested(w)' = Requested(w)
        /\ Range(resps[w])' \subseteq Range(resps[w])
        /\ \A v \in Workers \ {w} : resps'[v] = resps[v] /\ InFlight(v)' = InFlight(v)
    BY <2>1, <2>2, TakenOff
  <2>4. resps[w] \in Seq(Answers) /\ resps[w] # <<>> /\ resps'[w] = Tail(resps[w])
    BY <2>1, <2>2 DEF NextAnswer, TypeOK, LinksOK
  <2>5. IsInjective(TasksOf(resps'[w])) /\ t \notin Answered(w)'
    <3>1. TasksOf(resps[w]) \in Seq(Tasks) /\ TasksOf(resps[w]) # <<>>
          /\ Head(TasksOf(resps[w])) = t /\ TasksOf(resps'[w]) = Tail(TasksOf(resps[w]))
      BY <2>4, TasksOfAnswers, TasksOfTail
    <3>2. IsInjective(TasksOf(resps'[w])) /\ t \notin Range(TasksOf(resps'[w]))
      BY <3>1, TailOnce
    <3>3. Range(TasksOf(resps'[w])) = Answered(w)'
      BY <2>4, HeadTailProperties, TasksOfAnswers DEF Answered
    <3>4. QED
      BY <3>2, <3>3
  <2>6. \A v \in Workers \ {w} :
            /\ reqs[v] = <<>> /\ resps[v] = <<>> /\ Range(resps[v]) = {}
            /\ Requested(v) = {} /\ Answered(v) = {} /\ InFlight(v) = {}
    BY <1>s, <2>4, TheOnly DEF Strangers
  <2> HIDE DEF t
  <2>7. t \notin InFlight(w)' /\ t \in InFlight(w) /\ InFlight(w)' \subseteq InFlight(w)
    BY <2>3, <2>5 DEF InFlight
  <2>8. \A v \in Workers :
            /\ InFlight(v)' \subseteq InFlight(v) /\ t \notin InFlight(v)'
            /\ Requested(v)' = Requested(v) /\ Answered(v)' \subseteq Answered(v)
            /\ Range(resps'[v]) \subseteq Range(resps[v])
            /\ IsInjective(TasksOf(resps'[v]))
    <3> TAKE v \in Workers
    <3>1. CASE v = w
      BY <2>3, <2>5, <2>7, <3>1
    <3>2. CASE v # w
      <4>1. UNCHANGED <<reqs[v], resps[v]>>
        BY <2>2, <2>3, <3>2
      <4>2. QED
        BY <2>6, <3>2, <4>1 DEF InFlight, Requested, Answered
    <3>3. QED
      BY <3>1, <3>2
  <2>9. Queued' = Queued /\ Hand' = Hand
    BY <2>2 DEF Queued, Hand
  <2>10. CASE OnAccepted(w)
    <3>1. pending' = pending \ {t} /\ Back' = Back
      BY <2>10 DEF OnAccepted, Back, evVars, t
    <3>2. target # NoWorker => curTask # t
      BY <2>7 DEF Hand
    <3>3. QED
      BY <2>2, <2>8, <2>9, <3>1, <3>2
  <2>11. CASE OnRejected(w)
    <3>1. UNCHANGED pending /\ Back = {} /\ Back' = {t}
      BY <2>3, <2>11, SchedulerAssumption DEF OnRejected, NextAnswer, EvInv, Back, t
    <3>2. t \notin accepted
      BY <2>3, <2>11 DEF OnRejected, NextAnswer, t
    <3>3. t \notin Queued \cup Hand
      BY <2>7
    <3>4. QED
      BY <2>2, <2>8, <2>9, <3>1, <3>2, <3>3
  <2>12. QED
    BY <1>9, <2>10, <2>11
<1>10. ASSUME NEW w \in Workers PROVE ~OnRejectedUnknown(w)
  <2> SUFFICES ASSUME OnRejectedUnknown(w) PROVE FALSE
    OBVIOUS
  <2>1. Head(resps[w]) \in Range(resps[w]) /\ Head(resps[w]).task \notin pending
    BY TailRange DEF OnRejectedUnknown, NextAnswer, TypeOK, LinksOK
  <2>2. QED
    BY <2>1 DEF InFlight, Answered
<1>11. ASSUME NEW w \in Workers, LinkDown(w) PROVE Once' /\ Settled'
  <2>1. UNCHANGED <<taskChan, pending, loopVars, evVars, accepted>> /\ Cut(w, resps[w])
    BY <1>11 DEF LinkDown
  <2>2. Queued' = Queued /\ Hand' = Hand /\ Back' = Back
    BY <2>1 DEF Queued, Hand, Back, loopVars, evVars
  <2>3. /\ InFlight(w)' = {} /\ Requested(w)' = {} /\ Answered(w)' = {}
        /\ Range(resps'[w]) = {} /\ reqs'[w] = <<>> /\ resps'[w] = <<>>
        /\ \A v \in Workers \ {w} : reqs'[v] = reqs[v] /\ resps'[v] = resps[v]
    BY <2>1, CutOff
  <2>4. IsInjective(reqs'[w]) /\ IsInjective(TasksOf(resps'[w]))
    BY <2>3 DEF IsInjective, TasksOf
  <2>5. \A v \in Workers \ {w} :
            /\ Requested(v)' = Requested(v) /\ Answered(v)' = Answered(v)
            /\ InFlight(v)' = InFlight(v)
    BY <2>3 DEF Requested, Answered, InFlight
  <2>6. QED
    BY <2>1, <2>2, <2>3, <2>4, <2>5 DEF loopVars
<1>12. CASE RejectDelete
  <2>1. UNCHANGED <<taskChan, loopVars, evTask, reqs, resps, accepted>>
        /\ pending' = pending \ {evTask} /\ evTask # NoTask
    BY <1>12, SchedulerAssumption DEF RejectDelete, TypeOK, ThreadsOK, linkVars, history
  <2>2. Queued' = Queued /\ Hand' = Hand /\ Back' = Back /\ Back = {evTask}
    BY <2>1 DEF Queued, Hand, Back, loopVars
  <2>3. target # NoWorker => curTask # evTask
    BY <2>2 DEF Hand
  <2>4. QED
    BY <1>f, <2>1, <2>2, <2>3 DEF loopVars
<1>13. CASE RejectRequeue
  <2>1. UNCHANGED <<pending, loopVars, reqs, resps, accepted>> /\ evTask \in Tasks
    BY <1>13 DEF RejectRequeue, TypeOK, ThreadsOK, linkVars
  <2>2. Hand' = Hand /\ Back = {evTask} /\ Back' = {}
    BY <1>13, <2>1, SchedulerAssumption DEF RejectRequeue, Hand, Back, loopVars
  <2>3. Queued' \subseteq Queued \cup {evTask} /\ IsInjective(taskChan')
    <3>1. CASE Len(taskChan) < ChanSize
      <4>1. taskChan' = Append(taskChan, evTask) /\ evTask \notin Queued
        BY <1>13, <2>2, <3>1 DEF RejectRequeue
      <4>2. taskChan \in Seq(Tasks) /\ Queued' = Queued \cup {evTask}
        BY <2>1, <4>1, Put
      <4>3. QED
        BY <2>1, <4>1, <4>2, AppendOnce DEF Queued
    <3>2. CASE ~(Len(taskChan) < ChanSize)
      BY <1>13, <3>2 DEF RejectRequeue, Queued
    <3>3. QED
      BY <3>1, <3>2
  <2>4. QED
    BY <1>f, <2>1, <2>2, <2>3 DEF loopVars
<1>14. ASSUME NEW w \in Workers, NEW ok \in BOOLEAN, Answer(w, ok),
              accepted' = IF ok THEN accepted \cup {Head(reqs[w])} ELSE accepted
       PROVE  Once' /\ Settled'
  <2> DEFINE t == Head(reqs[w])
             a == [task |-> t, ok |-> ok]
  <2>1. UNCHANGED <<taskChan, pending, loopVars, evVars>>
    BY <1>14 DEF Answer
  <2>2. Queued' = Queued /\ Hand' = Hand /\ Back' = Back
    BY <2>1 DEF Queued, Hand, Back, loopVars, evVars
  <2>3. /\ t \in Requested(w)
        /\ Requested(w) = Requested(w)' \cup {t} /\ Answered(w)' = Answered(w) \cup {t}
        /\ Range(resps'[w]) = Range(resps[w]) \cup {a}
        /\ \A v \in Workers \ {w} : reqs'[v] = reqs[v] /\ resps'[v] = resps[v]
    BY <1>14, Replied
  <2>4. /\ reqs[w] \in Seq(Tasks) /\ reqs[w] # <<>> /\ reqs'[w] = Tail(reqs[w])
        /\ resps[w] \in Seq(Answers) /\ resps'[w] = Append(resps[w], a)
    BY <1>14 DEF Answer, TypeOK, LinksOK
  <2>5. IsInjective(reqs'[w]) /\ t \notin Requested(w)' /\ t \in Tasks
    BY <2>4, TailOnce, TailRange DEF Requested
  <2>6. a \in Answers /\ a.task = t /\ a.ok = ok
    BY <2>5 DEF Answers
  <2>7. \A v \in Workers \ {w} :
            /\ reqs[v] = <<>> /\ resps[v] = <<>> /\ Range(resps[v]) = {}
            /\ Requested(v) = {} /\ Answered(v) = {} /\ InFlight(v) = {}
    BY <1>s, <2>4, TheOnly DEF Strangers
  <2> HIDE DEF t, a
  <2>8. IsInjective(TasksOf(resps'[w]))
    <3>1. TasksOf(resps'[w]) = Append(TasksOf(resps[w]), t)
      BY <2>4, <2>6, TasksOfAppend
    <3>2. TasksOf(resps[w]) \in Seq(Tasks) /\ Range(TasksOf(resps[w])) = Answered(w)
      BY <2>4, TasksOfAnswers DEF Answered
    <3>3. t \notin Answered(w)
      BY <2>3
    <3>4. QED
      BY <2>5, <3>1, <3>2, <3>3, AppendOnce
  <2>9. \A v \in Workers \ {w} :
            /\ Requested(v)' = {} /\ Answered(v)' = {} /\ InFlight(v)' = {}
            /\ Range(resps'[v]) = {}
            /\ IsInjective(reqs'[v]) /\ IsInjective(TasksOf(resps'[v]))
    BY <2>3, <2>7 DEF Requested, Answered, InFlight
  <2>10. InFlight(w)' = InFlight(w) /\ t \in InFlight(w)
    BY <2>3 DEF InFlight
  <2>11. Once'
    BY <2>1, <2>2, <2>3, <2>5, <2>8, <2>9, <2>10
  <2>12. accepted' \subseteq accepted \cup {t} /\ accepted \subseteq accepted'
         /\ (t \in accepted' => ok)
    BY <1>14, <2>3 DEF t
  <2>13. \A b \in Range(resps'[w]) : b.task \in accepted' => b.ok
    <3> SUFFICES ASSUME NEW b \in Range(resps'[w]), b.task \in accepted' PROVE b.ok
      OBVIOUS
    <3>1. CASE b = a
      BY <2>6, <2>12, <3>1
    <3>2. CASE b \in Range(resps[w])
      <4>1. b.task # t
        BY <2>3, <3>2 DEF Answered
      <4>2. QED
        BY <2>12, <3>2, <4>1
    <3>3. QED
      BY <2>3, <3>1, <3>2
  <2>14. QED
    BY <2>1, <2>2, <2>3, <2>5, <2>9, <2>10, <2>11, <2>12, <2>13 DEF loopVars
<1>15. ASSUME NEW w \in Workers, WorkerAccepts(w) \/ WorkerRejects(w)
       PROVE  Once' /\ Settled'
  BY <1>14, <1>15 DEF WorkerAccepts, WorkerRejects
<1>16. CASE SendPanics \/ (\E w \in Workers : MapRace(w)) \/ UNCHANGED vars
  BY <1>6, <1>16 DEF SendPanics, MapRace, vars, linkVars, history
<1>17. QED
  BY <1>1, <1>2, <1>3, <1>4, <1>5, <1>7, <1>8, <1>9, <1>10, <1>11, <1>12, <1>13, <1>15,
     <1>16 DEF Next, Loop, EventLoop, OnAnswer, WorkerSteps

LEMMA SingleInv == Spec => [](TypeOK /\ EvInv /\ AnswerInv /\ Strangers /\ PushedInv /\ OneCopy)
<1>1. Init => AnswerInv /\ Strangers /\ PushedInv /\ OneCopy
  <2> SUFFICES ASSUME Init PROVE AnswerInv /\ Strangers /\ PushedInv /\ OneCopy
    OBVIOUS
  <2> USE DEF Init
  <2>1. Range(<<>>) = {} /\ IsInjective(<<>>) /\ TasksOf(<<>>) = <<>>
    BY SomeRange DEF IsInjective, TasksOf
  <2>2. Queued = {} /\ Hand = {} /\ Back = {}
        /\ \A w \in Workers : Requested(w) = {} /\ Answered(w) = {} /\ InFlight(w) = {}
    BY <2>1 DEF Queued, Hand, Back, Requested, Answered, InFlight
  <2>3. QED
    BY <2>1, <2>2 DEF AnswerInv, Strangers, PushedInv, OneCopy, Once, Settled
<1>2. QED
  BY <1>1, Types, NextAnswers, NextStrangers, NextPushed, NextOneCopy, PTL DEF Spec

\* As long as one worker only was ever known, a task that was accepted is never
\* executed again, for any number of tasks and any interleaving.
THEOREM AcceptedOnce == Spec => []AcceptedIsFinal
<1>1. TypeOK /\ OneCopy => AcceptedIsFinal
  <2> SUFFICES ASSUME TypeOK, OneCopy, SingleWorker, NEW t \in accepted
               PROVE  /\ t \notin Range(taskChan) /\ t # evTask
                      /\ t = curTask => target = NoWorker /\ todo = {}
                      /\ \A w \in Workers : t \notin Requested(w)
    BY DEF AcceptedIsFinal
  <2>1. t # NoTask
    BY SchedulerAssumption DEF TypeOK, HistoryOK
  <2>2. t \notin Queued \cup Hand \cup Back /\ \A w \in Workers : t \notin Requested(w)
    BY DEF OneCopy, Settled
  <2>3. QED
    BY <2>1, <2>2 DEF Queued, Hand, Back
<1>2. QED
  BY <1>1, SingleInv, PTL

\* And every rejection finds its task pending: the scheduler never closes the
\* connection to a worker that only did what it was asked.
THEOREM RejectionsFind == Spec => []RejectionFindsPending
<1>1. TypeOK /\ OneCopy => RejectionFindsPending
  <2> SUFFICES ASSUME TypeOK, OneCopy, SingleWorker, NEW w \in Workers,
                      NextAnswer(w, FALSE)
               PROVE  Head(resps[w]).task \in pending
    BY DEF RejectionFindsPending
  <2>1. Head(resps[w]) \in Range(resps[w])
    BY TailRange DEF NextAnswer, TypeOK, LinksOK
  <2>2. QED
    BY <2>1 DEF OneCopy, Settled, InFlight, Answered
<1>2. QED
  BY <1>1, SingleInv, PTL

\* And if the channel has room for all tasks no rejected task is ever dropped.
THEOREM RoomForAll == IsFiniteSet(Tasks) => (Spec => RequeueFindsRoom)
<1> SUFFICES ASSUME IsFiniteSet(Tasks) PROVE Spec => RequeueFindsRoom
  OBVIOUS
<1>1. TypeOK /\ OneCopy /\ [Next]_vars =>
          [Cardinality(Tasks) <= ChanSize /\ workerConns # {} /\ SingleWorker'
               => dropped' = dropped]_vars
  <2> SUFFICES ASSUME TypeOK, OneCopy, [Next]_vars, Cardinality(Tasks) <= ChanSize,
                      workerConns # {}, SingleWorker'
               PROVE  dropped' = dropped
    OBVIOUS
  <2>1. CASE RejectRequeue
    <3>1. SingleWorker /\ evTask \in Tasks /\ evTask # NoTask
      BY <2>1, SchedulerAssumption DEF RejectRequeue, SingleWorker, TypeOK, ThreadsOK
    <3>2. IsInjective(taskChan) /\ evTask \notin Range(taskChan)
      BY <3>1 DEF OneCopy, Once, Queued, Back
    <3>3. /\ taskChan \in [1 .. Len(taskChan) -> Tasks] /\ Len(taskChan) \in Nat
          /\ DOMAIN taskChan = 1 .. Len(taskChan)
      BY LenProperties DEF TypeOK, QueueOK
    <3> DEFINE Others == Tasks \ {evTask}
    <3>4. taskChan \in Injection(1 .. Len(taskChan), Others)
      BY <3>2, <3>3 DEF Injection, Range
    <3>5. IsFiniteSet(Others) /\ Cardinality(Others) = Cardinality(Tasks) - 1
      BY <3>1, FS_RemoveElement
    <3>6. Cardinality(1 .. Len(taskChan)) <= Cardinality(Others)
      <4> HIDE DEF Others
      <4>1. QED
        BY <3>4, <3>5, FS_Injection
    <3>7. Cardinality(1 .. Len(taskChan)) = Len(taskChan)
      <4>1. 1 \in Int /\ Len(taskChan) \in Int
        BY <3>3
      <4>2. Cardinality(1 .. Len(taskChan)) =
                IF 1 > Len(taskChan) THEN 0 ELSE Len(taskChan) - 1 + 1
        BY <4>1, FS_Interval, Zenon
      <4>3. QED
        BY <3>3, <4>2
    <3>8. Len(taskChan) < ChanSize
      BY <3>3, <3>5, <3>6, <3>7, FS_CardinalityType, SchedulerAssumption
    <3>9. QED
      BY <2>1, <3>8 DEF RejectRequeue
  <2>2. CASE ~RejectRequeue
    BY <2>2 DEF Next, Loop, EventLoop, OnAnswer, WorkerSteps, PushTask, AssignTake,
       AssignToNobody,
       AssignStore, AssignSend, SendPanics, AssignDone, OnEstablishAck, MapRace,
       OnAccepted, OnRejected, OnRejectedUnknown, RejectDelete,
       WorkerAccepts, WorkerRejects, Answer, LinkDown, history, vars
  <2>3. QED
    BY <2>1, <2>2
<1>2. QED
  BY <1>1, SingleInv, PTL DEF Spec, RequeueFindsRoom

=============================================================================
