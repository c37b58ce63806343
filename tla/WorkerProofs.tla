----------------------------- MODULE WorkerProofs -----------------------------
(***************************************************************************)
(* Proofs about Worker for any channel size and any number of tasks and    *)
(* connections: its types, that what the GCS locates is stored, that no    *)
(* report is dropped between the threads, that the reporting goroutine     *)
(* outlives the GCS's connections, and that Worker implements Reports.     *)
(***************************************************************************)
EXTENDS Worker, DataLemmas, TLAPS

-----------------------------------------------------------------------------
(* Types                                                                   *)

\* Ids and connections are numbers, and none of them stands for "no object",
\* "no connection" or the acknowledgement.
LEMMA Names ==
    /\ NoObject \notin Objects /\ Ack \notin Objects /\ NoConn \notin Conns
    /\ \A n \in Nat : n < MaxTasks => n + 1 \in Objects
BY WorkerAssumption DEF Objects, Conns, NoObject, Ack, NoConn

LEMMA EmptyQueue == \A S : <<>> \in Seq(S)
OBVIOUS

LEMMA InitTypes == Init => TypeOK
<1> SUFFICES ASSUME Init PROVE TypeOK
  OBVIOUS
<1> USE WorkerAssumption, EmptyQueue, Names DEF Init, NoConn
<1>1. QueueOK
  BY DEF QueueOK
<1>2. ThreadsOK
  BY DEF ThreadsOK
<1>3. LinkOK
  <2>1. wire \in Seq(Objects \cup {Ack})
    OBVIOUS
  <2>2. gcsConn \in 0 .. dials /\ dials \in 0 .. MaxDials
    OBVIOUS
  <2>3. QED
    BY <2>1, <2>2 DEF LinkOK
<1>4. ReportsOK
  BY DEF ReportsOK
<1>5. QED
  BY <1>1, <1>2, <1>3, <1>4 DEF TypeOK

LEMMA NextTypes == TypeOK /\ [Next]_vars => TypeOK'
<1> SUFFICES ASSUME TypeOK, [Next]_vars PROVE TypeOK'
  OBVIOUS
<1> USE WorkerAssumption, Names
        DEF TypeOK, QueueOK, ThreadsOK, LinkOK, ReportsOK, taskVars, evVars,
            loopVars, procVars, linkVars, history, NextRequest
<1>1. CASE OnAddTowInt \/ OnUnknownFunction \/ OnUntypedArguments
  <2>1. taken + 1 \in Objects /\ taken' \in 0 .. MaxTasks
    BY <1>1 DEF OnAddTowInt, OnUnknownFunction, OnUntypedArguments
  <2>2. CASE OnAddTowInt
    BY <2>1, <2>2 DEF OnAddTowInt
  <2>3. CASE OnUnknownFunction
    BY <2>1, <2>3 DEF OnUnknownFunction
  <2>4. CASE OnUntypedArguments
    BY <2>1, <2>4 DEF OnUntypedArguments
  <2>5. QED
    BY <1>1, <2>2, <2>3, <2>4
<1>2. CASE StoreObject
  BY <1>2 DEF StoreObject
<1>3. CASE RegisterBuffered
  <2>1. evObject \in Objects
    BY <1>3 DEF RegisterBuffered
  <2>2. registerChan' \in Seq(Objects) /\ Len(registerChan') <= ChanSize
    BY <1>3, <2>1, AppendRange DEF RegisterBuffered
  <2>3. QED
    BY <1>3, <2>2 DEF RegisterBuffered
<1>4. CASE RegisterDirect
  BY <1>4 DEF RegisterDirect
<1>5. ASSUME NEW c \in Conns, OnEstablish(c) PROVE TypeOK'
  <2>1. c \in 0 .. dials
    BY <1>5 DEF OnEstablish
  <2>2. QED
    BY <1>5, <2>1 DEF OnEstablish
<1>6. CASE SendAck
  <2>1. Ack \in Objects \cup {Ack}
    OBVIOUS
  <2>2. wire' \in Seq(Objects \cup {Ack})
    BY <1>6, <2>1, AppendRange DEF SendAck
  <2>3. QED
    BY <1>6, <2>2 DEF SendAck
<1>7. CASE LoopReceive
  <2>1. Head(registerChan) \in Objects /\ registerChan' \in Seq(Objects)
    BY <1>7, TailRange DEF LoopReceive
  <2>2. Len(registerChan') <= ChanSize
    BY <1>7, TailRange DEF LoopReceive
  <2>3. QED
    BY <1>7, <2>1, <2>2 DEF LoopReceive
<1>8. CASE LoopSend
  <2>1. loopObject \in Objects
    BY <1>8 DEF LoopSend
  <2>2. wire' \in Seq(Objects \cup {Ack}) /\ lost' \subseteq Objects
    <3>1. Append(wire, loopObject) \in Seq(Objects \cup {Ack})
      BY <2>1, AppendRange
    <3>2. QED
      BY <1>8, <2>1, <3>1 DEF LoopSend
  <2>3. QED
    BY <1>8, <2>2 DEF LoopSend
<1>9. CASE LoopDies \/ LoopReturns \/ Cancel
  <2>1. CASE LoopDies
    BY <2>1 DEF LoopDies
  <2>2. CASE LoopReturns
    BY <2>2 DEF LoopReturns
  <2>3. CASE Cancel
    BY <2>3 DEF Cancel
  <2>4. QED
    BY <1>9, <2>1, <2>2, <2>3
<1>10. CASE GcsDial
  <2>1. dials' \in 0 .. MaxDials /\ gcsConn' \in 0 .. dials' /\ asked' \subseteq 1 .. dials'
    BY <1>10 DEF GcsDial
  <2>2. QED
    BY <1>10, <2>1, EmptyQueue DEF GcsDial
<1>11. CASE LinkDown
  <2>1. Range(wire) \ {Ack} \subseteq Objects
    BY SomeRange
  <2>2. QED
    BY <1>11, <2>1, EmptyQueue DEF LinkDown
<1>12. CASE GcsOnAck \/ OnReportTaskResult
  <2>1. Head(wire) \in Objects \cup {Ack} /\ wire' \in Seq(Objects \cup {Ack})
    BY <1>12, TailRange, ZenonT(30) DEF GcsOnAck, OnReportTaskResult
  <2>2. QED
    BY <1>12, <2>1 DEF GcsOnAck, OnReportTaskResult
<1>13. CASE UNCHANGED vars
  BY <1>13 DEF vars
<1>14. QED
  BY <1>1, <1>2, <1>3, <1>4, <1>5, <1>6, <1>7, <1>8, <1>9, <1>10, <1>11, <1>12,
     <1>13 DEF Next, EventLoop, Loop, Gcs

\* The channel never holds more than its capacity and every id, connection and
\* thread keeps its type, for any bounds.
THEOREM TypeCorrect == Spec => []TypeOK
BY InitTypes, NextTypes, PTL DEF Spec

\* What LoopSend puts on the link.
LEMMA SentReport ==
    TypeOK /\ loopPc = "send" => Range(Append(wire, loopObject)) = Range(wire) \cup {loopObject}
<1> SUFFICES ASSUME TypeOK, loopPc = "send"
             PROVE  Range(Append(wire, loopObject)) = Range(wire) \cup {loopObject}
  OBVIOUS
<1>1. wire \in Seq(Objects \cup {Ack}) /\ loopObject \in Objects \cup {Ack}
  BY DEF TypeOK, LinkOK, ThreadsOK
<1>2. QED
  BY <1>1, AppendRange

-----------------------------------------------------------------------------
(* What is located is stored                                               *)

\* Every id on its way to the map names a stored object.
Known(s) == Range(s) \subseteq storage \cup {Ack}

StoredInv ==
    /\ evPc = "register" => evObject \in storage
    /\ Known(registerChan)
    /\ loopObject \in storage \cup {NoObject}
    /\ Known(wire)
    /\ LocationIsStored

LEMMA NextStored == TypeOK /\ StoredInv /\ [Next]_vars => StoredInv'
<1> SUFFICES ASSUME TypeOK, StoredInv, [Next]_vars PROVE StoredInv'
  OBVIOUS
<1> USE Names DEF TypeOK, QueueOK, ThreadsOK, LinkOK, ReportsOK, StoredInv,
        LocationIsStored, Known, taskVars, evVars, loopVars, procVars, linkVars,
        history, NextRequest
<1>1. CASE OnAddTowInt \/ OnUnknownFunction \/ OnUntypedArguments \/ StoreObject
  BY <1>1 DEF OnAddTowInt, OnUnknownFunction, OnUntypedArguments, StoreObject
<1>2. CASE RegisterBuffered
  <2>1. Range(registerChan') = Range(registerChan) \cup {evObject}
    BY <1>2, AppendRange DEF RegisterBuffered
  <2>2. QED
    BY <1>2, <2>1 DEF RegisterBuffered
<1>3. CASE RegisterDirect
  BY <1>3 DEF RegisterDirect
<1>4. ASSUME NEW c \in Conns, OnEstablish(c) PROVE StoredInv'
  BY <1>4 DEF OnEstablish
<1>5. CASE SendAck
  <2>1. Range(wire') \subseteq Range(wire) \cup {Ack}
    <3>1. Ack \in Objects \cup {Ack}
      OBVIOUS
    <3>2. Range(Append(wire, Ack)) = Range(wire) \cup {Ack}
      BY <3>1, AppendRange
    <3>3. QED
      BY <1>5, <3>2 DEF SendAck
  <2>2. QED
    BY <1>5, <2>1 DEF SendAck
<1>6. CASE LoopReceive
  <2>1. Range(registerChan) = {Head(registerChan)} \cup Range(registerChan')
    BY <1>6, TailRange DEF LoopReceive
  <2>2. Head(registerChan) \in Objects
    BY <1>6, TailRange DEF LoopReceive
  <2>3. QED
    BY <1>6, <2>1, <2>2 DEF LoopReceive
<1>7. CASE LoopSend
  <2>1. Range(wire') \subseteq Range(wire) \cup {loopObject}
    BY <1>7, SentReport DEF LoopSend
  <2>2. QED
    BY <1>7, <2>1 DEF LoopSend
<1>8. CASE LoopDies \/ LoopReturns \/ Cancel
  BY <1>8 DEF LoopDies, LoopReturns, Cancel
<1>9. CASE GcsDial \/ LinkDown
  BY <1>9, SomeRange DEF GcsDial, LinkDown
<1>10. CASE GcsOnAck \/ OnReportTaskResult
  <2>1. Range(wire) = {Head(wire)} \cup Range(wire')
    BY <1>10, TailRange DEF GcsOnAck, OnReportTaskResult
  <2>2. QED
    BY <1>10, <2>1 DEF GcsOnAck, OnReportTaskResult
<1>11. CASE UNCHANGED vars
  BY <1>11 DEF vars
<1>12. QED
  BY <1>1, <1>2, <1>3, <1>4, <1>5, <1>6, <1>7, <1>8, <1>9, <1>10, <1>11
     DEF Next, EventLoop, Loop, Gcs

\* Whatever the GCS locates at the worker the worker has, however late or early
\* the report, the connection and the acknowledgement come.
THEOREM LocationsAreStored == Spec => []LocationIsStored
<1>1. Init => StoredInv
  BY SomeRange DEF Init, StoredInv, Known, LocationIsStored
<1>2. StoredInv => LocationIsStored
  BY DEF StoredInv
<1>3. QED
  BY <1>1, <1>2, TypeCorrect, NextStored, PTL DEF Spec

-----------------------------------------------------------------------------
(* No report is dropped between the threads                                *)

\* Where the report of a stored object is.
Reported(o) ==
    \/ o = evObject \/ o = loopObject
    \/ o \in Range(registerChan) \/ o \in Range(wire)
    \/ o \in locations \cup lost \cup ignored

LEMMA NextReported == TypeOK /\ NoReportForgotten /\ [Next]_vars => NoReportForgotten'
<1> SUFFICES ASSUME TypeOK, NoReportForgotten, [Next]_vars, NEW o \in storage'
             PROVE  Reported(o)'
  BY DEF NoReportForgotten, Reported
<1>0. o \in storage => Reported(o)
  BY DEF NoReportForgotten, Reported
<1> USE Names DEF TypeOK, QueueOK, ThreadsOK, LinkOK, ReportsOK, Reported,
        taskVars, evVars, loopVars, procVars, linkVars, history, NextRequest
<1>1. CASE OnAddTowInt \/ OnUnknownFunction \/ OnUntypedArguments
  <2>1. evObject = NoObject /\ o \in Objects
    BY <1>1 DEF OnAddTowInt, OnUnknownFunction, OnUntypedArguments
  <2>2. QED
    BY <1>0, <1>1, <2>1 DEF OnAddTowInt, OnUnknownFunction, OnUntypedArguments
<1>2. CASE StoreObject
  BY <1>0, <1>2 DEF StoreObject
<1>3. CASE RegisterBuffered
  <2>1. Range(registerChan') = Range(registerChan) \cup {evObject}
    BY <1>3, AppendRange DEF RegisterBuffered
  <2>2. QED
    BY <1>0, <1>3, <2>1 DEF RegisterBuffered
<1>4. CASE RegisterDirect
  <2>1. loopObject = NoObject /\ o \in Objects
    BY <1>4 DEF RegisterDirect
  <2>2. QED
    BY <1>0, <1>4, <2>1 DEF RegisterDirect
<1>5. ASSUME NEW c \in Conns, OnEstablish(c) PROVE Reported(o)'
  BY <1>0, <1>5 DEF OnEstablish
<1>6. CASE SendAck
  <2>1. Range(wire) \subseteq Range(wire')
    <3>1. Ack \in Objects \cup {Ack}
      OBVIOUS
    <3>2. Range(Append(wire, Ack)) = Range(wire) \cup {Ack}
      BY <3>1, AppendRange
    <3>3. QED
      BY <1>6, <3>2 DEF SendAck
  <2>2. QED
    BY <1>0, <1>6, <2>1 DEF SendAck
<1>7. CASE LoopReceive
  <2>1. Range(registerChan) = {Head(registerChan)} \cup Range(registerChan')
    BY <1>7, TailRange DEF LoopReceive
  <2>2. loopObject = NoObject /\ o \in Objects
    BY <1>7 DEF LoopReceive
  <2>3. QED
    BY <1>0, <1>7, <2>1, <2>2 DEF LoopReceive
<1>8. CASE LoopSend
  <2>1. Range(wire) \subseteq Range(wire')
    BY <1>8, SentReport DEF LoopSend
  <2>2. loopObject \in Range(wire') \cup lost' /\ lost \subseteq lost'
    BY <1>8, SentReport DEF LoopSend
  <2>3. QED
    BY <1>0, <1>8, <2>1, <2>2 DEF LoopSend
<1>9. CASE LoopDies \/ LoopReturns \/ Cancel
  BY <1>0, <1>9 DEF LoopDies, LoopReturns, Cancel
<1>10. CASE GcsDial \/ LinkDown
  <2>1. o \in Objects
    BY <1>10 DEF GcsDial, LinkDown
  <2>2. CASE LinkDown
    BY <1>0, <2>1, <2>2 DEF LinkDown
  <2>3. CASE GcsDial
    BY <1>0, <2>1, <2>3 DEF GcsDial
  <2>4. QED
    BY <1>10, <2>2, <2>3
<1>11. CASE GcsOnAck \/ OnReportTaskResult
  <2>1. Range(wire) = {Head(wire)} \cup Range(wire')
    BY <1>11, TailRange DEF GcsOnAck, OnReportTaskResult
  <2>2. o \in Objects
    BY <1>11 DEF GcsOnAck, OnReportTaskResult
  <2>3. QED
    BY <1>0, <1>11, <2>1, <2>2 DEF GcsOnAck, OnReportTaskResult
<1>12. CASE UNCHANGED vars
  BY <1>0, <1>12 DEF vars
<1>13. QED
  BY <1>1, <1>2, <1>3, <1>4, <1>5, <1>6, <1>7, <1>8, <1>9, <1>10, <1>11, <1>12
     DEF Next, EventLoop, Loop, Gcs

\* The report of a stored object is under way, noted, lost with a connection or
\* ignored by the GCS, for any channel size and any interleaving.
THEOREM ReportsAreKept == Spec => []NoReportForgotten
<1>1. Init => NoReportForgotten
  BY DEF Init, NoReportForgotten
<1>2. QED
  BY <1>1, TypeCorrect, NextReported, PTL DEF Spec

-----------------------------------------------------------------------------
(* The reporting goroutine                                                 *)

\* gcsConn is set by the first Establish handled, and never cleared.
ConnInv == (1 .. dials) \ asked # {} => gcsConn # NoConn

LEMMA NextConn == TypeOK /\ ConnInv /\ [Next]_vars => ConnInv'
<1> SUFFICES ASSUME TypeOK, ConnInv, [Next]_vars PROVE ConnInv'
  OBVIOUS
<1> USE WorkerAssumption, Names DEF TypeOK, LinkOK, ConnInv, taskVars, evVars,
        loopVars, procVars, linkVars, history, NextRequest
<1>1. ASSUME NEW c \in Conns, OnEstablish(c) PROVE ConnInv'
  BY <1>1 DEF OnEstablish
<1>2. CASE GcsDial
  BY <1>2 DEF GcsDial
<1>3. CASE UNCHANGED <<gcsConn, dials, asked>>
  BY <1>3
<1>4. QED
  BY <1>1, <1>2, <1>3 DEF Next, EventLoop, Loop, Gcs, OnAddTowInt, OnUnknownFunction,
     OnUntypedArguments, StoreObject, RegisterBuffered, RegisterDirect, SendAck,
     LoopReceive, LoopSend, LoopDies, LoopReturns, Cancel, LinkDown, GcsOnAck,
     OnReportTaskResult, vars

\* Once an Establish of the GCS was handled the reporting goroutine survives all
\* the connections that follow: it returns after a cancel, and ends in no other way.
THEOREM ReporterLives == Spec => ReporterSurvives
<1>1. Init => ConnInv
  BY DEF Init, ConnInv
<1>2. TypeOK /\ ConnInv /\ [Next]_vars =>
          [(1 .. dials) \ asked # {} /\ ~LoopEnded /\ LoopEnded'
               => cancelled /\ loopObject = NoObject]_vars
  <2> SUFFICES ASSUME TypeOK, ConnInv, [Next]_vars, (1 .. dials) \ asked # {},
                      ~LoopEnded, LoopEnded'
               PROVE  cancelled /\ loopObject = NoObject
    OBVIOUS
  <2>1. LoopDies \/ LoopReturns
    BY DEF LoopEnded, Next, EventLoop, Loop, Gcs, OnAddTowInt, OnUnknownFunction,
       OnUntypedArguments, StoreObject, RegisterBuffered, RegisterDirect, OnEstablish,
       SendAck, LoopReceive, LoopSend, Cancel, GcsDial, LinkDown, GcsOnAck,
       OnReportTaskResult, NextRequest, loopVars, vars
  <2>2. ~LoopDies
    BY DEF ConnInv, LoopDies
  <2>3. QED
    BY <2>1, <2>2 DEF LoopReturns, TypeOK, ThreadsOK
<1>3. QED
  BY <1>1, <1>2, TypeCorrect, NextConn, PTL DEF Spec, ReporterSurvives

-----------------------------------------------------------------------------
(* Worker implements Reports                                               *)

Settled == locations \cup lost \cup ignored

\* Ids are handed out in the order of the requests, so a result about to be
\* stored is a new one.
FreshInv ==
    /\ storage \subseteq 1 .. taken /\ evObject <= taken
    /\ evPc = "store" => evObject \notin storage

\* Acknowledgements share the connection with the reports.
ReportsOnce(s) == \A i, j \in DOMAIN s : s[i] = s[j] /\ s[i] # Ack => i = j

\* No report is twice in a queue ...
QueuesOnce == IsInjective(registerChan) /\ ReportsOnce(wire)

\* ... or in two places.
Apart ==
    /\ evPc = "register" =>
           evObject \notin {loopObject} \cup Range(registerChan) \cup Range(wire) \cup Settled
    /\ loopObject # NoObject =>
           loopObject \notin Range(registerChan) \cup Range(wire) \cup Settled
    /\ Range(registerChan) \cap (Range(wire) \cup Settled) = {}
    /\ Range(wire) \cap Settled = {}
    /\ locations \cap (lost \cup ignored) = {}

\* Only the report of a stored object is missed.
MissedInv == lost \cup ignored \subseteq storage

ReportInv == TypeOK /\ StoredInv /\ FreshInv /\ MissedInv /\ QueuesOnce /\ Apart

LEMMA NextFresh == TypeOK /\ FreshInv /\ [Next]_vars => FreshInv'
<1> SUFFICES ASSUME TypeOK, FreshInv, [Next]_vars PROVE FreshInv'
  OBVIOUS
<1>0. /\ taken \in Nat /\ evObject \in Nat /\ storage \subseteq Nat
      /\ evPc = "store" => evObject > 0
  BY WorkerAssumption DEF TypeOK, QueueOK, ThreadsOK, Objects, NoObject
<1> USE DEF FreshInv, taskVars, evVars
<1>1. CASE OnAddTowInt \/ OnUnknownFunction \/ OnUntypedArguments
  <2>1. taken' = taken + 1 /\ storage' = storage /\ evPc = "idle"
    BY <1>1 DEF OnAddTowInt, OnUnknownFunction, OnUntypedArguments, NextRequest
  <2>2. storage' \subseteq 1 .. taken' /\ taken + 1 \notin storage
    BY <1>0, <2>1
  <2>3. \/ evPc' = "store" /\ evObject' = taken + 1
        \/ evPc' = "idle" /\ evObject' = evObject
    BY <1>1, <2>1 DEF OnAddTowInt, OnUnknownFunction, OnUntypedArguments
  <2>4. QED
    BY <1>0, <2>1, <2>2, <2>3
<1>2. CASE StoreObject
  BY <1>0, <1>2 DEF StoreObject
<1>3. CASE RegisterBuffered \/ RegisterDirect
  <2>1. UNCHANGED <<taken, storage>> /\ evPc' = "idle" /\ evObject' = 0
    BY <1>3 DEF NoObject, RegisterBuffered, RegisterDirect
  <2>2. QED
    BY <1>0, <2>1
<1>4. ASSUME NEW c \in Conns, OnEstablish(c) PROVE FreshInv'
  BY <1>4 DEF OnEstablish
<1>5. CASE SendAck
  BY <1>5 DEF SendAck
<1>6. CASE UNCHANGED <<taken, storage, evVars>>
  BY <1>6 DEF evVars
<1>7. QED
  BY <1>1, <1>2, <1>3, <1>4, <1>5, <1>6 DEF Next, EventLoop, Loop, Gcs, LoopReceive,
     LoopSend, LoopDies, LoopReturns, Cancel, GcsDial, LinkDown, GcsOnAck,
     OnReportTaskResult, vars

LEMMA NextMissed == TypeOK /\ StoredInv /\ MissedInv /\ [Next]_vars => MissedInv'
<1> SUFFICES ASSUME TypeOK, StoredInv, MissedInv, [Next]_vars PROVE MissedInv'
  OBVIOUS
<1> USE DEF StoredInv, MissedInv, Known, taskVars, history
<1>1. CASE StoreObject
  BY <1>1 DEF StoreObject
<1>2. CASE LoopSend
  <2>1. loopObject \in storage
    BY <1>2 DEF LoopSend, TypeOK, ThreadsOK
  <2>2. QED
    BY <1>2, <2>1 DEF LoopSend
<1>3. CASE LinkDown
  BY <1>3 DEF LinkDown
<1>4. CASE OnReportTaskResult
  <2>1. Head(wire) \in Range(wire)
    BY <1>4, TailRange DEF OnReportTaskResult, TypeOK, LinkOK
  <2>2. QED
    BY <1>4, <2>1 DEF OnReportTaskResult
<1>5. CASE UNCHANGED <<storage, history>>
  BY <1>5
<1>6. QED
  BY <1>1, <1>2, <1>3, <1>4, <1>5 DEF Next, EventLoop, Loop, Gcs, OnAddTowInt,
     OnUnknownFunction, OnUntypedArguments, RegisterBuffered, RegisterDirect, OnEstablish,
     SendAck, LoopReceive, LoopDies, LoopReturns, Cancel, GcsDial, GcsOnAck, vars

LEMMA WireTail ==
    ASSUME NEW S, NEW s \in Seq(S), s # <<>>, ReportsOnce(s)
    PROVE  ReportsOnce(Tail(s)) /\ (Head(s) # Ack => Head(s) \notin Range(Tail(s)))
<1>1. /\ Head(s) = s[1] /\ Len(s) \in Nat /\ Len(s) > 0
      /\ DOMAIN s = 1 .. Len(s) /\ DOMAIN Tail(s) = 1 .. Len(s) - 1
      /\ \A i \in 1 .. Len(s) - 1 : Tail(s)[i] = s[i + 1]
  BY HeadTailProperties
<1>2. \A i \in 1 .. Len(s) - 1 : i + 1 \in 1 .. Len(s) /\ i + 1 # 1
  BY <1>1
<1>3. \A i, j \in 1 .. Len(s) : s[i] = s[j] /\ s[i] # Ack => i = j
  BY <1>1 DEF ReportsOnce
<1>4. ReportsOnce(Tail(s))
  <2> SUFFICES ASSUME NEW i \in 1 .. Len(s) - 1, NEW j \in 1 .. Len(s) - 1,
                      Tail(s)[i] = Tail(s)[j], Tail(s)[i] # Ack
               PROVE  i = j
    BY <1>1 DEF ReportsOnce
  <2>1. i + 1 = j + 1
    BY <1>1, <1>2, <1>3
  <2>2. QED
    BY <1>1, <2>1
<1>5. Head(s) # Ack => Head(s) \notin Range(Tail(s))
  BY <1>1, <1>2, <1>3 DEF Range
<1>6. QED
  BY <1>4, <1>5

LEMMA WireAppend ==
    ASSUME NEW S, NEW s \in Seq(S), NEW e \in S, ReportsOnce(s), e # Ack => e \notin Range(s)
    PROVE  ReportsOnce(Append(s, e))
<1>1. /\ Len(s) \in Nat /\ DOMAIN s = 1 .. Len(s)
      /\ DOMAIN Append(s, e) = 1 .. Len(s) + 1
      /\ \A i \in 1 .. Len(s) : Append(s, e)[i] = s[i]
      /\ Append(s, e)[Len(s) + 1] = e
  OBVIOUS
<1>2. e # Ack => \A i \in 1 .. Len(s) : s[i] # e
  BY <1>1 DEF Range
<1>3. \A i, j \in 1 .. Len(s) : s[i] = s[j] /\ s[i] # Ack => i = j
  BY <1>1 DEF ReportsOnce
<1>4. QED
  BY <1>1, <1>2, <1>3 DEF ReportsOnce

LEMMA NoneTwice == IsInjective(<<>>) /\ ReportsOnce(<<>>)
BY DEF IsInjective, ReportsOnce

LEMMA NextQueues == TypeOK /\ QueuesOnce /\ Apart /\ [Next]_vars => QueuesOnce'
<1> SUFFICES ASSUME TypeOK, QueuesOnce, Apart, [Next]_vars PROVE QueuesOnce'
  OBVIOUS
<1>0. /\ registerChan \in Seq(Objects) /\ wire \in Seq(Objects \cup {Ack})
      /\ evPc = "register" => evObject \in Objects
      /\ loopPc = "send" => loopObject \in Objects
      /\ loopPc = "send" => loopObject # NoObject
      /\ Ack \in Objects \cup {Ack}
  BY DEF TypeOK, QueueOK, LinkOK, ThreadsOK
<1> USE DEF QueuesOnce, taskVars, linkVars
<1>1. CASE RegisterBuffered
  <2>1. evObject \notin Range(registerChan)
    BY <1>1 DEF RegisterBuffered, Apart
  <2>2. IsInjective(Append(registerChan, evObject))
    BY <1>0, <1>1, <2>1, AppendOnce DEF RegisterBuffered
  <2>3. QED
    BY <1>1, <2>2 DEF RegisterBuffered
<1>2. CASE SendAck
  <2>1. ReportsOnce(Append(wire, Ack))
    BY <1>0, WireAppend
  <2>2. QED
    BY <1>2, <2>1 DEF SendAck
<1>3. CASE LoopReceive
  BY <1>0, <1>3, TailOnce DEF LoopReceive
<1>4. CASE LoopSend
  <2>1. loopObject \notin Range(wire) /\ loopObject \in Objects \cup {Ack}
    BY <1>0, <1>4 DEF LoopSend, Apart
  <2>2. ReportsOnce(Append(wire, loopObject))
    BY <1>0, <2>1, WireAppend
  <2>3. QED
    BY <1>4, <2>2 DEF LoopSend
<1>5. CASE GcsDial \/ LinkDown
  BY <1>5, NoneTwice DEF GcsDial, LinkDown
<1>6. CASE GcsOnAck \/ OnReportTaskResult
  BY <1>0, <1>6, WireTail DEF GcsOnAck, OnReportTaskResult
<1>7. CASE UNCHANGED <<registerChan, wire>>
  BY <1>7
<1>8. QED
  BY <1>1, <1>2, <1>3, <1>4, <1>5, <1>6, <1>7 DEF Next, EventLoop, Loop, Gcs, OnAddTowInt,
     OnUnknownFunction, OnUntypedArguments, StoreObject, RegisterDirect, OnEstablish,
     LoopDies, LoopReturns, Cancel, vars

LEMMA NextApart ==
    TypeOK /\ StoredInv /\ FreshInv /\ MissedInv /\ QueuesOnce /\ Apart
        /\ [Next]_vars => Apart'
<1> SUFFICES ASSUME TypeOK, StoredInv, FreshInv, MissedInv, QueuesOnce, Apart, [Next]_vars
             PROVE  Apart'
  OBVIOUS
<1>0. /\ registerChan \in Seq(Objects) /\ wire \in Seq(Objects \cup {Ack})
      /\ Range(registerChan) \subseteq Objects /\ Range(wire) \subseteq Objects \cup {Ack}
      /\ (evPc = "store" \/ evPc = "register") <=> evObject # NoObject
      /\ loopPc \in {"select", "returned"} <=> loopObject = NoObject
      /\ evObject \in Objects \cup {NoObject} /\ loopObject \in Objects \cup {NoObject}
      /\ locations \subseteq Objects /\ lost \subseteq Objects /\ ignored \subseteq Objects
      /\ NoObject \notin Objects /\ Ack \notin Objects
  BY Names, SomeRange DEF TypeOK, QueueOK, LinkOK, ThreadsOK, ReportsOK
<1> USE DEF Apart, Settled, taskVars, evVars, loopVars, procVars, linkVars, history
<1>1. CASE OnAddTowInt \/ OnUnknownFunction \/ OnUntypedArguments
  BY <1>1 DEF OnAddTowInt, OnUnknownFunction, OnUntypedArguments, NextRequest
<1>2. CASE StoreObject
  <2>1. evObject \notin storage \cup Settled /\ evObject \in Objects
    BY <1>0, <1>2 DEF StoreObject, FreshInv, StoredInv, MissedInv, LocationIsStored
  <2>2. QED
    BY <1>0, <1>2, <2>1 DEF StoreObject, StoredInv, Known
<1>3. CASE RegisterBuffered
  <2>1. Range(registerChan') = Range(registerChan) \cup {evObject}
    BY <1>0, <1>3, AppendRange DEF RegisterBuffered
  <2>2. QED
    BY <1>0, <1>3, <2>1 DEF RegisterBuffered
<1>4. CASE RegisterDirect
  BY <1>0, <1>4 DEF RegisterDirect
<1>5. ASSUME NEW c \in Conns, OnEstablish(c) PROVE Apart'
  BY <1>0, <1>5 DEF OnEstablish
<1>6. CASE SendAck
  <2>1. Range(wire') \subseteq Range(wire) \cup {Ack}
    BY <1>0, <1>6, AppendRange DEF SendAck
  <2>2. QED
    BY <1>0, <1>6, <2>1 DEF SendAck
<1>7. CASE LoopReceive
  <2>1. /\ Range(registerChan) = {Head(registerChan)} \cup Range(registerChan')
        /\ Head(registerChan) \notin Range(registerChan')
    BY <1>0, <1>7, TailRange, TailOnce DEF LoopReceive, QueuesOnce
  <2>2. QED
    BY <1>0, <1>7, <2>1 DEF LoopReceive
<1>8. CASE LoopSend
  <2>1. \/ Range(wire') = Range(wire) \cup {loopObject} /\ UNCHANGED lost
        \/ lost' = lost \cup {loopObject} /\ UNCHANGED wire
    BY <1>8, SentReport DEF LoopSend
  <2>2. QED
    BY <1>0, <1>8, <2>1 DEF LoopSend
<1>9. CASE LoopDies \/ LoopReturns \/ Cancel
  BY <1>9 DEF LoopDies, LoopReturns, Cancel
<1>10. CASE GcsDial
  BY <1>10, SomeRange DEF GcsDial
<1>11. CASE LinkDown
  BY <1>0, <1>11, SomeRange DEF LinkDown
<1>12. CASE GcsOnAck \/ OnReportTaskResult
  <2>1. /\ Range(wire) = {Head(wire)} \cup Range(wire')
        /\ Head(wire) # Ack => Head(wire) \notin Range(wire')
    BY <1>0, <1>12, TailRange, WireTail DEF GcsOnAck, OnReportTaskResult, QueuesOnce
  <2>2. QED
    BY <1>0, <1>12, <2>1 DEF GcsOnAck, OnReportTaskResult
<1>13. CASE UNCHANGED vars
  BY <1>13 DEF vars
<1>14. QED
  BY <1>1, <1>2, <1>3, <1>4, <1>5, <1>6, <1>7, <1>8, <1>9, <1>10, <1>11, <1>12,
     <1>13 DEF Next, EventLoop, Loop, Gcs

\* Every report is in one of the places of ReportInv, for any constants.
LEMMA InvariantOfReports == Spec => []ReportInv
<1>1. Init => ReportInv
  <2> SUFFICES ASSUME Init PROVE ReportInv
    OBVIOUS
  <2>1. TypeOK
    BY InitTypes
  <2>2. StoredInv /\ MissedInv
    BY SomeRange DEF Init, StoredInv, MissedInv, Known, LocationIsStored
  <2>3. FreshInv
    BY DEF Init, FreshInv, NoObject
  <2>4. QueuesOnce
    BY NoneTwice DEF Init, QueuesOnce
  <2>5. Apart
    BY SomeRange DEF Init, Apart, Settled
  <2>6. QED
    BY <2>1, <2>2, <2>3, <2>4, <2>5 DEF ReportInv
<1>2. ReportInv /\ [Next]_vars => ReportInv'
  BY NextTypes, NextStored, NextFresh, NextMissed, NextQueues, NextApart DEF ReportInv
<1>3. QED
  BY <1>1, <1>2, PTL DEF Spec

Open == ReportsUnderWay \ {NoObject, Ack}

\* A step that moves reports from a thread to a queue or on changes nothing.
LEMMA MovedOn ==
    ASSUME UNCHANGED <<storage, locations, lost, ignored>>, Open' = Open
    PROVE  UNCHANGED Promise!reportsVars
BY DEF Open, Promise!reportsVars

LEMMA StepOfReports == ReportInv /\ [Next]_vars => [Promise!ReportsNext]_Promise!reportsVars
<1> SUFFICES ASSUME ReportInv, [Next]_vars
             PROVE  [Promise!ReportsNext]_Promise!reportsVars
  OBVIOUS
<1>0. /\ registerChan \in Seq(Objects) /\ wire \in Seq(Objects \cup {Ack})
      /\ Range(registerChan) \subseteq Objects /\ Range(wire) \subseteq Objects \cup {Ack}
      /\ evPc \in {"store", "register"} <=> evObject # NoObject
      /\ loopPc \in {"select", "returned"} <=> loopObject = NoObject
      /\ evObject \in Objects \cup {NoObject} /\ loopObject \in Objects \cup {NoObject}
      /\ NoObject \notin Objects /\ Ack \notin Objects /\ Ack \in Objects \cup {Ack}
  BY Names, SomeRange DEF ReportInv, TypeOK, QueueOK, LinkOK, ThreadsOK
<1>a. Apart /\ QueuesOnce /\ FreshInv /\ StoredInv /\ TypeOK
  BY DEF ReportInv
<1> USE DEF Open, ReportsUnderWay, taskVars, evVars, loopVars, procVars, linkVars, history
<1>1. CASE OnAddTowInt \/ OnUnknownFunction \/ OnUntypedArguments
  <2>1. Open' = Open
    BY <1>1 DEF OnAddTowInt, OnUnknownFunction, OnUntypedArguments, NextRequest
  <2>2. QED
    BY <1>1, <2>1, MovedOn DEF OnAddTowInt, OnUnknownFunction, OnUntypedArguments
<1>2. CASE StoreObject
  <2>1. evObject \in Objects \ storage
    BY <1>0, <1>a, <1>2 DEF StoreObject, FreshInv
  <2>2. Open' = Open \cup {evObject}
    BY <1>0, <1>2, <2>1 DEF StoreObject
  <2>3. Promise!Store
    BY <1>2, <2>1, <2>2 DEF StoreObject, Promise!Store
  <2>4. QED
    BY <2>3 DEF Promise!ReportsNext
<1>3. CASE RegisterBuffered
  <2>1. Range(registerChan') = Range(registerChan) \cup {evObject}
    BY <1>0, <1>3, AppendRange DEF RegisterBuffered
  <2>2. Open' = Open
    BY <1>3, <2>1 DEF RegisterBuffered
  <2>3. QED
    BY <1>3, <2>2, MovedOn DEF RegisterBuffered
<1>4. CASE RegisterDirect
  <2>1. Open' = Open
    BY <1>0, <1>4 DEF RegisterDirect
  <2>2. QED
    BY <1>4, <2>1, MovedOn DEF RegisterDirect
<1>5. ASSUME NEW c \in Conns, OnEstablish(c)
      PROVE  [Promise!ReportsNext]_Promise!reportsVars
  <2>1. Open' = Open
    BY <1>5 DEF OnEstablish
  <2>2. QED
    BY <1>5, <2>1, MovedOn DEF OnEstablish
<1>6. CASE SendAck
  <2>1. Range(wire') \ {Ack} = Range(wire) \ {Ack}
    <3>1. Range(Append(wire, Ack)) = Range(wire) \cup {Ack}
      BY <1>0, AppendRange
    <3>2. QED
      BY <1>6, <3>1 DEF SendAck
  <2>2. Open' = Open
    BY <1>6, <2>1 DEF SendAck
  <2>3. QED
    BY <1>6, <2>2, MovedOn DEF SendAck
<1>7. CASE LoopReceive
  <2>1. Range(registerChan) = {Head(registerChan)} \cup Range(registerChan')
    BY <1>0, <1>7, TailRange DEF LoopReceive
  <2>2. Open' = Open
    BY <1>0, <1>7, <2>1 DEF LoopReceive
  <2>3. QED
    BY <1>7, <2>2, MovedOn DEF LoopReceive
<1>8. CASE LoopSend
  <2>1. CASE up /\ gcsConn = dials
    <3>1. Range(wire') = Range(wire) \cup {loopObject}
      BY <1>a, <1>8, <2>1, SentReport DEF LoopSend
    <3>2. Open' = Open
      BY <1>0, <1>8, <3>1 DEF LoopSend
    <3>3. QED
      BY <1>8, <2>1, <3>2, MovedOn DEF LoopSend
  <2>2. CASE ~(up /\ gcsConn = dials)
    <3>1. /\ loopObject # NoObject /\ loopObject \in Open
          /\ evPc = "register" => evObject # loopObject
          /\ loopObject \notin Range(registerChan) \cup Range(wire)
      BY <1>0, <1>a, <1>8 DEF LoopSend, Apart, NoObject, Ack
    <3>2. Open' = Open \ {loopObject}
      BY <1>0, <1>8, <2>2, <3>1 DEF LoopSend, NoObject, Ack
    <3>3. (lost \cup ignored)' = (lost \cup ignored) \cup {loopObject}
      BY <1>8, <2>2 DEF LoopSend
    <3>4. Promise!Miss
      BY <1>8, <2>2, <3>1, <3>2, <3>3 DEF LoopSend, Promise!Miss
    <3>5. QED
      BY <3>4 DEF Promise!ReportsNext
  <2>3. QED
    BY <2>1, <2>2
<1>9. CASE LoopDies \/ LoopReturns \/ Cancel
  <2>1. Open' = Open
    BY <1>9 DEF LoopDies, LoopReturns, Cancel
  <2>2. QED
    BY <1>9, <2>1, MovedOn DEF LoopDies, LoopReturns, Cancel
<1>10. CASE GcsDial
  <2>1. wire = <<>>
    BY <1>a, <1>10 DEF GcsDial, TypeOK, LinkOK
  <2>2. Open' = Open
    BY <1>10, <2>1 DEF GcsDial
  <2>3. QED
    BY <1>10, <2>2, MovedOn DEF GcsDial
<1>11. CASE LinkDown
  <2> DEFINE S == Range(wire) \ {Ack}
  <2>1. /\ S \in SUBSET Open
        /\ evPc = "register" => evObject \notin S
        /\ loopObject \notin S /\ Range(registerChan) \cap S = {}
    BY <1>0, <1>a DEF Apart, NoObject, Ack
  <2>2. Open' = Open \ S
    BY <1>0, <1>11, <2>1, SomeRange DEF LinkDown, NoObject, Ack
  <2>3. (lost \cup ignored)' = (lost \cup ignored) \cup S
    BY <1>11 DEF LinkDown
  <2>4. Promise!Miss
    BY <1>11, <2>1, <2>2, <2>3 DEF LinkDown, Promise!Miss
  <2>5. QED
    BY <2>4 DEF Promise!ReportsNext
<1>12. CASE GcsOnAck
  <2>1. Range(wire) = {Ack} \cup Range(wire')
    BY <1>0, <1>12, TailRange DEF GcsOnAck
  <2>2. Open' = Open
    BY <1>12, <2>1 DEF GcsOnAck
  <2>3. QED
    BY <1>12, <2>2, MovedOn DEF GcsOnAck
<1>13. CASE OnReportTaskResult
  <2> DEFINE o == Head(wire)
  <2>1. /\ Range(wire) = {o} \cup Range(wire') /\ o \notin Range(wire')
        /\ o # Ack
    BY <1>0, <1>a, <1>13, TailRange, WireTail DEF OnReportTaskResult, QueuesOnce
  <2>2. /\ o \in Open
        /\ evPc = "register" => evObject # o
        /\ loopObject # o /\ o \notin Range(registerChan)
    BY <1>0, <1>a, <2>1 DEF Apart, NoObject, Ack
  <2>3. Open' = Open \ {o}
    <3> HIDE DEF o
    <3>1. UNCHANGED <<evPc, evObject, loopObject, registerChan>>
      BY <1>13 DEF OnReportTaskResult
    <3>2. QED
      BY <2>1, <2>2, <3>1
  <2>4. CASE gcsEst
    <3>1. Promise!Note
      BY <1>13, <2>2, <2>3, <2>4 DEF OnReportTaskResult, Promise!Note
    <3>2. QED
      BY <3>1 DEF Promise!ReportsNext
  <2>5. CASE ~gcsEst
    <3>1. (lost \cup ignored)' = (lost \cup ignored) \cup {o}
      BY <1>13, <2>5 DEF OnReportTaskResult
    <3>2. Promise!Miss
      BY <1>13, <2>2, <2>3, <2>5, <3>1 DEF OnReportTaskResult, Promise!Miss
    <3>3. QED
      BY <3>2 DEF Promise!ReportsNext
  <2>6. QED
    BY <2>4, <2>5
<1>14. CASE UNCHANGED vars
  <2>1. Open' = Open
    BY <1>14 DEF vars
  <2>2. QED
    BY <1>14, <2>1, MovedOn DEF vars
<1>15. QED
  BY <1>1, <1>2, <1>3, <1>4, <1>5, <1>6, <1>7, <1>8, <1>9, <1>10, <1>11, <1>12,
     <1>13, <1>14 DEF Next, EventLoop, Loop, Gcs

LEMMA InitOfReports == Init => Promise!ReportsInit
<1> SUFFICES ASSUME Init PROVE Promise!ReportsInit
  OBVIOUS
<1>1. ReportsUnderWay \ {NoObject, Ack} = {}
  BY SomeRange DEF Init, ReportsUnderWay
<1>2. QED
  BY <1>1 DEF Init, Promise!ReportsInit

\* Threads, channel and connections of worker and GCS implement Reports: a result
\* is stored once, its report is noted or missed once and nothing else is noted,
\* for any channel size and any number of tasks and connections.
THEOREM Refinement == Spec => ImplementsReports
BY InvariantOfReports, StepOfReports, InitOfReports, PTL
   DEF Spec, ImplementsReports, Promise!ReportsSpec

\* So a stored result is under way, or known to the GCS, or missed, and never two
\* of them: a location stands for one report, and a missed report is not noted later.
THEOREM ReportsInOnePlace == Spec => []Promise!OnePlace
<1>1. Promise!ReportsInit => Promise!OnePlace
  BY DEF Promise!ReportsInit, Promise!OnePlace
<1>2. ReportInv /\ Promise!OnePlace /\ [Next]_vars => Promise!OnePlace'
  <2> SUFFICES ASSUME ReportInv, Promise!OnePlace, [Next]_vars PROVE Promise!OnePlace'
    OBVIOUS
  <2>1. [Promise!ReportsNext]_Promise!reportsVars
    BY StepOfReports
  <2>2. CASE Promise!Store
    BY <2>2 DEF Promise!Store, Promise!OnePlace
  <2>3. CASE Promise!Note
    BY <2>3 DEF Promise!Note, Promise!OnePlace
  <2>4. CASE Promise!Miss
    BY <2>4 DEF Promise!Miss, Promise!OnePlace
  <2>5. CASE UNCHANGED Promise!reportsVars
    BY <2>5 DEF Promise!reportsVars, Promise!OnePlace
  <2>6. QED
    BY <2>1, <2>2, <2>3, <2>4, <2>5 DEF Promise!ReportsNext
<1>3. QED
  BY <1>1, <1>2, InvariantOfReports, InitOfReports, PTL DEF Spec

=============================================================================
