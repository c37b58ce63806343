--------------------------- MODULE ClientConnProofs ---------------------------
(***************************************************************************)
(* Proofs about ClientConn, for every bound MaxDials on the dials: its     *)
(* types, that no socket leaks, that established is never stale while Loop *)
(* serves a connection, and that it implements Session.                    *)
(***************************************************************************)
EXTENDS ClientConn, TLAPS

\* The points of Loop at which it holds no connection.
Free == {"off", "head", "dial", "backoff", "done"}

\* rawConn is the latest socket exactly while Loop serves one, and every sub
\* context but that of a socket just dialled has been made.
LoopInv ==
    /\ pc \in Free => rawConn = NoConn
    /\ pc \notin Free => rawConn = dials /\ dials > 0
    /\ subGen = IF pc = "sub" THEN dials - 1 ELSE dials

\* Socket numbers are handed out in order.
FreshInv ==
    \A s \in Sockets : IF s <= dials THEN sock[s] # "none"
                                     ELSE sock[s] = "none" /\ hs[s] = "idle"

\* A close that was asked for is forgotten only when the socket is closed.
CloseInv ==
    /\ \A s \in Sockets : sock[s] = "open" => s = rawConn \/ s \in closing
    /\ pc = "await" /\ rawConn \notin closing => sock[rawConn] = "closed"
    /\ evPc = "notify" /\ evTask \in Sockets => sock[evTask] = "closed"

\* Only the socket that Loop serves can still be answered: one left open by a
\* failed Establish never carried Establish.
AnswerInv ==
    /\ \A s \in Sockets : sock[s] = "open" /\ s # rawConn => hs[s] = "idle"
    /\ pc \in {"sub", "reset", "establish"} => hs[rawConn] = "idle"
    /\ pc = "establish" => ~established
    /\ EstablishedMeansAcked

IInv == TypeOK /\ LoopInv /\ FreshInv /\ CloseInv /\ AnswerInv

\* The initial state satisfies the inductive invariant.
LEMMA InitIInv == Init => IInv
<1> SUFFICES ASSUME Init PROVE IInv
  OBVIOUS
<1> USE DialsAssumption DEF Init, TypeOK, FieldsOK, SocketsOK, ThreadsOK,
        LoopInv, FreshInv, CloseInv, AnswerInv,
        EstablishedMeansAcked, Free, Sockets, NoConn, Handshakes, LoopPoints
<1>1. TypeOK
  <2>1. FieldsOK
    <3>1. rawConn \in 0 .. MaxDials /\ subGen \in 0 .. MaxDials
      OBVIOUS
    <3>2. /\ started \in BOOLEAN /\ ctxDone \in BOOLEAN
          /\ established \in BOOLEAN /\ subDone \in BOOLEAN
      OBVIOUS
    <3>3. QED
      BY <3>1, <3>2
  <2>2. SocketsOK
    OBVIOUS
  <2>3. ThreadsOK
    OBVIOUS
  <2>4. QED
    BY <2>1, <2>2, <2>3
<1>2. LoopInv
  OBVIOUS
<1>3. FreshInv
  OBVIOUS
<1>4. CloseInv
  OBVIOUS
<1>5. AnswerInv
  OBVIOUS
<1>6. QED
  BY <1>1, <1>2, <1>3, <1>4, <1>5 DEF IInv

\* Each step preserves it.
LEMMA NextIInv == IInv /\ [Next]_vars => IInv'
<1> SUFFICES ASSUME IInv, [Next]_vars PROVE IInv'
  OBVIOUS
<1> USE DialsAssumption DEF IInv, TypeOK, FieldsOK, SocketsOK, ThreadsOK,
        LoopInv, FreshInv, CloseInv, AnswerInv,
        EstablishedMeansAcked, Free, Sockets, NoConn, Handshakes, LoopPoints,
        connVars, sockVars, evVars
<1>1. CASE Start
  BY <1>1 DEF Start
<1>2. CASE LoopEnter
  BY <1>2 DEF LoopEnter
<1>3. CASE LoopExit
  <2>1. TypeOK'
    BY <1>3 DEF LoopExit
  <2>2. LoopInv'
    BY <1>3 DEF LoopExit
  <2>3. FreshInv'
    BY <1>3 DEF LoopExit
  <2>4. CloseInv'
    BY <1>3 DEF LoopExit
  <2>5. AnswerInv'
    BY <1>3 DEF LoopExit
  <2>6. QED
    BY <2>1, <2>2, <2>3, <2>4, <2>5
<1>4. CASE DialOk
  BY <1>4 DEF DialOk
<1>5. CASE DialFail
  BY <1>5 DEF DialFail
<1>6. CASE BackoffOver
  BY <1>6 DEF BackoffOver
<1>7. CASE BackoffCancelled
  BY <1>7, ZenonT(30) DEF BackoffCancelled
<1>8. CASE NewSub
  <2>1. TypeOK'
    <3>1. FieldsOK'
      <4>1. subGen' \in 0 .. MaxDials
        BY <1>8 DEF NewSub
      <4>2. QED
        BY <1>8, <4>1 DEF NewSub
    <3>2. SocketsOK'
      BY <1>8 DEF NewSub
    <3>3. ThreadsOK'
      BY <1>8 DEF NewSub
    <3>4. QED
      BY <3>1, <3>2, <3>3
  <2>2. LoopInv'
    BY <1>8 DEF NewSub
  <2>3. FreshInv'
    BY <1>8 DEF NewSub
  <2>4. CloseInv'
    BY <1>8 DEF NewSub
  <2>5. AnswerInv'
    BY <1>8 DEF NewSub
  <2>6. QED
    BY <2>1, <2>2, <2>3, <2>4, <2>5
<1>9. CASE ResetEstablished
  <2>1. TypeOK'
    BY <1>9 DEF ResetEstablished
  <2>2. LoopInv'
    BY <1>9 DEF ResetEstablished
  <2>3. FreshInv'
    BY <1>9 DEF ResetEstablished
  <2>4. CloseInv'
    BY <1>9 DEF ResetEstablished
  <2>5. AnswerInv'
    BY <1>9 DEF ResetEstablished
  <2>6. QED
    BY <2>1, <2>2, <2>3, <2>4, <2>5
<1>10. CASE SendEstablish
  BY <1>10 DEF SendEstablish
<1>11. CASE SendEstablishFails
  BY <1>11 DEF SendEstablishFails
<1>12. CASE TickEstablishTimeout
  BY <1>12 DEF TickEstablishTimeout
<1>13. CASE TickIdleOrShakeFails
  BY <1>13 DEF TickIdleOrShakeFails
<1>14. CASE LeaveInner
  BY <1>14 DEF LeaveInner
<1>15. CASE WaitCloseReset
  <2>1. TypeOK'
    BY <1>15 DEF WaitCloseReset
  <2>2. LoopInv'
    BY <1>15 DEF WaitCloseReset
  <2>3. FreshInv'
    BY <1>15 DEF WaitCloseReset
  <2>4. CloseInv'
    BY <1>15 DEF WaitCloseReset
  <2>5. AnswerInv'
    BY <1>15 DEF WaitCloseReset
  <2>6. QED
    BY <2>1, <2>2, <2>3, <2>4, <2>5
<1>16. CASE WaitCloseRequest
  BY <1>16 DEF WaitCloseRequest
<1>17. CASE WaitCloseDone
  BY <1>17 DEF WaitCloseDone
<1>18. CASE OnCloseNotify
  BY <1>18 DEF OnCloseNotify
<1>19. ASSUME NEW s \in Sockets,
              NetClose(s) \/ CloseTask(s) \/ OnRefused(s)
       PROVE  IInv'
  <2>1. TypeOK'
    <3>1. FieldsOK'
      BY <1>19 DEF NetClose, CloseTask, OnRefused, BeginOnClose
    <3>2. SocketsOK'
      BY <1>19 DEF NetClose, CloseTask, OnRefused, BeginOnClose
    <3>3. ThreadsOK'
      BY <1>19 DEF NetClose, CloseTask, OnRefused, BeginOnClose
    <3>4. QED
      BY <3>1, <3>2, <3>3
  <2>2. LoopInv'
    BY <1>19 DEF NetClose, CloseTask, OnRefused, BeginOnClose
  <2>3. FreshInv'
    BY <1>19 DEF NetClose, CloseTask, OnRefused, BeginOnClose
  <2>4. CloseInv'
    BY <1>19 DEF NetClose, CloseTask, OnRefused, BeginOnClose
  <2>5. AnswerInv'
    BY <1>19 DEF NetClose, CloseTask, OnRefused, BeginOnClose
  <2>6. QED
    BY <2>1, <2>2, <2>3, <2>4, <2>5
<1>20. ASSUME NEW s \in Sockets, CloseTaskStale(s)
       PROVE  IInv'
  BY <1>20 DEF CloseTaskStale
<1>21. ASSUME NEW s \in Sockets, OnAck(s)
       PROVE  IInv'
  BY <1>21 DEF OnAck
<1>22. ASSUME NEW s \in Sockets, PeerAnswers(s)
       PROVE  IInv'
  BY <1>22 DEF PeerAnswers
<1>23. CASE Sender
  <2>1. TypeOK'
    <3>1. FieldsOK'
      BY <1>23 DEF Sender, SendCheckConn, SendCheckEstablished, SendWrite
    <3>2. SocketsOK'
      <4>1. CASE SendCheckConn \/ SendCheckEstablished
        BY <4>1 DEF SendCheckConn, SendCheckEstablished
      <4>2. CASE SendWrite
        <5>1. CASE rawConn = NoConn
          BY <4>2, <5>1 DEF SendWrite
        <5>2. CASE rawConn \in Sockets
          <6>1. written' \subseteq Sockets
            BY <4>2, <5>2 DEF SendWrite
          <6>2. QED
            BY <4>2, <6>1 DEF SendWrite
        <5>3. QED
          BY <5>1, <5>2
      <4>3. QED
        BY <1>23, <4>1, <4>2 DEF Sender
    <3>3. ThreadsOK'
      BY <1>23 DEF Sender, SendCheckConn, SendCheckEstablished, SendWrite
    <3>4. QED
      BY <3>1, <3>2, <3>3
  <2>2. LoopInv'
    BY <1>23 DEF Sender, SendCheckConn, SendCheckEstablished, SendWrite
  <2>3. FreshInv'
    BY <1>23 DEF Sender, SendCheckConn, SendCheckEstablished, SendWrite
  <2>4. CloseInv'
    BY <1>23 DEF Sender, SendCheckConn, SendCheckEstablished, SendWrite
  <2>5. AnswerInv'
    BY <1>23 DEF Sender, SendCheckConn, SendCheckEstablished, SendWrite
  <2>6. QED
    BY <2>1, <2>2, <2>3, <2>4, <2>5
<1>24. CASE StopBegin \/ Stop
  <2>1. CASE StopBegin
    <3>1. TypeOK'
      BY <2>1 DEF StopBegin
    <3>2. LoopInv'
      BY <2>1 DEF StopBegin
    <3>3. FreshInv'
      BY <2>1 DEF StopBegin
    <3>4. CloseInv'
      BY <2>1 DEF StopBegin
    <3>5. AnswerInv'
      BY <2>1 DEF StopBegin
    <3>6. QED
      BY <3>1, <3>2, <3>3, <3>4, <3>5
  <2>2. CASE StopCancel
    <3>1. TypeOK'
      BY <2>2 DEF StopCancel
    <3>2. LoopInv'
      BY <2>2 DEF StopCancel
    <3>3. FreshInv'
      BY <2>2 DEF StopCancel
    <3>4. CloseInv'
      BY <2>2 DEF StopCancel
    <3>5. AnswerInv'
      BY <2>2 DEF StopCancel
    <3>6. QED
      BY <3>1, <3>2, <3>3, <3>4, <3>5
  <2>3. CASE StopNotify
    <3>1. TypeOK'
      BY <2>3 DEF StopNotify
    <3>2. LoopInv'
      BY <2>3 DEF StopNotify
    <3>3. FreshInv'
      BY <2>3 DEF StopNotify
    <3>4. CloseInv'
      BY <2>3 DEF StopNotify
    <3>5. AnswerInv'
      BY <2>3 DEF StopNotify
    <3>6. QED
      BY <3>1, <3>2, <3>3, <3>4, <3>5
  <2>4. CASE StopClear
    <3>1. TypeOK'
      BY <2>4 DEF StopClear
    <3>2. LoopInv'
      BY <2>4 DEF StopClear
    <3>3. FreshInv'
      BY <2>4 DEF StopClear
    <3>4. CloseInv'
      BY <2>4 DEF StopClear
    <3>5. AnswerInv'
      BY <2>4 DEF StopClear
    <3>6. QED
      BY <3>1, <3>2, <3>3, <3>4, <3>5
  <2>5. QED
    BY <1>24, <2>1, <2>2, <2>3, <2>4 DEF Stop
<1>25. CASE ParentCancel
  BY <1>25 DEF ParentCancel
<1>26. CASE UNCHANGED vars
  BY <1>26 DEF vars
<1>27. QED
  BY <1>1, <1>2, <1>3, <1>4, <1>5, <1>6, <1>7, <1>8, <1>9, <1>10, <1>11, <1>12,
     <1>13, <1>14, <1>15, <1>16, <1>17, <1>18, <1>19, <1>20, <1>21, <1>22, <1>23,
     <1>24, <1>25, <1>26 DEF Next, Loop, EventLoop

\* The inductive invariant holds in every reachable state.
LEMMA Inductive == Spec => []IInv
BY InitIInv, NextIInv, PTL DEF Spec

\* Every field of the connection, every socket and every thread stays within
\* its type, for any number of dials.
THEOREM TypeCorrect == Spec => []TypeOK
<1>1. IInv => TypeOK
  BY DEF IInv
<1>2. QED
  BY <1>1, Inductive, PTL

\* No path through Loop leaks a socket, for any number of dials.
THEOREM NoLeak == Spec => []NoLeakedSocket
<1>1. IInv => NoLeakedSocket
  BY DEF IInv, LoopInv, CloseInv, NoLeakedSocket, Free
<1>2. QED
  BY <1>1, Inductive, PTL

\* While Loop serves a connection, established is the peer's answer on that
\* connection and never a leftover of the previous one.
THEOREM NeverStale == Spec => []EstablishedMeansAcked
<1>1. IInv => EstablishedMeansAcked
  BY DEF IInv, AnswerInv
<1>2. QED
  BY <1>1, Inductive, PTL

-----------------------------------------------------------------------------
(* Refinement of Session                                                   *)

\* Loop starts between two sessions, with none opened and none answered.
LEMMA RefineInit == Init => S!SessionInit
BY DEF Init, S!SessionInit, SessionPhase, Opening

\* A step that keeps the loop's place, the flag and the answers stutters.
LEMMA Stutter ==
    ASSUME UNCHANGED <<pc, dials, established, rawConn, hs>>
    PROVE  UNCHANGED S!sessionVars
BY DEF S!sessionVars, SessionPhase, Opening

\* Each step of the connection is a step of a session or none.
LEMMA RefineNext == IInv /\ [Next]_vars => [S!SessionNext]_(S!sessionVars)
<1> SUFFICES ASSUME IInv, [Next]_vars
             PROVE  S!SessionNext \/ UNCHANGED S!sessionVars
  OBVIOUS
<1> USE DialsAssumption DEF IInv, TypeOK, FieldsOK, SocketsOK, ThreadsOK, LoopInv,
        FreshInv, AnswerInv, EstablishedMeansAcked, Free, Sockets, NoConn,
        Handshakes, LoopPoints, connVars, sockVars, evVars,
        S!SessionNext, S!sessionVars, SessionPhase, Opening
<1>1. CASE Start \/ LoopEnter \/ DialFail \/ BackoffOver
  BY <1>1 DEF Start, LoopEnter, DialFail, BackoffOver
<1>2. CASE LoopExit \/ BackoffCancelled
  <2>1. S!Finish
    BY <1>2 DEF LoopExit, BackoffCancelled, S!Finish
  <2>2. QED
    BY <2>1
<1>3. CASE DialOk
  <2>1. S!Open
    BY <1>3 DEF DialOk, S!Open
  <2>2. QED
    BY <2>1
<1>4. CASE NewSub \/ ResetEstablished
  BY <1>4 DEF NewSub, ResetEstablished
<1>5. CASE SendEstablish
  <2>1. \A s \in Sockets : hs'[s] = "done" <=> hs[s] = "done"
    BY <1>5 DEF SendEstablish
  <2>2. hs'[rawConn] # "done"
    BY <1>5, <2>1 DEF SendEstablish
  <2>3. QED
    BY <1>5, <2>1, <2>2 DEF SendEstablish
<1>6. CASE SendEstablishFails
  <2>1. S!GoDown
    BY <1>6 DEF SendEstablishFails, S!GoDown
  <2>2. QED
    BY <2>1
<1>7. CASE TickEstablishTimeout \/ TickIdleOrShakeFails
  BY <1>7, Stutter DEF TickEstablishTimeout, TickIdleOrShakeFails
<1>8. CASE LeaveInner
  <2>1. SessionPhase' = "down" /\ UNCHANGED <<dials, hs>>
    BY <1>8 DEF LeaveInner
  <2>2. SessionPhase \in {"opening", "up", "down"}
    BY <1>8 DEF LeaveInner
  <2>3. QED
    BY <2>1, <2>2 DEF S!GoDown
<1>9. CASE WaitCloseReset \/ WaitCloseRequest \/ WaitCloseDone
  BY <1>9 DEF WaitCloseReset, WaitCloseRequest, WaitCloseDone
<1>10. CASE OnCloseNotify
  BY <1>10, Stutter DEF OnCloseNotify
<1>11. ASSUME NEW s \in Sockets,
              NetClose(s) \/ CloseTask(s) \/ CloseTaskStale(s) \/ OnRefused(s)
       PROVE  UNCHANGED S!sessionVars
  BY <1>11, Stutter
     DEF NetClose, CloseTask, CloseTaskStale, OnRefused, BeginOnClose
<1>12. ASSUME NEW s \in Sockets, OnAck(s)
       PROVE  S!SessionNext
  <2>1. s = rawConn /\ s = dials /\ dials > 0
    BY <1>12 DEF OnAck
  <2>2. {r \in Sockets : hs[r] = "done"}' = {r \in Sockets : hs[r] = "done"} \cup {dials}
    BY <1>12, <2>1 DEF OnAck
  <2>3. CASE pc = "inner"
    <3>1. S!ComeUp
      BY <1>12, <2>1, <2>2, <2>3 DEF OnAck, S!ComeUp
    <3>2. QED
      BY <3>1
  <2>4. CASE pc # "inner"
    <3>1. S!LateAnswer
      BY <1>12, <2>1, <2>2, <2>4 DEF OnAck, S!LateAnswer
    <3>2. QED
      BY <3>1
  <2>5. QED
    BY <2>3, <2>4
<1>13. ASSUME NEW s \in Sockets, PeerAnswers(s)
       PROVE  UNCHANGED S!sessionVars
  <2>1. \A r \in Sockets : hs'[r] = "done" <=> hs[r] = "done"
    BY <1>13 DEF PeerAnswers
  <2>2. pc \notin Free => (hs'[rawConn] = "done" <=> hs[rawConn] = "done")
    BY <2>1
  <2>3. QED
    BY <1>13, <2>1, <2>2 DEF PeerAnswers
<1>14. CASE Sender \/ StopBegin \/ StopCancel \/ StopNotify \/ ParentCancel
  BY <1>14, Stutter DEF Sender, SendCheckConn, SendCheckEstablished, SendWrite,
     StopBegin, StopCancel, StopNotify, ParentCancel
<1>15. CASE StopClear
  BY <1>15 DEF StopClear, S!GoDown
<1>16. CASE UNCHANGED vars
  BY <1>16, Stutter DEF vars
<1>17. QED
  BY <1>1, <1>2, <1>3, <1>4, <1>5, <1>6, <1>7, <1>8, <1>9, <1>10, <1>11, <1>12,
     <1>13, <1>14, <1>15, <1>16 DEF Next, Loop, EventLoop, Stop

\* Every outbound connection is a succession of sessions, each of which comes
\* up at most once and only by its own acknowledgement.
THEOREM Refinement == Spec => ImplementsSession
BY RefineInit, RefineNext, Inductive, PTL DEF Spec, ImplementsSession, S!SessionSpec

=============================================================================
