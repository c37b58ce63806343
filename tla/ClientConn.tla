------------------------------ MODULE ClientConn ------------------------------
(***************************************************************************)
(* common/client_conn.go: the outbound connection every node uses to dial  *)
(* another one.  Four threads share the fields of one *connection without  *)
(* a lock:                                                                 *)
(*   - the Loop goroutine: dial, Establish, wait for trouble, close, again;*)
(*   - the gnet event loop: OnPacket, OnClose and the queued closes;       *)
(*   - a goroutine that calls Send (the scheduler's task loop does);       *)
(*   - a goroutine that calls Stop, or cancels the parent context.         *)
(* One action is one step between two accesses to shared fields.           *)
(*                                                                         *)
(* Time is abstract: a timer that the code arms may fire.  gnet is modelled*)
(* from how the code uses it: the event loop is one thread; a close of an  *)
(* open socket calls OnClose once; CloseWithCallback and Close are queued  *)
(* and executed by the event loop, the callback after OnClose.             *)
(***************************************************************************)
EXTENDS Naturals

CONSTANT MaxDials        \* bound on the successful dials

ASSUME DialsAssumption == MaxDials \in Nat

NoConn == 0              \* a nil rawConn
Sockets == 1 .. MaxDials \* the i-th successful dial yields socket i

VARIABLES
    \* fields of connection
    started, ctxDone, established, rawConn,
    subGen,              \* how many sub contexts were made; subCancel cancels the last
    subDone,             \* the last sub context was cancelled by subCancel
    \* the Loop goroutine
    pc, dials,
    \* the sockets and what crossed them
    sock,                \* "none", "open" or "closed"
    closing,             \* sockets with a close queued on the event loop
    hs,                  \* Establish exchange of each socket, see Handshakes
    written,             \* sockets on which Send wrote a frame
    \* the event loop in the middle of OnClose
    evPc, evSub, evTask,
    \* the goroutine that calls Send, the one that calls Stop
    sendPc, stopPc

connVars == <<started, ctxDone, established, rawConn, subGen, subDone>>
sockVars == <<sock, closing, hs, written>>
evVars   == <<evPc, evSub, evTask>>
vars     == <<connVars, pc, dials, sockVars, evVars, sendPc, stopPc>>

\* Nothing sent; Establish sent; its answer on the way (OK or an error); OK handled.
Handshakes == {"idle", "asked", "accepted", "refused", "done"}
LoopPoints == {"off", "head", "dial", "backoff", "sub", "reset", "establish",
               "inner", "drop", "close", "await", "done"}

FieldsOK ==
    /\ started \in BOOLEAN /\ ctxDone \in BOOLEAN /\ established \in BOOLEAN
    /\ rawConn \in 0 .. MaxDials
    /\ subGen \in 0 .. MaxDials /\ subDone \in BOOLEAN

SocketsOK ==
    /\ sock \in [Sockets -> {"none", "open", "closed"}]
    /\ closing \subseteq Sockets
    /\ hs \in [Sockets -> Handshakes]
    /\ written \subseteq Sockets

ThreadsOK ==
    /\ pc \in LoopPoints /\ dials \in 0 .. MaxDials
    /\ evPc \in {"idle", "notify"}
    /\ evSub \in 0 .. MaxDials /\ evTask \in 0 .. MaxDials
    /\ sendPc \in {"idle", "checked", "write", "panicked"}
    /\ stopPc \in {"idle", "cancel", "notify", "clear", "done"}

TypeOK == FieldsOK /\ SocketsOK /\ ThreadsOK

\* NewConnection: nothing started, every field zero.
Init ==
    /\ started = FALSE /\ ctxDone = FALSE /\ established = FALSE
    /\ rawConn = NoConn /\ subGen = 0 /\ subDone = FALSE
    /\ pc = "off" /\ dials = 0
    /\ sock = [s \in Sockets |-> "none"]
    /\ closing = {} /\ written = {}
    /\ hs = [s \in Sockets |-> "idle"]
    /\ evPc = "idle" /\ evSub = 0 /\ evTask = NoConn
    /\ sendPc = "idle" /\ stopPc = "idle"

\* mutant: the sub context is derived from Background.
SubCtxDetached == subDone

\* The sub context is derived from ctx: it is done when either is cancelled.
SubCtxDone == subDone \/ ctxDone

-----------------------------------------------------------------------------
(* Loop                                                                    *)

Start ==
    /\ pc = "off" /\ ~started
    /\ started' = TRUE
    /\ pc' = "head"
    /\ UNCHANGED <<ctxDone, established, rawConn, subGen, subDone, dials,
                   sockVars, evVars, sendPc, stopPc>>

\* The loop condition and the first select.
LoopEnter ==
    /\ pc = "head" /\ started /\ ~ctxDone
    /\ pc' = "dial"
    /\ UNCHANGED <<connVars, dials, sockVars, evVars, sendPc, stopPc>>

\* Out of the loop; the deferred Stop finds started already false.
LoopExit ==
    /\ pc = "head" /\ (~started \/ ctxDone)
    /\ started' = FALSE
    /\ pc' = "done"
    /\ UNCHANGED <<ctxDone, established, rawConn, subGen, subDone, dials,
                   sockVars, evVars, sendPc, stopPc>>

\* dialOnce: the socket is enrolled with gnet and becomes rawConn.
DialOk ==
    /\ pc = "dial" /\ dials < MaxDials
    /\ dials' = dials + 1
    /\ sock' = [sock EXCEPT ![dials + 1] = "open"]
    /\ rawConn' = dials + 1
    /\ pc' = "sub"
    /\ UNCHANGED <<started, ctxDone, established, subGen, subDone, closing, hs,
                   written, evVars, sendPc, stopPc>>

DialFail ==
    /\ pc = "dial"
    /\ pc' = "backoff"
    /\ UNCHANGED <<connVars, dials, sockVars, evVars, sendPc, stopPc>>

BackoffOver ==
    /\ pc = "backoff"
    /\ pc' = "head"
    /\ UNCHANGED <<connVars, dials, sockVars, evVars, sendPc, stopPc>>

BackoffCancelled ==
    /\ pc = "backoff" /\ ctxDone
    /\ started' = FALSE
    /\ pc' = "done"
    /\ UNCHANGED <<ctxDone, established, rawConn, subGen, subDone, dials,
                   sockVars, evVars, sendPc, stopPc>>

\* From here on OnClose cancels this socket's sub context.
NewSub ==
    /\ pc = "sub"
    /\ subGen' = subGen + 1
    /\ subDone' = FALSE
    /\ pc' = "reset"
    /\ UNCHANGED <<started, ctxDone, established, rawConn, dials, sockVars,
                   evVars, sendPc, stopPc>>

\* mutant: sendEstablish trusts established to be false already.
ResetForgotten ==
    /\ pc = "reset"
    /\ pc' = "establish"
    /\ UNCHANGED <<connVars, dials, sockVars, evVars, sendPc, stopPc>>

\* sendEstablish, first statement.
ResetEstablished ==
    /\ pc = "reset"
    /\ established' = FALSE
    /\ pc' = "establish"
    /\ UNCHANGED <<started, ctxDone, rawConn, subGen, subDone, dials, sockVars,
                   evVars, sendPc, stopPc>>

\* AsyncWrite accepts the frame; a socket closed meanwhile swallows it.
SendEstablish ==
    /\ pc = "establish"
    /\ hs' = IF sock[rawConn] = "open" THEN [hs EXCEPT ![rawConn] = "asked"] ELSE hs
    /\ pc' = "inner"
    /\ UNCHANGED <<connVars, dials, sock, closing, written, evVars, sendPc, stopPc>>

\* mutants: the failed connection is dropped without Close; nil is closed.
FailWithoutClose ==
    /\ pc = "establish"
    /\ rawConn' = NoConn
    /\ pc' = "head"
    /\ UNCHANGED <<started, ctxDone, established, subGen, subDone, dials, sockVars,
                   evVars, sendPc, stopPc>>
FailClosesNil ==
    /\ pc = "establish"
    /\ rawConn' = NoConn
    /\ closing' = closing \cup {rawConn'}
    /\ pc' = "head"
    /\ UNCHANGED <<started, ctxDone, established, subGen, subDone, dials, sock, hs,
                   written, evVars, sendPc, stopPc>>

\* AsyncWrite fails: Close is queued, not awaited, and the loop dials again.
SendEstablishFails ==
    /\ pc = "establish"
    /\ closing' = closing \cup {rawConn}
    /\ rawConn' = NoConn
    /\ pc' = "head"
    /\ UNCHANGED <<started, ctxDone, established, subGen, subDone, dials, sock, hs,
                   written, evVars, sendPc, stopPc>>

\* mutant: onTick watches only established connections.
NoEstablishTimeout ==
    FALSE /\ UNCHANGED vars

\* onTick: no answer to Establish within establishTimeout.
TickEstablishTimeout ==
    /\ pc = "inner" /\ ~established /\ ~subDone
    /\ subDone' = TRUE
    /\ UNCHANGED <<started, ctxDone, established, rawConn, subGen, pc, dials,
                   sockVars, evVars, sendPc, stopPc>>

\* onTick: nothing received within recvIdleTimeout; maybeShake: AsyncWrite fails.
TickIdleOrShakeFails ==
    /\ pc = "inner" /\ established /\ ~subDone
    /\ subDone' = TRUE
    /\ UNCHANGED <<started, ctxDone, established, rawConn, subGen, pc, dials,
                   sockVars, evVars, sendPc, stopPc>>

LeaveInner ==
    /\ pc = "inner" /\ SubCtxDone
    /\ pc' = "drop"
    /\ UNCHANGED <<connVars, dials, sockVars, evVars, sendPc, stopPc>>

\* waitClose: established off, close queued, callback awaited, rawConn dropped.
WaitCloseReset ==
    /\ pc = "drop"
    /\ established' = FALSE
    /\ pc' = "close"
    /\ UNCHANGED <<started, ctxDone, rawConn, subGen, subDone, dials, sockVars,
                   evVars, sendPc, stopPc>>

WaitCloseRequest ==
    /\ pc = "close"
    /\ closing' = closing \cup {rawConn}
    /\ pc' = "await"
    /\ UNCHANGED <<connVars, dials, sock, hs, written, evVars, sendPc, stopPc>>

WaitCloseDone ==
    /\ pc = "await" /\ rawConn \notin closing
    /\ rawConn' = NoConn
    /\ pc' = "head"
    /\ UNCHANGED <<started, ctxDone, established, subGen, subDone, dials, sockVars,
                   evVars, sendPc, stopPc>>

-----------------------------------------------------------------------------
(* The gnet event loop                                                     *)

\* The socket closes and OnClose reads subCancel; OnCloseNotify calls it.
BeginOnClose(s, task) ==
    /\ evPc = "idle" /\ sock[s] = "open"
    /\ sock' = [sock EXCEPT ![s] = "closed"]
    /\ evPc' = "notify"
    /\ evSub' = subGen
    /\ evTask' = task
    /\ UNCHANGED <<connVars, pc, dials, closing, hs, written, sendPc, stopPc>>

\* The peer or the network closes, or a handler's error closes (gnet.Close).
NetClose(s) == BeginOnClose(s, NoConn)

\* The queued Close or CloseWithCallback of an open socket.
CloseTask(s) == s \in closing /\ BeginOnClose(s, s)

\* The queued close of a socket already closed only runs the callback.
CloseTaskStale(s) ==
    /\ evPc = "idle" /\ s \in closing /\ sock[s] = "closed"
    /\ closing' = closing \ {s}
    /\ UNCHANGED <<connVars, pc, dials, sock, hs, written, evVars, sendPc, stopPc>>

\* notifyReconnect, then the close callback if a queued close is executing.
OnCloseNotify ==
    /\ evPc = "notify"
    /\ subDone' = (subDone \/ (evSub # 0 /\ evSub = subGen))
    /\ closing' = closing \ {evTask}
    /\ evPc' = "idle"
    /\ UNCHANGED <<started, ctxDone, established, rawConn, subGen, pc, dials,
                   sock, hs, written, evSub, evTask, sendPc, stopPc>>

\* OnPacket of an EstablishAck that says OK.
OnAck(s) ==
    /\ evPc = "idle" /\ sock[s] = "open" /\ hs[s] = "accepted"
    /\ established' = TRUE
    /\ hs' = [hs EXCEPT ![s] = "done"]
    /\ UNCHANGED <<started, ctxDone, rawConn, subGen, subDone, pc, dials, sock,
                   closing, written, evVars, sendPc, stopPc>>

\* OnPacket of a rejecting EstablishAck: notify, and the error closes the socket.
OnRefused(s) ==
    /\ hs[s] = "refused"
    /\ BeginOnClose(s, NoConn)

\* The peer answers Establish, with OK or with an error.
PeerAnswers(s) ==
    /\ sock[s] = "open" /\ hs[s] = "asked"
    /\ \E a \in {"accepted", "refused"} : hs' = [hs EXCEPT ![s] = a]
    /\ UNCHANGED <<connVars, pc, dials, sock, closing, written, evVars, sendPc, stopPc>>

-----------------------------------------------------------------------------
(* Send and Stop, called from other goroutines                             *)

\* Send: rawConn is not nil ...
SendCheckConn ==
    /\ sendPc = "idle" /\ rawConn # NoConn
    /\ sendPc' = "checked"
    /\ UNCHANGED <<connVars, pc, dials, sockVars, evVars, stopPc>>

\* ... established is set (or Send returns an error) ...
SendCheckEstablished ==
    /\ sendPc = "checked"
    /\ sendPc' = IF established THEN "write" ELSE "idle"
    /\ UNCHANGED <<connVars, pc, dials, sockVars, evVars, stopPc>>

\* ... and rawConn, read again, takes the frame: a nil one panics.
SendWrite ==
    /\ sendPc = "write"
    /\ IF rawConn = NoConn
       THEN sendPc' = "panicked" /\ UNCHANGED written
       ELSE /\ sendPc' = "idle"
            /\ written' = IF sock[rawConn] = "open" THEN written \cup {rawConn} ELSE written
    /\ UNCHANGED <<connVars, pc, dials, sock, closing, hs, evVars, stopPc>>

StopBegin ==
    /\ stopPc = "idle" /\ started
    /\ started' = FALSE
    /\ stopPc' = "cancel"
    /\ UNCHANGED <<ctxDone, established, rawConn, subGen, subDone, pc, dials,
                   sockVars, evVars, sendPc>>

StopCancel ==
    /\ stopPc = "cancel"
    /\ ctxDone' = TRUE
    /\ stopPc' = "notify"
    /\ UNCHANGED <<started, established, rawConn, subGen, subDone, pc, dials,
                   sockVars, evVars, sendPc>>

StopNotify ==
    /\ stopPc = "notify"
    /\ subDone' = (subDone \/ subGen # 0)
    /\ stopPc' = "clear"
    /\ UNCHANGED <<started, ctxDone, established, rawConn, subGen, pc, dials,
                   sockVars, evVars, sendPc>>

StopClear ==
    /\ stopPc = "clear"
    /\ established' = FALSE
    /\ stopPc' = "done"
    /\ UNCHANGED <<started, ctxDone, rawConn, subGen, subDone, pc, dials,
                   sockVars, evVars, sendPc>>

\* The process cancels the context it passed to NewConnection.
ParentCancel ==
    /\ ~ctxDone
    /\ ctxDone' = TRUE
    /\ UNCHANGED <<started, established, rawConn, subGen, subDone, pc, dials,
                   sockVars, evVars, sendPc, stopPc>>

-----------------------------------------------------------------------------
\* The steps Loop takes unless it is blocked; the establish timer is armed
\* whenever the inner select waits without an answer.
Loop ==
    \/ LoopEnter \/ LoopExit \/ DialOk \/ DialFail
    \/ BackoffOver \/ BackoffCancelled
    \/ NewSub \/ ResetEstablished \/ SendEstablish \/ SendEstablishFails
    \/ TickEstablishTimeout \/ LeaveInner
    \/ WaitCloseReset \/ WaitCloseRequest \/ WaitCloseDone

EventLoop ==
    \/ OnCloseNotify
    \/ \E s \in Sockets : CloseTask(s) \/ CloseTaskStale(s) \/ OnAck(s) \/ OnRefused(s)

Sender == SendCheckConn \/ SendCheckEstablished \/ SendWrite
Stop   == StopCancel \/ StopNotify \/ StopClear

Next ==
    \/ Start \/ Loop \/ TickIdleOrShakeFails
    \/ EventLoop
    \/ \E s \in Sockets : NetClose(s) \/ PeerAnswers(s)
    \/ Sender \/ StopBegin \/ Stop \/ ParentCancel

Spec == Init /\ [][Next]_vars

\* Goroutines and the event loop are scheduled and armed timers fire.  The
\* peer may stay silent, and nobody has to call Send or Stop.
FairSpec == Spec /\ WF_vars(Loop) /\ WF_vars(EventLoop) /\ WF_vars(Stop)

-----------------------------------------------------------------------------
(* Properties                                                              *)

\* No socket is ever leaked, on no path out of Loop: an open socket is the
\* current rawConn or its close is queued, and Loop holds none while it is
\* between two connections or has ended.  (Every exit of Loop, the early
\* "continue" after a failed Establish included, has to give its socket up.)
NoLeakedSocket ==
    /\ \A s \in Sockets : sock[s] = "open" => s = rawConn \/ s \in closing
    /\ pc \in {"off", "head", "dial", "backoff", "done"} => rawConn = NoConn

\* While Loop serves a connection, established means that the peer has
\* accepted Establish on this very socket.  An acknowledgement of the previous
\* socket that raced with waitClose may have left the flag set; sendEstablish
\* has to clear it.
EstablishedMeansAcked ==
    pc = "inner" /\ established => hs[rawConn] = "done"

\* A closed socket is noticed and given up, even if its OnClose ran before
\* Loop had made the sub context that OnClose cancels.
CloseNoticed ==
    \A s \in Sockets : (rawConn = s /\ sock[s] = "closed") ~> (rawConn # s)

\* Once the context is cancelled, by Stop or by its owner, a running Loop ends,
\* wherever it was.
StopTerminates == (ctxDone /\ pc # "off") ~> (pc = "done")

\* Loop's connections are a succession of sessions in the sense of Session.
Opening == pc \in {"sub", "reset", "establish"} \/ (pc = "inner" /\ hs[rawConn] # "done")

SessionPhase ==
    IF pc = "done" THEN "stopped"
    ELSE IF pc = "inner" /\ established THEN "up"
    ELSE IF Opening THEN "opening"
    ELSE "down"

S == INSTANCE Session WITH
       MaxEpoch <- MaxDials, phase <- SessionPhase, epoch <- dials,
       answered <- {s \in Sockets : hs[s] = "done"}

\* Every session comes up at most once, only by its own acknowledgement, and
\* never after the loop has ended.
ImplementsSession == S!SessionSpec

\* "Send needs Establish" (client_conn.go:143): a frame is written only on a
\* socket whose Establish was accepted.
SendNeedsEstablish == \A s \in written : hs[s] = "done"

\* Send answers "no rawConn" (client_conn.go:145) when there is none.
SendNeverPanics == sendPc # "panicked"

=============================================================================
