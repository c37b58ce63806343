------------------------------- MODULE Heartbeat -------------------------------
(***************************************************************************)
(* The timers of one connection that carries no tasks: on the dialling side*)
(* onTick and maybeShake of common/client_conn.go, called every second     *)
(* between Establish and the next close; on the other side, which only the *)
(* GCS has running, the rounds of GCS.Loop that send a ShakeHand to every  *)
(* established inbound connection.  No side answers a ShakeHand.           *)
(*                                                                         *)
(* Time is discrete.  It passes only if nothing is overdue: the tickers    *)
(* fire, and a message takes at most MaxDelay.  The module ends when the   *)
(* dialling side gives the connection up; what follows is in ClientConn.   *)
(***************************************************************************)
EXTENDS Naturals, Sequences

CONSTANTS TickPeriod,        \* of the ticker in Loop, and the least between two rounds
          PeerPeriod,        \* the most between two rounds of GCS.Loop
          MaxDelay,          \* of a message, its handling included
          EstablishTimeout, RecvIdleTimeout, ShakeEvery

ASSUME PeriodAssumption ==
    /\ TickPeriod \in Nat \ {0} /\ PeerPeriod \in Nat /\ TickPeriod <= PeerPeriod
    /\ MaxDelay \in Nat /\ ShakeEvery \in Nat
    /\ EstablishTimeout \in Nat /\ RecvIdleTimeout \in Nat

\* The defaults of NewConnection (10 s and 30 s) leave room for a network as
\* slow as this.
ASSUME SlackAssumption ==
    /\ 2 * MaxDelay <= EstablishTimeout
    /\ PeerPeriod + MaxDelay <= RecvIdleTimeout

VARIABLES
    peer,                    \* "gcs", or "other": a worker or scheduler
    alive,                   \* the peer and the path to it work
    \* the dialling side
    up, established,
    sinceRecv, sinceSent,    \* time since lastRecv and lastSent
    sinceTick,
    \* the other side
    peerEstablished,
    acking,                  \* in onEstablish, between SetEstablished and Send
    sinceRound,              \* time since the last round of GCS.Loop
    \* the messages on their way
    toPeer, toUs,
    gone                     \* history: time since the peer vanished, up to MaxGone

clientVars == <<up, established, sinceRecv, sinceSent, sinceTick>>
peerVars   == <<peerEstablished, acking, sinceRound>>
vars       == <<peer, alive, clientVars, peerVars, toPeer, toUs, gone>>

MaxGone == EstablishTimeout + RecvIdleTimeout + 2 * TickPeriod

Message(kinds) == [msg : kinds, age : 0 .. MaxDelay]

TypeOK ==
    /\ peer \in {"gcs", "other"} /\ alive \in BOOLEAN
    /\ up \in BOOLEAN /\ established \in BOOLEAN
    /\ sinceRecv \in Nat /\ sinceSent \in Nat /\ sinceTick \in 0 .. TickPeriod
    /\ peerEstablished \in BOOLEAN /\ acking \in BOOLEAN
    /\ established \/ acking => peerEstablished
    /\ sinceRound \in 0 .. PeerPeriod
    /\ toPeer \in Seq(Message({"Establish", "ShakeHand"}))
    /\ toUs \in Seq(Message({"EstablishAck", "ShakeHand"}))
    /\ gone \in 0 .. MaxGone

Put(q, m) == Append(q, [msg |-> m, age |-> 0])

\* dialOnce and sendEstablish; the round of the GCS may be due at any time.
Init ==
    /\ peer \in {"gcs", "other"} /\ alive = TRUE
    /\ up = TRUE /\ established = FALSE
    /\ sinceRecv = 0 /\ sinceSent = 0 /\ sinceTick = 0
    /\ peerEstablished = FALSE /\ acking = FALSE
    /\ sinceRound \in IF peer = "gcs" THEN 0 .. PeerPeriod ELSE {0}
    /\ toPeer = Put(<<>>, "Establish") /\ toUs = <<>>
    /\ gone = 0

-----------------------------------------------------------------------------
(* The dialling side                                                       *)

\* No acknowledgement for too long, or nothing at all.
OnTickGivesUp ==
    IF established THEN sinceRecv > RecvIdleTimeout ELSE sinceSent > EstablishTimeout

\* mutant: a ShakeHand counts as a sign of life of the peer.
ShakeRefreshesRecv ==
    IF established /\ sinceSent >= ShakeEvery
    THEN /\ sinceSent' = 0 /\ sinceRecv' = 0
         /\ toPeer' = IF alive THEN Put(toPeer, "ShakeHand") ELSE toPeer
    ELSE UNCHANGED <<sinceSent, sinceRecv, toPeer>>

\* AsyncWrite succeeds also when nobody receives any more.
MaybeShake ==
    IF established /\ sinceSent >= ShakeEvery
    THEN /\ sinceSent' = 0
         /\ toPeer' = IF alive THEN Put(toPeer, "ShakeHand") ELSE toPeer
         /\ UNCHANGED sinceRecv
    ELSE UNCHANGED <<sinceSent, sinceRecv, toPeer>>

\* The ticker of Loop: onTick, then maybeShake.
Tick ==
    /\ sinceTick = TickPeriod
    /\ up' = ~OnTickGivesUp
    /\ MaybeShake
    /\ sinceTick' = 0
    /\ UNCHANGED <<peer, alive, established, peerVars, toUs, gone>>

\* mutant: only the acknowledgement refreshes lastRecv.
OnPacketKeepsRecv ==
    /\ toUs # <<>>
    /\ toUs' = Tail(toUs)
    /\ established' = (established \/ Head(toUs).msg = "EstablishAck")
    /\ sinceRecv' = IF Head(toUs).msg = "EstablishAck" THEN 0 ELSE sinceRecv
    /\ UNCHANGED <<peer, alive, up, sinceSent, sinceTick, peerVars, toPeer, gone>>

\* Any packet refreshes lastRecv, one before the acknowledgement too.
OnPacket ==
    /\ toUs # <<>>
    /\ toUs' = Tail(toUs)
    /\ established' = (established \/ Head(toUs).msg = "EstablishAck")
    /\ sinceRecv' = 0
    /\ UNCHANGED <<peer, alive, up, sinceSent, sinceTick, peerVars, toPeer, gone>>

-----------------------------------------------------------------------------
(* The other side                                                          *)

\* mutant: SetEstablished is forgotten.
OnEstablishOnlyAcks ==
    /\ alive /\ ~acking /\ toPeer # <<>> /\ Head(toPeer).msg = "Establish"
    /\ toPeer' = Tail(toPeer)
    /\ acking' = TRUE
    /\ UNCHANGED <<peer, alive, clientVars, peerEstablished, sinceRound, toUs, gone>>

\* onEstablish marks the connection and then sends the acknowledgement; a round
\* of GCS.Loop may come in between.
OnEstablish ==
    /\ alive /\ ~acking /\ toPeer # <<>> /\ Head(toPeer).msg = "Establish"
    /\ toPeer' = Tail(toPeer)
    /\ peerEstablished' = TRUE /\ acking' = TRUE
    /\ UNCHANGED <<peer, alive, clientVars, sinceRound, toUs, gone>>

SendAck ==
    /\ alive /\ acking
    /\ toUs' = Put(toUs, "EstablishAck")
    /\ acking' = FALSE
    /\ UNCHANGED <<peer, alive, clientVars, peerEstablished, sinceRound, toPeer, gone>>

\* A ShakeHand is logged and not answered.
OnShakeHand ==
    /\ alive /\ ~acking /\ toPeer # <<>> /\ Head(toPeer).msg = "ShakeHand"
    /\ toPeer' = Tail(toPeer)
    /\ UNCHANGED <<peer, alive, clientVars, peerVars, toUs, gone>>

\* A round of GCS.Loop: Ontick of the connection.
Ontick ==
    /\ peer = "gcs" /\ alive /\ sinceRound >= TickPeriod
    /\ sinceRound' = 0
    /\ toUs' = IF peerEstablished THEN Put(toUs, "ShakeHand") ELSE toUs
    /\ UNCHANGED <<peer, alive, clientVars, peerEstablished, acking, toPeer, gone>>

\* The peer or the path to it is gone, and no FIN arrives.
Vanish ==
    /\ alive
    /\ alive' = FALSE /\ acking' = FALSE
    /\ toPeer' = <<>> /\ toUs' = <<>>
    /\ UNCHANGED <<peer, clientVars, peerEstablished, sinceRound, gone>>

-----------------------------------------------------------------------------
(* Time                                                                    *)

InTime(q) == \A i \in 1 .. Len(q) : q[i].age < MaxDelay
Aged(q)   == [i \in 1 .. Len(q) |-> [msg |-> q[i].msg, age |-> q[i].age + 1]]

Rounds == peer = "gcs" /\ alive

Pass ==
    /\ InTime(toPeer) /\ InTime(toUs)
    /\ sinceTick < TickPeriod
    /\ ~acking
    /\ Rounds => sinceRound < PeerPeriod
    /\ toPeer' = Aged(toPeer) /\ toUs' = Aged(toUs)
    /\ sinceTick' = sinceTick + 1
    /\ sinceRecv' = sinceRecv + 1 /\ sinceSent' = sinceSent + 1
    /\ sinceRound' = IF Rounds THEN sinceRound + 1 ELSE sinceRound
    /\ gone' = IF alive \/ gone = MaxGone THEN gone ELSE gone + 1
    /\ UNCHANGED <<peer, alive, up, established, peerEstablished, acking>>

-----------------------------------------------------------------------------
Peer == OnEstablish \/ SendAck \/ OnShakeHand \/ Ontick

Next == up /\ (Tick \/ OnPacket \/ Peer \/ Vanish \/ Pass)

Spec == Init /\ [][Next]_vars

\* Time goes on, and what is due is done.
FairSpec ==
    Spec /\ WF_vars(up /\ Pass) /\ WF_vars(up /\ Tick)
         /\ WF_vars(up /\ OnPacket) /\ WF_vars(up /\ Peer)

-----------------------------------------------------------------------------
(* Properties                                                              *)

\* A connection to a GCS that works is never given up: every Ontick is in time,
\* wherever the rounds fall between the ticks, the Establish and its answer.
HealthyGcsStaysUp == peer = "gcs" /\ alive => up

\* A peer that is gone is given up at the first tick after the timeout that
\* applies; what the connection itself still sends does not put that off.
SilenceIsNoticed ==
    gone <= TickPeriod + (IF established THEN RecvIdleTimeout ELSE EstablishTimeout)

\* A peer that is gone is given up.
DeadPeerGivenUp == ~alive ~> ~up

\* A ShakeHand is a request that ShakeHandResp answers, as EstablishAck answers
\* Establish (codec/header.go:18-19): whoever the peer, the exchange keeps a
\* connection between two healthy nodes alive.
ShakeHandKeepsUp == alive => up

=============================================================================
