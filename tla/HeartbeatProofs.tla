---------------------------- MODULE HeartbeatProofs ----------------------------
(***************************************************************************)
(* Proofs about Heartbeat for any periods, delay and timeouts that leave   *)
(* the slack of SlackAssumption: a connection to a GCS that works is never *)
(* given up, and a peer that is gone is noticed in time.                   *)
(***************************************************************************)
EXTENDS Heartbeat, SequenceTheorems, TLAPS

\* Until the connection is established, the Establish, or its answer, is on its
\* way and not older than the Establish is.
AnswerUnderWay ==
    alive /\ ~established =>
        \/ /\ toPeer # <<>> /\ Head(toPeer).msg = "Establish"
           /\ sinceSent <= Head(toPeer).age
        \/ acking /\ sinceSent <= MaxDelay
        \/ \E i \in 1 .. Len(toUs) :
              toUs[i].msg = "EstablishAck" /\ sinceSent <= MaxDelay + toUs[i].age

\* Between two messages of a GCS lies no more than one period of its rounds.
GcsSpeaks ==
    peer = "gcs" /\ alive /\ established =>
        IF toUs = <<>> THEN sinceRecv <= sinceRound
        ELSE sinceRecv <= Head(toUs).age + PeerPeriod

\* The last tick found the timers in order.
TimersInOrder ==
    up => IF established THEN sinceRecv <= RecvIdleTimeout + sinceTick
          ELSE sinceSent <= EstablishTimeout + sinceTick

\* Since the peer has gone, nothing was received.
NothingSinceGone ==
    IF alive THEN gone = 0
    ELSE /\ toUs = <<>> /\ ~acking
         /\ gone <= sinceRecv
         /\ ~established => gone <= sinceSent

\* Who acknowledges has established.
AckIsHonest ==
    \A i \in 1 .. Len(toUs) : toUs[i].msg = "EstablishAck" => peerEstablished

IInv == /\ TypeOK /\ AckIsHonest /\ AnswerUnderWay /\ GcsSpeaks /\ TimersInOrder /\ NothingSinceGone
        /\ HealthyGcsStaysUp /\ SilenceIsNoticed

-----------------------------------------------------------------------------
(* The queues                                                              *)

\* A new message is the last one.
LEMMA PutQueue ==
    ASSUME NEW K, NEW q \in Seq(Message(K)), NEW m \in K
    PROVE  /\ Put(q, m) \in Seq(Message(K)) /\ Put(q, m) # <<>>
           /\ Len(Put(q, m)) = Len(q) + 1
           /\ \A i \in 1 .. Len(q) : Put(q, m)[i] = q[i]
           /\ Put(q, m)[Len(q) + 1] = [msg |-> m, age |-> 0]
           /\ q # <<>> => Head(Put(q, m)) = Head(q)
           /\ q = <<>> => Head(Put(q, m)) = [msg |-> m, age |-> 0]
<1> DEFINE e == [msg |-> m, age |-> 0]
<1>1. e \in Message(K)
  BY PeriodAssumption DEF Message
<1>2. Put(q, m) = Append(q, e)
  BY DEF Put
<1> HIDE DEF e
<1>3. /\ Append(q, e) \in Seq(Message(K)) /\ Append(q, e) # <<>>
      /\ Len(Append(q, e)) = Len(q) + 1
      /\ \A i \in 1 .. Len(q) : Append(q, e)[i] = q[i]
      /\ Append(q, e)[Len(q) + 1] = e
  BY <1>1
<1>4. q # <<>> => Head(Append(q, e)) = Head(q)
  BY <1>1
<1>5. q = <<>> => Head(Append(q, e)) = e
  BY <1>1
<1>6. QED
  BY <1>2, <1>3, <1>4, <1>5 DEF e

\* All messages grow older together.
LEMMA AgedQueue ==
    ASSUME NEW K, NEW q \in Seq(Message(K)), InTime(q)
    PROVE  /\ Aged(q) \in Seq(Message(K)) /\ Len(Aged(q)) = Len(q)
           /\ \A i \in 1 .. Len(q) : /\ Aged(q)[i].msg = q[i].msg
                                     /\ Aged(q)[i].age = q[i].age + 1
           /\ (Aged(q) = <<>>) <=> (q = <<>>)
<1>1. ASSUME NEW i \in 1 .. Len(q)
      PROVE  [msg |-> q[i].msg, age |-> q[i].age + 1] \in Message(K)
  <2>1. q[i] \in Message(K)
    OBVIOUS
  <2>2. q[i].msg \in K /\ q[i].age \in 0 .. MaxDelay
    BY <2>1 DEF Message
  <2>3. q[i].age + 1 \in 0 .. MaxDelay
    BY <2>2, PeriodAssumption DEF InTime
  <2>4. QED
    BY <2>2, <2>3 DEF Message
<1>2. Aged(q) \in [1 .. Len(q) -> Message(K)] /\ Len(q) \in Nat
  BY <1>1 DEF Aged
<1>3. Aged(q) \in Seq(Message(K)) /\ Len(Aged(q)) = Len(q)
  BY <1>2
<1>4. \A i \in 1 .. Len(q) : /\ Aged(q)[i].msg = q[i].msg
                             /\ Aged(q)[i].age = q[i].age + 1
  BY DEF Aged
<1>5. (Aged(q) = <<>>) <=> (q = <<>>)
  BY <1>3
<1>6. QED
  BY <1>3, <1>4, <1>5

\* The first message of a queue that is not empty.
LEMMA HeadQueue ==
    ASSUME NEW K, NEW q \in Seq(Message(K)), q # <<>>
    PROVE  /\ Head(q) = q[1] /\ 1 \in 1 .. Len(q)
           /\ Head(q).msg \in K /\ Head(q).age \in 0 .. MaxDelay
           /\ Tail(q) \in Seq(Message(K)) /\ Len(Tail(q)) = Len(q) - 1
           /\ \A i \in 1 .. Len(q) - 1 : Tail(q)[i] = q[i + 1]
<1>1. Head(q) = q[1] /\ 1 \in 1 .. Len(q) /\ Head(q) \in Message(K)
  OBVIOUS
<1>2. Head(q).msg \in K /\ Head(q).age \in 0 .. MaxDelay
  BY <1>1 DEF Message
<1>3. /\ Tail(q) \in Seq(Message(K)) /\ Len(Tail(q)) = Len(q) - 1
      /\ \A i \in 1 .. Len(q) - 1 : Tail(q)[i] = q[i + 1]
  OBVIOUS
<1>4. QED
  BY <1>1, <1>2, <1>3

-----------------------------------------------------------------------------
(* The steps                                                               *)

OurKinds   == {"EstablishAck", "ShakeHand"}
PeerKinds  == {"Establish", "ShakeHand"}

\* The queues and numbers of TypeOK.
LEMMA Types ==
    ASSUME TypeOK
    PROVE  /\ toUs \in Seq(Message(OurKinds)) /\ toPeer \in Seq(Message(PeerKinds))
           /\ sinceRecv \in Nat /\ sinceSent \in Nat /\ sinceTick \in 0 .. TickPeriod
           /\ sinceRound \in 0 .. PeerPeriod /\ gone \in 0 .. MaxGone
           /\ TickPeriod \in Nat \ {0} /\ PeerPeriod \in Nat /\ MaxDelay \in Nat
           /\ RecvIdleTimeout \in Nat /\ EstablishTimeout \in Nat
BY PeriodAssumption DEF TypeOK, OurKinds, PeerKinds

LEMMA InitInv == Init => IInv
<1> SUFFICES ASSUME Init PROVE IInv
  OBVIOUS
<1> USE PeriodAssumption
<1>1. /\ Put(<<>>, "Establish") \in Seq(Message(PeerKinds))
      /\ Put(<<>>, "Establish") # <<>>
      /\ Head(Put(<<>>, "Establish")) = [msg |-> "Establish", age |-> 0]
  <2>1. <<>> \in Seq(Message(PeerKinds)) /\ "Establish" \in PeerKinds
    BY DEF PeerKinds
  <2>2. QED
    BY <2>1, PutQueue
<1>2. TypeOK
  <2>1. /\ toPeer \in Seq(Message({"Establish", "ShakeHand"}))
        /\ toUs \in Seq(Message({"EstablishAck", "ShakeHand"}))
    BY <1>1 DEF Init, PeerKinds
  <2>2. /\ peer \in {"gcs", "other"} /\ alive \in BOOLEAN /\ up \in BOOLEAN
        /\ established \in BOOLEAN /\ peerEstablished \in BOOLEAN /\ acking \in BOOLEAN
        /\ ~(established \/ acking)
    BY DEF Init
  <2>3. sinceRecv \in Nat /\ sinceSent \in Nat /\ sinceTick \in 0 .. TickPeriod
    BY DEF Init
  <2>4. sinceRound \in 0 .. PeerPeriod
    BY DEF Init
  <2>5. gone \in 0 .. MaxGone
    BY DEF Init, MaxGone
  <2>6. QED
    BY <2>1, <2>2, <2>3, <2>4, <2>5 DEF TypeOK
<1>3. AnswerUnderWay
  BY <1>1 DEF Init, AnswerUnderWay
<1>4. AckIsHonest /\ GcsSpeaks /\ NothingSinceGone /\ HealthyGcsStaysUp
  BY DEF Init, AckIsHonest, GcsSpeaks, NothingSinceGone, HealthyGcsStaysUp
<1>5. TimersInOrder /\ SilenceIsNoticed
  BY DEF Init, TimersInOrder, SilenceIsNoticed
<1>6. QED
  BY <1>2, <1>3, <1>4, <1>5 DEF IInv

\* An established connection to a GCS that works has heard it lately enough, and
\* before that the answer comes in time: onTick has no reason to give up.
LEMMA NoReasonToGiveUp ==
    ASSUME IInv, peer = "gcs", alive
    PROVE  ~OnTickGivesUp
<1> USE Types DEF IInv
<1>1. CASE established
  <2>1. CASE toUs = <<>>
    BY <1>1, <2>1, PeriodAssumption, SlackAssumption DEF GcsSpeaks, OnTickGivesUp
  <2>2. CASE toUs # <<>>
    <3>1. Head(toUs).age \in 0 .. MaxDelay
      BY <2>2, HeadQueue
    <3>2. sinceRecv <= Head(toUs).age + PeerPeriod
      BY <1>1, <2>2 DEF GcsSpeaks
    <3>3. sinceRecv <= RecvIdleTimeout
      BY <3>1, <3>2, SlackAssumption, SMTT(30)
    <3>4. QED
      BY <1>1, <3>3 DEF OnTickGivesUp
  <2>3. QED
    BY <2>1, <2>2
<1>2. CASE ~established
  <2>1. sinceSent <= 2 * MaxDelay
    <3>1. CASE toPeer # <<>> /\ sinceSent <= Head(toPeer).age
      <4>1. Head(toPeer).age \in 0 .. MaxDelay
        BY <3>1, HeadQueue
      <4>2. QED
        BY <3>1, <4>1, SMTT(30)
    <3>2. CASE sinceSent <= MaxDelay
      BY <3>2, SMTT(30)
    <3>3. ASSUME NEW i \in 1 .. Len(toUs), sinceSent <= MaxDelay + toUs[i].age
          PROVE  sinceSent <= 2 * MaxDelay
      <4>1. toUs[i] \in Message(OurKinds)
        BY <3>3, SMTT(30)
      <4>2. toUs[i].age \in 0 .. MaxDelay
        BY <4>1 DEF Message
      <4>3. QED
        BY <3>3, <4>2, SMTT(30)
    <3>4. QED
      BY <1>2, <3>1, <3>2, <3>3 DEF AnswerUnderWay
  <2>2. sinceSent <= EstablishTimeout
    BY <2>1, SlackAssumption, SMTT(30)
  <2>3. QED
    BY <1>2, <2>2 DEF OnTickGivesUp
<1>3. QED
  BY <1>1, <1>2

\* A tick that does not give up has found the timer that applies in order.
LEMMA TickChecks ==
    ASSUME TypeOK, ~OnTickGivesUp
    PROVE  /\ established => sinceRecv <= RecvIdleTimeout + 0
           /\ ~established => sinceSent <= EstablishTimeout + 0
<1>1. CASE established
  BY <1>1, Types DEF OnTickGivesUp
<1>2. CASE ~established
  BY <1>2, Types DEF OnTickGivesUp
<1>3. QED
  BY <1>1, <1>2

\* A tick leaves the timers in order or gives the connection up.
LEMMA TickInv ==
    ASSUME IInv, up, Tick
    PROVE  IInv'
<1> USE Types DEF IInv
<1>1. /\ sinceTick = TickPeriod /\ sinceTick' = 0 /\ up' = ~OnTickGivesUp
      /\ UNCHANGED <<peer, alive, established, peerEstablished, acking, sinceRound,
                     toUs, gone, sinceRecv>>
  BY DEF Tick, MaybeShake, peerVars
<1>2. CASE established /\ sinceSent >= ShakeEvery
  <2>1. sinceSent' = 0 /\ toPeer' = IF alive THEN Put(toPeer, "ShakeHand") ELSE toPeer
    BY <1>2 DEF Tick, MaybeShake
  <2>2. toPeer' \in Seq(Message(PeerKinds))
    <3>1. "ShakeHand" \in PeerKinds
      BY DEF PeerKinds
    <3>2. QED
      BY <2>1, <3>1, PutQueue
  <2>3. TypeOK'
    BY <1>1, <2>1, <2>2 DEF TypeOK, PeerKinds
  <2>4. AckIsHonest' /\ AnswerUnderWay' /\ GcsSpeaks' /\ NothingSinceGone'
    BY <1>1, <1>2 DEF AckIsHonest, AnswerUnderWay, GcsSpeaks, NothingSinceGone
  <2>5. QED
    <3>1. HealthyGcsStaysUp'
      BY <1>1, NoReasonToGiveUp DEF HealthyGcsStaysUp
    <3>2. TimersInOrder'
      BY <1>1, <1>2, TickChecks DEF TimersInOrder
    <3>3. SilenceIsNoticed'
      BY <1>1 DEF SilenceIsNoticed
    <3>4. QED
      BY <2>3, <2>4, <3>1, <3>2, <3>3
<1>3. CASE ~(established /\ sinceSent >= ShakeEvery)
  <2>1. UNCHANGED <<sinceSent, toPeer>>
    BY <1>3 DEF Tick, MaybeShake
  <2>2. TypeOK'
    BY <1>1, <2>1 DEF TypeOK
  <2>3. AckIsHonest' /\ AnswerUnderWay' /\ GcsSpeaks' /\ NothingSinceGone'
    BY <1>1, <2>1 DEF AckIsHonest, AnswerUnderWay, GcsSpeaks, NothingSinceGone
  <2>4. HealthyGcsStaysUp'
    BY <1>1, NoReasonToGiveUp DEF HealthyGcsStaysUp
  <2>5. TimersInOrder'
    BY <1>1, <2>1, TickChecks DEF TimersInOrder
  <2>6. SilenceIsNoticed'
    BY <1>1 DEF SilenceIsNoticed
  <2>7. QED
    BY <2>2, <2>3, <2>4, <2>5, <2>6
<1>4. QED
  BY <1>2, <1>3

\* What is received was sent, and the timers start over.
LEMMA PacketInv ==
    ASSUME IInv, up, OnPacket
    PROVE  IInv'
<1> USE Types DEF IInv
<1>1. /\ toUs # <<>> /\ toUs' = Tail(toUs) /\ sinceRecv' = 0
      /\ established' = (established \/ Head(toUs).msg = "EstablishAck")
      /\ UNCHANGED <<peer, alive, up, sinceSent, sinceTick, peerEstablished, acking,
                     sinceRound, toPeer, gone>>
  BY DEF OnPacket, peerVars
<1>2. /\ Head(toUs) = toUs[1] /\ toUs' \in Seq(Message(OurKinds))
      /\ Len(toUs') = Len(toUs) - 1
      /\ \A i \in 1 .. Len(toUs) - 1 : toUs'[i] = toUs[i + 1]
  BY <1>1, HeadQueue
<1>3. alive
  BY <1>1 DEF NothingSinceGone
<1>4. TypeOK'
  <2>1. established' \in BOOLEAN
    BY <1>1 DEF TypeOK
  <2>2. established' => peerEstablished
    BY <1>1, <1>2, HeadQueue DEF AckIsHonest, TypeOK
  <2>3. QED
    BY <1>1, <1>2, <2>1, <2>2 DEF TypeOK, OurKinds
<1>5. AckIsHonest'
  BY <1>1, <1>2 DEF AckIsHonest
<1>6. AnswerUnderWay'
  <2> SUFFICES ASSUME ~established' PROVE AnswerUnderWay'
    BY DEF AnswerUnderWay
  <2>1. ~established /\ toUs[1].msg # "EstablishAck"
    BY <1>1, <1>2
  <2>2. CASE toPeer # <<>> /\ Head(toPeer).msg = "Establish" /\ sinceSent <= Head(toPeer).age
    BY <1>1, <2>2 DEF AnswerUnderWay
  <2>3. CASE acking /\ sinceSent <= MaxDelay
    BY <1>1, <2>3 DEF AnswerUnderWay
  <2>4. ASSUME NEW i \in 1 .. Len(toUs), toUs[i].msg = "EstablishAck",
               sinceSent <= MaxDelay + toUs[i].age
        PROVE  AnswerUnderWay'
    <3>1. i # 1 /\ i - 1 \in 1 .. Len(toUs')
      BY <1>1, <1>2, <2>1, <2>4, SMTT(30)
    <3>2. toUs'[i - 1] = toUs[i]
      BY <1>1, <1>2, <2>4, <3>1
    <3>3. \E j \in 1 .. Len(toUs') :
             toUs'[j].msg = "EstablishAck" /\ sinceSent' <= MaxDelay + toUs'[j].age
      BY <1>1, <2>4, <3>1, <3>2
    <3>4. QED
      BY <3>3 DEF AnswerUnderWay
  <2>5. QED
    BY <1>3, <2>1, <2>2, <2>3, <2>4 DEF AnswerUnderWay
<1>7. GcsSpeaks'
  <2>1. CASE toUs' = <<>>
    BY <1>1, <2>1, SMTT(30) DEF GcsSpeaks
  <2>2. CASE toUs' # <<>>
    <3>1. Head(toUs').age \in 0 .. MaxDelay
      BY <1>2, <2>2, HeadQueue
    <3>2. QED
      BY <1>1, <2>2, <3>1, SMTT(30) DEF GcsSpeaks
  <2>3. QED
    BY <2>1, <2>2
<1>8. TimersInOrder'
  <2>1. CASE established'
    BY <1>1, <2>1, SMTT(30) DEF TimersInOrder
  <2>2. CASE ~established'
    BY <1>1, <2>2 DEF TimersInOrder
  <2>3. QED
    BY <2>1, <2>2
<1>9. NothingSinceGone' /\ HealthyGcsStaysUp' /\ SilenceIsNoticed'
  <2>1. gone = 0 /\ gone' = 0 /\ alive' /\ up'
    BY <1>1, <1>3 DEF NothingSinceGone
  <2>2. QED
    BY <1>1, <2>1, SMTT(30) DEF NothingSinceGone, HealthyGcsStaysUp, SilenceIsNoticed
<1>10. QED
  BY <1>4, <1>5, <1>6, <1>7, <1>8, <1>9

\* A new message of the peer, the acknowledgement or a ShakeHand, goes last.
LEMMA PeerSends ==
    ASSUME IInv, up, alive, NEW m \in OurKinds, toUs' = Put(toUs, m),
           m = "EstablishAck" => peerEstablished,
           peerEstablished' = peerEstablished, acking' \in BOOLEAN,
           acking' => peerEstablished,
           acking => acking' \/ m = "EstablishAck",
           sinceRound' \in 0 .. PeerPeriod,
           UNCHANGED <<peer, alive, clientVars, toPeer, gone>>
    PROVE  IInv'
<1>0. toUs \in Seq(Message(OurKinds)) /\ m \in OurKinds
  BY Types DEF IInv
<1>1. /\ toUs' \in Seq(Message(OurKinds)) /\ toUs' # <<>>
      /\ Len(toUs') = Len(toUs) + 1
      /\ \A i \in 1 .. Len(toUs) : toUs'[i] = toUs[i]
      /\ toUs'[Len(toUs) + 1] = [msg |-> m, age |-> 0]
      /\ toUs # <<>> => Head(toUs') = Head(toUs)
      /\ toUs = <<>> => Head(toUs') = [msg |-> m, age |-> 0]
  BY <1>0, PutQueue, SMTT(30)
<1> USE Types DEF IInv, clientVars
<1>2. TypeOK'
  BY <1>1 DEF TypeOK, OurKinds
<1>3. AckIsHonest'
  <2> SUFFICES ASSUME NEW i \in 1 .. Len(toUs'), toUs'[i].msg = "EstablishAck"
               PROVE  peerEstablished'
    BY DEF AckIsHonest
  <2>1. CASE i \in 1 .. Len(toUs)
    BY <1>1, <2>1 DEF AckIsHonest
  <2>2. CASE i = Len(toUs) + 1
    BY <1>1, <2>2
  <2>3. QED
    BY <1>1, <2>1, <2>2, SMTT(30)
<1>4. AnswerUnderWay'
  <2> SUFFICES ASSUME ~established PROVE AnswerUnderWay'
    BY DEF AnswerUnderWay
  <2>1. CASE toPeer # <<>> /\ Head(toPeer).msg = "Establish" /\ sinceSent <= Head(toPeer).age
    BY <2>1 DEF AnswerUnderWay
  <2>2. CASE acking /\ sinceSent <= MaxDelay
    <3>1. CASE acking'
      BY <2>2, <3>1 DEF AnswerUnderWay
    <3>2. CASE m = "EstablishAck"
      <4>1. Len(toUs) + 1 \in 1 .. Len(toUs') /\ toUs'[Len(toUs) + 1].msg = "EstablishAck"
        BY <1>1, <3>2
      <4>2. toUs'[Len(toUs) + 1].age = 0 /\ sinceSent' <= MaxDelay + 0
        BY <1>1, <2>2
      <4>3. \E i \in 1 .. Len(toUs') :
               toUs'[i].msg = "EstablishAck" /\ sinceSent' <= MaxDelay + toUs'[i].age
        BY <4>1, <4>2
      <4>4. QED
        BY <4>3 DEF AnswerUnderWay
    <3>3. QED
      BY <2>2, <3>1, <3>2
  <2>3. ASSUME NEW i \in 1 .. Len(toUs), toUs[i].msg = "EstablishAck",
               sinceSent <= MaxDelay + toUs[i].age
        PROVE  AnswerUnderWay'
    <3>1. i \in 1 .. Len(toUs') /\ toUs'[i] = toUs[i]
      BY <1>1, <2>3
    <3>2. QED
      BY <2>3, <3>1 DEF AnswerUnderWay
  <2>4. QED
    BY <2>1, <2>2, <2>3 DEF AnswerUnderWay
<1>5. GcsSpeaks'
  <2> SUFFICES ASSUME peer = "gcs", established
               PROVE  sinceRecv <= Head(toUs').age + PeerPeriod
    BY <1>1 DEF GcsSpeaks
  <2>1. CASE toUs = <<>>
    <3>1. sinceRecv <= sinceRound
      BY <2>1 DEF GcsSpeaks
    <3>2. Head(toUs').age = 0
      BY <1>1, <2>1
    <3>3. QED
      BY <3>1, <3>2, SMTT(30)
  <2>2. CASE toUs # <<>>
    BY <1>1, <2>2 DEF GcsSpeaks
  <2>3. QED
    BY <2>1, <2>2
<1>6. TimersInOrder' /\ HealthyGcsStaysUp' /\ SilenceIsNoticed'
  BY DEF TimersInOrder, HealthyGcsStaysUp, SilenceIsNoticed
<1>7. NothingSinceGone'
  BY DEF NothingSinceGone
<1>8. QED
  BY <1>2, <1>3, <1>4, <1>5, <1>6, <1>7

\* onEstablish: the Establish read is not older than MaxDelay.
LEMMA EstablishInv ==
    ASSUME IInv, up, OnEstablish
    PROVE  IInv'
<1> USE Types DEF IInv
<1>1. /\ alive /\ ~acking /\ toPeer # <<>> /\ toPeer' = Tail(toPeer)
      /\ peerEstablished' = TRUE /\ acking' = TRUE
      /\ UNCHANGED <<peer, alive, up, established, sinceRecv, sinceSent, sinceTick,
                     sinceRound, toUs, gone>>
  BY DEF OnEstablish, clientVars
<1>2. toPeer' \in Seq(Message(PeerKinds)) /\ Head(toPeer).age \in 0 .. MaxDelay
  BY <1>1, HeadQueue
<1>3. TypeOK'
  BY <1>1, <1>2 DEF TypeOK, PeerKinds
<1>4. AckIsHonest' /\ GcsSpeaks'
  BY <1>1 DEF AckIsHonest, GcsSpeaks
<1>5. AnswerUnderWay'
  <2> SUFFICES ASSUME ~established PROVE AnswerUnderWay'
    BY <1>1 DEF AnswerUnderWay
  <2>1. CASE sinceSent <= Head(toPeer).age
    <3>1. sinceSent' <= MaxDelay
      BY <1>1, <1>2, <2>1, SMTT(30)
    <3>2. QED
      BY <1>1, <3>1 DEF AnswerUnderWay
  <2>2. ASSUME NEW i \in 1 .. Len(toUs), toUs[i].msg = "EstablishAck",
               sinceSent <= MaxDelay + toUs[i].age
        PROVE  AnswerUnderWay'
    BY <1>1, <2>2 DEF AnswerUnderWay
  <2>3. QED
    BY <1>1, <2>1, <2>2 DEF AnswerUnderWay
<1>6. TimersInOrder' /\ HealthyGcsStaysUp' /\ SilenceIsNoticed' /\ NothingSinceGone'
  BY <1>1 DEF TimersInOrder, HealthyGcsStaysUp, SilenceIsNoticed, NothingSinceGone
<1>7. QED
  BY <1>3, <1>4, <1>5, <1>6

\* A ShakeHand changes nothing but the queue.
LEMMA ShakeHandInv ==
    ASSUME IInv, up, OnShakeHand
    PROVE  IInv'
<1> USE Types DEF IInv
<1>1. /\ alive /\ toPeer # <<>> /\ toPeer' = Tail(toPeer) /\ Head(toPeer).msg = "ShakeHand"
      /\ UNCHANGED <<peer, alive, up, established, sinceRecv, sinceSent, sinceTick,
                     peerEstablished, acking, sinceRound, toUs, gone>>
  BY DEF OnShakeHand, clientVars, peerVars
<1>2. toPeer' \in Seq(Message(PeerKinds))
  BY <1>1, HeadQueue
<1>3. TypeOK'
  BY <1>1, <1>2 DEF TypeOK, PeerKinds
<1>4. AnswerUnderWay'
  BY <1>1 DEF AnswerUnderWay
<1>5. /\ AckIsHonest' /\ GcsSpeaks' /\ TimersInOrder' /\ HealthyGcsStaysUp'
      /\ SilenceIsNoticed' /\ NothingSinceGone'
  BY <1>1 DEF AckIsHonest, GcsSpeaks, TimersInOrder, HealthyGcsStaysUp,
     SilenceIsNoticed, NothingSinceGone
<1>6. QED
  BY <1>3, <1>4, <1>5

LEMMA AckInv ==
    ASSUME IInv, up, SendAck
    PROVE  IInv'
<1>1. /\ alive /\ acking /\ toUs' = Put(toUs, "EstablishAck") /\ acking' = FALSE
      /\ UNCHANGED <<peer, alive, clientVars, peerEstablished, sinceRound, toPeer, gone>>
  BY DEF SendAck
<1>2. peerEstablished /\ sinceRound \in 0 .. PeerPeriod
  BY <1>1 DEF IInv, TypeOK
<1>3. "EstablishAck" \in OurKinds
  BY DEF OurKinds
<1>4. QED
  BY <1>1, <1>2, <1>3, PeerSends

\* A round of GCS.Loop.
LEMMA RoundInv ==
    ASSUME IInv, up, Ontick
    PROVE  IInv'
<1>1. /\ peer = "gcs" /\ alive /\ sinceRound' = 0
      /\ UNCHANGED <<peer, alive, clientVars, peerEstablished, acking, toPeer, gone>>
  BY DEF Ontick
<1>2. /\ acking \in BOOLEAN /\ (established \/ acking => peerEstablished)
      /\ sinceRound' \in 0 .. PeerPeriod
  BY <1>1, PeriodAssumption DEF IInv, TypeOK
<1>3. CASE peerEstablished
  <2>1. toUs' = Put(toUs, "ShakeHand") /\ "ShakeHand" \in OurKinds
    BY <1>3 DEF Ontick, OurKinds
  <2>2. QED
    BY <1>1, <1>2, <1>3, <2>1, PeerSends
<1>4. CASE ~peerEstablished
  <2>1. toUs' = toUs /\ ~established /\ ~established'
    BY <1>1, <1>2, <1>4 DEF Ontick, clientVars
  <2>2. TypeOK'
    BY <1>1, <1>2, <2>1 DEF IInv, TypeOK, clientVars
  <2>3. AnswerUnderWay' /\ GcsSpeaks' /\ AckIsHonest'
    BY <1>1, <2>1 DEF IInv, AnswerUnderWay, GcsSpeaks, AckIsHonest, clientVars
  <2>4. TimersInOrder' /\ HealthyGcsStaysUp' /\ SilenceIsNoticed' /\ NothingSinceGone'
    BY <1>1, <2>1 DEF IInv, TimersInOrder, HealthyGcsStaysUp, SilenceIsNoticed,
       NothingSinceGone, clientVars
  <2>5. QED
    BY <2>2, <2>3, <2>4 DEF IInv
<1>5. QED
  BY <1>3, <1>4

LEMMA VanishInv ==
    ASSUME IInv, up, Vanish
    PROVE  IInv'
<1> USE Types DEF IInv
<1>1. /\ alive /\ alive' = FALSE /\ acking' = FALSE /\ toPeer' = <<>> /\ toUs' = <<>>
      /\ UNCHANGED <<peer, up, established, sinceRecv, sinceSent, sinceTick,
                     peerEstablished, sinceRound, gone>>
  BY DEF Vanish, clientVars
<1>2. gone = 0
  BY <1>1 DEF NothingSinceGone
<1>3. TypeOK'
  <2>1. /\ toPeer' \in Seq(Message({"Establish", "ShakeHand"}))
        /\ toUs' \in Seq(Message({"EstablishAck", "ShakeHand"}))
    BY <1>1
  <2>2. established' \/ acking' => peerEstablished'
    BY <1>1 DEF TypeOK
  <2>3. QED
    BY <1>1, <2>1, <2>2 DEF TypeOK
<1>4. AckIsHonest' /\ AnswerUnderWay' /\ GcsSpeaks' /\ HealthyGcsStaysUp'
  BY <1>1 DEF AckIsHonest, AnswerUnderWay, GcsSpeaks, HealthyGcsStaysUp
<1>5. TimersInOrder' /\ SilenceIsNoticed'
  BY <1>1 DEF TimersInOrder, SilenceIsNoticed
<1>6. NothingSinceGone'
  BY <1>1, <1>2 DEF NothingSinceGone
<1>7. QED
  BY <1>3, <1>4, <1>5, <1>6

\* Everything on its way and every timer grows older by the same time.
LEMMA PassInv ==
    ASSUME IInv, up, Pass
    PROVE  IInv'
<1> USE Types DEF IInv
<1>1. /\ InTime(toPeer) /\ InTime(toUs) /\ ~acking /\ sinceTick < TickPeriod
      /\ toPeer' = Aged(toPeer) /\ toUs' = Aged(toUs)
      /\ sinceTick' = sinceTick + 1 /\ sinceRecv' = sinceRecv + 1
      /\ sinceSent' = sinceSent + 1
      /\ gone' = IF alive \/ gone = MaxGone THEN gone ELSE gone + 1
      /\ UNCHANGED <<peer, alive, up, established, peerEstablished, acking>>
  BY DEF Pass
<1>2. /\ sinceRound' \in 0 .. PeerPeriod
      /\ peer = "gcs" /\ alive => sinceRound' = sinceRound + 1
  BY SMTT(30) DEF Pass, Rounds
<1>3. gone' \in 0 .. MaxGone /\ gone' <= gone + 1 /\ (alive => gone' = gone)
  <2>1. MaxGone \in Nat /\ gone \in 0 .. MaxGone
    BY PeriodAssumption, Types DEF MaxGone, IInv
  <2>2. gone' = gone \/ (gone # MaxGone /\ gone' = gone + 1)
    BY <1>1
  <2>3. gone' \in 0 .. MaxGone /\ gone' <= gone + 1
    BY <2>1, <2>2, SMTT(30)
  <2>4. QED
    BY <1>1, <2>3
<1>4. /\ toUs' \in Seq(Message(OurKinds)) /\ Len(toUs') = Len(toUs)
      /\ \A i \in 1 .. Len(toUs) : /\ toUs'[i].msg = toUs[i].msg
                                   /\ toUs'[i].age = toUs[i].age + 1
      /\ (toUs' = <<>>) <=> (toUs = <<>>)
  BY <1>1, AgedQueue
<1>5. /\ toPeer' \in Seq(Message(PeerKinds)) /\ Len(toPeer') = Len(toPeer)
      /\ \A i \in 1 .. Len(toPeer) : /\ toPeer'[i].msg = toPeer[i].msg
                                     /\ toPeer'[i].age = toPeer[i].age + 1
      /\ (toPeer' = <<>>) <=> (toPeer = <<>>)
  BY <1>1, AgedQueue
<1>6. TypeOK'
  BY <1>1, <1>2, <1>3, <1>4, <1>5 DEF TypeOK, OurKinds, PeerKinds
<1>7. AckIsHonest'
  BY <1>1, <1>4 DEF AckIsHonest
<1>8. AnswerUnderWay'
  <2> SUFFICES ASSUME alive, ~established PROVE AnswerUnderWay'
    BY <1>1 DEF AnswerUnderWay
  <2>1. CASE toPeer # <<>> /\ Head(toPeer).msg = "Establish" /\ sinceSent <= Head(toPeer).age
    <3>1. /\ Head(toPeer) = toPeer[1] /\ 1 \in 1 .. Len(toPeer)
          /\ Head(toPeer).age \in 0 .. MaxDelay
      BY <2>1, HeadQueue
    <3>2. toPeer' # <<>> /\ Head(toPeer') = toPeer'[1]
      BY <1>5, <2>1, HeadQueue
    <3>3. Head(toPeer').msg = "Establish" /\ Head(toPeer').age = Head(toPeer).age + 1
      BY <1>5, <2>1, <3>1, <3>2
    <3>4. sinceSent' <= Head(toPeer').age
      BY <1>1, <2>1, <3>1, <3>3, SMTT(30)
    <3>5. QED
      BY <3>2, <3>3, <3>4 DEF AnswerUnderWay
  <2>2. ASSUME NEW i \in 1 .. Len(toUs), toUs[i].msg = "EstablishAck",
               sinceSent <= MaxDelay + toUs[i].age
        PROVE  AnswerUnderWay'
    <3>1. toUs[i] \in Message(OurKinds)
      BY <2>2, SMTT(30)
    <3>2. toUs[i].age \in 0 .. MaxDelay
      BY <3>1 DEF Message
    <3>3. /\ i \in 1 .. Len(toUs') /\ toUs'[i].msg = "EstablishAck"
          /\ toUs'[i].age = toUs[i].age + 1 /\ sinceSent' = sinceSent + 1
      BY <1>1, <1>4, <2>2
    <3>4. sinceSent' <= MaxDelay + toUs'[i].age
      BY <2>2, <3>2, <3>3, SMTT(30)
    <3>5. QED
      BY <3>3, <3>4 DEF AnswerUnderWay
  <2>3. QED
    BY <1>1, <2>1, <2>2 DEF AnswerUnderWay
<1>9. GcsSpeaks'
  <2> SUFFICES ASSUME peer = "gcs", alive, established PROVE GcsSpeaks'
    BY <1>1 DEF GcsSpeaks
  <2>1. CASE toUs = <<>>
    BY <1>1, <1>2, <1>4, <2>1, SMTT(30) DEF GcsSpeaks
  <2>2. CASE toUs # <<>>
    <3>1. Head(toUs) = toUs[1] /\ 1 \in 1 .. Len(toUs) /\ Head(toUs).age \in 0 .. MaxDelay
      BY <2>2, HeadQueue
    <3>2. toUs' # <<>> /\ Head(toUs') = toUs'[1]
      BY <1>4, <2>2, HeadQueue
    <3>3. Head(toUs').age = Head(toUs).age + 1
      BY <1>4, <3>1, <3>2
    <3>4. sinceRecv <= Head(toUs).age + PeerPeriod
      BY <2>2 DEF GcsSpeaks
    <3>5. sinceRecv' <= Head(toUs').age + PeerPeriod
      <4> DEFINE old == Head(toUs).age
                 new == Head(toUs').age
      <4>1. sinceRecv' = sinceRecv + 1 /\ new = old + 1 /\ old \in Nat
            /\ sinceRecv <= old + PeerPeriod
        BY <1>1, <3>1, <3>3, <3>4, SMTT(30)
      <4> HIDE DEF old, new
      <4>2. sinceRecv' <= new + PeerPeriod
        BY <4>1, SMTT(30)
      <4>3. QED
        BY <4>2 DEF new
    <3>6. QED
      BY <3>2, <3>5 DEF GcsSpeaks
  <2>3. QED
    BY <2>1, <2>2
<1>10. TimersInOrder'
  <2>1. CASE established
    BY <1>1, <2>1, SMTT(30) DEF TimersInOrder
  <2>2. CASE ~established
    BY <1>1, <2>2, SMTT(30) DEF TimersInOrder
  <2>3. QED
    BY <2>1, <2>2
<1>11. NothingSinceGone'
  <2>1. CASE alive
    BY <1>1, <1>3, <2>1 DEF NothingSinceGone
  <2>2. CASE ~alive
    BY <1>1, <1>3, <1>4, <2>2, SMTT(30) DEF NothingSinceGone
  <2>3. QED
    BY <2>1, <2>2
<1>12. HealthyGcsStaysUp'
  BY <1>1 DEF HealthyGcsStaysUp
<1>13. SilenceIsNoticed'
  <2>0. sinceTick' \in 0 .. TickPeriod /\ gone' \in Nat /\ sinceRecv' \in Nat /\ sinceSent' \in Nat
    BY <1>1, <1>3, SMTT(30)
  <2>1. CASE alive
    BY <1>1, <1>3, <2>1, PeriodAssumption DEF NothingSinceGone, SilenceIsNoticed
  <2>2. CASE ~alive /\ established
    <3>1. gone' <= sinceRecv' /\ sinceRecv' <= RecvIdleTimeout + sinceTick'
      BY <1>1, <1>10, <1>11, <2>2 DEF NothingSinceGone, TimersInOrder
    <3>2. gone' <= TickPeriod + RecvIdleTimeout
      BY <2>0, <3>1, SMTT(30)
    <3>3. QED
      BY <1>1, <2>2, <3>2 DEF SilenceIsNoticed
  <2>3. CASE ~alive /\ ~established
    <3>1. gone' <= sinceSent' /\ sinceSent' <= EstablishTimeout + sinceTick'
      BY <1>1, <1>10, <1>11, <2>3 DEF NothingSinceGone, TimersInOrder
    <3>2. gone' <= TickPeriod + EstablishTimeout
      BY <2>0, <3>1, SMTT(30)
    <3>3. QED
      BY <1>1, <2>3, <3>2 DEF SilenceIsNoticed
  <2>4. QED
    BY <2>1, <2>2, <2>3
<1>14. QED
  BY <1>6, <1>7, <1>8, <1>9, <1>10, <1>11, <1>12, <1>13

LEMMA NextInv == IInv /\ [Next]_vars => IInv'
<1> SUFFICES ASSUME IInv, [Next]_vars PROVE IInv'
  OBVIOUS
<1>1. CASE UNCHANGED vars
  BY <1>1 DEF vars, clientVars, peerVars, IInv, TypeOK, AckIsHonest, AnswerUnderWay,
     GcsSpeaks, TimersInOrder, NothingSinceGone, HealthyGcsStaysUp, SilenceIsNoticed
<1>2. CASE Next
  BY <1>2, TickInv, PacketInv, EstablishInv, AckInv, ShakeHandInv, RoundInv, VanishInv,
     PassInv DEF Next, Peer
<1>3. QED
  BY <1>1, <1>2

LEMMA Invariant == Spec => []IInv
BY InitInv, NextInv, PTL DEF Spec

\* Every timer, queue and flag keeps its type, and only an established peer
\* acknowledges.
THEOREM TypeCorrect == Spec => []TypeOK
<1>1. IInv => TypeOK
  BY DEF IInv
<1>2. QED
  BY <1>1, Invariant, PTL

\* A connection to a GCS that works is never given up.
THEOREM HealthyIsKept == Spec => []HealthyGcsStaysUp
<1>1. IInv => HealthyGcsStaysUp
  BY DEF IInv
<1>2. QED
  BY <1>1, Invariant, PTL

\* A peer that is gone is given up at the first tick after the timeout.
THEOREM SilenceNoticed == Spec => []SilenceIsNoticed
<1>1. IInv => SilenceIsNoticed
  BY DEF IInv
<1>2. QED
  BY <1>1, Invariant, PTL

=============================================================================
