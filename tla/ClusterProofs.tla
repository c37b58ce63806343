----------------------------- MODULE ClusterProofs -----------------------------
(***************************************************************************)
(* Proofs about Cluster for any nodes, links and programs and any size of  *)
(* the pool: its types, that both ends of a connection agree, and that     *)
(* nodes know their peers.  And, from Backoff, how long a redial waits.    *)
(***************************************************************************)
EXTENDS Cluster, Backoff, FiniteSetTheorems, SequenceTheorems, TLAPS

-----------------------------------------------------------------------------
(* How long a redial waits                                                 *)

\* Rounding takes off less than a second.
LEMMA Floors ==
    ASSUME NEW d \in Nat
    PROVE  /\ FloorToSecond(d) \in Nat
           /\ FloorToSecond(d) <= d
           /\ d < FloorToSecond(d) + Second
BY DEF FloorToSecond, Second

LEMMA FloorsGrow ==
    ASSUME NEW d \in Nat, NEW e \in Nat, d <= e
    PROVE  FloorToSecond(d) <= FloorToSecond(e)
BY DEF FloorToSecond, Second

\* A dial is repeated not later than the backoff says, and less than a second
\* earlier: the two roundings together do not take off more than one does.
THEOREM WaitBounds ==
    ASSUME NEW failure \in Nat, NEW spent \in 0 .. GetBackOff(failure)
    PROVE  /\ Wait(failure, spent) + spent <= GetBackOff(failure)
           /\ GetBackOff(failure) < Wait(failure, spent) + spent + Second
<1>1. GetBackOff(failure) \in Nat
  BY Floors DEF GetBackOff
<1>2. GetBackOff(failure) - spent \in Nat
  BY <1>1
<1>3. QED
  BY <1>1, <1>2, Floors DEF Wait, Second

\* It does not wait less after more failures.
THEOREM BackOffGrows ==
    ASSUME NEW f \in Nat, NEW g \in Nat, f <= g
    PROVE  GetBackOff(f) <= GetBackOff(g)
<1>1. CASE g < 20
  BY <1>1 DEF GetBackOff, FloorToSecond, Second
<1>2. CASE f >= 20
  BY <1>2, FloorsGrow DEF GetBackOff
<1>3. CASE f < 20 /\ g >= 20
  <2>1. GetBackOff(f) <= 1000
    BY <1>3 DEF GetBackOff, FloorToSecond, Second
  <2>2. GetBackOff(g) >= 1000
    BY <1>3 DEF GetBackOff, FloorToSecond, Second
  <2>3. GetBackOff(f) \in Nat /\ GetBackOff(g) \in Nat
    BY Floors DEF GetBackOff
  <2>4. QED
    BY <2>1, <2>2, <2>3
<1>4. QED
  BY <1>1, <1>2, <1>3

\* From 40 failures on a whole second is lost: some time has passed when the
\* rest of the backoff, a number of seconds, is rounded again.
THEOREM SecondLost ==
    ASSUME NEW failure \in Nat, failure >= 40, NEW spent \in 1 .. Second
    PROVE  Wait(failure, spent) = GetBackOff(failure) - Second
<1> DEFINE q == (50 * failure) \div Second
<1>1. GetBackOff(failure) = q * Second /\ q \in Nat /\ q >= 2
  BY DEF GetBackOff, FloorToSecond, Second
<1> HIDE DEF q
<1>2. (q * 1000 - spent) \div 1000 = q - 1 /\ q * 1000 - spent >= 1000
  BY <1>1 DEF Second
<1>3. QED
  BY <1>1, <1>2 DEF Wait, FloorToSecond, Second

-----------------------------------------------------------------------------
(* Types                                                                   *)

\* What bounds the number of dials: each but the first follows a cut, and
\* nothing is submitted after the program's context is cancelled.
Budget ==
    /\ IsFiniteSet(pool)
    /\ cancelled => done = Len(program) /\ toSubmit = <<>>
    /\ \A c \in cut : c.nr <= dials[c.link]
    /\ \A l \in Links :
          /\ dials[l] <= cuts + 1
          /\ up[l] => dials[l] # 0
          /\ (~cancelled \/ <<"dial", l>> \in pool) /\ (~up[l] \/ Current(l) \in cut)
                 => dials[l] <= cuts

Types == TypeOK /\ Budget

LEMMA ShortSeqs ==
    ASSUME NEW S, NEW a \in S, NEW b \in S, NEW c \in S
    PROVE  <<a>> \in Seq(S) /\ <<a, b, c>> \in Seq(S)
OBVIOUS

\* What a call submits are jobs.
LEMMA StartSubmitsJobs ==
    ASSUME NEW n \in Nodes
    PROVE  Start(n) \in Seq(Jobs)
<1> DEFINE a == <<"serve", n>>
           b == <<"idle", n>>
           c == <<"report", n>>
<1>1. a \in Jobs /\ b \in Jobs /\ c \in Jobs
  BY DEF Jobs
<1>2. Start(n) = <<a>> \/ Start(n) = <<a, b, c>>
  BY DEF Nodes, Start, SchedulerStart, WorkerStart, GcsStart
<1> HIDE DEF a, b, c
<1>3. <<a>> \in Seq(Jobs) /\ <<a, b, c>> \in Seq(Jobs)
  BY <1>1, ShortSeqs
<1>4. QED
  BY <1>2, <1>3

LEMMA ConnectSubmitsJobs ==
    ASSUME NEW l \in Links
    PROVE  AddConnection(l) \in Seq(Jobs)
<1> DEFINE a == <<"dial", l>>
<1>1. a \in Jobs
  BY DEF Jobs
<1>2. AddConnection(l) = <<a>>
  BY DEF AddConnection
<1> HIDE DEF a
<1>3. <<a>> \in Seq(Jobs)
  BY <1>1
<1>4. QED
  BY <1>2, <1>3

LEMMA InitTypes == Init => Types
<1> SUFFICES ASSUME Init PROVE Types
  OBVIOUS
<1>1. IsFiniteSet(pool) /\ Cardinality(pool) = 0
  BY FS_EmptySet DEF Init, InitNodes
<1>2. MainOK
  <2>1. program \in Seq(Calls) /\ Len(program) \in Nat
    BY ClusterAssumption DEF Init, InitNodes
  <2>2. toSubmit \in Seq(Jobs)
    BY DEF Init, InitNodes
  <2>3. pool \subseteq Jobs /\ Cardinality(pool) <= PoolSize
    BY <1>1, ClusterAssumption DEF Init, InitNodes
  <2>4. done \in 0 .. Len(program) /\ badListens \in 0 .. MaxBadListens
    BY <2>1, ClusterAssumption DEF Init, InitNodes
  <2>5. QED
    BY <2>2, <2>3, <2>4 DEF Init, InitNodes, MainOK
<1>3. ClientsOK
  BY ClusterAssumption DEF Init, InitManagers, InitConnections, ClientsOK
<1>4. NetOK /\ ServersOK
  BY ClusterAssumption DEF Init, InitManagers, InitConnections, NetOK, ServersOK
<1>5. Budget
  BY <1>1, ClusterAssumption DEF Init, InitNodes, InitConnections, Budget
<1>6. QED
  BY <1>2, <1>3, <1>4, <1>5 DEF Types, TypeOK

LEMMA NextMainOK == Types /\ [Next]_vars => MainOK' /\ IsFiniteSet(pool)'
<1> SUFFICES ASSUME Types, [Next]_vars PROVE MainOK' /\ IsFiniteSet(pool)'
  OBVIOUS
<1> USE DEF Types, TypeOK, MainOK, Budget
<1>1. program \in Seq(Calls) /\ Len(program) \in Nat /\ PoolSize \in Nat
  BY ClusterAssumption
<1>2. Idle => NextCall \in Calls /\ done + 1 \in 0 .. Len(program)
  BY <1>1 DEF Idle, NextCall
<1>3. ASSUME NEW job \in pool, pool' = pool \ {job}
      PROVE  IsFiniteSet(pool') /\ Cardinality(pool') <= PoolSize
  <2>1. IsFiniteSet(pool') /\ Cardinality(pool') = Cardinality(pool) - 1
    BY <1>3, FS_RemoveElement
  <2>2. Cardinality(pool) \in Nat
    BY FS_CardinalityType
  <2>3. QED
    BY <1>1, <2>1, <2>2
<1>4. CASE CallStart
  <2>1. NextCall.start \in Nodes
    BY <1>2, <1>4 DEF CallStart, Calls
  <2>2. toSubmit' \in Seq(Jobs)
    BY <1>4, <2>1, StartSubmitsJobs DEF CallStart
  <2>3. QED
    BY <1>2, <1>4, <2>1, <2>2 DEF CallStart
<1>5. CASE CallConnect
  <2>1. NextCall.connect \in Links
    BY <1>2, <1>5 DEF CallConnect, Calls
  <2>2. toSubmit' \in Seq(Jobs)
    BY <1>5, <2>1, ConnectSubmitsJobs DEF CallConnect
  <2>3. QED
    BY <1>2, <1>5, <2>2 DEF CallConnect
<1>6. CASE Submit
  <2>1. Head(toSubmit) \in Jobs /\ toSubmit' \in Seq(Jobs)
    BY <1>6, HeadTailProperties DEF Submit
  <2>2. IsFiniteSet(pool') /\ Cardinality(pool') <= PoolSize
    <3>1. Cardinality(pool) \in Nat /\ Cardinality(pool) < PoolSize
      BY <1>6, FS_CardinalityType DEF Submit
    <3>2. pool' = pool \cup {Head(toSubmit)}
      BY <1>6 DEF Submit
    <3>3. IsFiniteSet(pool') /\ Cardinality(pool') \in {Cardinality(pool),
          Cardinality(pool) + 1}
      BY <3>2, FS_AddElement
    <3>4. QED
      BY <1>1, <3>1, <3>3
  <2>3. QED
    BY <1>6, <2>1, <2>2 DEF Submit
<1>7. CASE Cancel
  BY <1>7 DEF Cancel
<1>8. ASSUME NEW n \in Nodes, Serve(n) PROVE MainOK' /\ IsFiniteSet(pool)'
  BY <1>8 DEF Serve
<1>9. ASSUME NEW n \in Nodes, ListenFails(n) PROVE MainOK' /\ IsFiniteSet(pool)'
  <2>1. badListens' \in 0 .. MaxBadListens
    BY <1>9, ClusterAssumption DEF ListenFails
  <2>2. IsFiniteSet(pool') /\ Cardinality(pool') <= PoolSize
    BY <1>3, <1>9 DEF ListenFails
  <2>3. QED
    BY <1>9, <2>1, <2>2 DEF ListenFails
<1>10. ASSUME NEW n \in Nodes, ReportLoopEnds(n) PROVE MainOK' /\ IsFiniteSet(pool)'
  BY <1>3, <1>10 DEF ReportLoopEnds
<1>11. ASSUME NEW l \in Links, LoopEnds(l) PROVE MainOK' /\ IsFiniteSet(pool)'
  BY <1>3, <1>11 DEF LoopEnds
<1>12. CASE UNCHANGED mainVars
  BY <1>12 DEF mainVars
<1>13. \/ UNCHANGED mainVars \/ CallStart \/ CallConnect \/ Submit \/ Cancel
       \/ \E n \in Nodes : Serve(n) \/ ListenFails(n) \/ ReportLoopEnds(n)
       \/ \E l \in Links : LoopEnds(l)
  BY DEF Next, Progress, Main, ServerJobs, EventLoop, Client, Dial, DialWithTimeout,
     SendEstablish, LeaveInner, OnAck, NotifyEstablish, HandlePacket,
     WorkerHandlePacket, GcsHandlePacket, SchedulerOnOpen, WorkerOnOpen, GcsOnOpen,
     Registers, SchedulerOnClose, WorkerOnClose, GcsOnClose, OnClose,
     SchedulerOnEstablish, WorkerOnEstablish, GcsOnEstablish, OnTraffic, SetEstablished, Cut, vars
<1>14. QED
  BY <1>4, <1>5, <1>6, <1>7, <1>8, <1>9, <1>10, <1>11, <1>12, <1>13

\* What an action that is not one of a connection's does to connections:
\* nothing.  And what is cancelled stays cancelled, and gets no more jobs.
Quiet ==
    /\ UNCHANGED <<clientVars, peerVars, netVars, serverVars>>
    /\ cancelled => cancelled' /\ pool' \subseteq pool
    /\ cancelled' => done' = Len(program') /\ toSubmit' = <<>>

LEMMA MainIsQuiet ==
    ASSUME Types,
           \/ Main \/ Cancel \/ UNCHANGED vars
           \/ \E n \in Nodes : ServerJobs(n) \/ ListenFails(n)
    PROVE  Quiet
<1> USE DEF Quiet
<1>1. CASE UNCHANGED vars
  BY <1>1 DEF vars, mainVars, Types, Budget
<1>2. CASE CallStart \/ CallConnect
  <2>1. ~cancelled /\ ~cancelled'
    BY <1>2 DEF CallStart, CallConnect, Idle
  <2>2. UNCHANGED <<clientVars, peerVars, netVars, serverVars>>
    BY <1>2 DEF CallStart, CallConnect
  <2>3. QED
    BY <2>1, <2>2
<1>3. CASE Submit
  BY <1>3 DEF Submit, Types, Budget
<1>4. CASE Cancel
  BY <1>4 DEF Cancel
<1>5. ASSUME NEW n \in Nodes, Serve(n) PROVE Quiet
  BY <1>5 DEF Serve, Types, Budget
<1>6. ASSUME NEW n \in Nodes, ListenFails(n) PROVE Quiet
  <2>1. UNCHANGED <<clientVars, peerVars, netVars, serverVars, cancelled, program, done, toSubmit>>
    BY <1>6 DEF ListenFails
  <2>2. pool' \subseteq pool
    BY <1>6 DEF ListenFails
  <2>3. QED
    BY <2>1, <2>2 DEF Types, Budget
<1>7. ASSUME NEW n \in Nodes, ReportLoopEnds(n) PROVE Quiet
  BY <1>7 DEF ReportLoopEnds, Types, Budget
<1>8. QED
  BY <1>1, <1>2, <1>3, <1>4, <1>5, <1>6, <1>7 DEF Main, ServerJobs

LEMMA Steps ==
    ASSUME Types, [Next]_vars
    PROVE  \/ Quiet
           \/ \E l \in Links : Dial(l) \/ LeaveInner(l) \/ LoopEnds(l) \/ OnAck(l) \/ Cut(l)
           \/ \E c \in incoming : SchedulerOnOpen(c) \/ WorkerOnOpen(c) \/ GcsOnOpen(c)
           \/ \E c \in conns : OnClose(c)
           \/ \E r \in requests :
                 SchedulerOnEstablish(r) \/ WorkerOnEstablish(r) \/ GcsOnEstablish(r)
BY MainIsQuiet DEF Next, Progress, Client, EventLoop, SchedulerOnClose, WorkerOnClose,
   GcsOnClose

LEMMA CurrentIsConn ==
    ASSUME Types, NEW l \in Links, dials[l] # 0
    PROVE  Current(l) \in Conns
BY ClusterAssumption DEF Types, TypeOK, ClientsOK, Current, Conns

LEMMA QuietTypes ==
    ASSUME Types, MainOK', IsFiniteSet(pool)', Quiet
    PROVE  Types'
<1>1. ClientsOK' /\ NetOK' /\ ServersOK'
  BY DEF Types, TypeOK, Quiet, clientVars, peerVars, netVars, serverVars, workerVars,
     ClientsOK, NetOK, ServersOK
<1>2. Budget'
  BY DEF Types, Budget, Quiet, clientVars, netVars, Current
<1>3. QED
  BY <1>1, <1>2 DEF Types, TypeOK

LEMMA ServerTypes ==
    ASSUME Types, MainOK', IsFiniteSet(pool)', UNCHANGED <<mainVars, clientVars, peerVars,
          cut, cuts>>,
           NetOK', ServersOK'
    PROVE  Types'
<1>1. ClientsOK'
  BY DEF Types, TypeOK, clientVars, peerVars, ClientsOK
<1>2. Budget'
  BY DEF Types, Budget, clientVars, mainVars, Current
<1>3. QED
  BY <1>1, <1>2 DEF Types, TypeOK

LEMMA OnTrafficTypes ==
    ASSUME Types, NEW r \in requests, NEW mode \in Modes, OnTraffic(r, mode)
    PROVE  /\ NetOK'
           /\ conns' \subseteq Conns /\ marked' \subseteq Conns /\ connAddrs' \subseteq Conns
<1> USE DEF Types, TypeOK, NetOK, ServersOK
<1>1. r.conn \in Conns /\ [conn |-> r.conn, mode |-> mode] \in EstablishResponse
  BY DEF EstablishReq, EstablishResponse
<1>2. acks' \subseteq EstablishResponse
  BY <1>1 DEF OnTraffic, SetEstablished, Send
<1>3. QED
  BY <1>1, <1>2 DEF OnTraffic, SetEstablished

\* The loop of a connection.
LEMMA DialTypes ==
    ASSUME Types, MainOK', IsFiniteSet(pool)', NEW l \in Links, Dial(l)
    PROVE  Types'
<1> USE DEF Types, TypeOK
<1>1. dials[l] \in Nat /\ dials[l] <= cuts /\ cuts \in 0 .. MaxCuts /\ MaxCuts \in Nat
  BY ClusterAssumption DEF Dial, DialWithTimeout, SendEstablish, ClientsOK, NetOK, Budget
<1>2. dials' = [dials EXCEPT ![l] = @ + 1] /\ dials[l] + 1 \in 1 .. MaxCuts + 1
  BY <1>1 DEF Dial, DialWithTimeout, SendEstablish
<1>3. dials' \in [Links -> 0 .. MaxCuts + 1] /\ dials'[l] = dials[l] + 1
  BY <1>2 DEF ClientsOK
<1>4. Current(l)' \in Conns /\ Current(l)' = [link |-> l, nr |-> dials'[l]]
  BY <1>2, <1>3 DEF Current, Conns
<1>5. GetMode(l.from) \in Modes
  BY ClusterAssumption DEF Link, Nodes, GetMode, Modes
<1>6. ClientsOK'
  BY <1>3 DEF ClientsOK, Dial, DialWithTimeout, SendEstablish, peerVars
<1>7. NetOK'
  <2>1. [conn |-> Current(l)', mode |-> GetMode(l.from)] \in EstablishReq
    BY <1>4, <1>5 DEF EstablishReq, EstablishResponse
  <2>2. QED
    BY <2>1, <1>4 DEF NetOK, Dial, DialWithTimeout, SendEstablish
<1>8. ServersOK'
  BY DEF ServersOK, Dial, DialWithTimeout, SendEstablish, serverVars, workerVars
<1>9. Budget'
  <2>1. \A c \in cut : c \in Conns /\ c.nr <= dials[c.link]
    BY DEF Budget, NetOK
  <2>2. Current(l)' \notin cut
    BY <2>1, <1>1, <1>3, <1>4
  <2>3. \A k \in Links : k # l => dials'[k] = dials[k] /\ up'[k] = up[k]
    BY <1>2 DEF Dial, DialWithTimeout, SendEstablish, ClientsOK
  <2>4. up'[l] = TRUE /\ UNCHANGED <<cut, cuts, mainVars>>
    BY DEF Dial, DialWithTimeout, SendEstablish, ClientsOK
  <2>5. \A c \in cut' : c.nr <= dials'[c.link]
    <3>1. TAKE c \in cut'
    <3>2. c \in Conns /\ c.nr <= dials[c.link]
      BY <2>1, <2>4
    <3>3. c.link \in Links /\ c.nr \in Nat
      BY <3>2, <1>1 DEF Conns
    <3>4. QED
      BY <3>2, <3>3, <1>1, <1>3, <2>3
  <2>6. ASSUME NEW k \in Links
        PROVE  /\ dials'[k] <= cuts' + 1
               /\ up'[k] => dials'[k] # 0
               /\ (~cancelled' \/ <<"dial", k>> \in pool') /\ (~up'[k] \/ Current(k)' \in cut')
                     => dials'[k] <= cuts'
    <3>1. CASE k = l
      BY <3>1, <1>1, <1>3, <2>2, <2>4
    <3>2. CASE k # l
      BY <3>2, <2>3, <2>4 DEF Budget, mainVars, Current
    <3>3. QED
      BY <3>1, <3>2
  <2>7. cancelled' => done' = Len(program') /\ toSubmit' = <<>>
    BY <2>4 DEF Budget, mainVars
  <2>8. QED
    BY <2>5, <2>6, <2>7 DEF Budget
<1>10. QED
  BY <1>6, <1>7, <1>8, <1>9

LEMMA ClosesTypes ==
    ASSUME Types, MainOK', IsFiniteSet(pool)', NEW l \in Links, Closes(l),
           UNCHANGED <<program, done, toSubmit, cancelled, dials, peerVars, incoming,
                       requests, cuts, serverVars>>,
           \/ pool' = pool /\ ~cancelled /\ Current(l) \in cut
           \/ pool' = pool \ {<<"dial", l>>} /\ cancelled
    PROVE  Types'
<1>1. ClientsOK'
  BY DEF Types, TypeOK, ClientsOK, Closes, peerVars
<1>2. up[l] => Current(l) \in Conns
  BY CurrentIsConn DEF Types, Budget
<1>3. NetOK'
  BY <1>2 DEF Types, TypeOK, NetOK, Closes
<1>4. ServersOK'
  BY DEF Types, TypeOK, ServersOK, serverVars, workerVars
<1>5. Budget'
  <2>1. \A c \in cut' : c.nr <= dials'[c.link]
    <3>1. TAKE c \in cut'
    <3>2. CASE c \in cut
      BY <3>2 DEF Types, Budget
    <3>3. CASE c = Current(l)
      BY <3>3 DEF Types, TypeOK, ClientsOK, Current
    <3>4. QED
      BY <3>2, <3>3 DEF Closes
  <2>2. ASSUME NEW k \in Links
        PROVE  /\ dials'[k] <= cuts' + 1
               /\ up'[k] => dials'[k] # 0
               /\ (~cancelled' \/ <<"dial", k>> \in pool') /\ (~up'[k] \/ Current(k)' \in cut')
                     => dials'[k] <= cuts'
    <3>1. CASE k = l
      BY <3>1 DEF Types, TypeOK, ClientsOK, Budget, Closes, Current
    <3>2. CASE k # l
      <4>1. up'[k] = up[k] /\ Current(k) # Current(l)
        BY <3>2 DEF Types, TypeOK, ClientsOK, Closes, Current
      <4>2. Current(k)' = Current(k)
        BY DEF Current
      <4>3. Current(k) \in cut' => Current(k) \in cut
        BY <4>1 DEF Closes
      <4>4. <<"dial", k>> \in pool' => <<"dial", k>> \in pool
        OBVIOUS
      <4>5. QED
        BY <4>1, <4>2, <4>3, <4>4 DEF Types, Budget
    <3>3. QED
      BY <3>1, <3>2
  <2>3. cancelled' => done' = Len(program') /\ toSubmit' = <<>>
    BY DEF Types, Budget
  <2>4. QED
    BY <2>1, <2>2, <2>3 DEF Budget
<1>6. QED
  BY <1>1, <1>3, <1>4, <1>5 DEF Types, TypeOK

LEMMA OnAckTypes ==
    ASSUME Types, MainOK', IsFiniteSet(pool)', NEW l \in Links, OnAck(l)
    PROVE  Types'
<1>1. l.from \in Nodes /\ l.to \in Nodes
  BY ClusterAssumption DEF Link
<1>2. ClientsOK'
  <2>1. CASE l.from \in Schedulers
    BY <1>1, <2>1 DEF Types, TypeOK, ClientsOK, OnAck, NotifyEstablish, HandlePacket,
       WorkerHandlePacket, GcsHandlePacket, SchedulerOnAck, peerVars
  <2>2. CASE l.from \notin Schedulers
    BY <2>2 DEF Types, TypeOK, ClientsOK, OnAck, NotifyEstablish, HandlePacket,
       WorkerHandlePacket, GcsHandlePacket, peerVars
  <2>3. QED
    BY <2>1, <2>2
<1>3. NetOK' /\ ServersOK'
  BY DEF Types, TypeOK, NetOK, ServersOK, OnAck, NotifyEstablish, HandlePacket,
     WorkerHandlePacket, GcsHandlePacket, serverVars, workerVars
<1>4. Budget'
  BY DEF Types, Budget, OnAck, NotifyEstablish, HandlePacket, WorkerHandlePacket,
     GcsHandlePacket, mainVars, Current
<1>5. QED
  BY <1>2, <1>3, <1>4 DEF Types, TypeOK

LEMMA CutTypes ==
    ASSUME Types, MainOK', IsFiniteSet(pool)', NEW l \in Links, Cut(l)
    PROVE  Types'
<1>1. Current(l) \in Conns /\ Current(l).nr = dials[l] /\ Current(l).link = l
  BY CurrentIsConn DEF Cut, Types, Budget, Current
<1>2. cuts' = cuts + 1 /\ cuts \in Nat /\ cuts' \in 0 .. MaxCuts
  BY ClusterAssumption DEF Cut, Types, TypeOK, NetOK
<1>3. ClientsOK' /\ ServersOK'
  BY DEF Types, TypeOK, ClientsOK, ServersOK, Cut, clientVars, peerVars, serverVars, workerVars
<1>4. NetOK'
  BY <1>1, <1>2 DEF Types, TypeOK, NetOK, Cut
<1>5. Budget'
  <2>1. UNCHANGED <<dials, up, mainVars>> /\ cut' = cut \cup {Current(l)}
    BY DEF Cut, clientVars
  <2>2. \A c \in cut' : c.nr <= dials'[c.link]
    BY <1>1, <2>1 DEF Types, TypeOK, ClientsOK, Budget
  <2>3. \A k \in Links : dials[k] \in Nat /\ dials[k] <= cuts + 1
    <3>1. TAKE k \in Links
    <3>2. dials[k] \in 0 .. MaxCuts + 1 /\ MaxCuts \in Nat
      BY ClusterAssumption DEF Types, TypeOK, ClientsOK
    <3>3. dials[k] <= cuts + 1
      BY DEF Types, Budget
    <3>4. QED
      BY <3>2, <3>3
  <2>4. ASSUME NEW k \in Links
        PROVE  dials'[k] <= cuts' /\ dials'[k] <= cuts' + 1
    <3>1. dials'[k] = dials[k] /\ dials[k] \in Nat /\ dials[k] <= cuts + 1
      BY <2>1, <2>3
    <3>2. QED
      BY <1>2, <3>1
  <2>5. cancelled' => done' = Len(program') /\ toSubmit' = <<>>
    BY <2>1 DEF Types, Budget, mainVars
  <2>6. \A k \in Links : up'[k] => dials'[k] # 0
    BY <2>1 DEF Types, Budget
  <2>7. QED
    BY <2>2, <2>4, <2>5, <2>6 DEF Budget
<1>6. QED
  BY <1>3, <1>4, <1>5 DEF Types, TypeOK

LEMMA NextTypes == Types /\ [Next]_vars => Types'
<1> SUFFICES ASSUME Types, [Next]_vars PROVE Types'
  OBVIOUS
<1>1. MainOK' /\ IsFiniteSet(pool)'
  BY NextMainOK
<1>2. CASE Quiet
  BY <1>1, <1>2, QuietTypes
<1>3. ASSUME NEW l \in Links, Dial(l) \/ LeaveInner(l) \/ LoopEnds(l) \/ OnAck(l) \/ Cut(l)
      PROVE  Types'
  <2>1. CASE Dial(l)
    BY <1>1, <2>1, DialTypes
  <2>2. CASE LeaveInner(l)
    BY <1>1, <2>2, ClosesTypes DEF LeaveInner, mainVars
  <2>3. CASE LoopEnds(l)
    BY <1>1, <2>3, ClosesTypes DEF LoopEnds
  <2>4. CASE OnAck(l)
    BY <1>1, <2>4, OnAckTypes
  <2>5. CASE Cut(l)
    BY <1>1, <2>5, CutTypes
  <2>6. QED
    BY <1>3, <2>1, <2>2, <2>3, <2>4, <2>5
<1>4. ASSUME NEW c \in incoming, SchedulerOnOpen(c) \/ WorkerOnOpen(c) \/ GcsOnOpen(c)
      PROVE  Types'
  <2>1. NetOK' /\ ServersOK'
    BY <1>4 DEF Types, TypeOK, NetOK, ServersOK, SchedulerOnOpen, WorkerOnOpen,
       GcsOnOpen, Registers
  <2>2. UNCHANGED <<mainVars, clientVars, peerVars, cut, cuts>>
    BY <1>4 DEF SchedulerOnOpen, WorkerOnOpen, GcsOnOpen, Registers
  <2>3. QED
    BY <1>1, <2>1, <2>2, ServerTypes
<1>5. ASSUME NEW c \in conns, OnClose(c) PROVE Types'
  <2>1. NetOK' /\ ServersOK'
    BY <1>5 DEF Types, TypeOK, NetOK, ServersOK, OnClose, workerVars
  <2>2. UNCHANGED <<mainVars, clientVars, peerVars, cut, cuts>>
    BY <1>5 DEF OnClose
  <2>3. QED
    BY <1>1, <2>1, <2>2, ServerTypes
<1>6. ASSUME NEW r \in requests,
             SchedulerOnEstablish(r) \/ WorkerOnEstablish(r) \/ GcsOnEstablish(r)
      PROVE  Types'
  <2>1. PICK mode \in Modes : OnTraffic(r, mode)
    BY <1>6 DEF SchedulerOnEstablish, WorkerOnEstablish, GcsOnEstablish, Modes
  <2>2. r.conn \in Conns
    BY DEF Types, TypeOK, NetOK, EstablishReq, EstablishResponse
  <2>3. gcsConn' \in [Workers -> Conns \cup {NoConn}]
    BY <1>6, <2>2 DEF Types, TypeOK, ServersOK, SchedulerOnEstablish,
       WorkerOnEstablish, GcsOnEstablish
  <2>4. NetOK' /\ ServersOK'
    BY <2>1, <2>3, OnTrafficTypes DEF ServersOK
  <2>5. UNCHANGED <<mainVars, clientVars, peerVars, cut, cuts>>
    BY <2>1 DEF OnTraffic, SetEstablished
  <2>6. QED
    BY <1>1, <2>4, <2>5, ServerTypes
<1>7. QED
  BY <1>2, <1>3, <1>4, <1>5, <1>6, Steps

LEMMA TypesHold == Spec => []Types
<1>1. QED
  BY InitTypes, NextTypes, PTL DEF Spec

\* The pool never holds more jobs than it has goroutines, and a connection is
\* dialled at most once more than one was cut: a redial that nothing called for
\* would get past the bound.
THEOREM TypeCorrect == Spec => []TypeOK
<1>1. Types => TypeOK
  BY DEF Types
<1>2. QED
  BY <1>1, TypesHold, PTL

-----------------------------------------------------------------------------
(* Both ends of a connection                                               *)

EndsInv ==
    /\ BothEnds
    /\ \A a \in acks : a.conn \in marked /\ a.conn \in conns \cup cut

LEMMA InitEnds == Init => EndsInv
BY DEF Init, InitManagers, InitConnections, EndsInv, BothEnds

LEMMA NextEnds == Types /\ EndsInv /\ [Next]_vars => EndsInv'
<1> SUFFICES ASSUME Types, EndsInv, [Next]_vars PROVE EndsInv'
  OBVIOUS
<1> USE DEF EndsInv, BothEnds
<1>1. CASE Quiet
  BY <1>1 DEF Quiet, clientVars, netVars, serverVars, workerVars, Current
<1>2. ASSUME NEW l \in Links, Dial(l) PROVE EndsInv'
  <2>1. ASSUME NEW k \in Links, k # l
        PROVE  established'[k] = established[k] /\ up'[k] = up[k] /\ Current(k)' = Current(k)
    BY <1>2, <2>1 DEF Dial, DialWithTimeout, SendEstablish, Types, TypeOK, ClientsOK, Current
  <2>2. established'[l] = FALSE
    BY <1>2 DEF Dial, DialWithTimeout, SendEstablish, Types, TypeOK, ClientsOK
  <2>3. QED
    BY <1>2, <2>1, <2>2 DEF Dial, DialWithTimeout, SendEstablish, serverVars, workerVars
<1>3. ASSUME NEW l \in Links, LeaveInner(l) \/ LoopEnds(l) PROVE EndsInv'
  <2>1. Closes(l) /\ UNCHANGED <<dials, serverVars>>
    BY <1>3 DEF LeaveInner, LoopEnds
  <2>2. ASSUME NEW k \in Links, k # l
        PROVE  established'[k] = established[k] /\ up'[k] = up[k] /\ Current(k)' = Current(k)
    BY <2>1, <2>2 DEF Closes, Types, TypeOK, ClientsOK, Current
  <2>3. established'[l] = FALSE
    BY <2>1 DEF Closes, Types, TypeOK, ClientsOK
  <2>4. acks' \subseteq acks /\ cut \subseteq cut'
    BY <2>1 DEF Closes
  <2>5. QED
    BY <2>1, <2>2, <2>3, <2>4 DEF serverVars, workerVars
<1>4. ASSUME NEW l \in Links, OnAck(l) PROVE EndsInv'
  <2>1. ASSUME NEW k \in Links, k # l
        PROVE  established'[k] = established[k] /\ up'[k] = up[k] /\ Current(k)' = Current(k)
    BY <1>4, <2>1 DEF OnAck, NotifyEstablish, HandlePacket, WorkerHandlePacket,
       GcsHandlePacket, Types, TypeOK, ClientsOK, Current
  <2>2. PICK a \in acks : a.conn = Current(l)
    BY <1>4 DEF OnAck, NotifyEstablish, HandlePacket, WorkerHandlePacket, GcsHandlePacket
  <2>3. up'[l] /\ Current(l)' = Current(l)
    BY <1>4 DEF OnAck, NotifyEstablish, HandlePacket, WorkerHandlePacket,
       GcsHandlePacket, Current
  <2>4. acks' \subseteq acks /\ UNCHANGED <<cut, serverVars>>
    BY <1>4 DEF OnAck, NotifyEstablish, HandlePacket, WorkerHandlePacket, GcsHandlePacket
  <2>5. QED
    BY <2>1, <2>2, <2>3, <2>4 DEF serverVars, workerVars
<1>5. ASSUME NEW l \in Links, Cut(l) PROVE EndsInv'
  BY <1>5 DEF Cut, clientVars, serverVars, workerVars, Current
<1>6. ASSUME NEW c \in incoming, SchedulerOnOpen(c) \/ WorkerOnOpen(c) \/ GcsOnOpen(c)
      PROVE  EndsInv'
  <2>1. Registers(c)
    BY <1>6 DEF SchedulerOnOpen, WorkerOnOpen, GcsOnOpen
  <2>2. QED
    BY <2>1 DEF Registers, clientVars, Current
<1>7. ASSUME NEW c \in conns, OnClose(c) PROVE EndsInv'
  BY <1>7 DEF OnClose, clientVars, Current
<1>8. ASSUME NEW r \in requests,
             SchedulerOnEstablish(r) \/ WorkerOnEstablish(r) \/ GcsOnEstablish(r)
      PROVE  EndsInv'
  <2>1. PICK mode \in Modes : OnTraffic(r, mode)
    BY <1>8 DEF SchedulerOnEstablish, WorkerOnEstablish, GcsOnEstablish, Modes
  <2>2. \A a \in acks' : a \in acks \/ a.conn = r.conn
    BY <2>1 DEF OnTraffic, SetEstablished, Send
  <2>3. QED
    BY <2>1, <2>2 DEF OnTraffic, SetEstablished, clientVars, Current
<1>9. QED
  BY <1>1, <1>2, <1>3, <1>4, <1>5, <1>6, <1>7, <1>8, Steps

\* What a client calls established, the server has marked established, and has
\* had in its registry.
THEOREM EndsAgree == Spec => []BothEnds
<1>1. EndsInv => BothEnds
  BY DEF EndsInv
<1>2. QED
  BY <1>1, InitEnds, NextEnds, TypesHold, PTL DEF Spec

-----------------------------------------------------------------------------
(* Peers                                                                   *)

PeersInv ==
    /\ PeersAreKnown
    /\ \A a \in acks :
          /\ a.mode = ModeWorker <=> a.conn.link.to \in Workers
          /\ a.conn.link.from \in Gcss /\ a.conn.link.to \in Workers =>
                gcsConn[a.conn.link.to] # NoConn
    /\ \A r \in requests : r.mode = GetMode(r.conn.link.from)

LEMMA ModeTells ==
    ASSUME NEW n \in Nodes
    PROVE  GetMode(n) = ModeGCS <=> n \in Gcss
BY ClusterAssumption DEF Nodes, GetMode, ModeGCS, ModeWorker, ModeScheduler

LEMMA InitPeers == Init => PeersInv
BY DEF Init, InitManagers, InitConnections, PeersInv, PeersAreKnown

\* What a step may do that leaves what is said about peers true.
LEMMA PeersStay ==
    ASSUME PeersInv, UNCHANGED <<workerConns, gcsConn>>, marked \subseteq marked',
           \A l \in Links : established'[l] => established[l],
           acks' \subseteq acks,
           \A r \in requests' : r \in requests \/ r.mode = GetMode(r.conn.link.from)
    PROVE  PeersInv'
BY DEF PeersInv, PeersAreKnown

LEMMA EstablishPeers ==
    ASSUME Types, PeersInv, NEW r \in requests, WorkerOnEstablish(r)
    PROVE  PeersInv'
<1> DEFINE c == r.conn
           w == r.conn.link.to
<1>1. /\ c \in Conns /\ c # NoConn /\ w \in Workers /\ c.link \in Links
      /\ c.link.from \in Nodes
  BY ClusterAssumption DEF WorkerOnEstablish, Types, TypeOK, NetOK, EstablishReq,
     EstablishResponse, Conns, Link
<1>2. r.mode = ModeGCS <=> c.link.from \in Gcss
  BY <1>1, ModeTells DEF PeersInv
<1>3. /\ \A v \in Workers : v # w => gcsConn'[v] = gcsConn[v]
      /\ gcsConn'[w] = IF r.mode = ModeGCS THEN c ELSE gcsConn[w]
  BY <1>1 DEF WorkerOnEstablish, Types, TypeOK, ServersOK
<1>4. /\ marked' = marked \cup {c} /\ requests' \subseteq requests
      /\ UNCHANGED <<established, workerConns>>
      /\ \A a \in acks' : a \in acks \/ a = [conn |-> c, mode |-> ModeWorker]
  BY DEF WorkerOnEstablish, OnTraffic, SetEstablished, Send, clientVars, peerVars
<1>5. \A v \in Workers : gcsConn[v] # NoConn => gcsConn'[v] # NoConn
  BY <1>1, <1>3
<1>6. \A v \in Workers : gcsConn'[v] # NoConn =>
          gcsConn'[v] \in marked' /\ gcsConn'[v].link.from \in Gcss
  BY <1>2, <1>3, <1>4 DEF PeersInv, PeersAreKnown
<1>7. c.link.from \in Gcss => gcsConn'[w] # NoConn
  BY <1>1, <1>2, <1>3
<1> HIDE DEF c, w
<1>8. \A a \in acks' :
          /\ a.mode = ModeWorker <=> a.conn.link.to \in Workers
          /\ a.conn.link.from \in Gcss /\ a.conn.link.to \in Workers =>
                gcsConn'[a.conn.link.to] # NoConn
  <2>1. TAKE a \in acks'
  <2>2. CASE a \in acks
    BY <2>2, <1>5 DEF PeersInv
  <2>3. CASE a = [conn |-> c, mode |-> ModeWorker]
    BY <2>3, <1>1, <1>7 DEF c, w
  <2>4. QED
    BY <2>2, <2>3, <1>4
<1>9. PeersAreKnown'
  BY <1>4, <1>5, <1>6 DEF PeersInv, PeersAreKnown
<1>10. QED
  BY <1>4, <1>8, <1>9 DEF PeersInv

LEMMA AckPeers ==
    ASSUME Types, PeersInv, NEW l \in Links, OnAck(l)
    PROVE  PeersInv'
<1>1. PICK a \in acks :
         /\ a.conn = Current(l) /\ acks' = acks \ {a}
         /\ established' = [established EXCEPT ![l] = TRUE]
         /\ (l.from \in Schedulers /\ SchedulerOnAck(l.from, l.to,
               a.mode)) \/ UNCHANGED peerVars
         /\ l.from \in Schedulers => SchedulerOnAck(l.from, l.to, a.mode)
  BY ClusterAssumption DEF OnAck, NotifyEstablish, HandlePacket, WorkerHandlePacket,
     GcsHandlePacket
<1>2. /\ a.mode = ModeWorker <=> l.to \in Workers
      /\ l.from \in Gcss /\ l.to \in Workers => gcsConn[l.to] # NoConn
  BY <1>1 DEF PeersInv, Current
<1>3. \A k \in Links : established'[k] => established[k] \/ k = l
  BY <1>1 DEF Types, TypeOK, ClientsOK
<1>4. UNCHANGED <<gcsConn, marked, requests>>
  BY DEF OnAck, NotifyEstablish, HandlePacket, WorkerHandlePacket, GcsHandlePacket,
     serverVars, workerVars
<1>5. /\ \A s \in Schedulers :
            workerConns[s] \subseteq workerConns'[s] /\ workerConns'[s] \subseteq Workers
      /\ l.from \in Schedulers /\ l.to \in Workers => l.to \in workerConns'[l.from]
  <2>1. \A s \in Schedulers : workerConns[s] \subseteq Workers
    BY DEF PeersInv, PeersAreKnown
  <2>2. CASE l.from \in Schedulers
    BY <1>1, <1>2, <2>1, <2>2 DEF SchedulerOnAck, Types, TypeOK, ClientsOK
  <2>3. CASE l.from \notin Schedulers
    BY <1>1, <2>1, <2>3 DEF peerVars
  <2>4. QED
    BY <2>2, <2>3
<1>6. PeersAreKnown'
  BY <1>2, <1>3, <1>4, <1>5 DEF PeersInv, PeersAreKnown
<1>7. QED
  BY <1>1, <1>4, <1>6 DEF PeersInv

LEMMA NextPeers == Types /\ PeersInv /\ [Next]_vars => PeersInv'
<1> SUFFICES ASSUME Types, PeersInv, [Next]_vars PROVE PeersInv'
  OBVIOUS
<1>1. CASE Quiet
  BY <1>1, PeersStay DEF Quiet, clientVars, peerVars, netVars, serverVars, workerVars
<1>2. ASSUME NEW l \in Links, Dial(l) PROVE PeersInv'
  <2>1. \A k \in Links : established'[k] => established[k]
    BY <1>2 DEF Dial, DialWithTimeout, SendEstablish, Types, TypeOK, ClientsOK
  <2>2. \A r \in requests' : r \in requests \/ r.mode = GetMode(r.conn.link.from)
    BY <1>2 DEF Dial, DialWithTimeout, SendEstablish, Current
  <2>3. QED
    BY <1>2, <2>1, <2>2, PeersStay DEF Dial, DialWithTimeout, SendEstablish, peerVars,
       serverVars, workerVars
<1>3. ASSUME NEW l \in Links, LeaveInner(l) \/ LoopEnds(l) PROVE PeersInv'
  <2>1. Closes(l) /\ UNCHANGED <<peerVars, requests, serverVars>>
    BY <1>3 DEF LeaveInner, LoopEnds
  <2>2. \A k \in Links : established'[k] => established[k]
    BY <2>1 DEF Closes, Types, TypeOK, ClientsOK
  <2>3. acks' \subseteq acks
    BY <2>1 DEF Closes
  <2>4. QED
    BY <2>1, <2>2, <2>3, PeersStay DEF peerVars, serverVars, workerVars
<1>4. ASSUME NEW l \in Links, OnAck(l) PROVE PeersInv'
  BY <1>4, AckPeers
<1>5. ASSUME NEW l \in Links, Cut(l) PROVE PeersInv'
  BY <1>5, PeersStay DEF Cut, clientVars, peerVars, serverVars, workerVars
<1>6. ASSUME NEW c \in incoming, SchedulerOnOpen(c) \/ WorkerOnOpen(c) \/ GcsOnOpen(c)
      PROVE  PeersInv'
  <2>1. Registers(c)
    BY <1>6 DEF SchedulerOnOpen, WorkerOnOpen, GcsOnOpen
  <2>2. QED
    BY <2>1, PeersStay DEF Registers, clientVars, peerVars
<1>7. ASSUME NEW c \in conns, OnClose(c) PROVE PeersInv'
  BY <1>7, PeersStay DEF OnClose, clientVars, peerVars, workerVars
<1>8. ASSUME NEW r \in requests, WorkerOnEstablish(r) PROVE PeersInv'
  BY <1>8, EstablishPeers
<1>9. ASSUME NEW r \in requests, SchedulerOnEstablish(r) \/ GcsOnEstablish(r) PROVE PeersInv'
  <2>1. PICK mode \in {ModeScheduler, NoMode} : OnTraffic(r, mode)
    BY <1>9 DEF SchedulerOnEstablish, GcsOnEstablish
  <2>2. mode # ModeWorker /\ r.conn.link.to \notin Workers
    BY <1>9, ClusterAssumption DEF SchedulerOnEstablish, GcsOnEstablish, ModeScheduler,
       NoMode, ModeWorker
  <2>3. /\ UNCHANGED <<established, workerConns, gcsConn>>
        /\ marked \subseteq marked' /\ requests' \subseteq requests
    BY <1>9, <2>1 DEF SchedulerOnEstablish, GcsOnEstablish, OnTraffic, SetEstablished,
       clientVars, peerVars
  <2>4. \A a \in acks' : a \in acks \/ a = [conn |-> r.conn, mode |-> mode]
    BY <2>1 DEF OnTraffic, SetEstablished, Send
  <2>5. PeersAreKnown'
    BY <2>3 DEF PeersInv, PeersAreKnown
  <2>6. QED
    BY <2>2, <2>3, <2>4, <2>5 DEF PeersInv
<1>10. QED
  BY <1>1, <1>2, <1>3, <1>4, <1>5, <1>6, <1>7, <1>8, <1>9, Steps

\* A scheduler counts only workers among its workers, and every worker it has
\* reached; a worker that a GCS has reached has a GCS to report to.
THEOREM PeersKnown == Spec => []PeersAreKnown
<1>1. PeersInv => PeersAreKnown
  BY DEF PeersInv
<1>2. QED
  BY <1>1, InitPeers, NextPeers, TypesHold, PTL DEF Spec
================================================================================
