-------------------------------- MODULE Cluster --------------------------------
(***************************************************************************)
(* How a cluster comes up, as the tests bring it up: a program makes nodes *)
(* of one goroutine pool, starts their servers and connects them.  Submit  *)
(* blocks while the pool is full, and most jobs never end.                 *)
(*                                                                         *)
(* The node that calls Connect dials, with common/client_conn.go, and      *)
(* dials again when the connection is lost (in detail: ClientConn); the    *)
(* node it dials has the connection in its registry, core/<role>/          *)
(* connection.go and connection_manager.go.  A node's own event loop runs  *)
(* each of its handlers to its end, so that a handler is an action.        *)
(***************************************************************************)
EXTENDS Naturals, Sequences, FiniteSets

CONSTANTS Schedulers, Workers, Gcss,     \* addresses, by what listens there
          Links,                         \* who may be told to dial whom
          Programs,                      \* what the process may be told to do
          PoolSize,
          MaxCuts, MaxBadListens,        \* bounds on what fails
          NoConn

Nodes == Schedulers \cup Workers \cup Gcss
Link  == [from : Nodes, to : Nodes]

\* A link dials once, and again after each failure.
Conns == [link : Links, nr : 1 .. MaxCuts + 1]

ModeWorker    == 1
ModeScheduler == 2
ModeGCS       == 4
NoMode        == 0                            \* of a message without the field
Modes == {NoMode, ModeWorker, ModeScheduler, ModeGCS}

Calls == [start : Nodes] \cup [connect : Links]
Jobs  == ({"serve", "idle", "report"} \X Nodes) \cup ({"dial"} \X Links)

ASSUME ClusterAssumption ==
    /\ Schedulers \cap Workers = {} /\ Schedulers \cap Gcss = {} /\ Workers \cap Gcss = {}
    /\ Links \subseteq Link /\ Programs \subseteq Seq(Calls)
    /\ PoolSize \in Nat /\ MaxCuts \in Nat /\ MaxBadListens \in Nat
    /\ NoConn \notin Conns

\* A link stands for one outbound connection, which each call of Connect makes.
ASSUME ConnectOnce ==
    \A p \in Programs : \A i, j \in 1 .. Len(p) :
        p[i] = p[j] /\ "connect" \in DOMAIN p[i] => i = j

VARIABLES
    program, done,       \* what is to be called, and how much of it has been
    toSubmit,            \* the jobs of the present call that are not submitted
    pool,                \* the jobs submitted and not ended
    started, listening,  \* nodes: the flag, and the engine of gnet.Run
    cancelled,           \* the program's context
    \* dialling side, by link
    up,                  \* Loop is in its inner loop
    dials,               \* number of the last connection
    established,
    \* network
    incoming,            \* connections not accepted
    requests, acks,      \* EstablishReq, EstablishResponse on their way
    cut,                 \* connections closed by one side or broken
    \* listening side
    conns, marked,       \* connectionManager.conns, connection.established
    connAddrs,           \* of the workers' managers
    gcsConn,             \* of each worker
    workerConns, gcsConns,  \* of each scheduler: keys
    cuts, badListens

mainVars   == <<program, done, toSubmit, pool, started, listening, cancelled, badListens>>
clientVars == <<up, dials, established>>
peerVars   == <<workerConns, gcsConns>>
netVars    == <<incoming, requests, acks, cut, cuts>>
workerVars == <<connAddrs, gcsConn>>
serverVars == <<conns, marked, workerVars>>
vars == <<mainVars, clientVars, peerVars, netVars, serverVars>>

Current(l) == [link |-> l, nr |-> dials[l]]
EstablishReq == [conn : Conns, mode : Modes]
EstablishResponse == [conn : Conns, mode : Modes]

MainOK ==
    /\ program \in Programs /\ done \in 0 .. Len(program)
    /\ toSubmit \in Seq(Jobs) /\ pool \subseteq Jobs /\ Cardinality(pool) <= PoolSize
    /\ started \subseteq Nodes /\ listening \subseteq Nodes
    /\ cancelled \in BOOLEAN /\ badListens \in 0 .. MaxBadListens

ClientsOK ==
    /\ up \in [Links -> BOOLEAN] /\ established \in [Links -> BOOLEAN]
    /\ dials \in [Links -> 0 .. MaxCuts + 1]
    /\ workerConns \in [Schedulers -> SUBSET Nodes]
    /\ gcsConns \in [Schedulers -> SUBSET Nodes]

NetOK ==
    /\ incoming \subseteq Conns /\ cut \subseteq Conns
    /\ requests \subseteq EstablishReq /\ acks \subseteq EstablishResponse
    /\ cuts \in 0 .. MaxCuts

ServersOK ==
    /\ conns \subseteq Conns /\ marked \subseteq Conns /\ connAddrs \subseteq Conns
    /\ gcsConn \in [Workers -> Conns \cup {NoConn}]

TypeOK == MainOK /\ ClientsOK /\ NetOK /\ ServersOK

\* What the constructors of the nodes and of their managers leave.
InitNodes ==
    /\ program \in Programs /\ done = 0 /\ toSubmit = <<>> /\ pool = {}
    /\ started = {} /\ listening = {} /\ cancelled = FALSE /\ badListens = 0

InitManagers ==
    /\ conns = {} /\ marked = {} /\ connAddrs = {}
    /\ gcsConn = [w \in Workers |-> NoConn]
    /\ workerConns = [s \in Schedulers |-> {}] /\ gcsConns = [s \in Schedulers |-> {}]

InitConnections ==
    /\ up = [l \in Links |-> FALSE] /\ established = [l \in Links |-> FALSE]
    /\ dials = [l \in Links |-> 0]
    /\ incoming = {} /\ requests = {} /\ acks = {} /\ cut = {} /\ cuts = 0

Init == InitNodes /\ InitManagers /\ InitConnections

-----------------------------------------------------------------------------
(* The program: Start and Connect                                          *)

\* mutant: the scheduler's Loop is submitted too, as that of a worker is.
SchedulerStartLoops(n) == << <<"serve", n>>, <<"idle", n>> >>

SchedulerStart(n) == << <<"serve", n>> >>
GcsStart(n)       == << <<"serve", n>> >>
WorkerStart(n)    == << <<"serve", n>>, <<"idle", n>>, <<"report", n>> >>

Start(n) ==
    CASE n \in Schedulers -> SchedulerStart(n)
      [] n \in Workers    -> WorkerStart(n)
      [] n \in Gcss       -> GcsStart(n)

AddConnection(l) == << <<"dial", l>> >>

NextCall == program[done + 1]
Idle == done < Len(program) /\ toSubmit = <<>> /\ ~cancelled

\* Start sets the flag, and does nothing if it was set.
CallStart ==
    /\ Idle /\ "start" \in DOMAIN NextCall
    /\ LET n == NextCall.start
       IN  /\ toSubmit' = IF n \in started THEN <<>> ELSE Start(n)
           /\ started' = started \cup {n}
    /\ done' = done + 1
    /\ UNCHANGED <<program, pool, listening, cancelled, badListens>>
    /\ UNCHANGED <<clientVars, peerVars, netVars, serverVars>>

CallConnect ==
    /\ Idle /\ "connect" \in DOMAIN NextCall
    /\ toSubmit' = AddConnection(NextCall.connect)
    /\ done' = done + 1
    /\ UNCHANGED <<program, pool, started, listening, cancelled, badListens>>
    /\ UNCHANGED <<clientVars, peerVars, netVars, serverVars>>

\* mutant: the pool has no limit.
SubmitAnyway ==
    /\ toSubmit # <<>>
    /\ pool' = pool \cup {Head(toSubmit)}
    /\ toSubmit' = Tail(toSubmit)
    /\ UNCHANGED <<program, done, started, listening, cancelled, badListens>>
    /\ UNCHANGED <<clientVars, peerVars, netVars, serverVars>>

\* ants.Pool.Submit: blocks while all the goroutines of the pool are busy.
Submit ==
    /\ toSubmit # <<>> /\ Cardinality(pool) < PoolSize
    /\ pool' = pool \cup {Head(toSubmit)}
    /\ toSubmit' = Tail(toSubmit)
    /\ UNCHANGED <<program, done, started, listening, cancelled, badListens>>
    /\ UNCHANGED <<clientVars, peerVars, netVars, serverVars>>

\* The end of the test.
Cancel ==
    /\ done = Len(program) /\ toSubmit = <<>> /\ ~cancelled
    /\ cancelled' = TRUE
    /\ UNCHANGED <<program, done, toSubmit, pool, started, listening, badListens>>
    /\ UNCHANGED <<clientVars, peerVars, netVars, serverVars>>

-----------------------------------------------------------------------------
(* Servers: the jobs of Start                                              *)

\* gnet.Run has its listener.
Serve(n) ==
    /\ <<"serve", n>> \in pool /\ n \notin listening
    /\ listening' = listening \cup {n}
    /\ UNCHANGED <<program, done, toSubmit, pool, started, cancelled, badListens>>
    /\ UNCHANGED <<clientVars, peerVars, netVars, serverVars>>

\* It has none: the panic is caught by the pool, the job ends, started stays.
ListenFails(n) ==
    /\ <<"serve", n>> \in pool /\ n \notin listening /\ badListens < MaxBadListens
    /\ badListens' = badListens + 1
    /\ pool' = pool \ {<<"serve", n>>}
    /\ UNCHANGED <<program, done, toSubmit, started, listening, cancelled>>
    /\ UNCHANGED <<clientVars, peerVars, netVars, serverVars>>

\* connectionManager.Loop of a worker.  The idle Loop of the worker itself
\* waits in a select without cases.
ReportLoopEnds(n) ==
    /\ <<"report", n>> \in pool /\ cancelled
    /\ pool' = pool \ {<<"report", n>>}
    /\ UNCHANGED <<program, done, toSubmit, started, listening, cancelled, badListens>>
    /\ UNCHANGED <<clientVars, peerVars, netVars, serverVars>>

-----------------------------------------------------------------------------
(* The dialling side                                                       *)

GetMode(n) ==
    CASE n \in Schedulers -> ModeScheduler
      [] n \in Workers    -> ModeWorker
      [] n \in Gcss       -> ModeGCS

\* While nobody listens this fails, which changes nothing here.
DialWithTimeout(l) ==
    /\ l.to \in listening
    /\ dials' = [dials EXCEPT ![l] = @ + 1]
    /\ incoming' = incoming \cup {Current(l)'}

SendEstablish(l) ==
    /\ established' = [established EXCEPT ![l] = FALSE]
    /\ requests' = requests \cup {[conn |-> Current(l)', mode |-> GetMode(l.from)]}

\* dialOnce and sendEstablish.
Dial(l) ==
    /\ <<"dial", l>> \in pool /\ ~up[l]
    /\ DialWithTimeout(l)
    /\ up' = [up EXCEPT ![l] = TRUE]
    /\ SendEstablish(l)
    /\ UNCHANGED <<mainVars, peerVars, acks, cut, cuts, serverVars>>

\* The loop comes to an end of its connection: waitClose.
Closes(l) ==
    /\ up' = [up EXCEPT ![l] = FALSE]
    /\ established' = [established EXCEPT ![l] = FALSE]
    /\ cut' = IF up[l] THEN cut \cup {Current(l)} ELSE cut
    /\ acks' = {a \in acks : a.conn # Current(l)}

LeaveInner(l) ==
    /\ up[l] /\ Current(l) \in cut /\ ~cancelled
    /\ Closes(l)
    /\ UNCHANGED <<mainVars, dials, peerVars, incoming, requests, cuts, serverVars>>

\* mutant: the socket of the last connection is left open.
EndsWithoutClosing(l) ==
    /\ <<"dial", l>> \in pool /\ cancelled
    /\ pool' = pool \ {<<"dial", l>>}
    /\ up' = [up EXCEPT ![l] = FALSE]
    /\ UNCHANGED <<program, done, toSubmit, started, listening, cancelled, badListens>>
    /\ UNCHANGED <<dials, established, peerVars, acks, cut, incoming, requests, cuts, serverVars>>

\* The context of every connection is a child of the program's.
LoopEnds(l) ==
    /\ <<"dial", l>> \in pool /\ cancelled
    /\ Closes(l)
    /\ pool' = pool \ {<<"dial", l>>}
    /\ UNCHANGED <<program, done, toSubmit, started, listening, cancelled, badListens>>
    /\ UNCHANGED <<dials, peerVars, incoming, requests, cuts, serverVars>>

\* HandlePacket of the scheduler: the peer says what it is.
SchedulerOnAck(s, peer, mode) ==
    /\ workerConns' = IF mode = ModeWorker
                      THEN [workerConns EXCEPT ![s] = @ \cup {peer}] ELSE workerConns
    /\ gcsConns' = IF mode = ModeGCS
                   THEN [gcsConns EXCEPT ![s] = @ \cup {peer}] ELSE gcsConns

\* That of a worker returns; that of a GCS sets established, which is set.
WorkerHandlePacket == UNCHANGED peerVars
GcsHandlePacket    == UNCHANGED peerVars

HandlePacket(l, mode) ==
    \/ l.from \in Schedulers /\ SchedulerOnAck(l.from, l.to, mode)
    \/ l.from \in Workers    /\ WorkerHandlePacket
    \/ l.from \in Gcss       /\ GcsHandlePacket

NotifyEstablish(l) == established' = [established EXCEPT ![l] = TRUE]

\* OnPacket of an acknowledgement.
OnAck(l) ==
    /\ up[l]
    /\ \E a \in acks :
          /\ a.conn = Current(l)
          /\ acks' = acks \ {a}
          /\ NotifyEstablish(l)
          /\ HandlePacket(l, a.mode)
    /\ UNCHANGED <<mainVars, up, dials, incoming, requests, cut, cuts, serverVars>>

-----------------------------------------------------------------------------
(* The listening side                                                      *)

\* OnOpen of a scheduler or a GCS: newConnection, not established.
Registers(c) ==
    /\ incoming' = incoming \ {c}
    /\ conns' = conns \cup {c}
    /\ UNCHANGED <<mainVars, clientVars, peerVars, requests, acks, cut, cuts, marked, gcsConn>>

SchedulerOnOpen(c) ==
    /\ c \in incoming /\ c.link.to \in Schedulers
    /\ Registers(c)
    /\ UNCHANGED connAddrs

GcsOnOpen(c) ==
    /\ c \in incoming /\ c.link.to \in Gcss
    /\ Registers(c)
    /\ UNCHANGED connAddrs

WorkerOnOpen(c) ==
    /\ c \in incoming /\ c.link.to \in Workers
    /\ Registers(c)
    /\ connAddrs' = connAddrs \cup {c}

\* OnClose: what has not been read is not read any more.  The connAddrs of a
\* worker keep the connection.
OnClose(c) ==
    /\ c \in conns /\ c \in cut
    /\ conns' = conns \ {c}
    /\ requests' = {r \in requests : r.conn # c}
    /\ UNCHANGED <<mainVars, clientVars, peerVars, incoming, acks, cut, cuts, marked, workerVars>>

SchedulerOnClose(c) == c.link.to \in Schedulers /\ OnClose(c)
WorkerOnClose(c)    == c.link.to \in Workers /\ OnClose(c)
GcsOnClose(c)       == c.link.to \in Gcss /\ OnClose(c)

SetEstablished(c) == marked' = marked \cup {c}

\* connection.Send to a connection that was closed is an error nobody reads.
Send(c, mode) == acks' = IF c \in cut THEN acks ELSE acks \cup {[conn |-> c, mode |-> mode]}

\* mutants: the connection is not marked; a node is answered once only.
OnTrafficUnmarked(r, mode) ==
    /\ r \in requests /\ r.conn \in conns /\ r.conn.link.to \in started
    /\ requests' = requests \ {r}
    /\ Send(r.conn, mode)
    /\ UNCHANGED <<mainVars, clientVars, peerVars, incoming, cut, cuts, conns, marked, connAddrs>>

OnTrafficOnce(r, mode) ==
    /\ r \in requests /\ r.conn \in conns /\ r.conn.link.to \in started
    /\ requests' = requests \ {r}
    /\ SetEstablished(r.conn)
    /\ IF \E c \in marked : c.link = r.conn.link THEN acks' = acks ELSE Send(r.conn, mode)
    /\ UNCHANGED <<mainVars, clientVars, peerVars, incoming, cut, cuts, conns, connAddrs>>

\* OnTraffic of a server that is started, and OnPacket of an EstablishReq.
OnTraffic(r, mode) ==
    /\ r \in requests /\ r.conn \in conns /\ r.conn.link.to \in started
    /\ requests' = requests \ {r}
    /\ SetEstablished(r.conn)
    /\ Send(r.conn, mode)
    /\ UNCHANGED <<mainVars, clientVars, peerVars, incoming, cut, cuts, conns, connAddrs>>

SchedulerOnEstablish(r) ==
    /\ r.conn.link.to \in Schedulers
    /\ OnTraffic(r, ModeScheduler)
    /\ UNCHANGED gcsConn

\* mutant: the worker does not say what it is.
WorkerOnEstablishMute(r) ==
    /\ r.conn.link.to \in Workers
    /\ OnTraffic(r, NoMode)
    /\ gcsConn' = IF r.mode = ModeGCS
                  THEN [gcsConn EXCEPT ![r.conn.link.to] = r.conn] ELSE gcsConn

WorkerOnEstablish(r) ==
    /\ r.conn.link.to \in Workers
    /\ OnTraffic(r, ModeWorker)
    /\ gcsConn' = IF r.mode = ModeGCS
                  THEN [gcsConn EXCEPT ![r.conn.link.to] = r.conn] ELSE gcsConn

\* The response of a GCS has no Mode.
GcsOnEstablish(r) ==
    /\ r.conn.link.to \in Gcss
    /\ OnTraffic(r, NoMode)
    /\ UNCHANGED gcsConn

-----------------------------------------------------------------------------
\* External: a connection breaks, or its dialling side gives it up.
Cut(l) ==
    /\ up[l] /\ Current(l) \notin cut /\ cuts < MaxCuts
    /\ cut' = cut \cup {Current(l)}
    /\ cuts' = cuts + 1
    /\ UNCHANGED <<mainVars, clientVars, peerVars, incoming, requests, acks, serverVars>>

Main == CallStart \/ CallConnect \/ Submit

ServerJobs(n) == Serve(n) \/ ReportLoopEnds(n)

\* The loop of a connection, and the event loop of the clients.
Client(l) == Dial(l) \/ LeaveInner(l) \/ LoopEnds(l) \/ OnAck(l)

\* The event loop of gnet.Run.
EventLoop(n) ==
    /\ n \in listening
    /\ \/ \E c \in incoming :
             c.link.to = n /\ (SchedulerOnOpen(c) \/ WorkerOnOpen(c) \/ GcsOnOpen(c))
       \/ \E c \in conns :
             c.link.to = n /\ (SchedulerOnClose(c) \/ WorkerOnClose(c) \/ GcsOnClose(c))
       \/ \E r \in requests :
             /\ r.conn.link.to = n
             /\ SchedulerOnEstablish(r) \/ WorkerOnEstablish(r) \/ GcsOnEstablish(r)

Progress ==
    \/ Main
    \/ \E n \in Nodes : ServerJobs(n) \/ EventLoop(n)
    \/ \E l \in Links : Client(l)

Next ==
    \/ Progress \/ Cancel
    \/ \E n \in Nodes : ListenFails(n)
    \/ \E l \in Links : Cut(l)

Spec == Init /\ [][Next]_vars

\* The process does not stop while one of its goroutines can go on.  That is
\* all: none of them can keep the others from running for ever.
Fairness == WF_vars(Progress)

FairSpec == Spec /\ Fairness

-----------------------------------------------------------------------------
(* Properties                                                              *)

\* Whoever believes a connection established is believed by the other side,
\* which has the connection in its registry until it is closed.
BothEnds ==
    \A l \in Links : established[l] =>
        /\ up[l] /\ Current(l) \in marked
        /\ Current(l) \in conns \cup cut

\* A scheduler knows every worker it is connected to, and gives tasks to
\* nothing else; a worker reports to a GCS, as soon as one is connected.
PeersAreKnown ==
    /\ \A s \in Schedulers : workerConns[s] \subseteq Workers
    /\ \A l \in Links : established[l] /\ l.to \in Workers =>
          /\ l.from \in Schedulers => l.to \in workerConns[l.from]
          /\ l.from \in Gcss => gcsConn[l.to] # NoConn
    /\ \A w \in Workers : gcsConn[w] # NoConn =>
          gcsConn[w] \in marked /\ gcsConn[w].link.from \in Gcss

\* If the pool has a goroutine for each job that does not end, no call of the
\* program blocks for ever: the tests have 8, of which one needs all.
JobCount(calls) ==
    Len(calls) + 2 * Cardinality({i \in 1 .. Len(calls) :
                        "start" \in DOMAIN calls[i] /\ calls[i].start \in Workers})

CallsReturn ==
    JobCount(program) <= PoolSize => <>(done = Len(program) /\ toSubmit = <<>>)

\* Even if the pool is too small, or a server has no listener, each connection
\* whose two sides have their goroutines is established in the end, in spite of
\* dials that came before the listener and of connections that broke.
Works(l) == {<<"dial", l>>, <<"serve", l.to>>} \subseteq pool /\ ~cancelled

LinksComeUp == \A l \in Links : <>[](Works(l) => established[l])

\* When the context is cancelled, the loops of the connections end and give
\* back their goroutines, and no server keeps a connection of theirs.
CancelCleansUp ==
    cancelled ~> /\ \A l \in Links : <<"dial", l>> \notin pool
                 /\ conns = {} /\ incoming = {}

=============================================================================
