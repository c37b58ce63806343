------------------------------ MODULE MCCluster ------------------------------
(* The programs of the tests, with the pool they have.                       *)
EXTENDS Cluster, Backoff

CONSTANTS s, w, v, g, h

to(a, b) == [from |-> a, to |-> b]
start(n) == [start |-> n]
connect(a, b) == [connect |-> to(a, b)]

TestLinks == {to(s, w), to(g, s), to(g, w), to(w, s), to(g, h), to(s, v)}

TestPrograms == {
    \* TestSampleObjectTest: 8 jobs
    <<start(s), start(w), start(g), connect(s, w), connect(g, s), connect(g, w)>>,
    \* TestWorkerToScheduler, TestSchedulerAssignTask
    <<start(s), start(w), connect(w, s)>>,
    <<start(s), start(w), connect(s, w)>>,
    \* TestDialEstablish_Trigger
    <<start(g), start(h), connect(g, h)>>,
    \* 9 jobs: the last call blocks
    <<start(s), connect(s, w), start(w), start(v), connect(s, v)>>}

\* What a redial waits: nothing after 9 failures in a row and less, 100 to 190
\* ms after up to 19, then whole seconds: one, and two after 40 failures, of
\* which only one is waited if a millisecond has passed since the failure.
ASSUME RedialWaits ==
    /\ \A f \in 0 .. 9 : GetBackOff(f) = 0
    /\ GetBackOff(10) = 100 /\ GetBackOff(19) = 190 /\ GetBackOff(20) = 1000
    /\ \A f \in 20 .. 39 : GetBackOff(f) = 1000
    /\ Wait(40, 0) = 2000 /\ Wait(40, 1) = 1000 /\ Wait(39, 1) = 999
=============================================================================
