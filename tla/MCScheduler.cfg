CONSTANTS
    Tasks = {t1, t2}
    Computable = {t1}
    Workers = {w1, w2}
    NoTask = NoTask
    NoWorker = NoWorker
    ChanSize = 2
    MaxOnLink = 2
    MaxDrops = 1
SPECIFICATION FairSpec
INVARIANT TypeOK
INVARIANT NoTaskVanishes
INVARIANT PendingIsAwaited
INVARIANT AcceptedIsFinal
INVARIANT RejectionFindsPending
PROPERTY RequeueFindsRoom
PROPERTY NoStarvation
CHECK_DEADLOCK FALSE
