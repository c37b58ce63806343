CONSTANTS
    s = s
    w = w
    v = v
    g = g
    h = h
    Schedulers = {s}
    Workers = {w, v}
    Gcss = {g, h}
    Links <- TestLinks
    Programs <- TestPrograms
    PoolSize = 8
    MaxCuts = 1
    MaxBadListens = 1
    NoConn = NoConn
SPECIFICATION FairSpec
INVARIANT TypeOK
INVARIANT BothEnds
INVARIANT PeersAreKnown
PROPERTY CallsReturn
PROPERTY LinksComeUp
PROPERTY CancelCleansUp
CHECK_DEADLOCK FALSE
