CONSTANTS
    TickPeriod = 1
    PeerPeriod = 2
    MaxDelay = 2
    EstablishTimeout = 4
    RecvIdleTimeout = 4
    ShakeEvery = 3
SPECIFICATION Spec
INVARIANT ShakeHandKeepsUp
CHECK_DEADLOCK FALSE
