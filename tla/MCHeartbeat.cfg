CONSTANTS
    TickPeriod = 1
    PeerPeriod = 2
    MaxDelay = 2
    EstablishTimeout = 4
    RecvIdleTimeout = 4
    ShakeEvery = 3
SPECIFICATION FairSpec
INVARIANT TypeOK
INVARIANT HealthyGcsStaysUp
INVARIANT SilenceIsNoticed
PROPERTY DeadPeerGivenUp
CHECK_DEADLOCK FALSE
