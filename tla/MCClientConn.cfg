CONSTANT MaxDials = 2
SPECIFICATION FairSpec
INVARIANT TypeOK
INVARIANT NoLeakedSocket
INVARIANT EstablishedMeansAcked
PROPERTY ImplementsSession
PROPERTY CloseNoticed
PROPERTY StopTerminates
CHECK_DEADLOCK FALSE
