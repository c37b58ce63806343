CONSTANTS
    Base = 2
    LengthBytes = 3
    UriBytes = 1
    SeqBytes = 2
    MaxFrameSize = 4
    Messages <- SomeMessages
    MaxFrames = 3
SPECIFICATION FairSpec
INVARIANT TypeOK
INVARIANT NothingLeftBehind
INVARIANT Aligned
PROPERTY ImplementsChannel
PROPERTY EverythingArrives
CHECK_DEADLOCK FALSE
