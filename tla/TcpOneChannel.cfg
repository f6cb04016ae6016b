SPECIFICATION FairSpec
CONSTANTS
    c1 = c1
    c2 = c2
    Ch <- OneChannel
    UpChunks = 3
    DownChunks = 1
    ControlCap = 4
    DataCap = 1
    WireCap = 1
INVARIANTS
    TypeOK
    StreamsInOrder
    AuthGate
    ChannelErrorsAreRaces
PROPERTIES
    CloseReachesTarget
    CloseReachesApp
CHECK_DEADLOCK FALSE
