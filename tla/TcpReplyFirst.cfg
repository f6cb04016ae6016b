SPECIFICATION Spec
CONSTANTS
    c1 = c1
    c2 = c2
    Ch <- OneChannel
    UpChunks = 1
    DownChunks = 1
    ControlCap = 4
    DataCap = 2
    WireCap = 1
INVARIANTS
    SocksReplyFirst
CHECK_DEADLOCK FALSE
