SPECIFICATION Spec
CONSTANTS
    c1 = c1
    c2 = c2
    Ch <- OneChannel
    UpChunks = 3
    DownChunks = 0
    ControlCap = 4
    DataCap = 1
    WireCap = 1
INVARIANTS
    NoHoleInStream
CHECK_DEADLOCK FALSE
