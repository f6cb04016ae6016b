SPECIFICATION Spec
CONSTANTS
    c1 = c1
    c2 = c2
    Ch <- TwoChannels
    UpChunks = 1
    DownChunks = 0
    ControlCap = 2
    DataCap = 1
    WireCap = 1
SYMMETRY Symmetric
INVARIANTS
    AnswersAreTrue
    GaugeIsExact
    RelayConnsHaveCopiers
CHECK_DEADLOCK FALSE
