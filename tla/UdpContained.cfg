SPECIFICATION Spec
CONSTANTS
    c1 = c1
    c2 = c2
    Ch <- TwoChannels
    Key <- Remotes
    MaxDatagrams = 3
    MaxReplies = 1
    ControlCap = 1
    DataCap = 1
    WireCap = 1
SYMMETRY Symmetric
INVARIANT UnreachableFailsItsChannelOnly
CHECK_DEADLOCK FALSE
