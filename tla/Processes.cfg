SPECIFICATION ProcessSpec
CONSTANTS
    Server = {s1, s2}
    Conn = {c1}
    Nobody = Nobody
    Modes <- AllModes
INVARIANTS
    SocketIsTheServers
PROPERTIES
    InterruptEndsServer
    InterruptEndsClient
CHECK_DEADLOCK FALSE
