SPECIFICATION ProcessSpec
CONSTANTS
    Server = {s1}
    Conn = {c1}
    Nobody = Nobody
    Modes <- Command
PROPERTIES
    SocksStaysUp
CHECK_DEADLOCK FALSE
