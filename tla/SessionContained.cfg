SPECIFICATION Spec
CONSTANTS
    ControlCap = 2
    DataCap = 2
    SeqSpace = 3
    MaxControl = 3
    MaxData = 2
    Roles <- ServerRole
INVARIANTS
    SessionFailureIsContained
CHECK_DEADLOCK FALSE
