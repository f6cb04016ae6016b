SPECIFICATION Spec
CONSTANTS
    ControlCap = 2
    DataCap = 1
    SeqSpace = 3
    MaxControl = 3
    MaxData = 2
    Roles <- BothRoles
INVARIANTS
    TypeOK
    FramesAccounted
    ControlWaitsForOneDataFrame
    SeqUnique
    AtMostOneFrameAfterClose
    RunReturnsTheCause
CHECK_DEADLOCK FALSE
