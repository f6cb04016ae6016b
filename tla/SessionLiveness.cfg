SPECIFICATION FairSpec
CONSTANTS
    ControlCap = 1
    DataCap = 1
    SeqSpace = 3
    MaxControl = 2
    MaxData = 1
    Roles <- ServerRole
PROPERTIES
    FailureEndsRun
    ServerLoopsEnd
    QueuedControlLeaves
CHECK_DEADLOCK FALSE
