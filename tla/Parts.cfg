SPECIFICATION PartsSpec
CONSTANTS
    empty = empty
    small = small
    odd = odd
    large = large
    NoFrame = NoFrame
    Frames <- MCFrames
    Size <- MCSize
    Known <- MCKnown
    Capacity = 3
    MaxBytes = 4
    HeaderLen = 2
    MaxPayload = 2
    MaxTransit = 2
    Key = {k1, k2}
    Delay = {0, 1}
    MaxTime = 2
    MaxTasks = 2
    ID = {id1, id2}
    Sizes = {0, 4, 5}
    MaxChunk = 2
    MaxDatagrams = 3
    MaxFragments = 5
    Wrap = 8
    DeadlineMS = 3
    Skew <- MCSkew
    MaxNow = 17
    MaxAir = 1
    Target <- MCTarget
    Data <- MCData
    Dotted <- MCDotted
    MaxLocal = 2
    MaxReceived = 2
INVARIANTS
    TypeOK
    QueuedByteIsSum
    LiveSlotsExactly
    WholeFramesInOrder
    TasksAccounted
    Reassembles
    ExpiryIsAge
    AddressesAreKept
PROPERTIES
    ImplementsBoundedFIFO
    ImplementsFrameLink
    DueTasksFire
