SPECIFICATION EitherSpec
CONSTANTS
    c1 = c1
    c2 = c2
    Ch <- TwoChannels
    Key <- Remotes
    MaxDatagrams = 3
    MaxReplies = 1
    ControlCap = 1
    DataCap = 1
    WireCap = 1
    t1 = t1
    t2 = t2
    n1 = n1
    n2 = n2
    cmd1 = cmd1
    cmd2 = cmd2
    Token <- MCToken
    Nonce <- MCNonce
    Cmd <- MCCmd
    TTL <- MCTTL
    MaxTime = 3
    MaxCommands = 3
    MaxStarts = 2
    MaxSessions = 3
SYMMETRY EitherSymmetric
INVARIANTS
    DatagramsReachTheirRemote
    RepliesAreLabelled
    CachedChannelsWereOpened
    DatagramErrorsAreOfOpenedChannels
    StoreTypeOK
    NonceOnce
    RevocationSurvivesRestart
    FileKeepsWhatWasReported
CHECK_DEADLOCK FALSE
