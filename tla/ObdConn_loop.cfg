\* Any mode, with link drops, faults, Close and cancel at any time.
SPECIFICATION FairSpec
CONSTANTS
    t1 = t1
    t2 = t2
    Transport <- MCTransport
    None = None
    Pids = 1
    OpensFirst = TRUE
    ChannelSize = 1
    MaxChunk = 2
    MaxDrops = 2
    MaxFaults = 1
INVARIANTS
    TypeOK
    OneOpenTransport
    EndsOnlyWhenAsked
    StopBoundsReconnects
PROPERTIES
    CloseEndsReceive
    ContextEndsPolling
    LinkLossIsTransient
CHECK_DEADLOCK FALSE
