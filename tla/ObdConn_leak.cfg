\* Close while the loop reconnects.
SPECIFICATION Spec
CONSTANTS
    t1 = t1
    t2 = t2
    Transport <- MCTransport
    None = None
    Pids = 1
    OpensFirst = TRUE
    ChannelSize = 1
    MaxChunk = 2
    MaxDrops = 2
    MaxFaults = 1
INVARIANTS
    CloseClosesDevice
CHECK_DEADLOCK FALSE
