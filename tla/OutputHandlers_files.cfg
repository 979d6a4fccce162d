\* Every kind of output, three messages of two pieces, a buffer of three, two starts.
SPECIFICATION FairSpec
CONSTANTS
    MaxMessages = 3
    ChannelSize = 2
    Pieces = 2
    Capacity = 3
    Rejects <- MCRejects
    MaxSessions = 2
INVARIANTS
    FileReadsBack
PROPERTIES
    EveryMessageSettles
CHECK_DEADLOCK FALSE
