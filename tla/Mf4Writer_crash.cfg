\* Three frames, two failed writes and a crash, at every point.
SPECIFICATION Spec
CONSTANTS
    Data <- MCData
    MaxCANDataLen = 2
    MaxFrames = 3
    MaxFaults = 2
INVARIANTS
    Recoverable
    FinalizedIsComplete
PROPERTIES
    ReadsStay
CHECK_DEADLOCK FALSE
