\* Two workers and blocks of two messages, with failed writes, cancel and close at any time.
SPECIFICATION FairSpec
CONSTANTS
    MaxConnections = 2
    MaxWriteLines = 2
    MessageBufferSize = 2
    Filtered <- MCFiltered
    MaxFed = 5
    MaxFailedWrites = 1
INVARIANTS
    Conserved
    BatchesInOrder
PROPERTIES
    WaitDrains
    EveryMessageSettles
    ShutdownCompletes
CHECK_DEADLOCK FALSE
