\* Every kind of adapter and mode, three sessions, two commands answered too late.
SPECIFICATION Spec
CONSTANTS
    p1 = p1
    Bits <- MCBits
    FilterLists <- MCFilterLists
    ResponseIds <- MCResponseIds
    PIDs <- MCPIDs
    MaxSessions = 3
    MaxTimeouts = 2
    MaxWire = 2
INVARIANTS
    AnswersMatch
    
    StopLeavesQuiet
CHECK_DEADLOCK FALSE
