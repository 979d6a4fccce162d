\* Three listeners, one of them with an "or" group, under the scheduler's fairness.
SPECIFICATION FairSpec
CONSTANTS
    can0 = can0
    can1 = can1
    csv = csv
    sd0 = sd0
    tap = tap
    NoFilter = NoFilter
    Conn <- MCConn
    Listener = {csv, sd0, tap}
    Filter <- MCFilterGroups
    MessageBufferSize = 1
    ReportThroughput = TRUE
    MaxSent = 1
    MaxRegistered = 3
INVARIANTS
    TypeOK
    Accounting
PROPERTIES
    ImplementsLossyFanout
    SlowListenersHoldNobodyUp
    CancelEndsBroadcast
CHECK_DEADLOCK FALSE
