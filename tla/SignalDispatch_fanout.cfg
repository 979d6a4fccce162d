\* Two dispatchers over two outputs' shared channels.
SPECIFICATION FairSpec
CONSTANTS
    can0 = can0
    can1 = can1
    csv = csv
    mqtt = mqtt
    Dispatcher = {can0, can1}
    Output = {csv, mqtt}
    Parse <- MCParse
    Group <- MCGroup
    MessageBufferSize = 1
    MaxSent = 1
INVARIANTS
    Accounting
    ForwardsWhatItDecodes
PROPERTIES
    ImplementsLossyFanout
    CloseDrains
CHECK_DEADLOCK FALSE
