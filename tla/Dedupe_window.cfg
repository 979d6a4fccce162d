\* Two goroutines filter three contents through a window of two ticks.
SPECIFICATION Spec
CONSTANTS
    rpm = rpm
    rpm2 = rpm2
    door = door
    engine = engine
    body = body
    Caller = {influx, mqtt}
    Nobody = Nobody
    Msg = {rpm, rpm2, door}
    Key = {1, 2, 3}
    HashOf <- MCHashOf
    IdOf <- MCIdOf
    ids = {engine}
    timeout = 2
    MaxTime = 5
    MaxCalls = 4
INVARIANTS
    TypeOK
    OnePassPerWindow
    DropsOnlyDuplicates
    SweepLeavesTheFresh
CHECK_DEADLOCK FALSE
