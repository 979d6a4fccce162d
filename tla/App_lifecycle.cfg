\* Three outputs, three interfaces, two of them with parsers, every choice of options.
SPECIFICATION FairSpec
CONSTANTS
    mf4 = mf4
    influx = influx
    prometheus = prometheus
    sim = sim
    playback = playback
    raw = raw
    Output = {mf4, influx, prometheus}
    Server = {prometheus}
    Pool = {influx}
    Interface = {sim, playback, raw}
    Parsed = {sim, playback}
    Endless = {sim, raw}
INVARIANTS
    ListenersAreServed
PROPERTIES
    WiredBeforeStart
    
CHECK_DEADLOCK FALSE
