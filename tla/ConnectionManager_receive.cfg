\* Three connections, a log of one frame that starts over, a channel of one.
SPECIFICATION FairSpec
CONSTANTS
    made = made
    serial = serial
    bus = bus
    Conn <- MCConn
    Networks <- MCNetworks
    Configured <- MCConfigured
    Name <- MCName
    MaxEndings = 1
    Looped = {made}
    Entries = 1
    ChannelSize = 1
INVARIANTS
    IdsStayApart
PROPERTIES
    AllMeansAll
    CancelEndsLoops
    DiscontinueEndsLoops
CHECK_DEADLOCK FALSE
