SPECIFICATION FairSpec
CONSTANTS
    Host = {h1, h2}
    VpnServer = {s1, s2}
    Modes <- AllModes
    MaxFaults = 2
INVARIANTS
    TypeOK
    WiredWhenDone
    LiveNodesKept
PROPERTIES
    GetsThrough
CHECK_DEADLOCK FALSE
