SPECIFICATION Spec
CONSTANTS
    Host = {h1, h2}
    VpnServer = {s1, s2}
    Modes <- AllModes
    MaxFaults = 2
INVARIANT LiveNodesNeverReset
CHECK_DEADLOCK FALSE
