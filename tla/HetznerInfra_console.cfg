SPECIFICATION AccidentSpec
CONSTANTS
    Host = {h1, h2}
    VpnServer = {s1, s2}
    Modes <- CloudModes
    MaxFaults = 2
INVARIANT WiredWhenDone
CHECK_DEADLOCK FALSE
