SPECIFICATION FairSpec
CONSTANTS
    VpnKinds = {FALSE}
    Commands <- Killed
    SkipMoves = {FALSE}
    MaxTries = 2
    MaxFaults = 1
PROPERTY Deleted
