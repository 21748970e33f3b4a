SPECIFICATION FairSpec
CONSTANTS
    VpnKinds = {TRUE}
    Commands <- Rebuilding
    SkipMoves = {FALSE}
    MaxTries = 2
    MaxFaults = 0
INVARIANT SingleOwner
