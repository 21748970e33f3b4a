SPECIFICATION FairSpec
CONSTANTS
    VpnKinds = {TRUE, FALSE}
    Commands <- Everywhere
    SkipMoves = {TRUE, FALSE}
    MaxTries = 2
    MaxFaults = 3
INVARIANTS ManagedWhenDone PublicThroughout
PROPERTIES ImplementsOwner DeletionEnds
