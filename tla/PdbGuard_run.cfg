SPECIFICATION FairSpec
CONSTANTS
    Pdb = {"argo1", "user1", "user2", "user3"}
    Argo = {"argo1"}
    NodeCounts = {1, 3}
    MayBeCutOff = TRUE
    MaxCrash = 1
INVARIANT RestoredWhenDone
PROPERTIES DownOnlyWhileDraining DrainEnds
CHECK_DEADLOCK FALSE
