SPECIFICATION FairSpec
CONSTANTS
    Pdb = {"argo1", "user1", "user2"}
    Argo = {"argo1"}
    NodeCounts = {1}
    MayBeCutOff = FALSE
    MaxCrash = 0
INVARIANT AllRestored
CHECK_DEADLOCK FALSE
