SPECIFICATION FairSpec
CONSTANTS
    Pdb = {"argo1", "user1", "user2"}
    Argo = {"argo1"}
    NodeCounts = {1}
    MayBeCutOff = FALSE
    MaxCrash = 1
PROPERTY RerunsRestore
CHECK_DEADLOCK FALSE
