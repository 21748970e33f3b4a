SPECIFICATION FairSpec
CONSTANTS
    Providers = {"aws"}
    NodeGroups <- OneGroup
    Version = {1, 2}
    Image = {"noble", "jammy"}
    First <- Bootstrapped
    Moves = {TRUE}
    MaxEdits = 1
    MaxFaults = 1
PROPERTY UpgradesGetThrough
