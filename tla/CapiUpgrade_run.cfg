SPECIFICATION FairSpec
CONSTANTS
    Providers = {"aws", "hetzner"}
    NodeGroups <- OneGroup
    Version = {1, 2}
    Image = {"noble", "jammy"}
    First <- Bootstrapped
    Moves = {TRUE, FALSE}
    MaxEdits = 1
    MaxFaults = 2
INVARIANT DoneMeansRolling
PROPERTIES ControlPlaneFirst Settles
