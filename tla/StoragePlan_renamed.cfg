SPECIFICATION Spec
CONSTANTS
    HostSeq <- TwoHosts
    GroupOf <- OneGroup
    Boxes <- EqualBoxes
    Orders <- AllOrders
    Renames <- BothHosts
    Files <- AllFiles
    VgSize = 8
    ZfsDefault = 22
    CephMin = 5
    MaxFaults = 2
INVARIANTS OSKeptOnAnyBox
CHECK_DEADLOCK FALSE
