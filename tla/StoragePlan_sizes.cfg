SPECIFICATION Spec
CONSTANTS
    HostSeq <- TwoHosts
    GroupOf <- OneGroup
    Boxes <- SomeBoxes
    Orders <- SomeOrders
    Renames <- SecondHost
    Files <- TopEdited
    VgSize = 8
    ZfsDefault = 22
    CephMin = 5
    MaxFaults = 2
INVARIANTS UpAsApproved
CHECK_DEADLOCK FALSE
