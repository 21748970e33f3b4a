SPECIFICATION Spec
CONSTANTS
    HostSeq <- TwoHosts
    GroupOf <- OneGroup
    Boxes <- SomeBoxes
    Orders <- SomeOrders
    Renames <- SecondHost
    Files <- AllFiles
    VgSize = 8
    ZfsDefault = 22
    CephMin = 5
    MaxFaults = 2
INVARIANTS OSKept AsApproved
PROPERTIES PoolKept ImplementsHandover
CHECK_DEADLOCK FALSE
