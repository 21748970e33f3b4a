SPECIFICATION Spec
CONSTANTS
    Kinds <- AllKinds
    MaxFaults = 3
INVARIANT KeyBeforeLock
PROPERTY ClosedLast
