SPECIFICATION FairSpec
CONSTANTS
    Kinds <- BareMetalOnly
    MaxFaults = 0
PROPERTY LockdownFailureContinues
