SPECIFICATION FairSpec
CONSTANTS
    Secret = {"root", "netbird"}
    Topologies = {TRUE, FALSE}
    Lives = {TRUE, FALSE}
    MaxKey = 3
    MaxPlain = 1
    MaxFaults = 2
INVARIANTS TypeOK OneCanonicalKey DecryptableAtSync
PROPERTY Converges
