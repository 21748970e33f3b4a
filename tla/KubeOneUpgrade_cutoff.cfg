\* One master and one worker; two kills, two edits of general.yaml.
SPECIFICATION FairSpec
CONSTANTS
    Host = {"m", "w"}
    Master = {"m"}
    Version <- Released
    First <- Bootstrapped
    V1Minor = 4
    Commands = {"upgrade", "sync"}
    MayBeCutOff = TRUE
    MaxEdits = 2
    MaxFaults = 2

PROPERTIES SyncKeepsVersions
