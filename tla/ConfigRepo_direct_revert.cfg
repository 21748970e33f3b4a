SPECIFICATION FairSpec
CONSTANTS
    Own = {"values", "sealed"}
    Foreign = {"other"}
    Callers = {"setup"}
    Modes = {"direct"}
    MergeKinds = {"merge"}
    MaxCommit = 3
    MaxWanted = 2
    MaxAttempts = 2
PROPERTY ForeignNeverReverted
