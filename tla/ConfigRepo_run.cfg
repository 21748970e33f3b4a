SPECIFICATION FairSpec
CONSTANTS
    Own = {"values", "sealed"}
    Foreign = {"other"}
    Callers = {"setup", "kubeone", "capi"}
    Modes = {"pr", "direct"}
    MergeKinds = {"merge"}
    MaxCommit = 3
    MaxWanted = 2
    MaxAttempts = 2
INVARIANT DoneMeansPublished
PROPERTIES PublishedTogether PromptEnds
