SPECIFICATION Spec
CONSTANTS
    n1 = n1  n2 = n2
    h1 = h1  h2 = h2  h3 = h3  h4 = h4
    out = out  NoName = NoName  NoFile = NoFile
    Clusters <- Names
    SpelledOut <- NoPaths
    Hosts <- TwoServers
    Answers <- VPNAnswers
    Switches <- SameType
    Replicas <- Single
    MaxSessions = 2
    MaxNew = 1
    MaxRedos = 1
SYMMETRY Symmetry2
INVARIANT SecretsKept
