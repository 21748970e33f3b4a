SPECIFICATION FairSpec
CONSTANTS
    App = {"sealed-secrets", "traefik", "netbird", "argocd", "velero"}
    Root = "root"
    Early <- ByName
    Steps <- Ordered
    Gated = {"traefik", "netbird"}
    SelfApp = "argocd"
    ByResource = {"velero"}
    MaxTransport = 1
    MaxRepo = 1
    MaxFaults = 1
INVARIANTS TypeOK GatesFirst DoneMeansSynced
PROPERTY GetsThrough
