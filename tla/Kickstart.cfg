SPECIFICATION KickstartSpec
CONSTANTS
    Subs <- Two
    NRegions = 2
    Concurrency = 1
    MaxSuggested = 1
    MaxScans = 2
    NoChoice = NoChoice
    RoleNames <- MCRoles
    PermissionOf <- MCPermissions
    ClustersOf <- MCClusters
    ConnectedTo <- MCConnected
    NProviders = 1
    Worlds <- MCWorlds
    MaxEdits = 2
    MaxPreflights = 2
    MaxLag = 0
    Overlapping = FALSE
    Runs <- TwoRuns
    Wanted <- AllSelections
    MaxNames = 3
    Abandoning = TRUE
    None = None
INVARIANT GateSettles
INVARIANT ProceedMeansRegistered
INVARIANT RegistriesOfSelection
INVARIANT SuccessIsTruthful
INVARIANT AccessBeforeCluster
 
PROPERTY CancelledScanStops
CHECK_DEADLOCK FALSE
