SPECIFICATION SettlingSpec
CONSTANTS
    Jobs <- TwoJobs
    wide = wide
    narrow = narrow
    blind = blind
    t1 = t1
    t2 = t2
    Accounts = {wide, narrow, blind}
    Tenants = {t1, t2}
    Sees <- MixedSees
    MaxEvents = 2
    Nil = Nil
    MaxRuns = 1
    MaxGen = 3
    MaxChats = 0
    MaxLag = 0
    Kinds <- OneKind
    Superseding = TRUE
    None = None
INVARIANT NoOneWaitsSignedIn
INVARIANT DeafOnlyInSession
INVARIANT StatusMatchesTenants
INVARIANT PanelSafe
PROPERTY SignInSettles
PROPERTY StoppedEndsUnseen
PROPERTY RunReachesPage
PROPERTY AttemptEndsOrParks
PROPERTY RetriesComeBack
CHECK_DEADLOCK FALSE
