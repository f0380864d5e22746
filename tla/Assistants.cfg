SPECIFICATION AssistantsSpec
CONSTANTS
    w1 = w1
    s1 = s1
    s2 = s2
    Flows <- OneFlow
    Picks <- AnyPicks
    Modules = {m1, m2}
    MaxEdits = 1
    None = None
    Setups <- TwoSetups
    Targets <- TwoTargets
    SetupRepos = {r1, r2}
    Identities = {i1, i2}
    NoAnswer = NoAnswer
SYMMETRY Symmetry
INVARIANT OfferedIsWritten
INVARIANT OwnManifestsWin
INVARIANT ReadyMeansConfigured
INVARIANT RolesHeldOrReported
PROPERTY UsersFilesKept
PROPERTY PromisesKept
CHECK_DEADLOCK FALSE
