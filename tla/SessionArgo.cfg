SPECIFICATION SessionArgoSpec
CONSTANTS
    MaxRuns = 2
    MaxGen = 3
    MaxChats = 1
    MaxLag = 1
    Kinds <- BothKinds
    Superseding = FALSE
    None = None
    c1 = c1
    c2 = c2
    Commands <- TwoCommands
    CommandKinds <- Pairs
    Clusters = {k1, k2}
    ArgoRepos = {r1, r2}
    Names <- OneName
    NameOf <- SameName
    MaxMoves = 1
    NoValue = NoValue
SYMMETRY Symmetry
INVARIANT PagesAgree
INVARIANT ConnectedIsRegistered
PROPERTY CommandsKeepPromise
CHECK_DEADLOCK FALSE
