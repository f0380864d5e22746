SPECIFICATION ArgoSpec
CONSTANTS
    c1 = c1
    c2 = c2
    Commands <- TwoCommands
    CommandKinds <- Pairs
    Clusters = {k1, k2}
    ArgoRepos = {r1, r2}
    Names <- OneName
    NameOf <- SameName
    MaxMoves = 1
    NoValue = NoValue
SYMMETRY Symmetry
INVARIANT ConfirmedIsChanged
CHECK_DEADLOCK FALSE
