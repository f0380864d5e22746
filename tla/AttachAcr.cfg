SPECIFICATION AttachSpec
CONSTANTS
    s1 = s1
    s2 = s2
    a1 = a1
    a2 = a2
    k1 = k1
    k2 = k2
    g = g
    p1 = p1
    p2 = p2
    Subscriptions = {s1, s2}
    Acrs = {a1, a2}
    Clusters = {k1, k2}
    Groups = {g}
    Principals = {p1, p2}
    HomeOf <- Homes
    Worlds <- OneWorld
    MaxHandled = 2
    Unset = Unset
INVARIANT OneRequestEach
INVARIANT AttachedMayPull
PROPERTY ListsSettle
CHECK_DEADLOCK FALSE
