SPECIFICATION Spec
CONSTANTS
    c1 = c1
    c2 = c2
    c3 = c3
    g1 = g1
    g2 = g2
    o1 = o1
    o2 = o2
    Calls = {c1, c2, c3}
    Organizations = {o1, o2}
    Gateways = {g1, g2}
    Stores = {"memory", "redis"}
    Max = 1
    Window = 3
    Second = 2
    MaxTime = 5
CHECK_DEADLOCK FALSE
INVARIANTS
    MaxPerWindow
    AtMostTwiceTheMaximum
    RefusalIsEarned
    PatienceIsRewarded
SYMMETRY Symmetric
