SPECIFICATION Spec
CONSTANTS
    c1 = c1
    c2 = c2
    c3 = c3
    g1 = g1
    Calls = {c1, c2, c3}
    Gateways = {g1}
    Resource = "project"
    Ops = {"create", "delete"}
    Plans = {"free", "pro"}
    InitialUsage = {1, 2}
    TTL = 3
    Timeout = 2
    MaxChanges = 1
    MaxTime = 6
CHECK_DEADLOCK FALSE
INVARIANTS
    CacheIsRecent
PROPERTY DecisionsAreRecent
SYMMETRY Symmetric
