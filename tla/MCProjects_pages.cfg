SPECIFICATION Spec
CONSTANTS
    o1 = o1
    o2 = o2
    s1 = s1
    s2 = s2
    s3 = s3
    t1 = t1
    t2 = t2
    Tasks = {t1, t2}
    Organizations = {o1, o2}
    Slugs = {s1, s2, s3}
    Limits = {1, 2}
    Millisecond = 2
    InitialTables <- Tables
    Start = 5
    MaxTime = 6
    MaxId = 5
    MaxCalls = 2
CHECK_DEADLOCK FALSE
INVARIANTS
    SlugsUnique
    PagesDescend
    OnlyTiesAreSkipped
PROPERTIES
    TenantIsolation
SYMMETRY Symmetric
