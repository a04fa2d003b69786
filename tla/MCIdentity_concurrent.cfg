SPECIFICATION Spec
CONSTANTS
    u1 = u1
    u2 = u2
    s1 = s1
    s2 = s2
    s3 = s3
    Users = {u1, u2}
    Slugs = {s2, s3}
    Emails = {"e1"}
    Tasks = {1, 2}
    Kinds <- ConcurrentKinds
    MaxDeliver = 1
    InitialOrganizations <- TwoOrganizations
    InitialMembers <- TwoTenants
    FirstId = 6
    MaxId = 8
    MaxCommands = 0
CHECK_DEADLOCK FALSE
INVARIANTS
    SlugsUnique
    MembersBelong
PROPERTIES
    TenantIsolation
    LeavingRemovesOnlyOneself
