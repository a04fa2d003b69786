SPECIFICATION Spec
CONSTANTS
    u1 = u1
    u2 = u2
    s1 = s1
    s2 = s2
    s3 = s3
    Users = {u1, u2}
    Slugs = {s1}
    Emails = {"e1"}
    Tasks = {1}
    Kinds <- RemoveKinds
    MaxDeliver = 1
    InitialOrganizations <- OneOrganization
    InitialMembers <- OneTenant
    FirstId = 6
    MaxId = 11
    MaxCommands = 0
CHECK_DEADLOCK FALSE
INVARIANT EveryOrganizationHasAnOwner
