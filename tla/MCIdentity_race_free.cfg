SPECIFICATION Spec
CONSTANTS
    u1 = u1
    u2 = u2
    s1 = s1
    s2 = s2
    s3 = s3
    Users = {u1, u2}
    Slugs = {s1}
    Emails = {"e1"}
    Tasks = {1, 2}
    Kinds <- RaceFreeKinds
    MaxDeliver = 2
    InitialOrganizations <- OneOrganization
    InitialMembers <- OneTenant
    FirstId = 6
    MaxId = 8
    MaxCommands = 1
CHECK_DEADLOCK FALSE
ACTION_CONSTRAINT AvoidsTheRaces
INVARIANTS
    EveryOrganizationHasAnOwner
    OnePendingInvitation
