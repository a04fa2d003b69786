SPECIFICATION Spec
CONSTANTS
    Programs = {"gateway", "identity", "projects", "audit"}
    Builds <- TwoBuilds
    FirstBuild <- First
    USERS <- Credentials
    Shared = {"identity"}
    Waits = {2000, 30000}
    MaxSeed = 2
    MaxBoots = 2
INVARIANTS
    NothingIsRefused
    OnlyTheOwnerWorks
    CheckIsHonest
