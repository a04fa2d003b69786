SPECIFICATION FairSpec
CONSTANTS
    own = own
    other = other
    Organizations = {own, other}
    Others = {other}
    Columns = {"guest", "owner"}
    MaxAge = 1
    MaxTime = 1
    MaxChanges = 2
    Ids = {1, 2}
PROPERTIES
    RenderedIsAllowed
    EndedSessionsFade
    SameTenantNextTime
    MembershipsAreGuarded
    SignInGetsIn
    EveryNavigationEnds
