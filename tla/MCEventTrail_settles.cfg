SPECIFICATION FairSpec
CONSTANTS
    created = created
    updated = updated
    Durables = {"audit-trail", "billing-meter"}
    Events = {created, updated}
    RequestId <- OwnIds
    Consumes = {created}
    MaxDeliver = 3
    Secrets = {1, 2}
    MaxLog = 1
    MaxAge = 1
    MaxTime = 1
CHECK_DEADLOCK FALSE
INVARIANTS
    TypeOK
    AckedMeansDone
PROPERTY EveryEventSettles
