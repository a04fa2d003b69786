SPECIFICATION Spec
CONSTANTS
    created = created
    updated = updated
    Durables = {"billing-meter"}
    Events = {created, updated}
    RequestId <- OwnIds
    Consumes = {created}
    MaxDeliver = 3
    Secrets = {1}
    MaxLog = 2
    MaxAge = 1
    MaxTime = 1
CHECK_DEADLOCK FALSE
PROPERTY ImplementsLedger
