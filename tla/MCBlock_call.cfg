SPECIFICATION FairSpec
CONSTANTS
    c1 = c1
    c2 = c2
    Calls = {c1}
    RequestId <- OwnIds
    Ops <- CallOps
    Rule <- MCRule
    Inputs <- Bodies
    HandlerRefusals = {"CONFLICT"}
    Reads <- MCReads
    CLOCK_SKEW = 2
    MAX_TIMEOUT <- MCMaxTimeout
    MaxDrift = 2
    MaxDeliver = 2
    MaxAge = 9
    Secrets = {1, 2}
    StartBy = 0
    MaxTime = 10
INVARIANTS
    TypeOK
    NoUnauthorisedWork
    OkMeansDone
    RefusalMeansNotDone
    RpcAtMostOnce
    EventsAreFacts
    NoLiveRequestExpires
PROPERTIES
    WorkStartsInTime
    ImplementsDispatch
    EveryDispatchAnswered
    AcceptedSettles
