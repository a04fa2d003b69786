SPECIFICATION Spec
CONSTANTS
    c1 = c1
    c2 = c2
    Calls = {c1, c2}
    RequestId <- SharedId
    Ops <- MutationOps
    Rule <- MCRule
    Inputs <- PlainBodies
    HandlerRefusals = {"CONFLICT"}
    Reads <- MCReads
    CLOCK_SKEW = 2
    MAX_TIMEOUT <- MCMaxTimeout
    MaxDrift = 0
    MaxDeliver = 1
    MaxAge = 7
    Secrets = {1}
    StartBy = 0
    MaxTime = 7
INVARIANT OkMeansRecorded
