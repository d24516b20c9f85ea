CONSTANTS
    e1 = e1
    e2 = e2
    Envelope = {e1, e2}
    Endpoint = 2
    Process = {p1, p2}
    Ttl <- MCTtl
    Refused = {}
    Unrouted = {e2}
    MaxAttempts = 2
    RetryBase = 1
    RetryMax = 1
    LeaseMs = 1
    Limit = 2
    AuthTtl = 1
    MaxStall = 1
SPECIFICATION FairSpec
INVARIANTS SentWasAdmitted
PROPERTIES SettledIsFinal  StagedSettles
CHECK_DEADLOCK FALSE
