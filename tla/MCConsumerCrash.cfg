CONSTANTS
    e1 = e1
    e2 = e2
    e3 = e3
    k1 = k1
    k2 = k2
    a = a
    Envelope = {e1}
    NoMessage = NoMessage
    Key = {k1}
    Agent = {a}
    Consumer = {}
    KeyOf <- MCKeyOf
    To <- MCTo
    IssuedAt <- MCIssuedAt
    ExpiresAt <- MCExpiresAt
    KeyStamp <- MCKeyStamp
    KeyNotAfter <- MCKeyNotAfter
    MaxAttempts = 5
    RetryBase = 1
    RetryMax = 1
    MaxTtl = 8
    MaxClockSkew = 1
    LeaseTimes = {1}
    ClaimLimits = {1}
    RetainTimes = {}
    MaxTime = 6
    ClientSkew = 0
    MaxLag = 0
    Me = a
    Worker = {w1}
    ProcessingTimeout = 5
    PollLease = 1
    PollLimit = 2
    Doubtful = {}
    Elsewhere = {}
    AuthTtl = 2
    MaxCrashes = 1
    MaxLosses = 0
    MaxStall = 0
SPECIFICATION ConsumerSpec
INVARIANTS CrashedOwnerRecovered
CHECK_DEADLOCK FALSE
