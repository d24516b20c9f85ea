CONSTANTS
    e1 = e1
    e2 = e2
    e3 = e3
    k1 = k1
    k2 = k2
    a = a
    Envelope = {e1, e2, e3}
    NoMessage = NoMessage
    Key = {k1, k2}
    Agent = {a}
    Consumer = {}
    KeyOf <- MCKeyOf
    To <- MCTo
    IssuedAt <- MCIssuedAt
    ExpiresAt <- MCExpiresAt
    KeyStamp <- MCKeyStamp
    KeyNotAfter <- MCKeyNotAfter
    MaxAttempts = 2
    RetryBase = 1
    RetryMax = 1
    MaxTtl = 5
    MaxClockSkew = 1
    LeaseTimes = {1}
    ClaimLimits = {1}
    RetainTimes = {}
    MaxTime = 2
    ClientSkew = 0
    MaxLag = 0
    Me = a
    Worker = {w1, w2}
    ProcessingTimeout = 2
    PollLease = 1
    PollLimit = 2
    Doubtful = {e1}
    Elsewhere = {e1, e3}
    AuthTtl = 2
    MaxCrashes = 1
    MaxLosses = 1
    MaxStall = 2
SYMMETRY Symmetry
SPECIFICATION ConsumerSpec
INVARIANTS OneEffectPerKey 
PROPERTIES ProcessedIsFinal
CHECK_DEADLOCK FALSE
