CONSTANTS
    e1 = e1
    e2 = e2
    e3 = e3
    k1 = k1
    k2 = k2
    a = a
    b = b
    Envelope = {e1, e3}
    NoMessage = NoMessage
    Key = {k1, k2}
    Agent = {a, b}
    Consumer = {}
    KeyOf <- MCKeyOf
    To <- MCTo
    IssuedAt <- MCIssuedAt
    ExpiresAt <- MCExpiresAt
    KeyStamp <- MCKeyStamp
    KeyNotAfter <- MCKeyNotAfter
    MaxAttempts = 1
    RetryBase = 1
    RetryMax = 1
    MaxTtl = 4
    MaxClockSkew = 0
    LeaseTimes = {1}
    ClaimLimits = {1, 2}
    RetainTimes = {2}
    MaxTime = 3
    ClientSkew = 0
    MaxLag = 1
SPECIFICATION Spec
PROPERTIES RefinesContract OldestFirst
CHECK_DEADLOCK FALSE
