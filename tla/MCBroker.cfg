CONSTANTS
    e1 = e1
    e2 = e2
    e3 = e3
    k1 = k1
    k2 = k2
    a = a
    b = b
    Envelope = {e1, e2}
    NoMessage = NoMessage
    Key = {k1}
    Agent = {a}
    Consumer = {"c"}
    KeyOf <- MCKeyOf
    To <- MCTo
    IssuedAt <- MCIssuedAt
    ExpiresAt <- MCExpiresAt
    KeyStamp <- MCKeyStamp
    KeyNotAfter <- MCKeyNotAfter
    MaxAttempts = 2
    RetryBase = 1
    RetryMax = 1
    MaxTtl = 4
    MaxClockSkew = 1
    LeaseTimes = {1, 2}
    ClaimLimits = {1}
    RetainTimes = {1}
    MaxTime = 4
    ClientSkew = 1
    MaxLag = 1
SPECIFICATION FairSpec
INVARIANTS AttemptCap LeaseSpentOnce AcknowledgedHasProof CursorOnTerminal
PROPERTIES LiveLeaseKept DeliveryTerminates
CHECK_DEADLOCK FALSE
