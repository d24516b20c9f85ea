CONSTANTS
    e1 = e1
    e2 = e2
    e3 = e3
    k1 = k1
    a = a
    Envelope = {e1, e2, e3}
    NoMessage = NoMessage
    Key = {k1}
    Agent = {a}
    Consumer = {}
    KeyOf <- MCKeyOf
    To <- MCTo
    IssuedAt <- MCIssuedAt
    ExpiresAt <- MCExpiresAt
    KeyStamp <- MCKeyStamp
    KeyNotAfter <- MCKeyNotAfter
    MaxAttempts = 3
    RetryBase = 0
    RetryMax = 1
    MaxTtl = 6
    MaxClockSkew = 1
    LeaseTimes = {1}
    ClaimLimits = {1}
    RetainTimes = {0}
    MaxTime = 2
    ClientSkew = 0
    MaxLag = 0
    Me = a
    Worker = {w1, w2}
    ProcessingTimeout = 2
    PollLease = 1
    PollLimit = 1
    AuthTtl = 2
    MaxCrashes = 1
    MaxLosses = 1
    MaxStall = 2
    Chunks <- MCChunks
    MaxMirrorParts = 2
    Refused = {e3}
    MaxUpgrades = 1
SYMMETRY Symmetry
SPECIFICATION MirrorSpec
INVARIANTS CursorBehindChat ConfirmedOnce AcknowledgedIsWhole OneRendering
CHECK_DEADLOCK FALSE
