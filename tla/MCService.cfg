CONSTANTS
    e1 = e1
    k1 = k1
    a = a
    Envelope = {e1}
    NoMessage = NoMessage
    Key = {k1}
    Agent = {a}
    Consumer = {}
    KeyOf <- MCKeyOf
    To <- MCTo
    IssuedAt <- MCIssuedAt
    ExpiresAt <- MCExpiresAt
    KeyStamp <- MCKeyStamp
    KeyNotAfter <- MCKeyNotAfter
    MaxAttempts = 1
    RetryBase = 1
    RetryMax = 1
    MaxTtl = 2
    MaxClockSkew = 0
    LeaseTimes = {1}
    ClaimLimits = {1}
    RetainTimes = {1}
    MaxTime = 2
    ClientSkew = 0
    MaxLag = 1
    Request = {q1, q2, q3, q4}
    NoRequest = NoRequest
    Thread = {w1, w2}
    AuthTtl = 1
    MaxBacks = 1
SYMMETRY Symmetry
SPECIFICATION ServiceSpec
INVARIANTS EffectOnce AdmittedOnce
PROPERTIES CutKeyStaysCut
CHECK_DEADLOCK FALSE
