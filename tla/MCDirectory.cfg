CONSTANTS
    Holder = {h1}
    Threshold = 1
    MaxClockSkew = 1
    Validity = 2
    Window = 1
    Reader = {r1, r2}
    Updater = {i1, i2}
    Renewer = {i1, i2}
    MaxFiles = 4
    MaxTime = 1
SYMMETRY Symmetry
SPECIFICATION Spec
INVARIANTS OneChain OnlySignedAuthority
PROPERTIES NeverRollsBack
CHECK_DEADLOCK FALSE
