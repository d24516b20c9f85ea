CONSTANTS
    ann = ann
    bob = bob
    grp = grp
    Agent = {ann, bob}
    Group = {grp}
    Members <- MCMembers
    First <- MCFirst
    Validity = 5
    Drain = 1
    MaxLife = 1
    Activations = {1, 2}
    Operator = {p1, p2}
    MaxPrepares = 2
    MaxDirs = 3
    MaxCrashes = 1
    MaxTime = 2
SYMMETRY Symmetry
SPECIFICATION Spec
INVARIANT RecoveryStrandsNobody
CHECK_DEADLOCK FALSE
