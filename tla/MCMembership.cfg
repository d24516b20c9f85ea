CONSTANTS
    t1 = t1
    f = f
    Principal = {f, m, n}
    Tribe = {t1, t2}
    Declarer <- MCDeclarer
    Replica = {r1, r2}
    Follows <- MCFollows
    InviteId = {i1, i2}
    MaxLife = 1
    MaxStamp = 1
    MaxEpoch = 3
SYMMETRY Symmetry
SPECIFICATION MembershipSpec
INVARIANTS SplitNeedsEquivocation 
PROPERTIES EntrySpendsInvitation
CHECK_DEADLOCK FALSE
