CONSTANTS
    p1 = p1
    p1b = p1b
    p2 = p2
    p2b = p2b
    p3 = p3
    Package = {p1, p1b, p2, p2b, p3}
    Dir <- MCDir
    EpochOf <- MCEpochOf
    PrevOf <- MCPrevOf
    RootsOf <- MCRootsOf
    EnvOf <- MCEnvOf
    UntilOf <- MCUntilOf
    None = None
    Applier = {a1, a2}
    MaxCrashes = 2
    MaxUpdates = 1
    MaxTime = 2
SPECIFICATION FairSpec
INVARIANTS Resumable AllOrNothing 
PROPERTIES  HighWaterForward Completes
CHECK_DEADLOCK FALSE
