SPECIFICATION FairSpec
CONSTANTS
    p1 = p1
    p2 = p2
    j1 = j1
    Null = Null
    Procs <- TwoProcs
    Jobs <- OneJob
    TTLs <- NoTTL
    MaxRecoveryAttempts = 2
    LeaseTicks = 1
    MaxChunks = 0
    MaxCrashes = 1
    MaxFaults = 0
    Timely = TRUE
PROPERTIES ImplementsLifecycle EventuallySettles
CHECK_DEADLOCK FALSE
