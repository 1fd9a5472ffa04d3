SPECIFICATION FairSpec
CONSTANTS
    p1 = p1
    p2 = p2
    j1 = j1
    Null = Null
    Procs <- OneProc
    Jobs <- OneJob
    TTLs <- NoTTL
    MaxRecoveryAttempts = 2
    LeaseTicks = 1
    MaxChunks = 1
    MaxCrashes = 2
    MaxFaults = 0
    Timely = TRUE
PROPERTIES ExhaustedIsReaped
CHECK_DEADLOCK FALSE
