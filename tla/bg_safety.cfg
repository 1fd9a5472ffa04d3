SPECIFICATION Spec
CONSTANTS
    p1 = p1
    p2 = p2
    j1 = j1
    Null = Null
    Procs <- TwoProcs
    Jobs <- OneJob
    TTLs <- SomeTTL
    MaxRecoveryAttempts = 2
    LeaseTicks = 2
    MaxChunks = 1
    MaxCrashes = 2
    MaxFaults = 2
    Timely = TRUE
ACTION_CONSTRAINT Scene
INVARIANTS TypeOK NoLostWakeup CancelledBeforeClaimNeverStreams SettledJobIsReadable ExclusiveRun AttemptsDistinct
CHECK_DEADLOCK FALSE
