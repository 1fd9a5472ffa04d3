SPECIFICATION MCFairSpec
CONSTANTS
    b1 = b1  b2 = b2  s1 = s1
    Blocks <- MCBlocks
    Singles <- MCSingles
    Backends <- MCBackends
    PoolSize = 1
    MaxReaps = 1
    Dialects <- MCDialects
    Databases <- Supported
    MaxCrashes = 2
    Responses = {r1, r2}
    Batch = 1
    MaxFailures = 1
INVARIANTS ReaperSparesBorrowers TransactionIsAtomic StartIsSound SweepSparesTheLiving
PROPERTIES StorageWorkIsFinished
CHECK_DEADLOCK FALSE
