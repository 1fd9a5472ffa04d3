SPECIFICATION FairSpec
CONSTANTS
    Keys = {k1, k2}
    Primary = k1
    Fallback = {f1}
    Requests <- SomeRequests
    MaxSwitches = 2
    MaxFrames = 4
    MaxChunk = 2
    MaxFaults = 1
INVARIANTS OneAttemptIsStored RowTellsTheStory CallBudget
PROPERTY EveryCreateIsAnswered
CHECK_DEADLOCK FALSE
