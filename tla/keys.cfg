SPECIFICATION MCFairSpec
CONSTANTS
    Backoff <- MCBackoff
    BalanceTicks = 1
    RetryAfters <- MCRetryAfters
    PoolKeys <- MCKeySet
    Keys = {1, 2}
    Emulated = {"stateful"}
    Forwarded = {"web_search"}
    Hosted = {"mcp"}
    Requests <- MCRequests
    Reloaders <- MCReloaders
    MaxCalls = 1
    MaxReloads = 2
    MaxEdits = 1
    MaxFaults = 1
    r1 = r1
    l1 = l1
    l2 = l2
    Processes = {"p", "q"}
    Tasks = {1, 2, 3}
    Quota = 1
    Costs = {1}
    MaxTokens = 2
INVARIANTS TokensHold NoFakeCapability
PROPERTIES OutStaysOut SnapshotCatchesUp
CHECK_DEADLOCK FALSE
