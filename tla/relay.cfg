SPECIFICATION MCFairSpec
CONSTANTS
    keyA = keyA
    keyS = keyS
    reqA = reqA
    reqB = reqB
    Null = Null
    Saved <- AnySaved
    Keys = {keyA, keyS}
    Reqs <- TwoReqs
    Streams <- Second
    Main = {keyA}
    Spare = {keyS}
    Failover = TRUE
    Tier <- OneTier
    Backoff <- Steps
    BalanceTicks = 2
    RetryAfters = {0, 1}
    MaxWait = 1
    Deadline = 2
    MaxPrecommit = 2
    ChatTools = 2
    MaxChatEvents = 3
    Blocks = {0, 1, 2}
    MaxMessageEvents = 4
INVARIANTS HeldBytesStayHeld AnthropicWellFormed ToolCallsStayApart
PROPERTIES EveryRequestEnds
CHECK_DEADLOCK FALSE
