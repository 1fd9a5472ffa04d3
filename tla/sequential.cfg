SPECIFICATION MCSpec
CONSTANTS
    MaxInput = 6
    MaxEventBytes = 4
    Ids = {1, 2, 3}
    Turns <- SomeTurns
    DepthCap = 2
    ItemsCap = 4
    TokensCap = 5
    Calls = {1, 2}
    MaxTurnChunks = 3
    Indexes = {1, 2, 3}
    MaxRepeats = 1
    MaxCalls = 2
    MaxBackground = 2
    MaxTokens = 1
    MaxRounds = 1
    MaxChunks = 4
    MaxFaults = 1
INVARIANTS ChunksDoNotMatter ContextIsTheConversation ResponsesWellFormed 
CHECK_DEADLOCK FALSE
