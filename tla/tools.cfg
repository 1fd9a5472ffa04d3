SPECIFICATION MCFairSpec
CONSTANTS
    a = a
    b = b
    other = other
    k1 = k1
    Calls = {a, b, other}
    RowOf <- MCRowOf
    KeyOf <- MCKeyOf
    DigestOf <- MCDigestOf
    Allowed = {a, b, other}
    NeedsApproval = {a, b}
    Stored = {a, other}
    Numbered = {a, b}
    NoKey = NoKey
    NoCall = NoCall
    MaxWaits = 1
    MaxDecisions = 2
    MaxExpiries = 1
    MaxFaults = 1
    r1 = r1
    r2 = r2
    r3 = r3
    s1 = s1
    key1 = key1
    key2 = key2
    Requests = {r1, r2, r3}
    Sessions = {s1}
    SessionOf <- MCSessionOf
    Pool <- MCPool
    MaxThreads = 1
    MaxAgents = 2
    MaxEvictions = 1
INVARIANTS AtMostOneExecution NothingRunsUnapproved WaitTellsTheTruth
PROPERTY NobodyWaitsForEver
CHECK_DEADLOCK FALSE
