SPECIFICATION FairSpec
CONSTANTS
    r1 = r1
    r2 = r2
    r3 = r3
    r4 = r4
    g = g
    m = m
    Null = Null
    Reqs <- FourReqs
    Pools <- TwoPools
    Chain <- LayeredChain
    Size <- TwoSlots
    Timeout = 1
    MaxCancels = 1
INVARIANTS SlotsConserved NoStrandedSlot
PROPERTIES EveryoneLeaves
CHECK_DEADLOCK FALSE
