SPECIFICATION FairSpec
CONSTANTS
    Tools = {1}
    Configs <- SomeConfigs
    MaxFrames = 4
    MaxQueue = 2
    MaxFaults = 1
INVARIANTS ItemLifecycle NoWhitewash
PROPERTIES ImplementsStream EveryStreamEnds
CHECK_DEADLOCK FALSE
