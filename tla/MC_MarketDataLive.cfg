SPECIFICATION FairSpec
CONSTANTS
    Streams <- MCStreamCancel
    MaxCycle = 2
    MaxFaults = 1
    FaultKinds = {"lose"}
    Window = 2
    CacheLimit = 8
    QueueCapacity = 8
    LocalOrders = 3
    MaxGeneration = 4
    OverlapSnapshots = TRUE
    NoBatch = NoBatch
PROPERTIES CatchesUp
CHECK_DEADLOCK FALSE
