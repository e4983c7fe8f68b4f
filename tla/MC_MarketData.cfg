SPECIFICATION Spec
CONSTANTS
    Streams <- MCStream
    MaxCycle = 2
    MaxFaults = 1
    FaultKinds = {"lose", "dup", "garble", "damage"}
    Window = 2
    CacheLimit = 6
    QueueCapacity = 6
    LocalOrders = 1
    MaxGeneration = 3
    OverlapSnapshots = FALSE
    NoBatch = NoBatch
INVARIANTS TypeOK TrustedBookIsTrue TrustedFeedIsGapless EngineNeverRejects NoRegress
CHECK_DEADLOCK FALSE
