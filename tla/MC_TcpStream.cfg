SPECIFICATION FairSpec
CONSTANTS
    Capacity = 3
    KernelCapacity = 2
    FrameSize = 2
    QueueCapacity = 1
    MaxFrames = 3
    MaxClients = 2
    MaxOthers = 2
    Stale = Stale
INVARIANTS StreamIntact
PROPERTIES AllAnswered
CHECK_DEADLOCK FALSE
