SPECIFICATION FairSpec
CONSTANTS
    Clients = {c1, c2}
    Crashing = {}
    MaxEpoch = 1
    MaxRequests = 2
    LaterRequests = 1
    ClientCapacity = 1
    WireCapacity = 2
    SequencerCapacity = 2
    RequestCapacity = 1
    ResponseCapacity = 3
    Fills = TRUE
    MaxTime = 1
    MayStop = {}
    PeerFrames = {}
    MaxPeerFrames = 0
INVARIANTS TypeOK RequestsExactlyOnce PendingExact
PROPERTIES EventuallyAnswered
CHECK_DEADLOCK FALSE
