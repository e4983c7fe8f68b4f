SPECIFICATION Spec
CONSTANTS
    Clients = {c1}
    Crashing = {c1}
    MaxEpoch = 2
    MaxRequests = 2
    LaterRequests = 1
    ClientCapacity = 1
    WireCapacity = 1
    SequencerCapacity = 1
    RequestCapacity = 1
    ResponseCapacity = 3
    Fills = TRUE
    MaxTime = 0
    MayStop = {"client", "exchange"}
    PeerFrames <- MCPeerFrames
    MaxPeerFrames = 2
INVARIANTS RequestsExactlyOnce ResponsesExactlyOnce CleanStop ShutdownAnswers
PROPERTIES SessionSurvives
CHECK_DEADLOCK FALSE
