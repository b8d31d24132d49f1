SPECIFICATION Spec
INVARIANTS
    TypeOK
    InSync
    DeliveredInOrder
    AckWithinWindow
CONSTANTS
    MediaStreams = {4, 6}
    ControlStream = 2
    MediaKinds = {"audio"}
    ChunkSizes = {1}
    Windows = {5}
    Lengths = {0, 3}
    ControlLength = 1
    StartTimes = {0}
    Deltas = {0}
    MaxMessages = 3
    DefaultChunkSize = 2
    DefaultWindow = 20
    ExtendedMark = 100
    PeerEpoch = 0
    SplitChunks = TRUE
    ReuseFullDelta = FALSE
    HalfDivisor = 100
