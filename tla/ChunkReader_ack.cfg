SPECIFICATION Spec
INVARIANTS
    EveryByteCounts
CONSTANTS
    MediaStreams = {4}
    ControlStream = 2
    MediaKinds = {"audio"}
    ChunkSizes = {}
    Windows = {}
    Lengths = {1}
    ControlLength = 1
    StartTimes = {0}
    Deltas = {0}
    MaxMessages = 2
    DefaultChunkSize = 2
    DefaultWindow = 16
    ExtendedMark = 100
    PeerEpoch = 0
    SplitChunks = TRUE
    ReuseFullDelta = FALSE
    HalfDivisor = 100
