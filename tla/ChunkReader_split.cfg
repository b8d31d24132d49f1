SPECIFICATION Spec
INVARIANTS
    TimestampsMeant
CONSTANTS
    MediaStreams = {4}
    ControlStream = 2
    MediaKinds = {"audio"}
    ChunkSizes = {}
    Windows = {}
    Lengths = {2}
    ControlLength = 1
    StartTimes = {0}
    Deltas = {0, 1}
    MaxMessages = 3
    DefaultChunkSize = 2
    DefaultWindow = 20
    ExtendedMark = 100
    PeerEpoch = 0
    SplitChunks = TRUE
    ReuseFullDelta = FALSE
    HalfDivisor = 100
