SPECIFICATION Spec
INVARIANTS
    TimestampsMeant
CONSTANTS
    MediaStreams = {4, 6}
    ControlStream = 2
    MediaKinds = {"audio"}
    ChunkSizes = {}
    Windows = {}
    Lengths = {1}
    ControlLength = 1
    StartTimes = {7}
    Deltas = {0, 1}
    MaxMessages = 4
    DefaultChunkSize = 2
    DefaultWindow = 20
    ExtendedMark = 100
    PeerEpoch = 0
    SplitChunks = FALSE
    ReuseFullDelta = FALSE
    HalfDivisor = 4
