SPECIFICATION Spec
INVARIANTS
    TimestampsExact
CONSTANTS
    MediaStreams = {4, 6}
    ControlStream = 2
    MediaKinds = {"audio"}
    ChunkSizes = {}
    Windows = {}
    Lengths = {1}
    ControlLength = 1
    StartTimes = {0}
    Deltas = {1, 7, 8}
    MaxMessages = 5
    DefaultChunkSize = 2
    DefaultWindow = 20
    ExtendedMark = 7
    PeerEpoch = 8
    SplitChunks = FALSE
    ReuseFullDelta = FALSE
    HalfDivisor = 8
