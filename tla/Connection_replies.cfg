SPECIFICATION FairSpec
INVARIANTS
    TypeOK
    RepliesIntact
    OnlyUnsignalledWait
    KeptAlive
PROPERTIES
    RepliesAreWritten
    ReleasedWhenOver
CONSTANTS
    MaxCommands = 2
    SlowPeer = TRUE
