SPECIFICATION FairSpec
PROPERTIES
    EveryCommandAnswered
CONSTANTS
    MaxCommands = 2
    SlowPeer = FALSE
