SPECIFICATION DiskSpec
INVARIANTS
    DiskTypeOK
    RecordingIsWhole
    EveryMessageOnce
    RecordsAreKept
    FilesAreInOrder
    FiledByTime
    SizesAreBounded
PROPERTIES
    OnlySmallBackupsAreReplaced
SYMMETRY Symmetry
CONSTANTS
    Connections = {c1, c2, c3}
    StreamNames = {"camera", "desk"}
    MaxMessages = 3
    MaxRestarts = 2
    MaxPublishes = 2
    Sizes = {1, 2}
    RotationSize = 3
    HoursPerDay = 2
    LastHour = 3
    MaxRecords = 4
    MaxLogRestarts = 1
    MaxFailures = 1
