SPECIFICATION Spec
CONSTANTS
    Byte = {"a", "b"}
    Nul = Nul
    Junk = Junk
    NoData = NoData
    File <- MCFile
    Word = 8
    MaxSize = 3
    MaxRaw = 2
    MaxTroubles = 2
    Troubles = {"alloc", "resize", "short", "unread"}
INVARIANTS IInv
PROPERTIES ImplementsText FailedGrowthKeeps
CHECK_DEADLOCK FALSE
