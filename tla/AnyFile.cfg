SPECIFICATION Spec
CONSTANTS
    Word = 64
    Byte = 16
    Programs <- EveryFile
INVARIANTS
    EmittedInOrder
    PassesAgree
    RefusedBeforeBytes
    SpinsOnlyWhen
    TablesMatchText
    LaterKeepOrdinals
    NothingLost
    LoadReportsItsVariable
    OnlyTrailingSubsetsReadPastEnd
