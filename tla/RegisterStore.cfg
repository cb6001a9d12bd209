SPECIFICATION Spec
CONSTANTS
    Word = 64
    Byte = 16
    Programs <- RegisterStore
INVARIANT RegisterIsNoMemory
