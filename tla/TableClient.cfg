SPECIFICATION Spec
CONSTANTS
    Word = 32
    Byte = 8
    Names = {"v"}
    Origin = 4
    MaxDecls = 4
    MaxCode = 3
INVARIANTS
    IInv
    NoOverlap
    SizeLookup
    LagPerBlock
PROPERTIES
    AssignedOnce
    ImplementsLayout
