SPECIFICATION Spec
CONSTANTS
    Word = 64
    Byte = 8
    Names = {"v"}
    Origin = 4
    MaxDecls = 4
    MaxCode = 3
INVARIANT AddressInAccordance
