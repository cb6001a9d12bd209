SPECIFICATION Spec
CONSTANTS
    FileLen = 3
    Files <- MCFiles
INVARIANTS TrueMeansWhole SegmentsArePrefix DamageSpreadsForward
