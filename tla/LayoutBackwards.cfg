SPECIFICATION Spec
CONSTANTS
    EhSize = 52
    PhSize = 32
    ShSize = 40
    Word = 65536
    MaxRounds = 1
    Images <- MCAnyImages
PROPERTY Forward
