SPECIFICATION Spec
CONSTANTS
    EhSize = 52
    PhSize = 32
    ShSize = 40
    Word = 65536
    MaxRounds = 2
    Images <- MCImages
INVARIANTS NoOverlap Loadable RefusesOnlyOverlaps PassesValidation SavesAlike MembersFound
PROPERTY OrderingEnds
