SPECIFICATION Spec
CONSTANTS
    Alphabet = {"x", "1", "n", " ", ";", "!", ".", "["}
    MaxSize = 5
    Behind = {"0", "n"}
    Columns = 4
    Tokens <- Words
    MaxLine = 6
INVARIANTS CheckLooksAtLines LineIsRight FruitlessIsHarmless NoDeclarationMissed
PROPERTIES CheckEnds NoCallSlipsBack
CHECK_DEADLOCK FALSE
