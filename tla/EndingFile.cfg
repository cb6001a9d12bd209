SPECIFICATION Spec
CONSTANTS
    Word = 64
    Byte = 8
    Programs <- EndingFile
PROPERTY Settles
