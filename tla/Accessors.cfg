SPECIFICATION AccessorSpec
CONSTANTS
    Names <- MCNames
    Nul = "nul"
    Tables = {t1, t2}
    Types = {"PC32"}
    Addends = {7}
    Hash <- MCHash
    Buckets = 2
    HashKinds = {"sysv", "gnu"}
    SymLimit = 5
    MaxSyms = 3
    MaxRelocs = 1
    Accessors = {a1, a2}
    Values = {1, 2}
    Strs = {"s", "t"}
    MaxEntries = 4
    NameSizes = {1, 4, 5}
    DescSizes = {0, 3}
    Fillers = {0, 4}
    NoteTypes = {1}
    Loaded <- MCLoaded
    MaxWords = 13
    MaxText = 1
    MaxAttributes = 4
    Letters = {"a"}
    Eq = "="
SYMMETRY Symmetry
INVARIANTS ArrangeKeeps LookupsAgree DynamicReadsAsAdded NotesAreWhole ModinfoTextMatches
CHECK_DEADLOCK FALSE
