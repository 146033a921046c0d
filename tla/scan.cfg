CONSTANTS
    Root = "r"
    Dir = {"d"}
    File = {"f", "g"}
    Name = {"a", "b"}
    NoId = "none"
    Outside = "out"
    SyncChunk = 3
    Settings <- MCSettings
    Trees <- MCTrees
    MaxUpsets = 2
    MaxGcs = 1
    MaxTime = 1
    Dealings <- MCDealings
    Hints <- MCHints
    Lengths <- MCLengths
    NameLists <- MCNameLists
    NamesLength = 16
    PairsCount = 2
    Answers <- MCAnswers
    TypeMaps <- MCTypeMaps
SPECIFICATION Spec
CHECK_DEADLOCK FALSE
INVARIANTS
    EntryWhole
    SyncedWhole
    CountsRight
    Collected
