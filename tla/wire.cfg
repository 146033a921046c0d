SPECIFICATION Spec
CONSTANTS
    W32 = 17
    W64 = 19
    BUFSIZE = 300
    Events <- MCEvents
    HandWritten <- MCHandWritten
    Projections <- MCProjections
    MaxEvents = 4
CHECK_DEADLOCK FALSE
INVARIANTS
    YamlWhole
    ReadBack
    MemoryFits
