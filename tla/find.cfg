SPECIFICATION Spec
CONSTANTS
    W32 = 14
    W64 = 20
    Now = 300000
    MaxTested = 2
    MaxShort = 3
    MaxWords = 6
    Users <- MCUsers
    Groups <- MCGroups
    Backends <- MCBackends
    Tests <- MCTests
    ShortWords <- MCShortWords
    Words <- MCWords
INVARIANTS
    SelectsAsFind
    FieldsRead
    CheckedExecFresh
CHECK_DEADLOCK FALSE
