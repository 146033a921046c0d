SPECIFICATION Spec
CONSTANTS
    W32 = 14
    W64 = 20
    Now = 100000
    Delay = 4
    Users = {}
    Groups = {}
    MaxCategory = 3
    MaxSensitivity = 1
    Ids = {1, 2}
    AclPerms = {0, 4, 7}
    MaxSteps = 3
    MaxRetentionSteps = 6
    Subjects <- MCSubjects
    Levels <- MCLevels
    Components <- MCComponents
    Expirations <- MCExpirations
    Dates <- MCDates
    LustreTests <- MCLustreTests
    FsDefault <- MCFsDefault
INVARIANTS
    PredicatesAgree
    PairsFit
    RetentionHonoured
CHECK_DEADLOCK FALSE
