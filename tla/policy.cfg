CONSTANTS
    Root = "r"
    Dir = {"d", "e"}
    File = {"f", "g"}
    Name = {"a", "b"}
    W32 = 14
    W64 = 24
    Now = 1000000
    DoubleBits = 13
    Users = {}
    Groups = {}
    Attrs = {0, 1, 2}
    MaxUpsets = 2
    Starts <- MCStarts
    Plans <- MCPlans
    Conditions <- MCConditions
    FileEntries <- MCFileEntries
    Triggers <- MCTriggers
    Contexts <- MCContexts
    ProviderLists <- MCProviderLists
    Deletes <- MCDeletes
SPECIFICATION Spec
CHECK_DEADLOCK FALSE
INVARIANTS
    RemovedSafely
    RulesApplied
    LoggedWhere
    ConfigAgrees
