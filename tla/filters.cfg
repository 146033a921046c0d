SPECIFICATION Spec
CONSTANTS
    W32 = 5
    W64 = 6
    MaxNodes = 2
    Comparisons <- MCComparisons
    Operands <- MCOperands
    Entries <- MCEntries
INVARIANTS
    FiltersAgree
    CloneFits
CHECK_DEADLOCK FALSE
