CONSTANTS
    Key = {k1, k2, k3, k4}
    Value = {v1, v2}
    count = 3
    HashFns <- AllHashFns
    NoItem = NoItem
SPECIFICATION Spec
INVARIANTS TypeOK Probing
PROPERTIES IsMap PopReturns
