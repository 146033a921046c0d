SPECIFICATION Spec
CONSTANTS
    File = {f1, f2}
    Dir = {d1, d2}
    Name = {n1}
    PoolSize = 2
    MaxRecords = 3
    Relink = FALSE
    DeleteMoved = FALSE
INVARIANTS TypeOK PoolConsistent NamesMirrored AttributesMirrored ChildrenCounted
PROPERTIES CatchesUp
CHECK_DEADLOCK FALSE
