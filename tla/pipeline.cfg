CONSTANTS
    NbWorkers = 2
    SinkErrno = {"error"}
    MaxBatches = 2
SPECIFICATION Spec
INVARIANTS TypeOK SuccessMeansAll AckedInOrder
PROPERTIES WorkIsTaken ThreadsEnd
