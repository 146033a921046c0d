CONSTANTS
    Ids <- FourIds
    NbWorkers = 3
    Hash <- HashThree
    BatchSize = 3
    RecordKinds <- KindsThree
    MaxChangelog = 0
    ReaderResumes = FALSE
    MaxRecords = 2
    MaxRuns = 1
SPECIFICATION Spec
INVARIANTS AckSafe
CHECK_DEADLOCK FALSE
