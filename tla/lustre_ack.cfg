CONSTANTS
    Ids <- ThreeIds
    NbWorkers = 2
    Hash <- HashTwo
    BatchSize = 2
    RecordKinds <- Kinds
    MaxChangelog = 0
    ReaderResumes = FALSE
    MaxRecords = 3
    MaxRuns = 2
SPECIFICATION Spec
INVARIANTS TypeOK AckSafe
PROPERTIES LastReadForward
CHECK_DEADLOCK FALSE
