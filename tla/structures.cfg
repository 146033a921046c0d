CONSTANTS
    Elements = 7
    QueueChunk = 1
    PoolChunk = 1
    MaxFailures = 2
    Chains <- MCChains
    ChunkSize <- MCChunkSize
    Trees <- MCTrees
    RingSizes <- MCRingSizes
    VALUE = 2
    MaxErrors = 2
    Users = {"ringr", "tee", "chunks", "branch"}
    RingSize = 4
    Readers = {r1, r2, r3}
    MaxPushed = 9
SPECIFICATION Spec
CHECK_DEADLOCK FALSE
INVARIANTS
    ReaderShown
    IteratorsYieldAll
    BranchWhole
