SPECIFICATION FairSpec
CONSTANTS
    NKeys = 1
    NIndexes = 4
    Ledgers <- MCLedgers
    Setups <- MCSetups
    ChunkSize = 3
    PageLimit = 1
    Fees = {3}
    None = None
    MaxFaults = 1
    BatchSize = 2
    MaxBatch = 4
INVARIANTS
    OneAtATime
PROPERTIES
    FindsInReach
    AgainFindsMore
    WorkEnds
CHECK_DEADLOCK FALSE
