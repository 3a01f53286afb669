SPECIFICATION Spec
CONSTANTS
    Replicas = {t1, t2}
    Partitions = {p1, p2}
    Nobody = nobody
    BatchSize = 2
    MaxLog = 2
    MaxFaults = 2
SYMMETRY Symmetry
INVARIANTS NoLossInv CommittedIsStored CopiesInv CopiesBounded FirstCrashRereadsABatch RefusedBlocks
PROPERTY ImplementsIngestion
CHECK_DEADLOCK FALSE
