SPECIFICATION Spec
CONSTANTS
    Replicas = {t1, t2}
    Partitions = {p1, p2}
    Nobody = nobody
    BatchSize = 2
    MaxLog = 2
    MaxFaults = 2
SYMMETRY Symmetry
INVARIANT NoOverlap
CHECK_DEADLOCK FALSE
