SPECIFICATION FairSpec
CONSTANTS
    Replicas = {t1, t2}
    Partitions = {p1}
    Nobody = nobody
    BatchSize = 2
    MaxLog = 3
    MaxFaults = 2
PROPERTIES EventuallyStored BatchesDrain
CHECK_DEADLOCK FALSE
