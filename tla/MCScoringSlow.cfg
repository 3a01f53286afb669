SPECIFICATION Spec
CONSTANTS
    Replicas = {s1, s2, s3}
    Period = 2
    TTL = 5
    MaxScoring = 6
    MaxVersion = 2
    MaxFaults = 1
SYMMETRY Symmetry
INVARIANT OnlyOneReplicaScores
