SPECIFICATION FairSpec
CONSTANTS
    Replicas = {s1, s2}
    Period = 2
    TTL = 5
    MaxScoring = 4
    MaxVersion = 2
    MaxFaults = 2
INVARIANTS OneScorerInv OneScorer ReadInTime
PROPERTIES ImplementsSingleScorer BoardsMoveForward BoardCatchesUp ScoringGoesOn
