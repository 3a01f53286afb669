SPECIFICATION Spec
CONSTANTS
    Bots = {b1, b2}
    NumOrders = 4
    TPS = 2
    Attempts = 1
    MaxCopies = 1
SYMMETRY Symmetry
INVARIANT WithinTargetTPS
CHECK_DEADLOCK FALSE
