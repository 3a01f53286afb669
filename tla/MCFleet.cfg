SPECIFICATION FairSpec
CONSTANTS
    Bots = {b1, b2}
    NumOrders = 3
    TPS = 1
    Attempts = 2
    MaxCopies = 1
INVARIANTS  OneHand   
PROPERTIES  RestRunEnds 
CHECK_DEADLOCK FALSE
