SPECIFICATION FairSpec
CONSTANTS
    Browsers = {b1, b2}
    Replicas = {l1}
    Buffer = 1
    Backlog = 2
    MaxVersion = 2
    MaxFaults = 1
INVARIANTS RegistryInv ClosedAreLeaving 
   
