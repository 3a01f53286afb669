SPECIFICATION Spec
CONSTANTS
    u1 = u1
    u2 = u2
    u3 = u3
    s1 = s1
    s2 = s2
    p1 = p1
    Uploads = {u1, u2, u3}
    Submissions = {s1, s2}
    Ports = {p1}
    SubmissionOf <- TwoAndOne
    PortOf <- OnePort
    None = none
    MaxFaults = 1
SYMMETRY Symmetry
INVARIANTS SandboxInv 
PROPERTIES LoneUploadReachesItsCode FailuresAreExplained 
CHECK_DEADLOCK FALSE
