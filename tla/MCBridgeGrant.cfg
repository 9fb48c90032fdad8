CONSTANTS
    w1 = w1
    w2 = w2
    Workers = {w1}
    Pre <- MCOnePre
    Post <- MCOnePost
    Reassignable = {"plan", "verify"}
    MaxReassign = 0
    Outcomes = {"ok"}
    Variants = {"a"}
    MaxFaults = 1
SPECIFICATION FairSpec
CHECK_DEADLOCK FALSE
PROPERTIES
    GrantRecovered
