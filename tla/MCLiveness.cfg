\* One bridge run, opposite lock orders of advance and decision, and an event stream over a reset.
SPECIFICATION MCSpec
CONSTANTS
    Workers = {w1}
    Pre <- MCOnePre
    Post <- MCOnePost
    Reassignable = {"plan"}
    MaxReassign = 1
    Outcomes = {"ok"}
    Variants = {"a"}
    MaxFaults = 0
    s1 = s1  s2 = s2  k1 = k1
    NoKey = NoKey
    Sessions <- MCSessions
    Requests <- MCRequests
    MaxSends = 5
    MaxGenerations = 2
    MaxApprovals = 1
    AfterSequences = {0, 3}
    PageSize = 2
    MaxEvents = 4
    MaxDrops = 1
PROPERTIES  CallsEnd EventsDelivered
CHECK_DEADLOCK FALSE
