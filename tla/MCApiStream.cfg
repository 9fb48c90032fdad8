\* Requests around an approval, a replan and the evidence gate, and a browser that follows them.
SPECIFICATION ScenarioSpec
CONSTANTS
    s1 = s1  s2 = s2  s3 = s3  k1 = k1
    NoKey = NoKey
    Sessions <- MCSessions
    Requests <- MCRequests
    MaxSends = 6
    MaxGenerations = 3
    MaxApprovals = 2
    AfterSequences = {0, 1, 3}
    PageSize = 2
    MaxEvents = 51
    MaxDrops = 1
INVARIANTS KeyedOnce AuditExplainsRows DeliveredInOrder
PROPERTIES ImplementsStream
SYMMETRY Symmetry
CHECK_DEADLOCK FALSE
