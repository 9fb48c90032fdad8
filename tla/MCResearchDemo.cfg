CONSTANTS
    demo = demo
    DemoTasks <- MCDemoTasks
    LiveTasks <- MCLiveTasks
    LiveAgents <- MCNone
    LiveDigests <- MCNone
    LiveItems <- MCNone
    Bundles <- MCNone
    TTL = 2
    MaxTime = 2
    MaxVersion = 14
    MaxGeneration = 2
    MaxApprovals = 2
SPECIFICATION Spec
CHECK_DEADLOCK FALSE
INVARIANTS ExecutionAuthorized DecisionBacked MemoryBacked
PROPERTIES TransactionRules
