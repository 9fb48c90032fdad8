CONSTANTS
    live = live
    runner = runner
    judge = judge
    DemoTasks <- MCNone
    LiveTasks <- MCLiveTasks
    LiveAgents <- MCAgents
    LiveDigests <- MCDigests
    LiveItems <- MCItems
    Bundles <- MCBundles
    TTL = 2
    MaxTime = 2
    MaxVersion = 22
    MaxGeneration = 2
    MaxApprovals = 2
SPECIFICATION Spec
CHECK_DEADLOCK FALSE
INVARIANTS LiveDecisionReviewed FinalizeNeverBlocked
