\* The components beside the control plane, one at a time.
SPECIFICATION MCSpec
CONSTANTS
    Missing = Missing  Raised = Raised  c1 = c1  c2 = c2
    \* The channel.
    Threads = {"t1", "t2", "t3"}
    Frames <- MCFrames
    MaxDeliveries = 5
    MaxRoutes = 3
    \* The effects.
    Slots = {1, 2}
    Effects <- MCEffects
    Enforcements = {"ENFORCING"}
    Retired = {"RETIRED_RULE"}
    MaxSequence = 2
    \* The status.
    Nodes = {"task", "child", "deep"}
    Current = "task"
    Children = {"child"}
    Judgements <- MCJudgements
    MaxEvents = 2
    \* The GPU server.
    Servers = {"s1", "s2"}
    Callers = {c1, c2}
    Requests <- MCRequests
    Configs = {"v1", "v2"}
    Jtis = {"j1"}
    Ttl = 1
    MaxTime = 1
    MaxCrashes = 1
    MaxProcesses = 3
    \* The quota.
    Contexts <- MCContexts
    Documents <- MCDocuments
    TurnCap = 2
    ProblemCap = 3
    CampaignCap = 3
    BurstCap = 1
    BurstTime = 1
    RollingCap = 2
    RollingTime = 3
    QueueDepth = 1
    MaxReading = 2
    \* The datasets.
    Names = {1, 2}
    Contents = {"x", "y"}
    Versions = {"v1", "v2"}
    MaxCalls = 2
    MaxWrites = 1
    MaxFaults = 1
    \* The workspace.
    Editors = {c1, c2}
    Paths = {"file", "free", "backup", "spare"}
    Texts = {"old", "new"}
    Files <- MCFiles
    Edits <- MCEdits
    Permitted <- MCPermitted
    MaxEdits = 3
    MaxFailures = 3
INVARIANTS OneReceipt EffectsGoverned UserIsTold LaunchesBacked QuotaKept
PROPERTIES WorkspaceKept DriftDetected
CHECK_DEADLOCK FALSE
