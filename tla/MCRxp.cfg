\* Two processes and Grants that share an id; one process and the evidence of both cells.
SPECIFICATION ScenarioSpec
CONSTANTS
    Ledgers = {l1, l2}
    Matrices = {"m"}
    MatrixOf <- MCMatrixOf
    Cells = {"c1", "c2"}
    Plan <- MCPlan
    ArtifactTypes = {"log"}
    Intents <- MCIntents
    Grants <- MCGrants
    Receipts <- MCReceipts
    Evidence = {}
    CLOCK_SKEW = 1
    MAX_GRANT_TTL = 4
    MaxTime = 3
    NoDoc = NoDoc
INVARIANTS GrantSpentOnce DecisionJustified SnapshotVerifies
SYMMETRY Symmetry
CHECK_DEADLOCK FALSE
