\* Two runs and a request commit stages of the scout; two steps fail, the process restarts.
SPECIFICATION ScenarioSpec
CONSTANTS
    r1 = r1  r2 = r2  t1 = t1
    Runs = {r1, r2}
    Clients = {t1}
    Agent = "scout"
    MaxCalls = 3
    MaxFailures = 2
    MaxCrashes = 1
INVARIANTS CompletedIsCommitted ReceiptsAnchored
PROPERTIES RunsHold
SYMMETRY Symmetry
CHECK_DEADLOCK FALSE
