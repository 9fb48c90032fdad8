\* Two workers and two faults without reassignment; one worker, one fault and one reassignment.
SPECIFICATION ScenarioSpec
CONSTANTS
    w1 = w1
    w2 = w2
    Workers = {w1, w2}
    Pre <- MCOnePre
    Post <- MCOnePost
    Reassignable = {"plan", "verify"}
    MaxReassign = 1
    Outcomes = {"ok", "refused", "lost", "malformed"}
    Variants = {"a"}
    MaxFaults = 2
INVARIANTS ExecutionGranted ResultsBacked OneActiveAttempt
PROPERTIES NoLostUpdate
SYMMETRY Symmetry
CHECK_DEADLOCK FALSE
