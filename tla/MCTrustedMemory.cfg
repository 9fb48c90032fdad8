\* One lineage with every record and the verifying walk; two lineages and one closure.
SPECIFICATION ScenarioSpec
CONSTANTS
    s1 = s1  s2 = s2  k1 = k1  k2 = k2
    Sessions <- MCSessions
    Lineages = {1, 2}
    Contents = {1, 2}
    Candidates = {1}
    Verified = {1}
    Closures = {"one", "both"}
    VerifiedFacts <- OneAndBoth
    Keys <- MCKeys
    Transitions <- ExpireOrPromote
    MaxHistory = 3
    PageSize = 1
INVARIANTS CurrentIsRebuilt ClosureIsWhole
SYMMETRY Symmetry
CHECK_DEADLOCK FALSE
