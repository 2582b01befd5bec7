CONSTANTS
    Runs = {r1, r2}
    LastDay = 2
    MaxSeekers = 2
    Ceiling = 2
    Threshold = 2
SPECIFICATION Spec
CHECK_DEADLOCK FALSE
INVARIANTS
    RefusedRunIsDegraded
