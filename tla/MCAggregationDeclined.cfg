\* The same ledgers.
CONSTANTS
    Inputs <- MCInputs
    MaxCandidates = 3
    MaxGroupSize = 2
    MinScoreMargin = 50
    ResidualTolerance = 325
SPECIFICATION Spec
INVARIANT DeclinedStaysOpen
CHECK_DEADLOCK FALSE
