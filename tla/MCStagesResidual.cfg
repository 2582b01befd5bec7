\* The same ledgers.
CONSTANTS
    Inputs <- MCInputs
    CounterpartySimilarity <- MCCounterpartySimilarity
    IdentifierSimilarity <- MCIdentifierSimilarity
    MinScoreMargin = 50
    ResidualTolerance = 325
SPECIFICATION Spec
INVARIANT ResidualCeilingHolds
CHECK_DEADLOCK FALSE
