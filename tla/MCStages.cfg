\* 2160 small ledgers of six records.
CONSTANTS
    Inputs <- MCInputs
    CounterpartySimilarity <- MCCounterpartySimilarity
    IdentifierSimilarity <- MCIdentifierSimilarity
    MinScoreMargin = 50
    ResidualTolerance = 325
SPECIFICATION Spec
INVARIANTS
    TypeOK
    OneGroupPerRecord
    Stage1PolicyMeansIdentifier
    OneEventPerGroup
PROPERTIES
    ImplementsGrouping
CHECK_DEADLOCK FALSE
