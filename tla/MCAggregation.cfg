\* 480 small ledgers, at most three candidates in a window, in pairs.
CONSTANTS
    Inputs <- MCInputs
    MaxCandidates = 3
    MaxGroupSize = 2
    MinScoreMargin = 50
    ResidualTolerance = 325
SPECIFICATION Spec
INVARIANTS
    TypeOK
    OneGroupPerRecord
    NothingStrongIsDropped
    VerifiedMeansBanked
PROPERTIES
    NoDecoyTakenUp
    AcceptedBeatsEveryRival
    SearchAndVerifierAgree
    ImplementsAggregate
CHECK_DEADLOCK FALSE
