CONSTANTS
    Runs = {r1, r2}
    LastDay = 2
    MaxSeekers = 3
    Ceiling = 3
    Threshold = 2
SPECIFICATION Spec
CHECK_DEADLOCK FALSE
SYMMETRY RunSymmetry
INVARIANTS
    TypeOK
    StatusAdmitsTrouble
    DegradedHasCause
    SameDayReportIsUpperBound
PROPERTIES
    ImplementsCallBudget
