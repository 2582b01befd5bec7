\* Two runs of two seekers each, a ceiling of three, one midnight.  Without
\* symmetry, which liveness properties do not admit.
CONSTANTS
    Runs = {r1, r2}
    NoRun = NoRun
    LastDay = 2
    MaxAsks = 2
    Ceiling = 3
    Threshold = 2
SPECIFICATION FairSpec
CHECK_DEADLOCK FALSE
INVARIANTS
    TypeOK
    CeilingHolds
    CountIsExact
    SpillOverMidnightBounded
    BreakerReflectsOutcomes
    OpenBreakerMakesNoCall
PROPERTIES
    ImplementsCallBudget
    LockIsReleased
    EveryRunEnds
