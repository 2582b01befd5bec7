CONSTANTS
    Groups = {g1, g2}
    Reviewers = {ann, bob}
    Requests = {q1, q2, q3}
    Audits = {a1}
    Serialized = FALSE
SPECIFICATION Spec
SYMMETRY Symmetric
CHECK_DEADLOCK FALSE
INVARIANTS
    TypeOK
    TrailExplainsRow
    SystemVerdictsStand
    AnswersMatchTrail
    AuditedDecisionsAreApplied
