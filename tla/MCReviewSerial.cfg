CONSTANTS
    Groups = {g1, g2}
    Reviewers = {ann}
    Requests = {q1, q2, q3}
    Audits = {}
    Serialized = TRUE
SPECIFICATION Spec
CHECK_DEADLOCK FALSE
PROPERTIES
    ClosedStaysClosed
    ImplementsReviewLedger
