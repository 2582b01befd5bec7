CONSTANTS
    Groups = {g1, g2}
    Reviewers = {ann, bob}
    Requests = {q1, q2}
    Audits = {a1}
    Serialized = FALSE
SPECIFICATION Spec
CHECK_DEADLOCK FALSE
PROPERTIES
    ClosedStaysClosed
