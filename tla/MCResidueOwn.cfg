\* Refunds on all three sides: nothing to aggregate, and nothing proposed.
CONSTANTS
    Records = {1, 2, 3, 4, 5, 6}
    inside <- MCApart
    Wording = {}
    source <- MCSource
    entity_type <- MCRefunds
    currency <- MCCurrency
    Currency = {"INR", "USD"}
    MaxCandidates = 2
    MaxProposals = 0
SPECIFICATION Spec
INVARIANT UnresolvedHasOwnException
CHECK_DEADLOCK FALSE
