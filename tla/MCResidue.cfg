\* One payment, three settlements and two bank credits, one in a currency of its own.
CONSTANTS
    Records = {1, 2, 3, 4, 5, 6}
    inside <- MCInside
    Wording = {4}
    source <- MCSource
    entity_type <- MCEntityType
    currency <- MCCurrency
    Currency = {"INR", "USD"}
    MaxCandidates = 2
    MaxProposals = 2
SPECIFICATION Spec
INVARIANTS
    TypeOK
    OneLiveGroupPerRecord
    CatchallIsLastResort
    LlmGroupsAwaitReview
    NoStaleStage6Exception
    EverySeekerAnswered
CHECK_DEADLOCK FALSE
