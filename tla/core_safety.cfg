SPECIFICATION Spec
CONSTANTS
    Names = {n1}
    NoName = NoName
    Csrs = {c1}
    NoCsr = NoCsr
    PromptWatch = TRUE
    PeriodicResync = TRUE
    MaxFaults = 1
    CheckApprovedCondition = TRUE
    MaxAdcsRequests = 1
    Verdicts = {"Issued", "Denied", "Error"}
    Refused = {}
    MaxSubmissions = 2
    Refs = {"adcs", "unsupported", "foreign"}
    IssuerAtStart = {TRUE, FALSE}
    Optional = {"deny", "delete", "break"}
    MaxRequests = 1
INVARIANTS TypeOK IdsAreKnown OutcomesAgree ApprovedIsWatched DeniedIsNotIssued AnswerIsFromAdcs
PROPERTIES LifecycleSpec AnswersAreKept RejectionsAreKept
CHECK_DEADLOCK FALSE
