SPECIFICATION Spec
CONSTANTS
    Names = {n1}
    NoName = NoName
    Csrs = {c1, c2}
    NoCsr = NoCsr
    PromptWatch = TRUE
    PeriodicResync = FALSE
    MaxFaults = 0
    CheckApprovedCondition = TRUE
    MaxAdcsRequests = 2
    Verdicts = {"Issued", "Denied"}
    Refused = {}
    MaxSubmissions = 2
    Refs = {"adcs"}
    IssuerAtStart = {TRUE}
    Optional = {"delete"}
    MaxRequests = 2
INVARIANT IssuedForOwnRequest
CHECK_DEADLOCK FALSE
