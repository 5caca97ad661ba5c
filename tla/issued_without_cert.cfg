SPECIFICATION Spec
CONSTANTS
    Names = {n1}
    NoName = NoName
    Csrs = {c1}
    NoCsr = NoCsr
    PromptWatch = TRUE
    PeriodicResync = FALSE
    MaxFaults = 0
    CheckApprovedCondition = TRUE
    MaxAdcsRequests = 2
    Verdicts = {"Issued", "Denied"}
    Refused = {}
    MaxSubmissions = 2
    Refs = {"adcs"}
    IssuerAtStart = {TRUE}
    Optional = {}
    MaxRequests = 1
INVARIANT IssuedHasCertificate
CHECK_DEADLOCK FALSE
