SPECIFICATION StartsFairSpec
CONSTANTS
    Names = {n1, n2}
    NoName = NoName
    Csrs = {c1, c2}
    NoCsr = NoCsr
    PromptWatch = TRUE
    PeriodicResync = TRUE
    MaxFaults = 1
    CheckApprovedCondition = TRUE
    MaxAdcsRequests = 3
    Verdicts = {"Issued", "Denied"}
    Refused = {c2}
    MaxSubmissions = 4
    Refs = {"adcs"}
    IssuerAtStart = {TRUE, FALSE}
    Optional = {"deny", "break"}
    MaxRequests = 2
PROPERTIES ApprovedIsAnswered DeniedIsMarked
CHECK_DEADLOCK FALSE
