SPECIFICATION FairSpec
CONSTANTS
    Names = {n1}
    NoName = NoName
    Csrs = {c1}
    NoCsr = NoCsr
    PromptWatch = TRUE
    PeriodicResync = FALSE
    MaxFaults = 1
    CheckApprovedCondition = FALSE
    MaxAdcsRequests = 1
    Verdicts = {"Issued","Denied"}
    Refused = {}
    MaxSubmissions = 4
    Refs = {"adcs"}
    IssuerAtStart = {TRUE}
    Optional = {"deny"}
    MaxRequests = 1
PROPERTY EveryRequestIsSettled
INVARIANTS OutcomesAgree AnswerIsFromAdcs
CHECK_DEADLOCK FALSE
