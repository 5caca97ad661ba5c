SPECIFICATION TwoSpec
CONSTANTS
    Names = {n1}
    NoName = NoName
    Csrs = {c1}
    NoCsr = NoCsr
    PromptWatch = FALSE
    PeriodicResync = FALSE
    MaxFaults = 0
    CheckApprovedCondition = TRUE
    MaxAdcsRequests = 1
    Verdicts = {"Issued"}
    Refused = {}
    MaxSubmissions = 2
    Refs = {"adcs"}
    IssuerAtStart = {TRUE}
    Optional = {}
    MaxRequests = 1
INVARIANTS BothCopiesAreHonest BothIdsAreKnown AnswerIsFromAdcs
PROPERTIES AnswersAreKeptByBoth SharedLifecycle
CHECK_DEADLOCK FALSE
