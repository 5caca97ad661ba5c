SPECIFICATION Spec
CONSTANTS
    Names = {n1}
    NoName = NoName
    Csrs = {c1, c2}
    NoCsr = NoCsr
    PromptWatch = FALSE
    PeriodicResync = FALSE
    MaxFaults = 1
    CheckApprovedCondition = TRUE
    MaxAdcsRequests = 2
    Verdicts = {"Issued"}
    Refused = {}
    MaxSubmissions = 1
    Refs = {"adcs"}
    IssuerAtStart = {TRUE}
    Optional = {"delete"}
    MaxRequests = 2
INVARIANTS RecordedIdIsOwn SubmittedWasApproved CopiesAreHonest UnfinishedIsWatched
SYMMETRY CsrSymmetry
CHECK_DEADLOCK FALSE
