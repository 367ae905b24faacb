SPECIFICATION FairSpec
CONSTANTS
    Names = {a, b}
    MaxSize = 4
    BufSize = 2
    IntMax = 3
    MaxChanges = 2
    MallocMayFail = TRUE
    CallsMayFail = TRUE
INVARIANTS
    StableRequestIsAnswered
    SuccessMeansDelivered
    OneSendSurvivesReset
PROPERTY RequestEnds
CHECK_DEADLOCK FALSE
