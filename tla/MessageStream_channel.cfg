SPECIFICATION FairSpec
CONSTANTS
    HeaderSize = 2
    IntMax = 7
    Lengths <- ShortLengths
    RawLengths <- AnyLengths
    RawSizes = {}
    MallocMayFail = FALSE
    NULL = NULL
    MaxRetry = 1
    CloseFirst = TRUE
    MaxMessages = 3
INVARIANTS
    ClosedFirstStaysInFrame
PROPERTIES
    ImplementsMessageChannel
    EveryMessageComesOut
CHECK_DEADLOCK FALSE
