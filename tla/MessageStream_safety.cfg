SPECIFICATION Spec
CONSTANTS
    HeaderSize = 2
    IntMax = 3
    Lengths <- EdgeLengths
    RawLengths <- ForeignLengths
    RawSizes <- ForeignSizes
    MallocMayFail = TRUE
    NULL = NULL
    MaxRetry = 1
    CloseFirst = FALSE
    MaxMessages = 2
INVARIANTS
    OnlyForeignHeadersOverrun
    FramedMessagesAreIntact
    NeedIsACountInFrame
CHECK_DEADLOCK FALSE
