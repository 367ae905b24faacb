SPECIFICATION FairSpec
CONSTANTS
    Conns = {c1, c2}
    Descriptors <- FourDescriptors
    Others <- SomeDescriptors
    Segments = 1
    Listens <- Anything
    MallocMayFail = TRUE
    NULL = NULL
INVARIANTS
    ClientsMatchDescriptors
    NobodyIsForgotten
    CloseComesAfterData
    StallsOnlyByClosing
PROPERTIES
    ImplementsConnectionLife
    EverythingIsTold
CHECK_DEADLOCK FALSE
