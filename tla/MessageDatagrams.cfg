SPECIFICATION Spec
CONSTANTS
    HeaderSize = 2
    IntMax = 7
    Lengths <- SomeLengths
    RawLengths <- ForeignLengths
    MallocMayFail = TRUE
    NULL = NULL
    Remotes = {r1, r2}
    RawSizes <- ForeignSizes
    BufSize = 4
    MaxDatagrams = 2
    MaxMessages = 2
    MaxOverrun = 4
SYMMETRY Symmetry
INVARIANTS
    OnlyWrappedLengthsOverrun
    OnlyPartsAreMixed
    HeadersStartDatagrams
PROPERTIES
    WholeDatagramsComeOut
CHECK_DEADLOCK FALSE
