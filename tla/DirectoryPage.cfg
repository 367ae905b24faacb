SPECIFICATION Spec
CONSTANTS
    Dirs <- UpToFour
    Dots = {0}
    STEP = 2
    MallocMayFail = TRUE
INVARIANTS
    RowsInMemory
    PageIsTheDirectory
    PageOnlyLosesRows
CHECK_DEADLOCK FALSE
