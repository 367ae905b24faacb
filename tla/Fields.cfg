SPECIFICATION Spec
CONSTANTS
    Nul = Nul
    NULL = NULL
    Chars <- Letters
    Sep = "c"
    Lines <- LinesUpToSeven
    Row = 3
    Col = 3
    MallocMayFail = TRUE
INVARIANTS
    WritesInBounds
    LinesBecomeWords
    OnlyBlanksLeak
CHECK_DEADLOCK FALSE
