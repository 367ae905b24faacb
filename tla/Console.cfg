SPECIFICATION FairConsoleSpec
CONSTANTS
    Nul = Nul
    Newline = Newline
    Characters <- Keys
    Space = " "
    Commands <- CommandNames
    Exit <- Out
    LineSize = 5
    MaxInput = 5
    FormatMayFail = TRUE
INVARIANTS
    TypedCommandsRun
    OutsideOnlyAtNul
PROPERTY EverythingIsRead
CHECK_DEADLOCK FALSE
