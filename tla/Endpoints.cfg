SPECIFICATION Spec
CONSTANTS
    Descriptors <- FewDescriptors
    Clients = {c1, c2}
    Server = Server
    Point = Point
    Other = Other
    Free = Free
    MallocMayFail = TRUE
    NULL = NULL
SYMMETRY Symmetry
INVARIANTS
    HandlesAreOwn
    NothingIsForgotten
PROPERTY TwoWaysAstray
