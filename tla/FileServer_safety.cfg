SPECIFICATION Spec
CONSTANTS
    Clients = {c1, c2}
    Chunks = {h1, h2}
    Segments = 2
    MaxFd = 4
    Faults <- AllFaults
    None = None
SYMMETRY Symmetry
INVARIANTS
    HandleOwnership
    AnsweredOnce
    StatusTruthful
    AbandonedOnlyWhenPeerLeft
PROPERTIES
    ImplementsGatedService
    FailedStartIsFinal
CHECK_DEADLOCK FALSE
