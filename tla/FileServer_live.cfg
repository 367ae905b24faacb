SPECIFICATION FairSpec
CONSTANTS
    Clients = {c1, c2}
    Chunks = {h1, h2}
    Segments = 1
    MaxFd = 3
    Faults <- NoFaults
    None = None
PROPERTIES
    EveryRequestIsSettled
    ThreadsEnd
CHECK_DEADLOCK FALSE
