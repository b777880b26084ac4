SPECIFICATION Spec
CONSTANTS
    Clients = {c1, c2}
    Nobody = nobody
    MaxSessions = 1
    MaxGen = 1
    MaxThreads = 2
    MaxTurns = 1
    MaxCalls = 4
    PipeFills = FALSE
INVARIANT ConcurrentSessionsBounded
CHECK_DEADLOCK FALSE
