SPECIFICATION FairSpec
CONSTANTS
    Clients = {c1, c2}
    Nobody = nobody
    MaxSessions = 1
    MaxGen = 1
    MaxThreads = 1
    MaxTurns = 1
    MaxCalls = 1
    PipeFills = TRUE
PROPERTY EveryCallReturns
CHECK_DEADLOCK FALSE
