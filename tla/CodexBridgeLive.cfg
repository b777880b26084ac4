SPECIFICATION ReadingServerSpec
CONSTANTS
    Clients = {c1, c2}
    Nobody = nobody
    MaxSessions = 1
    MaxGen = 2
    MaxThreads = 1
    MaxTurns = 1
    MaxCalls = 2
    PipeFills = TRUE
PROPERTIES EveryCallReturns LostServersDie
CHECK_DEADLOCK FALSE
