SPECIFICATION Spec
CONSTANTS
    Clients = {c1, c2}
    Nobody = nobody
    MaxSessions = 1
    MaxGen = 2
    MaxThreads = 2
    MaxTurns = 2
    MaxCalls = 3
    PipeFills = FALSE
SYMMETRY Symmetric
INVARIANTS TypeOK SessionLimit RunningHasDriver WaiterHasSender OwnAnswer ActiveTurnRuns
PROPERTY StoppedStays
CHECK_DEADLOCK FALSE
