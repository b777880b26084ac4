SPECIFICATION FairSpec
CONSTANTS
    Procs = {p1, p2}
    MayLeaveChildren = TRUE
    None = None
INVARIANTS TypeOK VerdictAfterOutput
PROPERTIES ImplementsLifecycle FinishedProcessDies FinishesUnlessHeld
CHECK_DEADLOCK FALSE
