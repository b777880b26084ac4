SPECIFICATION Spec
CONSTANTS
    Clients = {c1, c2}
    f1 = f1
    f2 = f2
    a = a
    b = b
    Newline = Newline
    Missing = Missing
    Tokens <- AllTokens
    Files <- TwoFiles
    Batches <- AllBatches
    Drafts <- TwoTexts
    Profiles = {"legacy", "coding"}
    AccessMode = "coding"
    MaxBatches = 2
    MaxForeign = 1
    MayFail = TRUE
INVARIANTS TypeOK UndisturbedIsSerial PreviewPredicts
PROPERTY ImplementsTwoPhase
SYMMETRY Symmetric
CHECK_DEADLOCK FALSE
