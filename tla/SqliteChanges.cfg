SPECIFICATION Spec
CONSTANTS
    name = name
    meta = meta
    a = a
    b = b
    Null = Null
    Absent = Absent
    Whole = Whole
    Gone = Gone
    RowIds = {1, 2, 3}
    Columns <- TwoColumns
    Fields <- TwoFields
    Requests <- AllRequests
    Begins <- AllTables
    OtherRows <- AllRows
    MaxChanges = 2
    MaxForeign = 1
    MayFail = TRUE
INVARIANT TypeOK
PROPERTIES ImplementsTwoPhase CommitGuarded PreviewBorneOut
CHECK_DEADLOCK FALSE
