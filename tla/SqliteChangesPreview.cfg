SPECIFICATION Spec
CONSTANTS
    name = name
    meta = meta
    a = a
    b = b
    Null = Null
    Absent = Absent
    Whole = Whole
    Gone = Gone
    RowIds = {1}
    Columns <- TwoColumns
    Fields <- TwoFields
    Requests <- TwoPaths
    Begins <- OneTable
    OtherRows <- AllRows
    MaxChanges = 1
    MaxForeign = 0
    MayFail = FALSE
PROPERTY PreviewIsApplied
CHECK_DEADLOCK FALSE
