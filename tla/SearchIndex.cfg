SPECIFICATION Spec
CONSTANTS
    Searches = {s1, s2}
    Files = {f1, f2}
    Texts = {hit, near, other}
    Match = {hit}
    Grams = {hit, near}
    StampsTell = TRUE
    MaxWrites = 2
    Absent = Absent
    Nobody = Nobody
SYMMETRY Symmetric
INVARIANTS TypeOK PostingsFollowRecords TrustedIndexIsCurrent MissesNothingTold
CHECK_DEADLOCK FALSE
