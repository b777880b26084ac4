SPECIFICATION SessionsSpec
CONSTANTS
    Sessions = {s1}
    Calls = {c1, c2}
    Cleanup = cleanup
    Ttl = 2
    Nil = Nil
INVARIANTS SessionsTypeOK SessionsKeepTimes
PROPERTIES IdleSessionsClose LostTimesGo
CHECK_DEADLOCK FALSE
