SPECIFICATION EntranceSpec
CONSTANTS
    People = {p1, p2}
    Cids = {d1, d2}
    Threads = {t1, t2}
    TTL = 2
    Grace = 1
    MaxClock = 3
    Users = {u1}
    Workers = {t1, t2}
    Roles = {staff}
    MaxSessions = 3
    MaxPasswords = 2
    login = login
    face = face
    Keys = {login, face}
    Limit <- MCLimit
    WindowMs = 2
    MaxRecords = 1
    MaxMilli = 7
    MaxCount = 5
SYMMETRY Symmetry
INVARIANTS
    ConsumedOnce
    RevokedPasswordIsOut
    OneSuccessor
PROPERTIES
    GraceIsKept
    LimitIsKept
CHECK_DEADLOCK FALSE
