SPECIFICATION FairSpec
CONSTANTS
    Users = {u1}
    Owner = u1
    Workers = {w1}
    NoWorker = NoWorker
    Roles = {staff}
    Calls = {c1}
    MaxSessions = 2
    MaxPasswords = 1
INVARIANTS
    
    LogoutLasts
PROPERTIES
    CallsEnd
CHECK_DEADLOCK FALSE
