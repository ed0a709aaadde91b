SPECIFICATION Spec
CONSTANTS
    Users = {u1}
    Workers = {w1, w2}
    Roles = {hr, staff}
    MaxSessions = 1
    MaxPasswords = 2
SYMMETRY Symmetry
INVARIANTS
    
    TerminatedIsLockedOut
CHECK_DEADLOCK FALSE
