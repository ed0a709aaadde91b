SPECIFICATION Spec
CONSTANTS
    me = me
    you = you
    Users = {me, you}
    Me = me
    Notes = {n1}
    Reqs = {q1, q2}

    
PROPERTIES
    BadgeSettles
CHECK_DEADLOCK FALSE
