SPECIFICATION RecordsSpec
CONSTANTS
    None = None
    Offices = {o1, o2}
    Calls = {c1, c2}
    MaxAssignments = 4
    p1 = p1
    p2 = p2
    People = {p1, p2}
    NameOf <- MCNameOf
    Imports = {f1}
    Singles = {s1}
    MaxRows = 2
    MaxCode = 1
    MaxEmployees = 3
SYMMETRY Symmetry
INVARIANTS
    NoDoubles
    
    NoPersonTwice
    
CHECK_DEADLOCK FALSE
