SPECIFICATION HoursSpec
CONSTANTS
    Employees = {e1, e2}
    Calls = {c1, c2}
    MaxRequests = 3
    LateIds = {9}
    Day = 24
    Tz = 5
    MaxNow = 6
    Staff <- MCStaff
    CodeOf <- MCCodeOf
    Days = {1, 2}
    MaxShown = 4
    Amounts = {0, 2}
SYMMETRY Symmetry
INVARIANTS
    CreditsAreAskedFor
    DerivedEqualsCounter
    EmployeeSeesEachHourOnce
    HrSeesTheSame

    
CHECK_DEADLOCK FALSE
