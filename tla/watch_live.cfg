SPECIFICATION FairWatch
CONSTANTS
    Checks = {k1}
    Loads = {j1}
PROPERTIES
    
    PauseShownEnds
CHECK_DEADLOCK FALSE
