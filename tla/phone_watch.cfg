SPECIFICATION BoundedSpec
CONSTANTS
    Checks = {k1, k2}
    Loads = {j1}
SYMMETRY Symmetry

    
PROPERTIES
    DriftIsTolerated
CHECK_DEADLOCK FALSE
