SPECIFICATION GeofenceSpec
CONSTANTS
    None = None
    Polygons = {p1, p2, p3}
    Calls = {c1, c2, c3}
    Grid = {0, 1, 2, 3, 4}
    VertexGrid = {0, 2, 4}
    MaxVertices = 4
SYMMETRY Symmetry
INVARIANTS
    LastIsInForce
    RayTestIsExact
PROPERTIES
    VerdictsHeld
CHECK_DEADLOCK FALSE
