---------------------------- MODULE DrawnPolygon ----------------------------
(***************************************************************************)
(* The point-in-polygon test against an independent definition.  A polygon *)
(* is drawn vertex by vertex on a grid; it may touch and cross itself.     *)
(***************************************************************************)
EXTENDS PointInPolygon

CONSTANTS Grid,          \* the coordinates points have
          VertexGrid,    \* the coordinates vertices have
          MaxVertices

ASSUME GridAssumption == Grid \subseteq Int /\ VertexGrid \subseteq Int

VARIABLES polygon, point

drawVars == <<polygon, point>>

Points(g) == [latitude : g, longitude : g]

DrawInit == polygon = <<>> /\ point \in Points(Grid)

Draw == /\ Len(polygon) < MaxVertices
        /\ \E v \in Points(VertexGrid) : polygon' = Append(polygon, v)
        /\ UNCHANGED point

DrawSpec == DrawInit /\ [][Draw]_drawVars

Inside(p, poly) == isPointInPolygon(p, poly)

\* Which side of the line from a to b point p is on.
Side(p, a, b) ==
    (b.longitude - a.longitude) * (p.latitude - a.latitude)
      - (b.latitude - a.latitude) * (p.longitude - a.longitude)

InTriangle(p, a, b, c) ==
    \/ Side(p, a, b) > 0 /\ Side(p, b, c) > 0 /\ Side(p, c, a) > 0
    \/ Side(p, a, b) < 0 /\ Side(p, b, c) < 0 /\ Side(p, c, a) < 0

OnLine(p, a, b) == Side(p, a, b) = 0

\* The triangles of the fan from the first vertex.
Fan == 2..(Len(polygon) - 1)
OnFan == \E i \in Fan : \/ OnLine(point, polygon[1], polygon[i])
                        \/ OnLine(point, polygon[i], polygon[i + 1])
                        \/ OnLine(point, polygon[i + 1], polygon[1])

\* A point that is on no line of the fan is inside the polygon iff it is in an
\* odd number of the fan's triangles, decided by the side of each edge it is
\* on: the ray casting agrees, also where the ray meets vertices.
MatchesFan ==
    ~OnFan => (Inside(point, polygon) <=>
        Cardinality({i \in Fan :
            InTriangle(point, polygon[1], polygon[i], polygon[i + 1])}) % 2 = 1)

\* Two polygons that share a side overlap nowhere and leave no gap, not even on
\* the side itself: when a polygon is cut in two, each of its points is in one
\* of the parts, and each other point in neither or in both.
CutTilesExactly ==
    \A i \in 3..(Len(polygon) - 1) :
        Inside(point, polygon) <=>
            (Inside(point, SubSeq(polygon, 1, i))
               # Inside(point, <<polygon[1]>> \o SubSeq(polygon, i, Len(polygon))))

\* The ray test agrees with the triangles the polygon is made of, and where
\* two polygons share a side there is neither gap nor overlap.
RayTestIsExact == MatchesFan /\ CutTilesExactly
=============================================================================
