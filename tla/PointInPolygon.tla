--------------------------- MODULE PointInPolygon ---------------------------
(***************************************************************************)
(* The point-in-polygon test of the geofence-service, in exact arithmetic. *)
(* A polygon is a sequence of vertices, a vertex or point a record of      *)
(* latitude and longitude.                                                 *)
(***************************************************************************)
EXTENDS Integers, FiniteSets, Sequences

\* The vertex before vertex i, the last before the first.
Before(polygon, i) == polygon[IF i = 1 THEN Len(polygon) ELSE i - 1]

\* Mutant: a vertex on the ray belongs to both of its edges.
StraddlesClosed(p, a, b) ==
    (a.latitude >= p.latitude) # (b.latitude > p.latitude)

\* One end is north of p and the other is not.
Straddles(p, a, b) == (a.latitude > p.latitude) # (b.latitude > p.latitude)

\* The ray from p to the east crosses the edge from a to b: p lies west of the
\* edge at its latitude.  The code divides by dy, which is not 0 then.
Crosses(p, a, b) ==
    LET dy == b.latitude - a.latitude
        dx == b.longitude - a.longitude
        gap == dx * (p.latitude - a.latitude) - (p.longitude - a.longitude) * dy
    IN  Straddles(p, a, b) /\ IF dy > 0 THEN gap > 0 ELSE gap < 0

isPointInPolygon(p, polygon) ==
    /\ Len(polygon) >= 3
    /\ Cardinality({i \in DOMAIN polygon :
                        Crosses(p, polygon[i], Before(polygon, i))}) % 2 = 1
=============================================================================
