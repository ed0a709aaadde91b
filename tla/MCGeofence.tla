------------------------------ MODULE MCGeofence ------------------------------
(***************************************************************************)
(* The geofence-service for TLC: which polygon a verdict goes by, and what *)
(* the verdict is for a polygon of any shape.  The two share no state, so  *)
(* that a behaviour takes one of them, chosen in Init.                     *)
(***************************************************************************)
EXTENDS OfficePolygons, DrawnPolygon, TLC

VARIABLE part

GeofenceInit ==
    /\ part \in {"records", "shape"}
    /\ Init /\ DrawInit
    /\ part = "records" => point = [latitude |-> 0, longitude |-> 0]
    /\ part = "shape" => open = "open"

GeofenceNext ==
    /\ UNCHANGED part
    /\ \/ part = "records" /\ Next /\ UNCHANGED drawVars
       \/ part = "shape" /\ Draw /\ UNCHANGED vars

GeofenceSpec == GeofenceInit /\ [][GeofenceNext]_<<vars, drawVars, part>>

Symmetry == Permutations(Polygons) \cup Permutations(Calls)
=============================================================================
