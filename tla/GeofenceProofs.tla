--------------------------- MODULE GeofenceProofs ---------------------------
(***************************************************************************)
(* Proofs about OfficePolygons, for every number of polygons and calls,    *)
(* and about DrawnPolygon, for every polygon and point.                    *)
(***************************************************************************)
EXTENDS OfficePolygons, DrawnPolygon, FiniteSetTheorems, SequenceTheorems, TLAPS

(***************************************************************************)
(* The inductive invariant                                                 *)
(***************************************************************************)

\* The types the argument needs.  A call that is to set a polygon has one.
CallsOK ==
    /\ row \in [Polygons -> {"unset", "active", "inactive", "deleted"}]
    /\ call \in [Calls -> [pc : {"idle", "deactivate", "create", "delete",
                                 "polygon", "vertices"},
                           polygon : Polygons \cup {None},
                           old : SUBSET Polygons]]
    /\ \A c \in Calls : At(c, "deactivate") \/ At(c, "create") =>
                            call[c].polygon \in Polygons

\* What a transaction has deactivated is all there is to deactivate until it
\* ends: this is what the locks on rows and gaps are for.
LocksHold == \A c \in Holders : call[c].old = Active

Inv == CallsOK /\ LastIsInForce /\ LocksHold

LEMMA InitInv == Init => Inv
BY NoneAssumption
   DEF Init, Inv, CallsOK, LastIsInForce, LocksHold, Holders, Active, At, Idle

LEMMA SetBeginInv ==
    ASSUME Inv, NEW c \in Calls, SetBegin(c)
    PROVE  Inv'
<1>1. PICK p \in Polygons : GoesTo(c, "deactivate", p)
  BY DEF SetBegin
<1>2. CallsOK'
  BY <1>1 DEF Inv, CallsOK, SetBegin, GoesTo, Goes, At
<1>3. LastIsInForce'
  BY DEF Inv, LastIsInForce, Active, SetBegin
<1>4. LocksHold'
  BY <1>1 DEF Inv, CallsOK, LocksHold, Holders, Active, SetBegin, GoesTo, Goes, At
<1> QED
  BY <1>2, <1>3, <1>4 DEF Inv

LEMMA SetDeactivateInv ==
    ASSUME Inv, NEW c \in Calls, SetDeactivate(c)
    PROVE  Inv'
<1> USE DEF SetDeactivate, Goes, At
<1>1. CallsOK'
  BY DEF Inv, CallsOK, Active
<1>2. LastIsInForce'
  BY DEF Inv, LastIsInForce, Active
<1>3. LocksHold'
  BY DEF Inv, CallsOK, LocksHold, Holders, Active
<1> QED
  BY <1>1, <1>2, <1>3 DEF Inv

LEMMA SetCreateInv ==
    ASSUME Inv, NEW c \in Calls, SetCreate(c)
    PROVE  Inv'
<1> DEFINE new == call[c].polygon
<1> USE DEF SetCreate, Ends, GoesTo, Goes, At
<1>1. CallsOK'
  BY DEF Inv, CallsOK
<1>2. new \in Polygons
  BY DEF Inv, CallsOK
<1>3. call[c].old = Active
  BY DEF Inv, LocksHold, Holders
<1>4. Active' = {new}
  <2>1. \A p \in Polygons : row'[p] = "active" <=> p = new
    BY <1>2, <1>3 DEF Active, Rows
  <2> QED
    BY <1>2, <2>1 DEF Active
<1>5. LastIsInForce'
  BY <1>2, <1>4, NoneAssumption DEF LastIsInForce
<1>6. Holders' = {}
  BY DEF Inv, CallsOK, GapsFree, Holders
<1>7. LocksHold'
  BY <1>6 DEF LocksHold
<1> QED
  BY <1>1, <1>5, <1>7 DEF Inv

LEMMA SetRollbackInv ==
    ASSUME Inv, NEW c \in Calls, SetRollback(c)
    PROVE  Inv'
<1> USE DEF SetRollback, Ends, GoesTo, Goes, At
<1>1. CallsOK'
  BY DEF Inv, CallsOK
<1>2. LastIsInForce'
  BY DEF Inv, LastIsInForce, Active
<1>3. LocksHold'
  BY DEF Inv, CallsOK, LocksHold, Holders, Active
<1> QED
  BY <1>1, <1>2, <1>3 DEF Inv

\* Where the rows are free, either nobody holds locks or there is nothing in
\* force.
LEMMA FreeRows ==
    ASSUME NEW c \in Calls, RowsFree(c), ~At(c, "create")
    PROVE  Holders = {} \/ Active = {}
BY DEF RowsFree, Holders, Rows, Active

\* Statements that take polygons out of force, and set none.
LEMMA TakenAwayInv ==
    ASSUME Inv, NEW c \in Calls, ~At(c, "create"), RowsFree(c), Ends(c),
           row' \in [Polygons -> {"unset", "active", "inactive", "deleted"}],
           Active' \subseteq Active,
           \/ last' = None /\ Active' = {}
           \/ last' = last /\ Active' = Active
    PROVE  Inv'
<1> USE DEF Ends, GoesTo, Goes, At
<1>1. CallsOK'
  BY DEF Inv, CallsOK
<1>2. LastIsInForce'
  BY DEF Inv, LastIsInForce
<1>3. Holders' \subseteq Holders /\ \A d \in Holders' : call'[d].old = call[d].old
  BY DEF Inv, CallsOK, Holders
<1>4. LocksHold'
  <2>1. CASE Holders = {}
    BY <1>3, <2>1 DEF LocksHold
  <2>2. CASE Active = {}
    BY <1>3, <2>2 DEF Inv, LocksHold
  <2> QED
    BY <2>1, <2>2, FreeRows
<1> QED
  BY <1>1, <1>2, <1>4 DEF Inv

LEMMA DeleteOfficePolygonInv ==
    ASSUME Inv, NEW c \in Calls, DeleteOfficePolygon(c)
    PROVE  Inv'
<1>1. row' \in [Polygons -> {"unset", "active", "inactive", "deleted"}] /\ Active' = {}
  BY DEF DeleteOfficePolygon, Inv, CallsOK, Active, Rows
<1> QED
  BY <1>1, TakenAwayInv DEF DeleteOfficePolygon, At

LEMMA DeletePolygonFindInv ==
    ASSUME Inv, NEW c \in Calls, DeletePolygonFind(c)
    PROVE  Inv'
<1>1. PICK p \in Polygons : GoesTo(c, "delete", p)
  BY DEF DeletePolygonFind, Rows
<1> USE DEF DeletePolygonFind, GoesTo, Goes, At
<1>2. CallsOK'
  BY <1>1 DEF Inv, CallsOK
<1>3. LastIsInForce'
  BY DEF Inv, LastIsInForce, Active
<1>4. LocksHold'
  BY <1>1 DEF Inv, CallsOK, LocksHold, Holders, Active
<1> QED
  BY <1>2, <1>3, <1>4 DEF Inv

LEMMA DeletePolygonDeleteInv ==
    ASSUME Inv, NEW c \in Calls, DeletePolygonDelete(c)
    PROVE  Inv'
<1> DEFINE p == call[c].polygon
<1>1. row' \in [Polygons -> {"unset", "active", "inactive", "deleted"}]
  BY DEF DeletePolygonDelete, Inv, CallsOK
<1>2. Active' = Active \ {p}
  BY DEF DeletePolygonDelete, Inv, CallsOK, Active
<1>3. CASE p = last
  <2>1. last' = None /\ Active' = {}
    BY <1>2, <1>3 DEF DeletePolygonDelete, Inv, LastIsInForce
  <2> QED
    BY <1>1, <2>1, TakenAwayInv DEF DeletePolygonDelete, At
<1>4. CASE p # last
  <2>1. last' = last /\ Active' = Active
    BY <1>2, <1>4 DEF DeletePolygonDelete, Inv, LastIsInForce
  <2> QED
    BY <1>1, <2>1, TakenAwayInv DEF DeletePolygonDelete, At
<1> QED
  BY <1>3, <1>4

LEMMA DeleteOfficeInv ==
    ASSUME Inv, NEW c \in Calls, DeleteOffice(c)
    PROVE  Inv'
<1>1. row' \in [Polygons -> {"unset", "active", "inactive", "deleted"}] /\ Active' = {}
  BY DEF DeleteOffice, Inv, CallsOK, Active, Rows
<1> QED
  BY <1>1, TakenAwayInv DEF DeleteOffice, At

\* A verification changes nothing but its own place.
LEMMA VerifyInv ==
    ASSUME Inv, NEW c \in Calls,
           VerifyOffice(c) \/ VerifyPolygon(c) \/ VerifyNoPolygon(c)
             \/ VerifyJudge(c) \/ VerifyNoVertices(c)
    PROVE  Inv'
<1>1. /\ UNCHANGED <<row, last>> /\ ~At(c, "create")
      /\ \E pc \in {"idle", "polygon", "vertices"}, p \in Polygons \cup {None} :
             GoesTo(c, pc, p)
  BY DEF VerifyOffice, VerifyPolygon, VerifyNoPolygon, VerifyJudge,
         VerifyNoVertices, Ends, At, Current, Active
<1>2. PICK pc \in {"idle", "polygon", "vertices"}, p \in Polygons \cup {None} :
         GoesTo(c, pc, p)
  BY <1>1
<1>3. CallsOK'
  BY <1>1, <1>2 DEF Inv, CallsOK, GoesTo, Goes, At
<1>4. LastIsInForce'
  BY <1>1 DEF Inv, LastIsInForce, Active
<1>5. LocksHold'
  BY <1>1, <1>2 DEF Inv, CallsOK, LocksHold, Holders, Active, GoesTo, Goes, At
<1> QED
  BY <1>3, <1>4, <1>5 DEF Inv

LEMMA NextInv == Inv /\ [Next]_vars => Inv'
<1> SUFFICES ASSUME Inv, [Next]_vars
             PROVE  Inv'
  OBVIOUS
<1>1. CASE UNCHANGED vars
  BY <1>1 DEF vars, Inv, CallsOK, LastIsInForce, LocksHold, Holders, Active, At
<1>2. CASE Next
  BY <1>2, SetBeginInv, SetDeactivateInv, SetCreateInv, SetRollbackInv,
     DeleteOfficePolygonInv, DeletePolygonFindInv, DeletePolygonDeleteInv,
     DeleteOfficeInv, VerifyInv
     DEF Next
<1> QED
  BY <1>1, <1>2

(***************************************************************************)
(* The polygon in force is the one set last and not taken away since, for  *)
(* any number of overlapping uploads, deletions and verifications.  The    *)
(* locks of setOfficePolygon's transaction are what the proof rests on.    *)
(***************************************************************************)
THEOREM OnePolygonInForce == Spec => []LastIsInForce
<1>1. Inv => LastIsInForce
  BY DEF Inv
<1> QED
  BY <1>1, InitInv, NextInv, PTL DEF Spec


-----------------------------------------------------------------------------
(***************************************************************************)
(* What a verification answers                                             *)
(***************************************************************************)

\* While a call is under way the polygon in force is one of those it has seen
\* come, and the polygon a verification has read was in force since it began.
Witnessed ==
    \A c \in Calls :
        /\ ~At(c, "idle") => last \in during[c]
        /\ At(c, "vertices") => call[c].polygon \in during[c]

\* There are finitely many polygons at any time, so that versions are numbers.
VersionsOK == IsFiniteSet(Rows) /\ version \in [Polygons -> Nat]

VerdictInv == Inv /\ Witnessed /\ VersionsOK

\* A step of one call is seen by the others, and by itself when the polygon it
\* has read is the one in force.
LEMMA GoesWitnessed ==
    ASSUME CallsOK, Witnessed, NEW c \in Calls, NEW pc, NEW p, NEW old,
           Goes(c, pc, p, old),
           pc = "vertices" => p = last'
    PROVE  Witnessed'
<1> SUFFICES ASSUME NEW d \in Calls
             PROVE  /\ ~At(d, "idle")' => last' \in during'[d]
                    /\ At(d, "vertices")' => call'[d].polygon \in during'[d]
  BY DEF Witnessed, At
<1>1. call'[d].pc # "idle" => during'[d] = during[d] \cup {last'}
  BY DEF Goes
<1>2. CASE d = c
  <2>1. call'[c] = [pc |-> pc, polygon |-> p, old |-> old]
    BY DEF Goes, CallsOK
  <2> QED
    BY <1>1, <1>2, <2>1 DEF At
<1>3. CASE d # c
  <2>1. call'[d] = call[d]
    BY <1>3 DEF Goes, CallsOK
  <2> QED
    BY <1>1, <2>1 DEF At, Witnessed
<1> QED
  BY <1>2, <1>3

\* There is one polygon to be read, the one that was set last.
LEMMA CurrentIsLast ==
    ASSUME LastIsInForce, VersionsOK
    PROVE  /\ Current \subseteq {last}
           /\ Current = {} => last = None
<1>1. Active = {last} \ {None}
  BY DEF LastIsInForce
<1>2. Current \subseteq Active
  BY DEF Current
<1>3. ASSUME last # None
      PROVE  last \in Current
  <2>1. Active = {last}
    BY <1>1, <1>3
  <2>2. version[last] <= version[last]
    BY <2>1 DEF VersionsOK, Active
  <2> QED
    BY <2>1, <2>2 DEF Current
<1> QED
  BY <1>1, <1>2, <1>3

LEMMA InitVerdict == Init => VerdictInv
<1> SUFFICES ASSUME Init PROVE VerdictInv
  OBVIOUS
<1>1. Inv
  BY InitInv
<1>2. Witnessed
  BY DEF Init, Witnessed, At, Idle
<1>3. Rows = {}
  BY DEF Init, Rows
<1>4. IsFiniteSet(Rows)
  BY <1>3, FS_EmptySet
<1>5. version \in [Polygons -> Nat]
  BY DEF Init
<1> QED
  BY <1>1, <1>2, <1>4, <1>5 DEF VerdictInv, VersionsOK

\* A row is added by the creation of a polygon only, one at a time.
LEMMA StepVersions ==
    ASSUME VerdictInv, Next
    PROVE  VersionsOK'
<1> USE DEF VerdictInv, VersionsOK
<1>1. PICK c \in Calls : \/ SetCreate(c)
                         \/ Rows' \subseteq Rows /\ UNCHANGED version
  <2>1. PICK c \in Calls :
          \/ SetBegin(c) \/ SetDeactivate(c) \/ SetCreate(c) \/ SetRollback(c)
          \/ DeleteOfficePolygon(c) \/ DeletePolygonFind(c) \/ DeletePolygonDelete(c)
          \/ DeleteOffice(c)
          \/ VerifyOffice(c) \/ VerifyPolygon(c) \/ VerifyNoPolygon(c)
          \/ VerifyJudge(c) \/ VerifyNoVertices(c)
    BY DEF Next
  <2>2. CASE \/ SetBegin(c) \/ SetDeactivate(c) \/ SetRollback(c)
             \/ DeletePolygonFind(c)
             \/ VerifyOffice(c) \/ VerifyPolygon(c) \/ VerifyNoPolygon(c)
             \/ VerifyJudge(c) \/ VerifyNoVertices(c)
    BY <2>2 DEF SetBegin, SetDeactivate, SetRollback, DeletePolygonFind, VerifyOffice,
       VerifyPolygon, VerifyNoPolygon, VerifyJudge, VerifyNoVertices, Rows
  <2>3. CASE DeleteOfficePolygon(c)
    BY <2>3 DEF DeleteOfficePolygon, Rows, Active
  <2>4. CASE DeletePolygonDelete(c)
    BY <2>4 DEF DeletePolygonDelete, Rows, Inv, CallsOK
  <2>5. CASE DeleteOffice(c)
    BY <2>5 DEF DeleteOffice, Rows, Active
  <2> QED
    BY <2>1, <2>2, <2>3, <2>4, <2>5
<1>2. CASE SetCreate(c)
  <2> DEFINE new == call[c].polygon
  <2>1. Rows' \subseteq Rows \cup {new}
    BY <1>2 DEF SetCreate, Rows
  <2>2. IsFiniteSet(Rows \cup {new})
    BY FS_AddElement
  <2>3. IsFiniteSet(Rows')
    BY <2>1, <2>2, FS_Subset
  <2>4. PICK n \in Nat : n = Cardinality(Rows) + 1
    BY FS_CardinalityType
  <2>5. version' = [version EXCEPT ![new] = n]
    BY <1>2, <2>4 DEF SetCreate
  <2>6. version' \in [Polygons -> Nat]
    BY <2>4, <2>5
  <2> QED
    BY <2>3, <2>6
<1>3. CASE Rows' \subseteq Rows /\ UNCHANGED version
  <2>1. IsFiniteSet(Rows')
    BY <1>3, FS_Subset
  <2> QED
    BY <1>3, <2>1
<1> QED
  BY <1>1, <1>2, <1>3

LEMMA StepWitnessed ==
    ASSUME VerdictInv, NEW c \in Calls,
           \/ SetBegin(c) \/ SetDeactivate(c) \/ SetCreate(c) \/ SetRollback(c)
           \/ DeleteOfficePolygon(c) \/ DeletePolygonFind(c) \/ DeletePolygonDelete(c)
           \/ DeleteOffice(c)
           \/ VerifyOffice(c) \/ VerifyPolygon(c) \/ VerifyNoPolygon(c)
           \/ VerifyJudge(c) \/ VerifyNoVertices(c)
    PROVE  Witnessed'
<1> USE DEF VerdictInv
<1>1. CASE VerifyPolygon(c)
  <2>1. PICK p \in Current : GoesTo(c, "vertices", p)
    BY <1>1 DEF VerifyPolygon
  <2>2. p = last'
    BY <1>1, CurrentIsLast DEF VerifyPolygon, Inv
  <2> QED
    BY <2>1, <2>2, GoesWitnessed DEF GoesTo, Inv
<1>2. CASE ~VerifyPolygon(c)
  <2>1. \E pc \in {"idle", "deactivate", "create", "delete", "polygon"},
           p \in Polygons \cup {None}, old \in SUBSET Polygons : Goes(c, pc, p, old)
    <3>1. call[c].polygon \in Polygons \cup {None} /\ Active \in SUBSET Polygons
      BY DEF Inv, CallsOK, Active
    <3>2. {} \in SUBSET Polygons /\ None \in Polygons \cup {None}
      OBVIOUS
    <3>3. CASE SetDeactivate(c)
      BY <3>1, <3>3 DEF SetDeactivate
    <3>4. CASE SetBegin(c)
      <4>1. PICK p \in Polygons : GoesTo(c, "deactivate", p)
        BY <3>4 DEF SetBegin
      <4> QED
        BY <3>2, <4>1 DEF GoesTo
    <3>5. CASE DeletePolygonFind(c)
      <4>1. PICK p \in Polygons : GoesTo(c, "delete", p)
        BY <3>5 DEF DeletePolygonFind, Rows
      <4> QED
        BY <3>2, <4>1 DEF GoesTo
    <3>6. CASE VerifyOffice(c)
      BY <3>2, <3>6 DEF VerifyOffice, GoesTo
    <3>7. CASE ~(SetDeactivate(c) \/ SetBegin(c) \/ DeletePolygonFind(c) \/ VerifyOffice(c))
      <4>1. Ends(c)
        BY <1>2, <3>7 DEF SetCreate, SetRollback, DeleteOfficePolygon,
           DeletePolygonDelete, DeleteOffice, VerifyNoPolygon, VerifyJudge,
           VerifyNoVertices
      <4> QED
        BY <3>2, <4>1 DEF Ends, GoesTo
    <3> QED
      BY <3>3, <3>4, <3>5, <3>6, <3>7
  <2>2. PICK pc \in {"idle", "deactivate", "create", "delete", "polygon"},
             p \in Polygons \cup {None}, old \in SUBSET Polygons : Goes(c, pc, p, old)
    BY <2>1
  <2> QED
    BY <2>2, GoesWitnessed DEF Inv
<1> QED
  BY <1>1, <1>2

LEMMA NextVerdict == VerdictInv /\ [Next]_vars => VerdictInv'
<1> SUFFICES ASSUME VerdictInv, [Next]_vars
             PROVE  VerdictInv'
  OBVIOUS
<1>1. Inv'
  BY NextInv DEF VerdictInv
<1>2. CASE UNCHANGED vars
  BY <1>1, <1>2 DEF vars, VerdictInv, Witnessed, VersionsOK, Rows, At
<1>3. CASE Next
  <2>1. Witnessed'
    BY <1>3, StepWitnessed DEF Next
  <2>2. VersionsOK'
    BY <1>3, StepVersions
  <2> QED
    BY <1>1, <2>1, <2>2 DEF VerdictInv
<1> QED
  BY <1>2, <1>3

(***************************************************************************)
(* A verification is judged by a polygon that was in force at some moment  *)
(* of it, and is told that there is none only if there was a moment with   *)
(* none, however many uploads and deletions fall between its three reads.  *)
(* Of an upload's two statements neither is seen without the other.        *)
(***************************************************************************)
THEOREM VerdictsAreOfTheirTime == Spec => VerdictsHeld
<1>1. VerdictInv => \A c \in Calls :
          /\ VerifyJudge(c) => call[c].polygon \in during[c]
          /\ VerifyNoPolygon(c) => None \in during[c]
  <2> SUFFICES ASSUME VerdictInv, NEW c \in Calls
               PROVE  /\ VerifyJudge(c) => call[c].polygon \in during[c]
                      /\ VerifyNoPolygon(c) => None \in during[c]
    OBVIOUS
  <2>1. VerifyJudge(c) => call[c].polygon \in during[c]
    BY DEF VerdictInv, Witnessed, VerifyJudge
  <2>2. VerifyNoPolygon(c) => last = None
    BY CurrentIsLast DEF VerdictInv, Inv, VerifyNoPolygon
  <2>3. VerifyNoPolygon(c) => last \in during[c]
    BY DEF VerdictInv, Witnessed, VerifyNoPolygon, At
  <2> QED
    BY <2>1, <2>2, <2>3
<1>2. Spec => []VerdictInv
  BY InitVerdict, NextVerdict, PTL DEF Spec
<1> QED
  BY <1>1, <1>2, PTL DEF VerdictsHeld

-----------------------------------------------------------------------------
(***************************************************************************)
(* The ray test.  First one triangle: by the signs of three products whose *)
(* sum is 0.  Then the parity of the edges crossed: a diagonal cuts it in  *)
(* two, so that each vertex drawn adds a triangle to the fan.              *)
(***************************************************************************)

\* Coordinates of any size.
Vertex == [latitude : Int, longitude : Int]

\* The products the sides are made of, with p at the origin.
LEMMA SideIsCross ==
    ASSUME NEW p \in Vertex, NEW a \in Vertex, NEW b \in Vertex
    PROVE  /\ Side(p, a, b) \in Int
           /\ Side(p, a, b) = (a.longitude - p.longitude) * (b.latitude - p.latitude)
                              - (b.longitude - p.longitude) * (a.latitude - p.latitude)
           /\ Side(p, b, a) = -Side(p, a, b)
<1> DEFINE px == p.longitude  py == p.latitude ax == a.longitude ay == a.latitude
           bx == b.longitude  by == b.latitude
<1>1. px \in Int /\ py \in Int /\ ax \in Int /\ ay \in Int /\ bx \in Int /\ by \in Int
  BY DEF Vertex
<1>2. Side(p, a, b) = (bx - ax) * (py - ay) - (by - ay) * (px - ax)
  BY DEF Side
<1>3. Side(p, b, a) = (ax - bx) * (py - by) - (ay - by) * (px - bx)
  BY DEF Side
<1> HIDE DEF px, py, ax, ay, bx, by
<1>4. Side(p, a, b) = (ax - px) * (by - py) - (bx - px) * (ay - py)
  BY <1>1, <1>2
<1>5. Side(p, b, a) = -Side(p, a, b)
  BY <1>1, <1>2, <1>3
<1> QED
  BY <1>1, <1>2, <1>4, <1>5 DEF px, py, ax, ay, bx, by

\* The three products are not independent: weighed by the opposite vertex's height
\* above p, they cancel.
LEMMA ThreeSides ==
    ASSUME NEW p \in Vertex, NEW a \in Vertex, NEW b \in Vertex, NEW c \in Vertex
    PROVE  (c.latitude - p.latitude) * Side(p, a, b) + (a.latitude - p.latitude) * Side(p, b, c)
             + (b.latitude - p.latitude) * Side(p, c, a) = 0
<1> DEFINE ax == a.longitude - p.longitude ay == a.latitude - p.latitude
           bx == b.longitude - p.longitude by == b.latitude - p.latitude
           cx == c.longitude - p.longitude cy == c.latitude - p.latitude
<1>1. ax \in Int /\ ay \in Int /\ bx \in Int /\ by \in Int /\ cx \in Int /\ cy \in Int
  BY DEF Vertex
<1>2. /\ Side(p, a, b) = ax * by - bx * ay
      /\ Side(p, b, c) = bx * cy - cx * by
      /\ Side(p, c, a) = cx * ay - ax * cy
  BY SideIsCross
<1> HIDE DEF ax, ay, bx, by, cx, cy
<1>3. cy * (ax * by - bx * ay) + ay * (bx * cy - cx * by) + by * (cx * ay - ax * cy) = 0
  BY <1>1
<1>4. cy * Side(p, a, b) + ay * Side(p, b, c) + by * Side(p, c, a) = 0
  BY <1>2, <1>3
<1> QED
  BY <1>4 DEF ax, ay, bx, by, cx, cy

\* The sign tested depends on the end an edge is drawn from, the test does not.
LEMMA CrossesEitherWay ==
    ASSUME NEW p \in Vertex, NEW a \in Vertex, NEW b \in Vertex
    PROVE  /\ Crosses(p, a, b) \in BOOLEAN
           /\ Crosses(p, a, b) <=> Straddles(p, a, b) /\ IF a.latitude <= p.latitude
                                                        THEN Side(p, a, b) > 0
                                                        ELSE Side(p, a, b) < 0
           /\ Crosses(p, a, b) <=> Crosses(p, b, a)
<1>1. \A u, v \in Vertex :
          Crosses(p, u, v) <=> Straddles(p, u, v) /\ IF u.latitude <= p.latitude
                                                     THEN Side(p, u, v) > 0
                                                     ELSE Side(p, u, v) < 0
  BY DEF Crosses, Straddles, Side, Vertex
<1>2. Side(p, a, b) \in Int /\ Side(p, b, a) = -Side(p, a, b)
  BY SideIsCross
<1>3. Straddles(p, a, b) = Straddles(p, b, a)
  BY DEF Straddles, Vertex
<1>4. Straddles(p, a, b) => ((a.latitude <= p.latitude) # (b.latitude <= p.latitude))
  BY DEF Straddles, Vertex
<1> QED
  BY <1>1, <1>2, <1>3, <1>4 DEF Crosses
\* Signs of products, which the solver needs one at a time.
LEMMA ProductSign ==
    ASSUME NEW x \in Int, NEW y \in Int
    PROVE  /\ x * y \in Int
           /\ x > 0 /\ y > 0 => x * y > 0
           /\ x > 0 /\ y < 0 => x * y < 0
           /\ x <= 0 /\ y > 0 => x * y <= 0
           /\ x <= 0 /\ y < 0 => x * y >= 0
           /\ x = 0 => x * y = 0
           /\ x < 0 /\ y > 0 => x * y < 0
           /\ x < 0 /\ y < 0 => x * y > 0
OBVIOUS

\* p is on none of the three lines.
OffLines(p, a, b, c) == ~OnLine(p, a, b) /\ ~OnLine(p, b, c) /\ ~OnLine(p, c, a)

\* Vertex a is north of the ray from p.
North(p, a) == a.latitude > p.latitude

\* With all vertices on one side of the ray, p is outside.
LEMMA AllOnOneSide ==
    ASSUME NEW p \in Vertex, NEW a \in Vertex, NEW b \in Vertex, NEW c \in Vertex,
           OffLines(p, a, b, c),
           North(p, a) <=> North(p, b), North(p, a) <=> North(p, c)
    PROVE  ~InTriangle(p, a, b, c)
<1> DEFINE ay == a.latitude - p.latitude
           by == b.latitude - p.latitude
           cy == c.latitude - p.latitude
           sab == Side(p, a, b)  sbc == Side(p, b, c)  sca == Side(p, c, a)
<1>1. ay \in Int /\ by \in Int /\ cy \in Int /\ sab \in Int /\ sbc \in Int /\ sca \in Int
  <2>1. sab \in Int /\ sbc \in Int /\ sca \in Int
    BY SideIsCross
  <2> QED
    BY <2>1 DEF Vertex
<1>2. cy * sab + ay * sbc + by * sca = 0
  BY ThreeSides
<1>3. ~(ay = 0 /\ by = 0)
  <2> SUFFICES ASSUME ay = 0, by = 0 PROVE FALSE
    OBVIOUS
  <2> DEFINE ax == a.longitude - p.longitude bx == b.longitude - p.longitude
  <2>1. ax \in Int /\ bx \in Int
    BY DEF Vertex
  <2>2. Side(p, a, b) = ax * by - bx * ay
    BY SideIsCross
  <2>3. Side(p, a, b) = 0
    BY <2>1, <2>2
  <2> QED
    BY <2>3 DEF OffLines, OnLine
<1>4. (ay > 0 /\ by > 0 /\ cy > 0) \/ (ay <= 0 /\ by <= 0 /\ cy <= 0)
  BY DEF North, Vertex
<1>5. InTriangle(p, a, b, c) =>
        (sab > 0 /\ sbc > 0 /\ sca > 0) \/ (sab < 0 /\ sbc < 0 /\ sca < 0)
  BY DEF InTriangle
<1> HIDE DEF ay, by, cy, sab, sbc, sca
<1> DEFINE u == cy * sab  v == ay * sbc  w == by * sca
<1>6. u \in Int /\ v \in Int /\ w \in Int /\ u + v + w = 0
  BY <1>1, <1>2
<1>7. ASSUME sab > 0, sbc > 0, sca > 0 PROVE FALSE
  <2>1. CASE ay > 0 /\ by > 0 /\ cy > 0
    <3>1. u > 0 /\ v > 0 /\ w > 0
      BY <1>1, <1>7, <2>1, ProductSign
    <3> HIDE DEF u, v, w
    <3> QED
      BY <1>6, <3>1
  <2>2. CASE ay <= 0 /\ by <= 0 /\ cy <= 0
    <3>1. u <= 0 /\ v <= 0 /\ w <= 0
      BY <1>1, <1>7, <2>2, ProductSign
    <3>2. v < 0 \/ w < 0
      BY <1>1, <1>3, <1>7, <2>2, ProductSign
    <3> HIDE DEF u, v, w
    <3> QED
      BY <1>6, <3>1, <3>2
  <2> QED
    BY <1>4, <2>1, <2>2
<1>8. ASSUME sab < 0, sbc < 0, sca < 0 PROVE FALSE
  <2>1. CASE ay > 0 /\ by > 0 /\ cy > 0
    <3>1. u < 0 /\ v < 0 /\ w < 0
      BY <1>1, <1>8, <2>1, ProductSign
    <3> HIDE DEF u, v, w
    <3> QED
      BY <1>6, <3>1
  <2>2. CASE ay <= 0 /\ by <= 0 /\ cy <= 0
    <3>1. u >= 0 /\ v >= 0 /\ w >= 0
      BY <1>1, <1>8, <2>2, ProductSign
    <3>2. v > 0 \/ w > 0
      BY <1>1, <1>3, <1>8, <2>2, ProductSign
    <3> HIDE DEF u, v, w
    <3> QED
      BY <1>6, <3>1, <3>2
  <2> QED
    BY <1>4, <2>1, <2>2
<1> QED
  BY <1>5, <1>7, <1>8

\* Vertex a is on one side of the ray, b and c are on the other.
LEMMA OneApart ==
    ASSUME NEW p \in Vertex, NEW a \in Vertex, NEW b \in Vertex, NEW c \in Vertex,
           OffLines(p, a, b, c),
           North(p, a) # North(p, b), North(p, b) <=> North(p, c)
    PROVE  InTriangle(p, a, b, c) <=> (Crosses(p, a, b) # Crosses(p, c, a))
<1> DEFINE ay == a.latitude - p.latitude
           by == b.latitude - p.latitude
           cy == c.latitude - p.latitude
           sab == Side(p, a, b)  sbc == Side(p, b, c)  sca == Side(p, c, a)
<1>1. ay \in Int /\ by \in Int /\ cy \in Int /\ sab \in Int /\ sbc \in Int /\ sca \in Int
  <2>1. sab \in Int /\ sbc \in Int /\ sca \in Int
    BY SideIsCross
  <2> QED
    BY <2>1 DEF Vertex
<1>2. cy * sab + ay * sbc + by * sca = 0
  BY ThreeSides
<1>3. sab # 0 /\ sbc # 0 /\ sca # 0
  BY DEF OffLines, OnLine
<1>4. (ay > 0 /\ by <= 0 /\ cy <= 0) \/ (ay <= 0 /\ by > 0 /\ cy > 0)
  BY DEF North, Vertex
<1>5. /\ Crosses(p, a, b) <=> IF ay <= 0 THEN sab > 0 ELSE sab < 0
      /\ Crosses(p, c, a) <=> IF cy <= 0 THEN sca > 0 ELSE sca < 0
      /\ Crosses(p, a, b) \in BOOLEAN /\ Crosses(p, c, a) \in BOOLEAN
  BY CrossesEitherWay DEF Vertex, Straddles, North
<1>6. InTriangle(p, a, b, c) <=>
        (sab > 0 /\ sbc > 0 /\ sca > 0) \/ (sab < 0 /\ sbc < 0 /\ sca < 0)
  BY DEF InTriangle
<1> HIDE DEF ay, by, cy, sab, sbc, sca
<1>7. cy * sab \in Int /\ ay * sbc \in Int /\ by * sca \in Int
  BY <1>1
<1>8. sab > 0 /\ sca > 0 => sbc > 0
  <2> SUFFICES ASSUME sab > 0, sca > 0, sbc < 0 PROVE FALSE
    BY <1>1, <1>3
  <2>1. CASE ay > 0 /\ by <= 0 /\ cy <= 0
    <3>1. cy * sab <= 0 /\ ay * sbc < 0 /\ by * sca <= 0
      BY <1>1, <2>1, ProductSign
    <3> QED
      BY <1>2, <1>7, <3>1
  <2>2. CASE ay <= 0 /\ by > 0 /\ cy > 0
    <3>1. cy * sab > 0 /\ ay * sbc >= 0 /\ by * sca > 0
      BY <1>1, <2>2, ProductSign
    <3> QED
      BY <1>2, <1>7, <3>1
  <2> QED
    BY <1>4, <2>1, <2>2
<1>9. sab < 0 /\ sca < 0 => sbc < 0
  <2> SUFFICES ASSUME sab < 0, sca < 0, sbc > 0 PROVE FALSE
    BY <1>1, <1>3
  <2>1. CASE ay > 0 /\ by <= 0 /\ cy <= 0
    <3>1. cy * sab >= 0 /\ ay * sbc > 0 /\ by * sca >= 0
      BY <1>1, <2>1, ProductSign
    <3> QED
      BY <1>2, <1>7, <3>1
  <2>2. CASE ay <= 0 /\ by > 0 /\ cy > 0
    <3>1. cy * sab < 0 /\ ay * sbc <= 0 /\ by * sca < 0
      BY <1>1, <2>2, ProductSign
    <3> QED
      BY <1>2, <1>7, <3>1
  <2> QED
    BY <1>4, <2>1, <2>2
<1>10. (Crosses(p, a, b) # Crosses(p, c, a)) <=> ((sab > 0) <=> (sca > 0))
  BY <1>1, <1>3, <1>4, <1>5
<1> QED
  BY <1>1, <1>3, <1>6, <1>8, <1>9, <1>10

\* Off its lines, a point is in a triangle iff the ray crosses an odd number of
\* sides.
LEMMA TriangleTest ==
    ASSUME NEW p \in Vertex, NEW a \in Vertex, NEW b \in Vertex, NEW c \in Vertex,
           OffLines(p, a, b, c)
    PROVE  InTriangle(p, a, b, c)
             <=> ((Crosses(p, a, b) # Crosses(p, b, c)) # Crosses(p, c, a))
<1>1. \A u, v \in Vertex : /\ Crosses(p, u, v) \in BOOLEAN
                           /\ (North(p, u) <=> North(p, v)) => ~Crosses(p, u, v)
  BY CrossesEitherWay DEF Straddles, North
<1>2. \A u, v, w \in Vertex : InTriangle(p, u, v, w) <=> InTriangle(p, v, w, u)
  BY DEF InTriangle
<1>3. OffLines(p, b, c, a) /\ OffLines(p, c, a, b)
  BY DEF OffLines
<1>4. CASE (North(p, a) <=> North(p, b)) /\ (North(p, a) <=> North(p, c))
  BY <1>1, <1>4, AllOnOneSide
<1>5. CASE (North(p, a) # North(p, b)) /\ (North(p, b) <=> North(p, c))
  BY <1>1, <1>5, OneApart
<1>6. CASE (North(p, b) # North(p, c)) /\ (North(p, c) <=> North(p, a))
  BY <1>1, <1>2, <1>3, <1>6, OneApart
<1>7. CASE (North(p, c) # North(p, a)) /\ (North(p, a) <=> North(p, b))
  BY <1>1, <1>2, <1>3, <1>7, OneApart
<1> QED
  BY <1>4, <1>5, <1>6, <1>7 DEF North
\* The edges of a polygon that the ray crosses, each named by its end.
Crossed(p, poly) == {i \in DOMAIN poly : Crosses(p, poly[i], Before(poly, i))}

\* The edges from from to to among them.
CrossedIn(p, poly, from, to) == {i \in from..to : Crosses(p, poly[i], poly[i - 1])}

Odd(S) == Cardinality(S) % 2 = 1

LEMMA OddSum ==
    ASSUME NEW m \in Nat, NEW n \in Nat
    PROVE  (m + n) % 2 = 1 <=> ((m % 2 = 1) # (n % 2 = 1))
OBVIOUS

\* The parity of two sets that share nothing.
LEMMA OddUnion ==
    ASSUME NEW S, NEW T, IsFiniteSet(S), IsFiniteSet(T), S \cap T = {}
    PROVE  /\ IsFiniteSet(S \cup T)
           /\ Odd(S \cup T) <=> (Odd(S) # Odd(T))
<1>1. /\ Cardinality(S) \in Nat /\ Cardinality(T) \in Nat
      /\ Cardinality(S \cup T) = Cardinality(S) + Cardinality(T)
      /\ IsFiniteSet(S \cup T)
  <2>1. Cardinality(S) \in Nat /\ Cardinality(T) \in Nat
    BY FS_CardinalityType
  <2>2. /\ IsFiniteSet(S \cup T)
        /\ Cardinality(S \cup T) = Cardinality(S) + Cardinality(T) - Cardinality(S \cap T)
    BY FS_Union
  <2>3. Cardinality(S \cap T) = 0
    BY FS_EmptySet
  <2> QED
    BY <2>1, <2>2, <2>3
<1> QED
  BY <1>1, OddSum DEF Odd

LEMMA NoneIsEven == ~Odd({})
BY FS_EmptySet DEF Odd

\* A set of at most one element.
LEMMA OddOne ==
    ASSUME NEW e, NEW P \in BOOLEAN
    PROVE  LET S == {x \in {e} : P} IN IsFiniteSet(S) /\ (Odd(S) <=> P)
<1>1. CASE P
  <2>1. {x \in {e} : P} = {e}
    BY <1>1
  <2>2. IsFiniteSet({e}) /\ Cardinality({e}) = 1
    BY FS_Singleton
  <2> QED
    BY <1>1, <2>1, <2>2 DEF Odd
<1>2. CASE ~P
  <2>1. {x \in {e} : P} = {}
    BY <1>2
  <2> QED
    BY <1>2, <2>1, FS_EmptySet DEF Odd
<1> QED
  BY <1>1, <1>2

\* A set moved along the integers is as large as before.
LEMMA OddShift ==
    ASSUME NEW S \in SUBSET Int, NEW T \in SUBSET Int, NEW k \in Int, IsFiniteSet(S),
           \A x \in S : x + k \in T, \A y \in T : y - k \in S
    PROVE  IsFiniteSet(T) /\ (Odd(T) <=> Odd(S))
<1> DEFINE f == [x \in S |-> x + k]
<1>1. f \in Bijection(S, T)
  <2>1. f \in [S -> T] /\ \A a, b \in S : f[a] = f[b] => a = b
    OBVIOUS
  <2>2. \A y \in T : \E x \in S : f[x] = y
    <3> SUFFICES ASSUME NEW y \in T PROVE f[y - k] = y /\ y - k \in S
      OBVIOUS
    <3> QED
      OBVIOUS
  <2> QED
    BY <2>1, <2>2 DEF Bijection, Injection, Surjection, IsInjective
<1>2. ExistsBijection(S, T)
  BY <1>1 DEF ExistsBijection
<1> QED
  BY <1>2, FS_Bijection DEF Odd

\* The test splits at vertex i into the first edge, those up to i and the rest.
LEMMA SplitAt ==
    ASSUME NEW p \in Vertex, NEW poly \in Seq(Vertex), NEW n, n = Len(poly), n >= 3,
           NEW i \in 2..n
    PROVE  /\ IsFiniteSet(CrossedIn(p, poly, 2, i)) /\ IsFiniteSet(CrossedIn(p, poly, i + 1, n))
           /\ isPointInPolygon(p, poly)
                <=> ((Crosses(p, poly[1], poly[n]) # Odd(CrossedIn(p, poly, 2, i)))
                        # Odd(CrossedIn(p, poly, i + 1, n)))
<1> DEFINE F == {x \in {1} : Crosses(p, poly[1], poly[n])}
           X == CrossedIn(p, poly, 2, i)
           Y == CrossedIn(p, poly, i + 1, n)
<1>1. n \in Nat /\ DOMAIN poly = 1..n /\ i \in Nat /\ 2 <= i /\ i <= n
  BY LenProperties
<1>2. Crossed(p, poly) = (F \cup X) \cup Y
  BY <1>1 DEF Crossed, CrossedIn, Before
<1>3. F \cap X = {} /\ (F \cup X) \cap Y = {}
  BY <1>1 DEF CrossedIn
<1>4. IsFiniteSet(X) /\ IsFiniteSet(Y)
  <2>1. IsFiniteSet(2..i) /\ IsFiniteSet((i + 1)..n)
    BY <1>1, FS_Interval
  <2>2. X \subseteq 2..i /\ Y \subseteq (i + 1)..n
    BY DEF CrossedIn
  <2> QED
    BY <2>1, <2>2, FS_Subset
<1>5. IsFiniteSet(F) /\ (Odd(F) <=> Crosses(p, poly[1], poly[n]))
  <2>1. Crosses(p, poly[1], poly[n]) \in BOOLEAN
    BY DEF Crosses
  <2> QED
    BY <2>1, OddOne
<1>6. Odd(Crossed(p, poly)) <=> ((Odd(F) # Odd(X)) # Odd(Y))
  <2> HIDE DEF F, X, Y
  <2>1. IsFiniteSet(F \cup X) /\ (Odd(F \cup X) <=> (Odd(F) # Odd(X)))
    BY <1>3, <1>4, <1>5, OddUnion
  <2>2. Odd((F \cup X) \cup Y) <=> (Odd(F \cup X) # Odd(Y))
    BY <1>3, <1>4, <2>1, OddUnion
  <2> QED
    BY <1>2, <2>1, <2>2 DEF Odd
<1>7. isPointInPolygon(p, poly) <=> Odd(Crossed(p, poly))
  BY DEF isPointInPolygon, Odd, Crossed
<1>8. isPointInPolygon(p, poly) <=> ((Crosses(p, poly[1], poly[n]) # Odd(X)) # Odd(Y))
  <2>1. Crosses(p, poly[1], poly[n]) \in BOOLEAN
    BY DEF Crosses
  <2> HIDE DEF F, X, Y
  <2> QED
    BY <1>5, <1>6, <1>7, <2>1 DEF Odd
<1> QED
  BY <1>4, <1>8
\* All edges at once.
LEMMA AllEdges ==
    ASSUME NEW p \in Vertex, NEW poly \in Seq(Vertex), NEW n, n = Len(poly), n >= 3
    PROVE  isPointInPolygon(p, poly)
             <=> (Crosses(p, poly[1], poly[n]) # Odd(CrossedIn(p, poly, 2, n)))
<1>1. n \in Nat /\ n \in 2..n
  BY LenProperties
<1>2. isPointInPolygon(p, poly)
        <=> ((Crosses(p, poly[1], poly[n]) # Odd(CrossedIn(p, poly, 2, n)))
                # Odd(CrossedIn(p, poly, n + 1, n)))
  BY <1>1, SplitAt
<1>3. CrossedIn(p, poly, n + 1, n) = {}
  BY <1>1 DEF CrossedIn
<1>4. Crosses(p, poly[1], poly[n]) \in BOOLEAN
  BY DEF Crosses
<1> QED
  BY <1>2, <1>3, <1>4, NoneIsEven DEF Odd

\* The diagonal from vertex i to the first cuts a polygon in two: it is an edge
\* of both parts, and each other edge is one of one part.
LEMMA CutInTwo ==
    ASSUME NEW p \in Vertex, NEW poly \in Seq(Vertex), NEW i \in 3..(Len(poly) - 1)
    PROVE  isPointInPolygon(p, poly) <=>
             (isPointInPolygon(p, SubSeq(poly, 1, i))
                # isPointInPolygon(p, <<poly[1]>> \o SubSeq(poly, i, Len(poly))))
<1> DEFINE n == Len(poly)
           A == SubSeq(poly, 1, i)
           B == <<poly[1]>> \o SubSeq(poly, i, n)
           m == n - i + 2
           X == CrossedIn(p, poly, 2, i)
           Y == CrossedIn(p, poly, i + 1, n)
           Z == CrossedIn(p, B, 3, m)
           D == Crosses(p, poly[1], poly[i])
<1>1. /\ n \in Nat /\ i \in Nat /\ 3 <= i /\ i <= n - 1 /\ m \in Nat /\ m >= 3
      /\ \A j \in 1..n : poly[j] \in Vertex
  BY LenProperties, ElementOfSeq
<1>2. A \in Seq(Vertex) /\ Len(A) = i /\ \A j \in 1..i : A[j] = poly[j]
  BY <1>1, SubSeqProperties
<1>3. /\ B \in Seq(Vertex) /\ Len(B) = m /\ B[1] = poly[1]
      /\ \A j \in 2..m : B[j] = poly[j + i - 2]
  <2> DEFINE R == SubSeq(poly, i, n)
  <2>1. /\ R \in Seq(Vertex) /\ Len(R) = n - i + 1
        /\ \A j \in 1..(n - i + 1) : R[j] = poly[i + j - 1]
    BY <1>1, SubSeqProperties
  <2>2. <<poly[1]>> \in Seq(Vertex) /\ Len(<<poly[1]>>) = 1 /\ <<poly[1]>>[1] = poly[1]
    BY <1>1
  <2> HIDE DEF R
  <2>3. /\ B \in Seq(Vertex) /\ Len(B) = 1 + (n - i + 1)
        /\ \A j \in 1..(1 + (n - i + 1)) : B[j] = IF j <= 1 THEN <<poly[1]>>[j] ELSE R[j - 1]
    BY <2>1, <2>2, ConcatProperties DEF R
  <2> QED
    BY <1>1, <2>1, <2>2, <2>3
<1>4. isPointInPolygon(p, poly) <=> ((Crosses(p, poly[1], poly[n]) # Odd(X)) # Odd(Y))
  BY <1>1, SplitAt
<1>5. isPointInPolygon(p, A) <=> (D # Odd(X))
  <2>1. isPointInPolygon(p, A) <=> (Crosses(p, A[1], A[i]) # Odd(CrossedIn(p, A, 2, i)))
    <3>1. A \in Seq(Vertex) /\ i = Len(A) /\ i >= 3
      BY <1>1, <1>2
    <3> HIDE DEF A
    <3> QED
      BY <3>1, AllEdges
  <2>2. CrossedIn(p, A, 2, i) = X
    BY <1>1, <1>2 DEF CrossedIn
  <2>5. A[1] = poly[1] /\ A[i] = poly[i]
    BY <1>1, <1>2
  <2>6. D \in BOOLEAN
    BY DEF Crosses
  <2> QED
    BY <2>1, <2>2, <2>5, <2>6 DEF Odd
<1>6. isPointInPolygon(p, B) <=> ((Crosses(p, poly[1], poly[n]) # D) # Odd(Y))
  <2>1. isPointInPolygon(p, B) <=> ((Crosses(p, B[1], B[m]) # Odd(CrossedIn(p, B, 2, 2)))
                                      # Odd(CrossedIn(p, B, 2 + 1, m)))
    <3>1. B \in Seq(Vertex) /\ m = Len(B) /\ m >= 3 /\ 2 \in 2..m
      BY <1>1, <1>3
    <3> HIDE DEF B, m
    <3> QED
      BY <3>1, SplitAt
  <2>2. B[1] = poly[1] /\ B[2] = poly[i] /\ B[m] = poly[n]
    <3>1. 2 \in 2..m /\ m \in 2..m /\ 2 + i - 2 = i /\ m + i - 2 = n
      BY <1>1
    <3> HIDE DEF B, m, n
    <3> QED
      BY <1>3, <3>1
  <2>3. Odd(CrossedIn(p, B, 2, 2)) <=> D
    <3>1. CrossedIn(p, B, 2, 2) = {x \in {2} : D}
      <4>1. 2..2 = {2} /\ 2 - 1 = 1
        OBVIOUS
      <4>2. Crosses(p, poly[i], poly[1]) <=> D
        BY <1>1, CrossesEitherWay
      <4> QED
        BY <2>2, <4>1, <4>2 DEF CrossedIn
    <3>2. D \in BOOLEAN
      BY DEF Crosses
    <3> QED
      BY <3>1, <3>2, OddOne
  <2>4. Odd(Z) <=> Odd(Y)
    <3>1. IsFiniteSet(Y)
      BY <1>1, SplitAt
    <3>2. Y \in SUBSET Int /\ Z \in SUBSET Int /\ (2 - i) \in Int
      BY <1>1 DEF CrossedIn
    <3>3. \A x \in Y : x + (2 - i) \in Z
      <4> SUFFICES ASSUME NEW x \in Y PROVE x + (2 - i) \in Z
        OBVIOUS
      <4>1. x \in (i + 1)..n /\ Crosses(p, poly[x], poly[x - 1])
        BY DEF CrossedIn
      <4>2. x + (2 - i) \in 3..m /\ x + (2 - i) - 1 \in 2..m
        BY <1>1, <4>1
      <4>3. B[x + (2 - i)] = poly[x] /\ B[x + (2 - i) - 1] = poly[x - 1]
        BY <1>1, <1>3, <4>1, <4>2
      <4> QED
        BY <4>1, <4>2, <4>3 DEF CrossedIn
    <3>4. \A y \in Z : y - (2 - i) \in Y
      <4> SUFFICES ASSUME NEW y \in Z PROVE y - (2 - i) \in Y
        OBVIOUS
      <4>1. y \in 3..m /\ Crosses(p, B[y], B[y - 1])
        BY DEF CrossedIn
      <4>2. y - (2 - i) \in (i + 1)..n /\ y - 1 \in 2..m
        BY <1>1, <4>1
      <4>3. B[y] = poly[y - (2 - i)] /\ B[y - 1] = poly[y - (2 - i) - 1]
        BY <1>1, <1>3, <4>1, <4>2
      <4> QED
        BY <4>1, <4>2, <4>3 DEF CrossedIn
    <3> HIDE DEF Y, Z
    <3> QED
      BY <3>1, <3>2, <3>3, <3>4, OddShift
  <2>5. Crosses(p, poly[1], poly[n]) \in BOOLEAN /\ D \in BOOLEAN
    BY DEF Crosses
  <2>6. CrossedIn(p, B, 2 + 1, m) = Z
    OBVIOUS
  <2> HIDE DEF B, D, Y, Z, m, n
  <2> QED
    BY <2>1, <2>2, <2>3, <2>4, <2>5, <2>6 DEF Odd
<1>7. Crosses(p, poly[1], poly[n]) \in BOOLEAN /\ D \in BOOLEAN
  BY DEF Crosses
<1> HIDE DEF A, B, X, Y, n, D
<1>8. isPointInPolygon(p, poly) <=> (isPointInPolygon(p, A) # isPointInPolygon(p, B))
  <2>1. isPointInPolygon(p, A) \in BOOLEAN /\ isPointInPolygon(p, B) \in BOOLEAN
    BY DEF isPointInPolygon
  <2> QED
    BY <1>4, <1>5, <1>6, <1>7, <2>1 DEF Odd
<1> QED
  BY <1>8 DEF A, B, n
\* The triangles of the fan that hold p, each named by its second vertex, and
\* the property for a polygon that is not a variable.
Holding(p, poly) ==
    {i \in 2..(Len(poly) - 1) : InTriangle(p, poly[1], poly[i], poly[i + 1])}

OffFan(p, poly) ==
    \A i \in 2..(Len(poly) - 1) : OffLines(p, poly[1], poly[i], poly[i + 1])

Matches(p, poly) == OffFan(p, poly) => (isPointInPolygon(p, poly) <=> Odd(Holding(p, poly)))

\* The test of a polygon of three vertices is the test of the triangle.
LEMMA InOneTriangle ==
    ASSUME NEW p \in Vertex, NEW a \in Vertex, NEW b \in Vertex, NEW c \in Vertex,
           NEW poly \in Seq(Vertex), Len(poly) = 3, poly[1] = a, poly[2] = b, poly[3] = c,
           OffLines(p, a, b, c)
    PROVE  isPointInPolygon(p, poly) <=> InTriangle(p, a, b, c)
<1>2. isPointInPolygon(p, poly) <=> (Crosses(p, a, c) # Odd(CrossedIn(p, poly, 2, 3)))
  <2>1. \A n : n = Len(poly) /\ n >= 3 =>
          (isPointInPolygon(p, poly)
             <=> (Crosses(p, poly[1], poly[n]) # Odd(CrossedIn(p, poly, 2, n))))
    BY AllEdges
  <2> QED
    BY <2>1
<1>4. Odd(CrossedIn(p, poly, 2, 3)) <=> (Crosses(p, b, a) # Crosses(p, c, b))
  <2> DEFINE S == {x \in {2} : Crosses(p, b, a)}  T == {x \in {3} : Crosses(p, c, b)}
  <2>1. CrossedIn(p, poly, 2, 3) = S \cup T
    <3>1. 2..3 = {2, 3} /\ 2 - 1 = 1 /\ 3 - 1 = 2
      OBVIOUS
    <3> QED
      BY <3>1 DEF CrossedIn
  <2>2. Crosses(p, b, a) \in BOOLEAN /\ Crosses(p, c, b) \in BOOLEAN
    BY DEF Crosses
  <2>3. IsFiniteSet(S) /\ (Odd(S) <=> Crosses(p, b, a))
    BY <2>2, OddOne
  <2>4. IsFiniteSet(T) /\ (Odd(T) <=> Crosses(p, c, b))
    BY <2>2, OddOne
  <2>5. S \cap T = {}
    OBVIOUS
  <2> HIDE DEF S, T
  <2>6. Odd(S \cup T) <=> (Odd(S) # Odd(T))
    BY <2>3, <2>4, <2>5, OddUnion
  <2> QED
    BY <2>1, <2>2, <2>3, <2>4, <2>6 DEF Odd
<1>5. InTriangle(p, a, b, c) <=> ((Crosses(p, a, b) # Crosses(p, b, c)) # Crosses(p, c, a))
  BY TriangleTest
<1>6. /\ Crosses(p, b, a) <=> Crosses(p, a, b)
      /\ Crosses(p, c, b) <=> Crosses(p, b, c)
      /\ Crosses(p, a, c) <=> Crosses(p, c, a)
  BY CrossesEitherWay
<1>7. \A u, v \in Vertex : Crosses(p, u, v) \in BOOLEAN
  BY DEF Crosses
<1> QED
  BY <1>2, <1>4, <1>5, <1>6, <1>7 DEF Odd

\* The triangle that a new vertex adds, as a polygon.
LEMMA OneAndTwo ==
    ASSUME NEW S, NEW s \in Seq(S), NEW n \in Nat, n >= 1, Len(s) = n + 1
    PROVE  LET t == <<s[1]>> \o SubSeq(s, n, n + 1)
           IN  t \in Seq(S) /\ Len(t) = 3 /\ t[1] = s[1] /\ t[2] = s[n] /\ t[3] = s[n + 1]
<1>1. s[1] \in S /\ \A i \in n..(n + 1) : s[i] \in S
  BY ElementOfSeq
<1>2. PICK first \in Seq(S) : first = <<s[1]>> /\ Len(first) = 1 /\ first[1] = s[1]
  <2>1. <<s[1]>> \in Seq(S) /\ Len(<<s[1]>>) = 1 /\ <<s[1]>>[1] = s[1]
    BY <1>1
  <2> QED
    BY <2>1
<1>3. PICK rest \in Seq(S) : /\ rest = SubSeq(s, n, n + 1) /\ Len(rest) = 2
                             /\ rest[1] = s[n] /\ rest[2] = s[n + 1]
  <2>1. /\ SubSeq(s, n, n + 1) \in Seq(S) /\ Len(SubSeq(s, n, n + 1)) = (n + 1) - n + 1
        /\ \A i \in 1..((n + 1) - n + 1) : SubSeq(s, n, n + 1)[i] = s[n + i - 1]
    BY <1>1, SubSeqProperties
  <2>2. PICK r : r = SubSeq(s, n, n + 1)
    OBVIOUS
  <2>3. r \in Seq(S) /\ Len(r) = 2 /\ r[1] = s[n + 1 - 1] /\ r[2] = s[n + 2 - 1]
    BY <2>1, <2>2
  <2>4. n + 1 - 1 = n /\ n + 2 - 1 = n + 1
    OBVIOUS
  <2> QED
    BY <2>2, <2>3, <2>4
<1>4. PICK t : t = first \o rest
  OBVIOUS
<1>5. /\ t \in Seq(S) /\ Len(t) = Len(first) + Len(rest)
      /\ \A i \in 1..(Len(first) + Len(rest)) :
            t[i] = IF i <= Len(first) THEN first[i] ELSE rest[i - Len(first)]
  BY <1>4, ConcatProperties
<1>6. Len(t) = 3 /\ t[1] = first[1] /\ t[2] = rest[1] /\ t[3] = rest[2]
  BY <1>2, <1>3, <1>5
<1>7. t \in Seq(S) /\ Len(t) = 3 /\ t[1] = s[1] /\ t[2] = s[n] /\ t[3] = s[n + 1]
  BY <1>2, <1>3, <1>5, <1>6
<1> QED
  BY <1>2, <1>3, <1>4, <1>7

\* One more vertex adds one more triangle.
LEMMA OneMoreVertex ==
    ASSUME NEW p \in Vertex, NEW poly \in Seq(Vertex), NEW v \in Vertex, Matches(p, poly)
    PROVE  Matches(p, Append(poly, v))
<1> PICK n : n = Len(poly)
  OBVIOUS
<1> PICK new : new = Append(poly, v)
  OBVIOUS
<1>1. /\ n \in Nat /\ new \in Seq(Vertex) /\ Len(new) = n + 1 /\ new[n + 1] = v
      /\ \A i \in 1..n : new[i] = poly[i]
  BY AppendProperties, LenProperties
<1> SUFFICES ASSUME OffFan(p, new)
             PROVE  isPointInPolygon(p, new) <=> Odd(Holding(p, new))
  BY DEF Matches
<1>2. CASE n <= 1
  <2>1. Holding(p, new) = {}
    BY <1>1, <1>2 DEF Holding
  <2>2. ~isPointInPolygon(p, new)
    BY <1>1, <1>2 DEF isPointInPolygon
  <2> QED
    BY <2>1, <2>2, NoneIsEven
<1>3. CASE n = 2
  <2>1. OffLines(p, new[1], new[2], new[3])
    BY <1>1, <1>3 DEF OffFan
  <2>2. isPointInPolygon(p, new) <=> InTriangle(p, new[1], new[2], new[3])
    <3>1. new[1] \in Vertex /\ new[2] \in Vertex /\ new[3] \in Vertex /\ Len(new) = 3
      BY <1>1, <1>3, ElementOfSeq
    <3> QED
      BY <1>1, <2>1, <3>1, InOneTriangle
  <2>3. Holding(p, new) = {x \in {2} : InTriangle(p, new[1], new[2], new[3])}
    <3>1. 2..(Len(new) - 1) = {2} /\ 2 + 1 = 3
      BY <1>1, <1>3
    <3> QED
      BY <3>1 DEF Holding
  <2>4. InTriangle(p, new[1], new[2], new[3]) \in BOOLEAN
    BY DEF InTriangle
  <2> QED
    BY <2>2, <2>3, <2>4, OddOne
<1>4. CASE n >= 3
  <2> PICK tip : tip = <<new[1]>> \o SubSeq(new, n, n + 1)
    OBVIOUS
  <2> DEFINE more == {x \in {n} : InTriangle(p, new[1], new[n], new[n + 1])}
  <2>1. isPointInPolygon(p, new) <=> (isPointInPolygon(p, poly) # isPointInPolygon(p, tip))
    <3>1. n \in 3..(Len(new) - 1)
      BY <1>1, <1>4
    <3>2. SubSeq(new, 1, n) = poly
      <4>1. /\ SubSeq(new, 1, n) \in Seq(Vertex) /\ Len(SubSeq(new, 1, n)) = n
            /\ \A i \in 1..n : SubSeq(new, 1, n)[i] = new[i]
        BY <1>1, <1>4, SubSeqProperties, ElementOfSeq
      <4> QED
        BY <1>1, <4>1, SeqEqual
    <3>3. new \in Seq(Vertex)
      BY <1>1
    <3>4. isPointInPolygon(p, new) <=>
            (isPointInPolygon(p, SubSeq(new, 1, n))
               # isPointInPolygon(p, <<new[1]>> \o SubSeq(new, n, Len(new))))
      BY <3>1, <3>3, CutInTwo, ZenonT(30)
    <3> QED
      BY <1>1, <3>2, <3>4
  <2>2. /\ tip \in Seq(Vertex) /\ Len(tip) = 3
        /\ tip[1] = new[1] /\ tip[2] = new[n] /\ tip[3] = new[n + 1]
    BY <1>1, <1>4, OneAndTwo
  <2>3. OffLines(p, new[1], new[n], new[n + 1])
    BY <1>1, <1>4 DEF OffFan
  <2>4. isPointInPolygon(p, tip) <=> InTriangle(p, new[1], new[n], new[n + 1])
    <3>1. new[1] \in Vertex /\ new[n] \in Vertex /\ new[n + 1] \in Vertex
      BY <1>1, <1>4, ElementOfSeq
    <3> QED
      BY <2>2, <2>3, <3>1, InOneTriangle
  <2>5. isPointInPolygon(p, poly) <=> Odd(Holding(p, poly))
    <3>1. OffFan(p, poly)
      <4> SUFFICES ASSUME NEW i \in 2..(n - 1)
                   PROVE  OffLines(p, poly[1], poly[i], poly[i + 1])
        BY DEF OffFan
      <4>1. OffLines(p, new[1], new[i], new[i + 1])
        BY <1>1, <1>4 DEF OffFan
      <4> QED
        BY <1>1, <1>4, <4>1
    <3> QED
      BY <3>1 DEF Matches
  <2>6. Holding(p, new) = Holding(p, poly) \cup more /\ Holding(p, poly) \cap more = {}
    <3>1. 2..(Len(new) - 1) = 2..(n - 1) \cup {n} /\ n \notin 2..(n - 1)
      BY <1>1, <1>4
    <3>2. \A i \in 2..(n - 1) : new[i] = poly[i] /\ new[i + 1] = poly[i + 1]
      BY <1>1, <1>4
    <3>3. new[1] = poly[1]
      BY <1>1, <1>4
    <3> QED
      BY <3>1, <3>2, <3>3 DEF Holding
  <2>7. IsFiniteSet(Holding(p, poly))
    <3>1. IsFiniteSet(2..(n - 1))
      BY <1>1, FS_Interval
    <3>2. Holding(p, poly) \subseteq 2..(n - 1)
      BY DEF Holding
    <3> QED
      BY <3>1, <3>2, FS_Subset
  <2>8. IsFiniteSet(more) /\ (Odd(more) <=> InTriangle(p, new[1], new[n], new[n + 1]))
    <3>1. InTriangle(p, new[1], new[n], new[n + 1]) \in BOOLEAN
      BY DEF InTriangle
    <3> QED
      BY <3>1, OddOne
  <2> HIDE DEF more
  <2>9. Odd(Holding(p, new)) <=> (Odd(Holding(p, poly)) # Odd(more))
    <3>1. Odd(Holding(p, poly) \cup more) <=> (Odd(Holding(p, poly)) # Odd(more))
      BY <2>6, <2>7, <2>8, OddUnion
    <3> QED
      BY <2>6, <3>1
  <2>10. isPointInPolygon(p, tip) \in BOOLEAN /\ isPointInPolygon(p, poly) \in BOOLEAN
    BY DEF isPointInPolygon
  <2> QED
    BY <2>1, <2>4, <2>5, <2>8, <2>9, <2>10 DEF Odd
<1> QED
  BY <1>1, <1>2, <1>3, <1>4

\* What is drawn has vertices on the grid, and the ray test agrees with its fan.
DrawInv ==
    /\ point \in Vertex
    /\ polygon \in Seq(Vertex)
    /\ Matches(point, polygon)

LEMMA DrawInitInv == DrawInit => DrawInv
<1> SUFFICES ASSUME DrawInit PROVE DrawInv
  OBVIOUS
<1>1. point \in Vertex /\ polygon = <<>>
  BY GridAssumption DEF DrawInit, Points, Vertex
<1>2. polygon \in Seq(Vertex) /\ Len(polygon) = 0
  BY <1>1, EmptySeq
<1>3. Holding(point, polygon) = {} /\ ~isPointInPolygon(point, polygon)
  BY <1>2 DEF Holding, isPointInPolygon
<1> QED
  BY <1>1, <1>2, <1>3, NoneIsEven DEF DrawInv, Matches

LEMMA DrawKeepsInv == DrawInv /\ [Draw]_drawVars => DrawInv'
<1> SUFFICES ASSUME DrawInv, [Draw]_drawVars PROVE DrawInv'
  OBVIOUS
<1>1. CASE Draw
  <2>1. PICK v \in Points(VertexGrid) : polygon' = Append(polygon, v) /\ point' = point
    BY <1>1 DEF Draw
  <2>2. v \in Vertex
    BY GridAssumption DEF Points, Vertex
  <2>3. Append(polygon, v) \in Seq(Vertex)
    BY <2>2, AppendProperties DEF DrawInv
  <2>4. Matches(point, Append(polygon, v))
    BY <2>2, OneMoreVertex DEF DrawInv
  <2> QED
    BY <2>1, <2>3, <2>4 DEF DrawInv
<1>2. CASE UNCHANGED drawVars
  BY <1>2 DEF DrawInv, drawVars
<1> QED
  BY <1>1, <1>2

LEMMA InvIsExact == DrawInv => RayTestIsExact
<1> SUFFICES ASSUME DrawInv PROVE RayTestIsExact
  OBVIOUS
<1>1. ~OnFan => OffFan(point, polygon)
  BY DEF OnFan, Fan, OffFan, OffLines
<1>2. Holding(point, polygon)
        = {i \in Fan : InTriangle(point, polygon[1], polygon[i], polygon[i + 1])}
  BY DEF Holding, Fan
<1>3. MatchesFan
  BY <1>1, <1>2 DEF DrawInv, Matches, MatchesFan, Inside, Odd
<1>4. CutTilesExactly
  BY CutInTwo DEF DrawInv, CutTilesExactly, Inside
<1> QED
  BY <1>3, <1>4 DEF RayTestIsExact

\* For every polygon, however it is drawn, and every point, with integer
\* coordinates of any size: off the lines of the fan the ray test says the same as
\* the triangles, and where a polygon is cut in two its parts neither overlap nor
\* leave a gap.
THEOREM RayTestExact == DrawSpec => []RayTestIsExact
<1>1. DrawInit => DrawInv
  BY DrawInitInv
<1>2. DrawInv /\ [Draw]_drawVars => DrawInv'
  BY DrawKeepsInv
<1>3. DrawInv => RayTestIsExact
  BY InvIsExact
<1> QED
  BY <1>1, <1>2, <1>3, PTL DEF DrawSpec
=============================================================================
