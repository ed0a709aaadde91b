--------------------------- MODULE OfficePolygons ---------------------------
(***************************************************************************)
(* The geofence-service's records of one office: HR sets, deactivates and  *)
(* deletes its polygons while phones are verified against the active one.  *)
(* Setting is a transaction whose first statement locks the rows of the    *)
(* office in their index, and the gaps between them (MySQL, repeatable     *)
(* read).  Deletions are single statements after a read.  A verification   *)
(* is three reads: the office, its active polygon, the polygon's vertices. *)
(*                                                                         *)
(* open        the office row: "absent", "closed" (inactive) or "open"     *)
(* row[p]      "unset", "active", "inactive" or "deleted"                  *)
(* version[p]  of a polygon that is or was set                             *)
(* call[c]     a call under way, with the polygon it sets or has read and  *)
(*             the polygons its transaction has deactivated                *)
(* last        history: the polygon set last, None when it is taken away   *)
(* during[c]   history: the values of last while call c is under way       *)
(***************************************************************************)
EXTENDS Naturals, FiniteSets

CONSTANTS Polygons,     \* bound: polygons ever set
          Calls, None

ASSUME NoneAssumption == None \notin Polygons

VARIABLES open, row, version, call, last, during

vars == <<open, row, version, call, last, during>>

Idle == [pc |-> "idle", polygon |-> None, old |-> {}]

Init ==
    /\ open \in {"closed", "open"}
    /\ row = [p \in Polygons |-> "unset"]
    /\ version = [p \in Polygons |-> 0]
    /\ call = [c \in Calls |-> Idle]
    /\ last = None
    /\ during = [c \in Calls |-> {}]

Rows == {p \in Polygons : row[p] \in {"active", "inactive"}}
Active == {p \in Polygons : row[p] = "active"}

At(c, pc) == call[c].pc = pc

\* One step of call c, which from then on is at pc with polygon p.
Goes(c, pc, p, old) ==
    /\ call' = [call EXCEPT ![c] = [pc |-> pc, polygon |-> p, old |-> old]]
    /\ during' = [d \in Calls |-> IF call'[d].pc = "idle" THEN {}
                                  ELSE during[d] \cup {last'}]

GoesTo(c, pc, p) == Goes(c, pc, p, {})
Ends(c) == GoesTo(c, "idle", None)

\* The transactions that hold locks on the rows and gaps of the office.
Holders == {c \in Calls : At(c, "create")}

\* Row locks exclude each other; where there is no row, gap locks do not.
RowsFree(c) == Holders \ {c} = {} \/ Rows = {}

\* Mutant: an insert does not wait for the gap locks of others.
NeverWaitsForGaps(c) == TRUE

GapsFree(c) == Holders \ {c} = {}

-----------------------------------------------------------------------------
(***************************************************************************)
(* setOfficePolygon                                                        *)
(***************************************************************************)

\* The office is found and the vertices are valid.
SetBegin(c) ==
    /\ At(c, "idle") /\ open # "absent"
    /\ UNCHANGED <<open, row, version, last>>
    /\ \E p \in Polygons : /\ row[p] = "unset"
                           /\ \A d \in Calls : call[d].polygon # p
                           /\ GoesTo(c, "deactivate", p)

\* Mutant: without a transaction the old polygon is out at once.
SetDeactivateAtOnce(c) ==
    /\ At(c, "deactivate") /\ RowsFree(c)
    /\ row' = [p \in Polygons |-> IF p \in Active THEN "inactive" ELSE row[p]]
    /\ UNCHANGED <<open, version, last>>
    /\ Goes(c, "create", call[c].polygon, Active)

\* updateMany, seen by nobody before the commit, and the locks it takes.
SetDeactivate(c) ==
    /\ At(c, "deactivate") /\ RowsFree(c)
    /\ UNCHANGED <<open, row, version, last>>
    /\ Goes(c, "create", call[c].polygon, Active)

\* count, create with the vertices, commit.
SetCreate(c) ==
    /\ At(c, "create") /\ GapsFree(c) /\ open # "absent"
    /\ LET new == call[c].polygon IN
       /\ row' = [p \in Polygons |-> IF p = new THEN "active"
                                   ELSE IF p \in call[c].old \cap Rows THEN "inactive"
                                   ELSE row[p]]
       /\ version' = [version EXCEPT ![new] = Cardinality(Rows) + 1]
       /\ last' = new
    /\ UNCHANGED open
    /\ Ends(c)

\* The transaction is rolled back: the office is gone, two inserts wait for
\* each other's gap locks and one is the victim, or it takes too long.
SetRollback(c) ==
    /\ At(c, "deactivate") \/ At(c, "create")
    /\ UNCHANGED <<open, row, version, last>>
    /\ Ends(c)

-----------------------------------------------------------------------------
(***************************************************************************)
(* Taking polygons and the office away                                     *)
(***************************************************************************)

\* deleteOfficePolygon, both ways.
DeleteOfficePolygon(c) ==
    /\ At(c, "idle") /\ open # "absent" /\ RowsFree(c)
    /\ \/ row' = [p \in Polygons |-> IF p \in Rows THEN "deleted" ELSE row[p]]
       \/ row' = [p \in Polygons |-> IF p \in Active THEN "inactive" ELSE row[p]]
    /\ last' = None
    /\ UNCHANGED <<open, version>>
    /\ Ends(c)

\* deletePolygonById finds the row by its id, or the active one by the
\* office's display id.
DeletePolygonFind(c) ==
    /\ At(c, "idle")
    /\ UNCHANGED <<open, row, version, last>>
    /\ \E p \in Rows : GoesTo(c, "delete", p)

\* It deletes that row, unless somebody else has (P2025).
DeletePolygonDelete(c) ==
    /\ At(c, "delete") /\ RowsFree(c)
    /\ LET p == call[c].polygon IN
       /\ row' = [row EXCEPT ![p] = "deleted"]
       /\ last' = IF p = last THEN None ELSE last
    /\ UNCHANGED <<open, version>>
    /\ Ends(c)

\* deleteOffice: the row goes and its polygons with it, or all are deactivated.
DeleteOffice(c) ==
    /\ At(c, "idle") /\ open # "absent" /\ RowsFree(c)
    /\ \/ /\ open' = "absent"
          /\ row' = [p \in Polygons |-> IF p \in Rows THEN "deleted" ELSE row[p]]
       \/ /\ open' = "closed"
          /\ row' = [p \in Polygons |-> IF p \in Active THEN "inactive" ELSE row[p]]
    /\ last' = None
    /\ UNCHANGED version
    /\ Ends(c)

-----------------------------------------------------------------------------
(***************************************************************************)
(* verifyLocation                                                          *)
(***************************************************************************)

VerifyOffice(c) ==
    /\ At(c, "idle") /\ open = "open"
    /\ UNCHANGED <<open, row, version, last>>
    /\ GoesTo(c, "polygon", None)

\* The active polygon of the highest version.
Current == {p \in Active : \A q \in Active : version[q] <= version[p]}

VerifyPolygon(c) ==
    /\ At(c, "polygon")
    /\ UNCHANGED <<open, row, version, last>>
    /\ \E p \in Current : GoesTo(c, "vertices", p)

\* NO_ACTIVE_POLYGON.
VerifyNoPolygon(c) ==
    /\ At(c, "polygon") /\ Current = {}
    /\ UNCHANGED <<open, row, version, last>>
    /\ Ends(c)

\* The vertices are there and the point is judged.
VerifyJudge(c) ==
    /\ At(c, "vertices") /\ call[c].polygon \in Rows
    /\ UNCHANGED <<open, row, version, last>>
    /\ Ends(c)

\* The polygon has been deleted, and its vertices with it.
VerifyNoVertices(c) ==
    /\ At(c, "vertices") /\ call[c].polygon \notin Rows
    /\ UNCHANGED <<open, row, version, last>>
    /\ Ends(c)

-----------------------------------------------------------------------------
Next ==
    \E c \in Calls :
        \/ SetBegin(c) \/ SetDeactivate(c) \/ SetCreate(c) \/ SetRollback(c)
        \/ DeleteOfficePolygon(c) \/ DeletePolygonFind(c) \/ DeletePolygonDelete(c)
        \/ DeleteOffice(c)
        \/ VerifyOffice(c) \/ VerifyPolygon(c) \/ VerifyNoPolygon(c)
        \/ VerifyJudge(c) \/ VerifyNoVertices(c)

Spec == Init /\ [][Next]_vars

-----------------------------------------------------------------------------
(***************************************************************************)
(* Properties                                                              *)
(***************************************************************************)

TypeOK ==
    /\ open \in {"absent", "closed", "open"}
    /\ row \in [Polygons -> {"unset", "active", "inactive", "deleted"}]
    /\ version \in [Polygons -> Nat]
    /\ call \in [Calls -> [pc : {"idle", "deactivate", "create", "delete",
                                 "polygon", "vertices"},
                           polygon : Polygons \cup {None},
                           old : SUBSET Polygons]]
    /\ last \in Polygons \cup {None}
    /\ during \in [Calls -> SUBSET (Polygons \cup {None})]

\* However many uploads and deletions overlap, the polygon in force is the one
\* uploaded last, and there is never a second one, also when the office had no
\* polygon whose row could be locked.
LastIsInForce == Active = {last} \ {None}

\* A verification answers what held at some moment of it, although it reads
\* polygon and vertices one after the other: it judges by a polygon that was in
\* force then, and says that there is none only if none was, so that replacing a
\* polygon never leaves the office without one.
VerdictsHeld ==
    [][\A c \in Calls : /\ VerifyJudge(c) => call[c].polygon \in during[c]
                        /\ VerifyNoPolygon(c) => None \in during[c]]_vars
=============================================================================
