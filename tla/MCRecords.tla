------------------------------ MODULE MCRecords ------------------------------
(***************************************************************************)
(* The employee-service's records for TLC: the offices of an employee, and *)
(* how employees come to be registered.  The two share no state, so that a *)
(* behaviour takes one of them, chosen in Init.                            *)
(***************************************************************************)
EXTENDS OfficeAssignments, EmployeeImport, TLC

CONSTANTS p1, p2

MCNameOf == p1 :> 1 @@ p2 :> 1

VARIABLE part

RecordsInit ==
    /\ part \in {"offices", "registry"}
    /\ Init /\ ImportInit
    /\ part = "registry" => row = [i \in Ids |-> NoRow]

RecordsNext ==
    /\ UNCHANGED part
    /\ \/ part = "offices" /\ Next /\ UNCHANGED importVars
       \/ part = "registry" /\ ImportNext /\ UNCHANGED vars

RecordsSpec == RecordsInit /\ [][RecordsNext]_<<vars, importVars, part>>

Symmetry == Permutations(Calls) \cup Permutations(People)
=============================================================================
