-------------------------- MODULE OfficeAssignments --------------------------
(***************************************************************************)
(* The office assignments of one employee in the employee-service, to      *)
(* offices named by their codes, as the clients do.  A profile update      *)
(* takes all assignments back and gives the new ones one by one, statement *)
(* by statement; assigning one office is a transaction after a check;      *)
(* removing is one statement.  The attendance-service asks                 *)
(* isAssignedToOffice before it lets an employee check in.                 *)
(*                                                                         *)
(* row[i]   the assignment i, or NoRow                                     *)
(* call[c]  a call under way: the offices asked for and still to do, the   *)
(*          one that becomes primary, the one at hand and its row          *)
(* wanted   history: the offices and the primary office that the requests  *)
(*          carried out so far ask for                                     *)
(* torn     history: an update was cut off, or overlapped another write    *)
(* raced    history: an office was assigned though a write has come after  *)
(*          the check                                                      *)
(***************************************************************************)
EXTENDS Naturals, FiniteSets

CONSTANTS Offices, Calls, None,
          MaxAssignments     \* bound: the rows ever created

\* The rows in the order of their creation; their ids play no part.
Ids == 1..MaxAssignments

ASSUME NoneAssumption == None \notin Offices \cup Ids
ASSUME BoundAssumption == MaxAssignments \in Nat

VARIABLES row, call, wanted, torn, raced

vars == <<row, call, wanted, torn, raced>>

NoRow == [office |-> None, primary |-> FALSE, active |-> FALSE]
Idle == [pc |-> "idle", asked |-> {}, todo |-> {}, primary |-> None,
         office |-> None, row |-> None, late |-> FALSE]

\* createEmployee has made an assignment for each office chosen, of which one
\* is primary.
Init ==
    /\ \E ids \in {1..n : n \in {0} \cup Ids} : \E first \in ids \cup {None}, of \in [ids -> Offices] :
          /\ ids # {} => first # None
          /\ \A i, j \in ids : of[i] = of[j] => i = j
          /\ row = [i \in Ids |-> IF i \in ids
                       THEN [office |-> of[i], primary |-> i = first, active |-> TRUE]
                       ELSE NoRow]
          /\ wanted = [offices |-> {of[i] : i \in ids},
                       primary |-> IF ids = {} THEN None ELSE of[first]]
    /\ call = [c \in Calls |-> Idle]
    /\ torn = FALSE /\ raced = FALSE

At(c, pc) == call[c].pc = pc
Updating == {c \in Calls : At(c, "find") \/ At(c, "write")}
Rows == {i \in Ids : row[i] # NoRow}
ActiveRows == {i \in Rows : row[i].active}
Free == {i \in Ids : Rows = 1..(i - 1)}     \* the next row

\* Call c writes and is then as in me: updates under way are torn by it, and
\* checks made before are late.
Writes(c, me) ==
    /\ torn' = (torn \/ Updating \ {c} # {})
    /\ call' = [d \in Calls |-> IF d = c THEN me
                                ELSE [call[d] EXCEPT !.late = At(d, "assign")]]

-----------------------------------------------------------------------------
(***************************************************************************)
(* updateEmployee                                                          *)
(***************************************************************************)

\* All assignments are taken back; the primary office, or else the first of
\* the list, is the primary one.
UpdateDemote(c) ==
    /\ At(c, "idle")
    /\ row' = [i \in Ids |-> [row[i] EXCEPT !.primary = FALSE, !.active = FALSE]]
    /\ \/ /\ Writes(c, Idle)
          /\ wanted' = [offices |-> {}, primary |-> None]
       \/ /\ \E offices \in SUBSET Offices : \E p \in offices :
                Writes(c, [Idle EXCEPT !.pc = "find", !.asked = offices,
                                       !.todo = offices, !.primary = p])
          /\ UNCHANGED wanted
    /\ UNCHANGED raced

\* The office whose turn it is: the primary one is first.
Turn(c) == IF call[c].primary \in call[c].todo THEN {call[c].primary} ELSE call[c].todo

RowsOf(o) == {i \in Rows : row[i].office = o}

\* Any assignment to that office, if there is one.
UpdateFind(c) ==
    /\ At(c, "find")
    /\ \E o \in Turn(c) : \E i \in IF RowsOf(o) = {} THEN {None} ELSE RowsOf(o) :
          call' = [call EXCEPT ![c].pc = "write", ![c].office = o, ![c].row = i,
                               ![c].todo = @ \ {o}]
    /\ UNCHANGED <<row, wanted, torn, raced>>

\* Mutant: an assignment that is there is made primary or not, but stays inactive.
SetPrimaryOnly(c, i) ==
    [office |-> call[c].office, primary |-> call[c].office = call[c].primary,
     active |-> row[i].active \/ call[c].row = None]

SetAnew(c, i) ==
    [office |-> call[c].office, primary |-> call[c].office = call[c].primary,
     active |-> TRUE]

\* It is updated, or one is created.  The update ends with the last office.
UpdateWrite(c) ==
    /\ At(c, "write")
    /\ \E i \in IF call[c].row = None THEN Free ELSE {call[c].row} :
          row' = [row EXCEPT ![i] = SetAnew(c, i)]
    /\ IF call[c].todo = {}
       THEN /\ Writes(c, Idle)
            /\ wanted' = [offices |-> call[c].asked, primary |-> call[c].primary]
       ELSE /\ Writes(c, [call[c] EXCEPT !.pc = "find", !.row = None, !.office = None])
            /\ UNCHANGED wanted
    /\ UNCHANGED raced

\* A statement fails, or the process ends.
UpdateFails(c) ==
    /\ c \in Updating
    /\ call' = [call EXCEPT ![c] = Idle]
    /\ torn' = TRUE
    /\ UNCHANGED <<row, wanted, raced>>

-----------------------------------------------------------------------------
(***************************************************************************)
(* assignOffice and removeOfficeAssignment                                 *)
(***************************************************************************)

\* The office is not assigned actively.
AssignRead(c) ==
    /\ At(c, "idle")
    /\ \E o \in Offices :
          /\ RowsOf(o) \cap ActiveRows = {}
          /\ call' = [call EXCEPT ![c] = [Idle EXCEPT !.pc = "assign", !.office = o]]
    /\ UNCHANGED <<row, wanted, torn, raced>>

\* Mutant: the primary assignments stay.
DemotedNone == row

Demoted == [i \in Ids |-> [row[i] EXCEPT !.primary = FALSE]]

\* The transaction; its first statement, if the office is to be the primary
\* one, locks the employee's rows.
AssignCommit(c) ==
    /\ At(c, "assign")
    /\ LET o == call[c].office IN
       /\ \E i \in Free, primary \in BOOLEAN :
             /\ row' = [(IF primary THEN Demoted ELSE row) EXCEPT
                            ![i] = [office |-> o, primary |-> primary, active |-> TRUE]]
             /\ wanted' = [offices |-> wanted.offices \cup {o},
                           primary |-> IF primary THEN o ELSE wanted.primary]
    /\ raced' = (raced \/ call[c].late)
    /\ Writes(c, Idle)

\* The row keeps its primary mark.
Remove(c) ==
    /\ At(c, "idle")
    /\ \E i \in Rows :
          /\ row' = [row EXCEPT ![i].active = FALSE]
          /\ wanted' = [offices |-> {row[j].office : j \in ActiveRows \ {i}}
                                       \cap wanted.offices,
                        primary |-> IF i \in ActiveRows /\ row[i].primary
                                    THEN None ELSE wanted.primary]
    /\ Writes(c, Idle)
    /\ UNCHANGED raced

-----------------------------------------------------------------------------
Next == \E c \in Calls :
            \/ UpdateDemote(c) \/ UpdateFind(c) \/ UpdateWrite(c) \/ UpdateFails(c)
            \/ AssignRead(c) \/ AssignCommit(c) \/ Remove(c)

Spec == Init /\ [][Next]_vars

\* What the attendance-service is told.
isAssignedToOffice(o) == \E i \in ActiveRows : row[i].office = o

-----------------------------------------------------------------------------
(***************************************************************************)
(* Properties                                                              *)
(***************************************************************************)

Primaries == {row[i].office : i \in {j \in ActiveRows : row[j].primary}}

\* The employee has at most one primary office, in the middle of an update and
\* with any number of assignments at once too, unless an update was torn; and
\* no office is actively assigned twice, unless besides two requests raced.
NoDoubles ==
    ~torn => /\ Cardinality({i \in ActiveRows : row[i].primary}) <= 1
             /\ ~raced => \A o \in Offices : Cardinality(RowsOf(o) \cap ActiveRows) <= 1

\* When no update is under way and none was torn, the employee may check in at
\* exactly the offices the requests carried out so far ask for, and the primary
\* office is the one asked for last: rows left over from earlier assignments to
\* the same office play no part.
OfficesAreAsAsked ==
    Updating = {} /\ ~torn =>
        /\ \A o \in Offices : isAssignedToOffice(o) <=> o \in wanted.offices
        /\ Primaries = {wanted.primary} \ {None}
=============================================================================
