----------------------- MODULE EmployeeRecordsProofs -----------------------
(***************************************************************************)
(* Proofs about the employee-service's records: OfficeAssignments, for     *)
(* every number of offices, calls and rows, and EmployeeImport, for every  *)
(* number of people, calls and rows of a file.  Outside the races that the *)
(* properties name, no office is assigned twice, there is one primary      *)
(* office, the employee may check in where the requests carried out so far *)
(* say, nobody is registered twice, and an import leaves nobody out.       *)
(***************************************************************************)
EXTENDS OfficeAssignments, EmployeeImport, FiniteSetTheorems, WellFoundedInduction, TLAPS

-----------------------------------------------------------------------------
(* OfficeAssignments: the inductive invariant *)

Assignment == [office : Offices \cup {None}, primary : BOOLEAN, active : BOOLEAN]

Call == [pc : {"idle", "find", "write", "assign"}, asked : SUBSET Offices,
         todo : SUBSET Offices, primary : Offices \cup {None},
         office : Offices \cup {None}, row : Ids \cup {None}, late : BOOLEAN]

TypeOK ==
    /\ row \in [Ids -> Assignment]
    /\ call \in [Calls -> Call]
    /\ wanted \in [offices : SUBSET Offices, primary : Offices \cup {None}]
    /\ torn \in BOOLEAN /\ raced \in BOOLEAN
    /\ \A i \in ActiveRows : row[i].office \in Offices
    /\ \A c \in Calls : At(c, "write") \/ At(c, "assign") => call[c].office \in Offices

ActiveOffices == {row[i].office : i \in ActiveRows}

OnePrimary == \A i, j \in ActiveRows : row[i].primary /\ row[j].primary => i = j

(* The offices call c has given already. *)
Done(c) == call[c].asked \ (call[c].todo \cup {call[c].office})

(* What an update has done so far is all that is active: the offices given, *)
(* the primary one among them if its turn has come.  The row it is about to *)
(* write is not active.                                                     *)
HalfWay(c) ==
    /\ call[c].primary \in call[c].asked
    /\ call[c].todo \subseteq call[c].asked
    /\ ActiveOffices = Done(c)
    /\ Primaries = {call[c].primary} \cap Done(c)
    /\ At(c, "find") => call[c].office = None
    /\ At(c, "write") => /\ call[c].office \in call[c].asked \ call[c].todo
                         /\ call[c].row \notin ActiveRows

(* Between updates, what is active is what was asked for. *)
AsAsked ==
    /\ ActiveOffices = wanted.offices
    /\ Primaries = {wanted.primary} \ {None}

UpdatesStand ==
    ~torn => /\ OnePrimary
             /\ \A c, d \in Updating : c = d
             /\ \A c \in Updating : HalfWay(c)
             /\ Updating = {} => AsAsked

(* An office is active once.  A check that no write has made late still     *)
(* holds when its assignment is committed.                                  *)
OneRowEach == \A i, j \in ActiveRows : row[i].office = row[j].office => i = j

ChecksHold ==
    \A c \in Calls : At(c, "assign") /\ ~call[c].late => call[c].office \notin ActiveOffices

NotDoubled == ~torn /\ ~raced => OneRowEach /\ ChecksHold

Inv == TypeOK /\ UpdatesStand /\ NotDoubled

-----------------------------------------------------------------------------
(* What the model's helpers return *)

LEMMA RowsAreIds == Rows \subseteq Ids /\ ActiveRows \subseteq Rows /\ Free \subseteq Ids
BY DEF Rows, ActiveRows, Free

LEMMA ActiveAre == ActiveRows = {i \in Ids : row[i].active}
BY DEF ActiveRows, Rows, NoRow

LEMMA FreeIsNotActive ==
    ASSUME NEW i \in Free
    PROVE  i \in Ids \ ActiveRows
BY DEF Free, ActiveRows, Ids, Rows

LEMMA IdleType == Idle \in Call
BY DEF Idle, Call

LEMMA IdleFields ==
    /\ Idle.pc = "idle" /\ Idle.asked = {} /\ Idle.todo = {} /\ Idle.primary = None
    /\ Idle.office = None /\ Idle.row = None /\ Idle.late = FALSE
BY DEF Idle

(* Three ways to change the rows: one becomes active, one becomes inactive, *)
(* all become inactive.                                                     *)
LEMMA RowGiven ==
    ASSUME TypeOK, NEW i \in Ids \ ActiveRows, NEW new \in Assignment,
           new.active, new.office \in Offices, row' = [row EXCEPT ![i] = new]
    PROVE  /\ row' \in [Ids -> Assignment]
           /\ ActiveRows' = ActiveRows \cup {i}
           /\ ActiveOffices' = ActiveOffices \cup {new.office}
           /\ Primaries' = Primaries \cup (IF new.primary THEN {new.office} ELSE {})
           /\ \A j \in ActiveRows' : row'[j].office \in Offices
           /\ OnePrimary /\ (new.primary => Primaries = {}) => OnePrimary'
           /\ OneRowEach /\ new.office \notin ActiveOffices => OneRowEach'
<1>1. row \in [Ids -> Assignment] /\ \A j \in ActiveRows : row[j].office \in Offices
  BY DEF TypeOK
<1>2. row'[i] = new /\ \A j \in Ids \ {i} : row'[j] = row[j]
  BY <1>1
<1>3. row' \in [Ids -> Assignment]
  BY <1>1
<1>4. ActiveRows' = {j \in Ids : row'[j].active}
  BY DEF ActiveRows, Rows, NoRow
<1>5. ActiveRows' = ActiveRows \cup {i}
  BY <1>2, <1>4, ActiveAre
<1>6. \A j \in ActiveRows : j \in Ids /\ j # i /\ row'[j] = row[j]
  BY <1>2, ActiveAre
<1>7. ActiveOffices' = ActiveOffices \cup {new.office}
  BY <1>2, <1>5, <1>6 DEF ActiveOffices
<1>8. {j \in ActiveRows' : row'[j].primary}
        = {j \in ActiveRows : row[j].primary} \cup (IF new.primary THEN {i} ELSE {})
  BY <1>2, <1>5, <1>6
<1>9. Primaries' = Primaries \cup (IF new.primary THEN {new.office} ELSE {})
  BY <1>2, <1>6, <1>8 DEF Primaries
<1>10. \A j \in ActiveRows' : row'[j].office \in Offices
  BY <1>1, <1>2, <1>5, <1>6
<1>11. ASSUME OnePrimary, new.primary => Primaries = {}
       PROVE  OnePrimary'
  <2>1. new.primary => \A j \in ActiveRows : ~row[j].primary
    BY <1>11 DEF Primaries
  <2> QED
    BY <1>2, <1>5, <1>6, <1>11, <2>1 DEF OnePrimary
<1>12. ASSUME OneRowEach, new.office \notin ActiveOffices
       PROVE  OneRowEach'
  <2>1. \A j \in ActiveRows : row[j].office # new.office
    BY <1>12 DEF ActiveOffices
  <2> QED
    BY <1>2, <1>5, <1>6, <1>12, <2>1 DEF OneRowEach
<1> QED
  BY <1>3, <1>5, <1>7, <1>9, <1>10, <1>11, <1>12

LEMMA RowTaken ==
    ASSUME TypeOK, NEW i \in Ids, row' = [row EXCEPT ![i].active = FALSE]
    PROVE  /\ row' \in [Ids -> Assignment]
           /\ ActiveRows' = ActiveRows \ {i}
           /\ ActiveOffices' = {row[j].office : j \in ActiveRows \ {i}}
           /\ Primaries' = {row[j].office : j \in {k \in ActiveRows \ {i} : row[k].primary}}
           /\ \A j \in ActiveRows' : row'[j].office \in Offices
           /\ OnePrimary => OnePrimary'
           /\ OneRowEach => OneRowEach'
<1>1. row \in [Ids -> Assignment] /\ \A j \in ActiveRows : row[j].office \in Offices
  BY DEF TypeOK
<1>2. row'[i].active = FALSE /\ \A j \in Ids \ {i} : row'[j] = row[j]
  BY <1>1 DEF Assignment
<1>3. row' \in [Ids -> Assignment]
  BY <1>1 DEF Assignment
<1>4. ActiveRows' = {j \in Ids : row'[j].active}
  BY DEF ActiveRows, Rows, NoRow
<1>5. ActiveRows' = ActiveRows \ {i}
  BY <1>2, <1>4, ActiveAre
<1>6. \A j \in ActiveRows' : j \in ActiveRows /\ row'[j] = row[j]
  BY <1>2, <1>5, ActiveAre
<1>7. ActiveOffices' = {row[j].office : j \in ActiveRows \ {i}}
  BY <1>5, <1>6 DEF ActiveOffices
<1>8. {j \in ActiveRows' : row'[j].primary} = {k \in ActiveRows \ {i} : row[k].primary}
  BY <1>5, <1>6
<1>9. Primaries' = {row[j].office : j \in {k \in ActiveRows \ {i} : row[k].primary}}
  BY <1>5, <1>6, <1>8 DEF Primaries
<1> QED
  BY <1>1, <1>3, <1>5, <1>6, <1>7, <1>9 DEF OnePrimary, OneRowEach

LEMMA RowsTaken ==
    ASSUME TypeOK,
           row' = [i \in Ids |-> [row[i] EXCEPT !.primary = FALSE, !.active = FALSE]]
    PROVE  /\ row' \in [Ids -> Assignment]
           /\ ActiveRows' = {} /\ ActiveOffices' = {} /\ Primaries' = {}
<1>1. row \in [Ids -> Assignment]
  BY DEF TypeOK
<1>2. row' \in [Ids -> Assignment] /\ \A i \in Ids : row'[i].active = FALSE
  BY <1>1 DEF Assignment
<1>3. ActiveRows' = {i \in Ids : row'[i].active}
  BY DEF ActiveRows, Rows, NoRow
<1>4. ActiveRows' = {}
  BY <1>2, <1>3
<1> QED
  BY <1>2, <1>4 DEF ActiveOffices, Primaries


(* A write: the caller goes on, the others notice only that their checks    *)
(* are late.  Not torn afterwards means that nobody else was updating.      *)
LEMMA WritesCalls ==
    ASSUME TypeOK, NEW c \in Calls, NEW me \in Call, Writes(c, me),
           me.pc \in {"write", "assign"} => me.office \in Offices
    PROVE  /\ call' \in [Calls -> Call] /\ torn' \in BOOLEAN
           /\ \A d \in Calls : At(d, "write")' \/ At(d, "assign")' => call'[d].office \in Offices
           /\ call'[c] = me
           /\ \A d \in Calls \ {c} : At(d, "assign")' => call'[d].late
           /\ Updating' = (Updating \ {c}) \cup (IF me.pc \in {"find", "write"} THEN {c} ELSE {})
           /\ ~torn' => ~torn /\ Updating \subseteq {c}
<1>1. call \in [Calls -> Call] /\ torn \in BOOLEAN
      /\ \A d \in Calls : At(d, "write") \/ At(d, "assign") => call[d].office \in Offices
  BY DEF TypeOK
<1>2. call' = [d \in Calls |-> IF d = c THEN me ELSE [call[d] EXCEPT !.late = At(d, "assign")]]
  BY DEF Writes
<1>3. \A d \in Calls : At(d, "assign") \in BOOLEAN
  BY DEF At
<1>4. \A d \in Calls : call[d] \in Call
  BY <1>1
<1>5. \A d \in Calls : [call[d] EXCEPT !.late = At(d, "assign")] \in Call
  BY <1>3, <1>4 DEF Call
<1>6. call' \in [Calls -> Call] /\ call'[c] = me
  BY <1>2, <1>5
<1>7. \A d \in Calls \ {c} : /\ call'[d].pc = call[d].pc /\ call'[d].office = call[d].office
                             /\ call'[d].late = At(d, "assign")
  BY <1>2, <1>4 DEF Call
<1>8. \A d \in Calls : At(d, "write")' \/ At(d, "assign")' => call'[d].office \in Offices
  BY <1>1, <1>6, <1>7 DEF At
<1>9. \A d \in Calls \ {c} : At(d, "assign")' => call'[d].late
  BY <1>7 DEF At
<1>10. Updating' = (Updating \ {c}) \cup (IF me.pc \in {"find", "write"} THEN {c} ELSE {})
  BY <1>6, <1>7 DEF Updating, At
<1>11. torn' = (torn \/ Updating \ {c} # {})
  BY DEF Writes
<1> QED
  BY <1>1, <1>6, <1>8, <1>9, <1>10, <1>11

LEMMA IdleWrites ==
    ASSUME TypeOK, NEW c \in Calls, Writes(c, Idle)
    PROVE  /\ call' \in [Calls -> Call] /\ torn' \in BOOLEAN
           /\ \A d \in Calls : At(d, "write")' \/ At(d, "assign")' => call'[d].office \in Offices
           /\ \A d \in Calls : At(d, "assign")' => call'[d].late
           /\ ~torn' => ~torn /\ Updating \subseteq {c} /\ Updating' = {}
<1>1. Idle \in Call /\ Idle.pc = "idle"
  BY IdleType, IdleFields
<1>2. Idle.pc \in {"write", "assign"} => Idle.office \in Offices
  BY <1>1
<1>3. /\ call' \in [Calls -> Call] /\ torn' \in BOOLEAN
      /\ \A d \in Calls : At(d, "write")' \/ At(d, "assign")' => call'[d].office \in Offices
      /\ call'[c] = Idle
      /\ \A d \in Calls \ {c} : At(d, "assign")' => call'[d].late
      /\ Updating' = (Updating \ {c}) \cup (IF Idle.pc \in {"find", "write"} THEN {c} ELSE {})
      /\ ~torn' => ~torn /\ Updating \subseteq {c}
  BY <1>1, <1>2, WritesCalls
<1>4. ~At(c, "assign")'
  BY <1>1, <1>3 DEF At
<1> QED
  BY <1>1, <1>3, <1>4

(* No update was under way, and none is: the requests have been carried out.*)
LEMMA NoneUpdates ==
    ASSUME UpdatesStand, NEW c \in Calls, c \notin Updating, ~torn, Updating \subseteq {c}
    PROVE  Updating = {} /\ OnePrimary /\ AsAsked
BY DEF UpdatesStand

-----------------------------------------------------------------------------
(* The initial state *)

LEMMA InitKeeps == Init => Inv
<1> SUFFICES ASSUME Init PROVE Inv
  OBVIOUS
<1>0. PICK ids \in {1..n : n \in {0} \cup Ids} :
        \E first \in ids \cup {None}, of \in [ids -> Offices] :
          /\ ids # {} => first # None
          /\ \A i, j \in ids : of[i] = of[j] => i = j
          /\ row = [i \in Ids |-> IF i \in ids
                       THEN [office |-> of[i], primary |-> i = first, active |-> TRUE]
                       ELSE NoRow]
          /\ wanted = [offices |-> {of[i] : i \in ids},
                       primary |-> IF ids = {} THEN None ELSE of[first]]
  BY DEF Init
<1>1. PICK first \in ids \cup {None}, of \in [ids -> Offices] :
          /\ ids # {} => first # None
          /\ \A i, j \in ids : of[i] = of[j] => i = j
          /\ row = [i \in Ids |-> IF i \in ids
                       THEN [office |-> of[i], primary |-> i = first, active |-> TRUE]
                       ELSE NoRow]
          /\ wanted = [offices |-> {of[i] : i \in ids},
                       primary |-> IF ids = {} THEN None ELSE of[first]]
  BY <1>0
<1>2. ids \subseteq Ids
  BY <1>0, BoundAssumption DEF Ids
<1>3. None \notin Offices /\ None \notin Ids
  BY NoneAssumption
<1>4. ids # {} => first \in ids
  BY <1>1
<1>5. \A i \in Ids : row[i] = IF i \in ids
           THEN [office |-> of[i], primary |-> i = first, active |-> TRUE] ELSE NoRow
  BY <1>1
<1>6. \A i \in ids : row[i].office = of[i] /\ (row[i].primary <=> i = first) /\ row[i].active
  <2> SUFFICES ASSUME NEW i \in ids
               PROVE  row[i].office = of[i] /\ (row[i].primary <=> i = first) /\ row[i].active
    OBVIOUS
  <2>1. row[i] = [office |-> of[i], primary |-> i = first, active |-> TRUE]
    BY <1>2, <1>5
  <2>2. row[i].office = of[i]
    BY <2>1
  <2>3. row[i].primary <=> i = first
    <3>1. row[i].primary = (i = first)
      BY <2>1
    <3> QED
      BY <3>1
  <2>4. row[i].active
    BY <2>1
  <2> QED
    BY <2>2, <2>3, <2>4
<1>7. \A i \in Ids \ ids : ~row[i].active
  <2>1. NoRow.active = FALSE
    BY DEF NoRow
  <2>2. \A i \in Ids \ ids : row[i] = NoRow
    BY <1>5
  <2> QED
    BY <2>1, <2>2
<1>8. ActiveRows = ids
  BY <1>2, <1>6, <1>7, ActiveAre
<1>9. row \in [Ids -> Assignment]
  <2>1. \A i \in ids : [office |-> of[i], primary |-> i = first, active |-> TRUE] \in Assignment
    BY <1>1 DEF Assignment
  <2>2. NoRow \in Assignment
    BY DEF NoRow, Assignment
  <2> QED
    BY <1>1, <2>1, <2>2
<1>10. ActiveOffices = {of[i] : i \in ids}
  BY <1>6, <1>8 DEF ActiveOffices
<1>11. {i \in ActiveRows : row[i].primary} = IF ids = {} THEN {} ELSE {first}
  BY <1>4, <1>6, <1>8
<1>12. Primaries = IF ids = {} THEN {} ELSE {of[first]}
  BY <1>4, <1>6, <1>11 DEF Primaries
<1>13. ids # {} => of[first] \in Offices
  BY <1>1, <1>4
<1>14. AsAsked
  BY <1>1, <1>3, <1>10, <1>12, <1>13 DEF AsAsked
<1>15. wanted \in [offices : SUBSET Offices, primary : Offices \cup {None}]
  BY <1>1, <1>13
<1>16. call \in [Calls -> Call] /\ \A c \in Calls : call[c] = Idle
  BY IdleType DEF Init
<1>17. \A c \in Calls : ~At(c, "find") /\ ~At(c, "write") /\ ~At(c, "assign")
  BY <1>16, IdleFields DEF At
<1>18. OnePrimary /\ OneRowEach
  <2>1. OnePrimary
    BY <1>6, <1>8 DEF OnePrimary
  <2>2. OneRowEach
    BY <1>1, <1>6, <1>8 DEF OneRowEach
  <2> QED
    BY <2>1, <2>2
<1>19. torn = FALSE /\ raced = FALSE
  BY DEF Init
<1>20. TypeOK
  <2>1. \A i \in ActiveRows : row[i].office \in Offices
    BY <1>1, <1>6, <1>8
  <2>2. torn \in BOOLEAN /\ raced \in BOOLEAN
    BY <1>19
  <2> QED
    BY <1>9, <1>15, <1>16, <1>17, <2>1, <2>2, Zenon DEF TypeOK
<1>21. UpdatesStand
  BY <1>14, <1>17, <1>18 DEF UpdatesStand, Updating
<1>22. NotDoubled
  BY <1>17, <1>18 DEF NotDoubled, ChecksHold
<1> QED
  BY <1>20, <1>21, <1>22 DEF Inv


-----------------------------------------------------------------------------
(* updateEmployee *)

LEMMA DemoteKeeps ==
    ASSUME Inv, NEW c \in Calls, UpdateDemote(c)
    PROVE  Inv'
<1>1. TypeOK /\ UpdatesStand /\ At(c, "idle")
  BY DEF Inv, UpdateDemote
<1>2. c \notin Updating
  BY <1>1 DEF Updating, At
<1>3. row' \in [Ids -> Assignment] /\ ActiveRows' = {} /\ ActiveOffices' = {} /\ Primaries' = {}
  BY <1>1, RowsTaken DEF UpdateDemote
<1>4. raced' = raced /\ raced \in BOOLEAN
  BY <1>1 DEF UpdateDemote, TypeOK
<1>5. OnePrimary' /\ OneRowEach' /\ ChecksHold'
  BY <1>3 DEF OnePrimary, OneRowEach, ChecksHold
<1>6. NotDoubled'
  BY <1>5 DEF NotDoubled
<1>7. ASSUME Writes(c, Idle), wanted' = [offices |-> {}, primary |-> None]
      PROVE  Inv'
  <2>1. /\ call' \in [Calls -> Call] /\ torn' \in BOOLEAN
        /\ \A d \in Calls : At(d, "write")' \/ At(d, "assign")' => call'[d].office \in Offices
        /\ ~torn' => Updating' = {}
    BY <1>1, <1>7, IdleWrites
  <2>2. wanted' \in [offices : SUBSET Offices, primary : Offices \cup {None}]
    BY <1>7
  <2>3. TypeOK'
    BY <1>3, <1>4, <2>1, <2>2 DEF TypeOK
  <2>4. AsAsked'
    BY <1>3, <1>7 DEF AsAsked
  <2>5. UpdatesStand'
    BY <1>5, <2>1, <2>4 DEF UpdatesStand
  <2> QED
    BY <1>6, <2>3, <2>5 DEF Inv
<1>8. ASSUME NEW offices \in SUBSET Offices, NEW p \in offices,
             Writes(c, [Idle EXCEPT !.pc = "find", !.asked = offices,
                                    !.todo = offices, !.primary = p]),
             UNCHANGED wanted
      PROVE  Inv'
  <2> DEFINE me == [Idle EXCEPT !.pc = "find", !.asked = offices,
                                !.todo = offices, !.primary = p]
  <2>1. me \in Call
    BY <1>8, IdleType DEF Call
  <2>2. me.pc = "find" /\ me.asked = offices /\ me.todo = offices /\ me.primary = p /\ me.office = None
    BY DEF Idle
  <2>3. Writes(c, me)
    BY <1>8
  <2> HIDE DEF me
  <2>4. me.pc \in {"write", "assign"} => me.office \in Offices
    BY <2>2
  <2>5. /\ call' \in [Calls -> Call] /\ torn' \in BOOLEAN
        /\ \A d \in Calls : At(d, "write")' \/ At(d, "assign")' => call'[d].office \in Offices
        /\ call'[c] = me
        /\ Updating' = (Updating \ {c}) \cup (IF me.pc \in {"find", "write"} THEN {c} ELSE {})
        /\ ~torn' => ~torn /\ Updating \subseteq {c}
    BY <1>1, <2>1, <2>3, <2>4, WritesCalls
  <2>6. TypeOK'
    BY <1>1, <1>3, <1>4, <1>8, <2>5 DEF TypeOK
  <2>7. c \in Updating' /\ (~torn' => Updating' = {c})
    BY <2>2, <2>5
  <2>8. HalfWay(c)'
    <3>1. Done(c)' = {}
      BY <2>2, <2>5 DEF Done
    <3> QED
      BY <1>3, <2>2, <2>5, <3>1 DEF HalfWay, At
  <2>9. UpdatesStand'
    BY <1>5, <2>7, <2>8 DEF UpdatesStand
  <2> QED
    BY <1>6, <2>6, <2>9 DEF Inv
<1> QED
  BY <1>7, <1>8 DEF UpdateDemote

LEMMA FindKeeps ==
    ASSUME Inv, NEW c \in Calls, UpdateFind(c)
    PROVE  Inv'
<1>1. TypeOK /\ UpdatesStand /\ NotDoubled /\ At(c, "find") /\ UNCHANGED <<row, wanted, torn, raced>>
  BY DEF Inv, UpdateFind
<1>2. PICK o \in Turn(c) : \E i \in IF RowsOf(o) = {} THEN {None} ELSE RowsOf(o) :
          call' = [call EXCEPT ![c].pc = "write", ![c].office = o, ![c].row = i,
                               ![c].todo = @ \ {o}]
  BY DEF UpdateFind
<1>3. PICK i \in IF RowsOf(o) = {} THEN {None} ELSE RowsOf(o) :
          call' = [call EXCEPT ![c].pc = "write", ![c].office = o, ![c].row = i,
                               ![c].todo = @ \ {o}]
  BY <1>2
<1>4. call \in [Calls -> Call] /\ call[c] \in Call
  BY <1>1 DEF TypeOK
<1>5. o \in call[c].todo /\ o \in Offices
  <2>1. o \in call[c].todo
    BY <1>2 DEF Turn
  <2> QED
    BY <1>4, <2>1 DEF Call
<1>6. i \in Ids \cup {None}
  BY <1>3, RowsAreIds DEF RowsOf
<1>7. /\ call'[c].pc = "write" /\ call'[c].office = o /\ call'[c].row = i
      /\ call'[c].todo = call[c].todo \ {o}
      /\ call'[c].asked = call[c].asked /\ call'[c].primary = call[c].primary
  BY <1>3, <1>4 DEF Call
<1>8. \A d \in Calls \ {c} : call'[d] = call[d]
  BY <1>3, <1>4
<1>9. call' \in [Calls -> Call]
  BY <1>3, <1>4, <1>5, <1>6 DEF Call
<1>10. /\ ActiveRows' = ActiveRows /\ ActiveOffices' = ActiveOffices /\ Primaries' = Primaries
       /\ OnePrimary' = OnePrimary /\ OneRowEach' = OneRowEach /\ AsAsked' = AsAsked
  BY <1>1 DEF ActiveRows, Rows, ActiveOffices, Primaries, OnePrimary, OneRowEach, AsAsked
<1>11. Updating' = Updating /\ c \in Updating
  BY <1>1, <1>7, <1>8 DEF Updating, At
<1>12. TypeOK'
  <2>1. \A d \in Calls : At(d, "write")' \/ At(d, "assign")' => call'[d].office \in Offices
    BY <1>1, <1>5, <1>7, <1>8 DEF At, TypeOK
  <2> QED
    BY <1>1, <1>9, <1>10, <2>1 DEF TypeOK
<1>13. ASSUME ~torn
       PROVE  HalfWay(c)'
  <2>1. HalfWay(c)
    BY <1>1, <1>11, <1>13 DEF UpdatesStand
  <2>2. call[c].office = None /\ None \notin Offices /\ call[c].asked \subseteq Offices
    BY <1>1, <1>4, <2>1, NoneAssumption DEF HalfWay, Call
  <2>3. Done(c) = call[c].asked \ call[c].todo
    BY <2>2 DEF Done
  <2>4. Done(c)' = Done(c)
    BY <1>5, <1>7, <2>3 DEF Done
  <2>5. ActiveOffices = Done(c) /\ call[c].todo \subseteq call[c].asked
    BY <2>1 DEF HalfWay
  <2>6. i \notin ActiveRows
    <3>1. ASSUME i \in ActiveRows
          PROVE  FALSE
      <4>1. i \in Ids /\ i # None
        BY <3>1, NoneAssumption, RowsAreIds
      <4>2. row[i].office = o
        BY <1>3, <4>1 DEF RowsOf
      <4>3. o \in ActiveOffices
        BY <3>1, <4>2 DEF ActiveOffices
      <4> QED
        BY <1>5, <2>3, <2>5, <4>3
    <3> QED
      BY <3>1
  <2> QED
    BY <1>5, <1>7, <1>10, <2>1, <2>4, <2>5, <2>6 DEF HalfWay, At
<1>14. UpdatesStand'
  <2> SUFFICES ASSUME ~torn'
               PROVE  /\ OnePrimary' /\ \A d, e \in Updating' : d = e
                      /\ \A d \in Updating' : HalfWay(d)'
                      /\ Updating' = {} => AsAsked'
    BY DEF UpdatesStand
  <2>1. ~torn /\ Updating = {c}
    BY <1>1, <1>11 DEF UpdatesStand
  <2> QED
    BY <1>1, <1>10, <1>11, <1>13, <2>1 DEF UpdatesStand
<1>15. NotDoubled'
  <2>1. ChecksHold => ChecksHold'
    BY <1>7, <1>8, <1>10 DEF ChecksHold, At
  <2> QED
    BY <1>1, <1>10, <2>1 DEF NotDoubled
<1> QED
  BY <1>12, <1>14, <1>15 DEF Inv


LEMMA WriteKeeps ==
    ASSUME Inv, NEW c \in Calls, UpdateWrite(c)
    PROVE  Inv'
<1>1. TypeOK /\ UpdatesStand /\ NotDoubled /\ At(c, "write") /\ raced' = raced
  BY DEF Inv, UpdateWrite
<1>2. call \in [Calls -> Call] /\ call[c] \in Call /\ call[c].office \in Offices
  BY <1>1 DEF TypeOK
<1>3. PICK i \in IF call[c].row = None THEN Free ELSE {call[c].row} :
          row' = [row EXCEPT ![i] = SetAnew(c, i)]
  BY DEF UpdateWrite
<1>4. i \in Ids
  <2>1. CASE call[c].row = None
    BY <1>3, <2>1, RowsAreIds
  <2>2. CASE call[c].row # None
    BY <1>2, <1>3, <2>2 DEF Call
  <2> QED
    BY <2>1, <2>2
<1>5. PICK new \in Assignment : /\ new.office = call[c].office /\ new.active
                         /\ \/ new.primary /\ call[c].office = call[c].primary
                            \/ ~new.primary /\ call[c].office # call[c].primary
                         /\ row' = [row EXCEPT ![i] = new]
  <2> DEFINE new == SetAnew(c, i)
  <2>1. new \in Assignment
    BY <1>2 DEF SetAnew, Assignment
  <2>2. new.office = call[c].office /\ new.active
    BY DEF SetAnew
  <2>3. new.primary = (call[c].office = call[c].primary)
    BY DEF SetAnew
  <2>4. row' = [row EXCEPT ![i] = new]
    BY <1>3
  <2> HIDE DEF new
  <2>5. \/ new.primary /\ call[c].office = call[c].primary
        \/ ~new.primary /\ call[c].office # call[c].primary
    BY <2>3
  <2> QED
    BY <2>1, <2>2, <2>4, <2>5
<1>6. PICK me \in Call :
         /\ Writes(c, me)
         /\ \/ /\ call[c].todo = {} /\ me = Idle
               /\ wanted' = [offices |-> call[c].asked, primary |-> call[c].primary]
            \/ /\ call[c].todo # {} /\ me.pc = "find" /\ me.office = None
               /\ me.asked = call[c].asked /\ me.todo = call[c].todo
               /\ me.primary = call[c].primary /\ UNCHANGED wanted
  <2>1. CASE call[c].todo = {}
    BY <2>1, IdleType DEF UpdateWrite
  <2>2. CASE call[c].todo # {}
    <3> DEFINE me == [call[c] EXCEPT !.pc = "find", !.row = None, !.office = None]
    <3>1. me \in Call
      BY <1>2 DEF Call
    <3>2. /\ me.pc = "find" /\ me.office = None /\ me.asked = call[c].asked
          /\ me.todo = call[c].todo /\ me.primary = call[c].primary
      BY <1>2 DEF Call
    <3>3. Writes(c, me) /\ UNCHANGED wanted
      BY <2>2 DEF UpdateWrite
    <3> QED
      BY <2>2, <3>1, <3>2, <3>3
  <2> QED
    BY <2>1, <2>2
<1>7. me.pc \in {"idle", "find"}
  BY <1>6, IdleFields
<1>8. me.pc \in {"write", "assign"} => me.office \in Offices
  BY <1>7
<1>9. /\ call' \in [Calls -> Call] /\ torn' \in BOOLEAN
      /\ \A d \in Calls : At(d, "write")' \/ At(d, "assign")' => call'[d].office \in Offices
      /\ call'[c] = me
      /\ \A d \in Calls \ {c} : At(d, "assign")' => call'[d].late
      /\ Updating' = (Updating \ {c}) \cup (IF me.pc \in {"find", "write"} THEN {c} ELSE {})
      /\ ~torn' => ~torn /\ Updating \subseteq {c}
  BY <1>1, <1>6, <1>8, WritesCalls
<1>10. c \in Updating
  BY <1>1 DEF Updating
<1>11. row' \in [Ids -> Assignment] /\ \A j \in ActiveRows' : row'[j].office \in Offices
  <2>1. row \in [Ids -> Assignment] /\ \A j \in ActiveRows : row[j].office \in Offices
    BY <1>1 DEF TypeOK
  <2>2. row' \in [Ids -> Assignment] /\ row'[i] = new /\ \A j \in Ids \ {i} : row'[j] = row[j]
    BY <1>4, <1>5, <2>1
  <2>3. ActiveRows' \subseteq Ids /\ ActiveRows' \ {i} \subseteq ActiveRows
    BY <2>2 DEF ActiveRows, Rows
  <2> QED
    BY <1>2, <1>5, <2>1, <2>2, <2>3
<1>12. wanted' \in [offices : SUBSET Offices, primary : Offices \cup {None}]
  <2>1. wanted \in [offices : SUBSET Offices, primary : Offices \cup {None}]
    BY <1>1 DEF TypeOK
  <2>2. call[c].asked \in SUBSET Offices /\ call[c].primary \in Offices \cup {None}
    BY <1>2 DEF Call
  <2> QED
    BY <1>6, <2>1, <2>2
<1>13. TypeOK'
  BY <1>1, <1>9, <1>11, <1>12 DEF TypeOK
<1>14. ASSUME ~torn'
       PROVE  /\ OnePrimary' /\ (OneRowEach => OneRowEach')
              /\ ActiveOffices' = Done(c) \cup {call[c].office}
              /\ Primaries' = {call[c].primary} \cap (Done(c) \cup {call[c].office})
              /\ HalfWay(c)
  <2>1. OnePrimary /\ HalfWay(c)
    BY <1>1, <1>9, <1>10, <1>14 DEF UpdatesStand
  <2>2. /\ ActiveOffices = Done(c) /\ Primaries = {call[c].primary} \cap Done(c)
        /\ call[c].row \notin ActiveRows
    BY <1>1, <2>1 DEF HalfWay
  <2>3. i \in Ids \ ActiveRows
    BY <1>3, <1>4, <2>2, FreeIsNotActive
  <2>4. call[c].office \notin Done(c)
    BY DEF Done
  <2>5. /\ ActiveOffices' = ActiveOffices \cup {new.office}
        /\ Primaries' = Primaries \cup (IF new.primary THEN {new.office} ELSE {})
        /\ OnePrimary /\ (new.primary => Primaries = {}) => OnePrimary'
        /\ OneRowEach /\ new.office \notin ActiveOffices => OneRowEach'
    BY <1>1, <1>2, <1>5, <2>3, RowGiven
  <2>6. new.primary => Primaries = {}
    BY <1>5, <2>2, <2>4
  <2> QED
    BY <1>5, <2>1, <2>2, <2>4, <2>5, <2>6
<1>15. ASSUME ~torn', me = Idle
       PROVE  Updating' = {} /\ AsAsked'
  <2>1. Updating' = {}
    BY <1>9, <1>15, IdleFields
  <2>2. call[c].todo = {} /\ wanted' = [offices |-> call[c].asked, primary |-> call[c].primary]
    <3>1. Idle.pc # "find"
      BY IdleFields
    <3> QED
      BY <1>6, <1>15, <3>1
  <2>3. /\ call[c].office \in call[c].asked /\ call[c].primary \in call[c].asked
        /\ call[c].asked \subseteq Offices
    BY <1>1, <1>2, <1>14, <1>15 DEF HalfWay, Call
  <2>4. Done(c) \cup {call[c].office} = call[c].asked
    BY <2>2, <2>3 DEF Done
  <2>5. call[c].primary # None
    BY <2>3, NoneAssumption
  <2> QED
    BY <1>14, <1>15, <2>1, <2>2, <2>3, <2>4, <2>5 DEF AsAsked
<1>16. ASSUME ~torn', me # Idle
       PROVE  Updating' = {c} /\ HalfWay(c)'
  <2>1. /\ me.pc = "find" /\ me.office = None
        /\ me.asked = call[c].asked /\ me.todo = call[c].todo
        /\ me.primary = call[c].primary
    BY <1>6, <1>16
  <2>2. Updating' = {c}
    BY <1>9, <1>16, <2>1
  <2>3. /\ call[c].office \in call[c].asked \ call[c].todo /\ call[c].primary \in call[c].asked
        /\ call[c].todo \subseteq call[c].asked /\ call[c].asked \subseteq Offices
    BY <1>1, <1>2, <1>14, <1>16 DEF HalfWay, Call
  <2>4. Done(c)' = call[c].asked \ (call[c].todo \cup {None})
    BY <1>9, <2>1 DEF Done
  <2>5. Done(c)' = Done(c) \cup {call[c].office}
    BY <2>3, <2>4, NoneAssumption DEF Done
  <2>6. call'[c].pc = "find"
    BY <1>9, <2>1
  <2> QED
    BY <1>9, <1>14, <1>16, <2>1, <2>2, <2>3, <2>5, <2>6 DEF HalfWay, At
<1>17. UpdatesStand'
  <2>1. ASSUME ~torn', me = Idle
        PROVE  /\ OnePrimary' /\ \A d, e \in Updating' : d = e
               /\ \A d \in Updating' : HalfWay(d)' /\ (Updating' = {} => AsAsked')
    BY <1>14, <1>15, <2>1
  <2>2. ASSUME ~torn', me # Idle
        PROVE  /\ OnePrimary' /\ \A d, e \in Updating' : d = e
               /\ \A d \in Updating' : HalfWay(d)' /\ (Updating' = {} => AsAsked')
    BY <1>14, <1>16, <2>2
  <2>3. Updating' = {} /\ ~torn' => AsAsked'
    BY <1>15, <1>16
  <2> QED
    BY <2>1, <2>2, <2>3 DEF UpdatesStand
<1>18. NotDoubled'
  <2> SUFFICES ASSUME ~torn', ~raced'
               PROVE  OneRowEach' /\ ChecksHold'
    BY DEF NotDoubled
  <2>1. ~torn /\ ~raced
    BY <1>1, <1>9
  <2>2. OneRowEach'
    BY <1>1, <1>14, <2>1 DEF NotDoubled
  <2>3. \A d \in Calls : At(d, "assign")' => call'[d].late
    BY <1>7, <1>9 DEF At
  <2> QED
    BY <2>2, <2>3 DEF ChecksHold
<1> QED
  BY <1>13, <1>17, <1>18 DEF Inv

LEMMA FailsKeeps ==
    ASSUME Inv, NEW c \in Calls, UpdateFails(c)
    PROVE  Inv'
<1>1. TypeOK /\ UNCHANGED <<row, wanted, raced>> /\ torn' /\ call' = [call EXCEPT ![c] = Idle]
  BY DEF Inv, UpdateFails
<1>2. call' \in [Calls -> Call] /\ call'[c] = Idle /\ \A d \in Calls \ {c} : call'[d] = call[d]
  BY <1>1, IdleType DEF TypeOK
<1>3. \A d \in Calls : At(d, "write")' \/ At(d, "assign")' => call'[d].office \in Offices
  BY <1>1, <1>2, IdleFields DEF TypeOK, At
<1>4. torn' \in BOOLEAN
  BY DEF UpdateFails
<1>5. TypeOK'
  BY <1>1, <1>2, <1>3, <1>4 DEF TypeOK, ActiveRows, Rows
<1> QED
  BY <1>1, <1>5 DEF Inv, UpdatesStand, NotDoubled


-----------------------------------------------------------------------------
(* assignOffice and removeOfficeAssignment *)

LEMMA AssignReadKeeps ==
    ASSUME Inv, NEW c \in Calls, AssignRead(c)
    PROVE  Inv'
<1>1. TypeOK /\ UpdatesStand /\ NotDoubled /\ At(c, "idle") /\ UNCHANGED <<row, wanted, torn, raced>>
  BY DEF Inv, AssignRead
<1>2. PICK o \in Offices :
          /\ RowsOf(o) \cap ActiveRows = {}
          /\ call' = [call EXCEPT ![c] = [Idle EXCEPT !.pc = "assign", !.office = o]]
  BY DEF AssignRead
<1>3. PICK me \in Call : /\ me.pc = "assign" /\ me.office = o
                         /\ call' = [call EXCEPT ![c] = me]
  <2> DEFINE me == [Idle EXCEPT !.pc = "assign", !.office = o]
  <2>1. me \in Call
    BY IdleType DEF Call
  <2>2. me.pc = "assign" /\ me.office = o
    BY DEF Idle
  <2> QED
    BY <1>2, <2>1, <2>2
<1>4. call' \in [Calls -> Call] /\ call'[c] = me /\ \A d \in Calls \ {c} : call'[d] = call[d]
  BY <1>1, <1>3 DEF TypeOK
<1>5. /\ ActiveRows' = ActiveRows /\ ActiveOffices' = ActiveOffices /\ Primaries' = Primaries
      /\ OnePrimary' = OnePrimary /\ OneRowEach' = OneRowEach /\ AsAsked' = AsAsked
  BY <1>1 DEF ActiveRows, Rows, ActiveOffices, Primaries, OnePrimary, OneRowEach, AsAsked
<1>6. Updating' = Updating /\ c \notin Updating
  BY <1>1, <1>3, <1>4 DEF Updating, At
<1>7. TypeOK'
  <2>1. \A d \in Calls : At(d, "write")' \/ At(d, "assign")' => call'[d].office \in Offices
    BY <1>1, <1>3, <1>4 DEF At, TypeOK
  <2> QED
    BY <1>1, <1>4, <1>5, <2>1 DEF TypeOK
<1>8. \A d \in Updating : HalfWay(d) => HalfWay(d)'
  <2>1. \A d \in Updating : d \in Calls \ {c}
    BY <1>6 DEF Updating
  <2> QED
    BY <1>4, <1>5, <2>1 DEF HalfWay, Done, At
<1>9. UpdatesStand'
  BY <1>1, <1>5, <1>6, <1>8 DEF UpdatesStand
<1>10. o \notin ActiveOffices
  BY <1>2 DEF ActiveOffices, RowsOf, ActiveRows
<1>11. NotDoubled'
  <2>1. ChecksHold => ChecksHold'
    BY <1>3, <1>4, <1>5, <1>10 DEF ChecksHold, At
  <2> QED
    BY <1>1, <1>5, <2>1 DEF NotDoubled
<1> QED
  BY <1>7, <1>9, <1>11 DEF Inv

(* Making no assignment primary changes neither who is active nor where. *)
LEMMA DemotedRows ==
    ASSUME TypeOK
    PROVE  /\ Demoted \in [Ids -> Assignment]
           /\ \A j \in Ids : /\ Demoted[j].office = row[j].office
                             /\ Demoted[j].active = row[j].active
                             /\ ~Demoted[j].primary
<1>1. row \in [Ids -> Assignment]
  BY DEF TypeOK
<1>2. Demoted = [i \in Ids |-> [row[i] EXCEPT !.primary = FALSE]]
  BY DEF Demoted
<1>3. Demoted \in [Ids -> Assignment] /\ \A j \in Ids : Demoted[j] = [row[j] EXCEPT !.primary = FALSE]
  BY <1>1, <1>2 DEF Assignment
<1> HIDE DEF Demoted
<1>4. \A j \in Ids : row[j] \in Assignment
  BY <1>1
<1> QED
  BY <1>3, <1>4 DEF Assignment

LEMMA PrimaryGiven ==
    ASSUME TypeOK, NEW i \in Ids \ ActiveRows, NEW o \in Offices,
           row' = [Demoted EXCEPT ![i] = [office |-> o, primary |-> TRUE, active |-> TRUE]]
    PROVE  /\ row' \in [Ids -> Assignment]
           /\ ActiveRows' = ActiveRows \cup {i}
           /\ ActiveOffices' = ActiveOffices \cup {o}
           /\ Primaries' = {o}
           /\ \A j \in ActiveRows' : row'[j].office \in Offices
           /\ OnePrimary'
           /\ OneRowEach /\ o \notin ActiveOffices => OneRowEach'
<1>1. row \in [Ids -> Assignment] /\ \A j \in ActiveRows : row[j].office \in Offices
  BY DEF TypeOK
<1>2. /\ Demoted \in [Ids -> Assignment]
      /\ \A j \in Ids : /\ Demoted[j].office = row[j].office
                        /\ Demoted[j].active = row[j].active
                        /\ ~Demoted[j].primary
  BY DemotedRows
<1> HIDE DEF Demoted
<1>3. PICK new \in Assignment : /\ new.office = o /\ new.primary /\ new.active
                         /\ row' = [Demoted EXCEPT ![i] = new]
  <2> DEFINE new == [office |-> o, primary |-> TRUE, active |-> TRUE]
  <2>1. new \in Assignment /\ new.office = o /\ new.primary /\ new.active
    BY DEF Assignment
  <2> QED
    BY <2>1
<1>4. row' \in [Ids -> Assignment] /\ row'[i] = new /\ \A j \in Ids \ {i} : row'[j] = Demoted[j]
  BY <1>2, <1>3
<1>5. ActiveRows' = {j \in Ids : row'[j].active}
  BY DEF ActiveRows, Rows, NoRow
<1>6. ActiveRows' = ActiveRows \cup {i}
  BY <1>2, <1>3, <1>4, <1>5, ActiveAre
<1>7. \A j \in ActiveRows : /\ j \in Ids /\ j # i /\ row'[j].office = row[j].office
                            /\ ~row'[j].primary
  BY <1>2, <1>4, ActiveAre
<1>8. ActiveOffices' = ActiveOffices \cup {o}
  BY <1>3, <1>4, <1>6, <1>7 DEF ActiveOffices
<1>9. {j \in ActiveRows' : row'[j].primary} = {i}
  BY <1>3, <1>4, <1>6, <1>7
<1>10. Primaries' = {o}
  BY <1>3, <1>4, <1>9 DEF Primaries
<1>11. \A j \in ActiveRows' : row'[j].office \in Offices
  BY <1>1, <1>3, <1>4, <1>6, <1>7
<1>12. OnePrimary'
  BY <1>9 DEF OnePrimary
<1>13. ASSUME OneRowEach, o \notin ActiveOffices
       PROVE  OneRowEach'
  <2>1. \A j \in ActiveRows : row[j].office # o
    BY <1>13 DEF ActiveOffices
  <2> QED
    BY <1>3, <1>4, <1>6, <1>7, <1>13, <2>1 DEF OneRowEach
<1> QED
  BY <1>4, <1>6, <1>8, <1>10, <1>11, <1>12, <1>13

LEMMA AssignCommitKeeps ==
    ASSUME Inv, NEW c \in Calls, AssignCommit(c)
    PROVE  Inv'
<1>1. TypeOK /\ UpdatesStand /\ NotDoubled /\ At(c, "assign") /\ Writes(c, Idle)
      /\ raced' = (raced \/ call[c].late)
  BY DEF Inv, AssignCommit
<1>2. PICK o \in Offices : o = call[c].office
  BY <1>1 DEF TypeOK
<1>3. PICK i \in Free, primary \in BOOLEAN :
          /\ row' = [(IF primary THEN Demoted ELSE row) EXCEPT
                         ![i] = [office |-> o, primary |-> primary, active |-> TRUE]]
          /\ wanted' = [offices |-> wanted.offices \cup {o},
                        primary |-> IF primary THEN o ELSE wanted.primary]
  BY <1>2 DEF AssignCommit
<1>4. i \in Ids \ ActiveRows
  BY <1>3, FreeIsNotActive
<1>5. /\ row' \in [Ids -> Assignment]
      /\ ActiveOffices' = ActiveOffices \cup {o}
      /\ Primaries' = IF primary THEN {o} ELSE Primaries
      /\ \A j \in ActiveRows' : row'[j].office \in Offices
      /\ OnePrimary => OnePrimary'
      /\ OneRowEach /\ o \notin ActiveOffices => OneRowEach'
  <2>1. CASE primary
    <3>1. row' = [Demoted EXCEPT ![i] = [office |-> o, primary |-> TRUE, active |-> TRUE]]
      <4>1. primary = TRUE
        BY <2>1
      <4> QED
        BY <1>3, <4>1
    <3> QED
      BY <1>1, <1>4, <2>1, <3>1, PrimaryGiven
  <2>2. CASE ~primary
    <3> DEFINE new == [office |-> o, primary |-> FALSE, active |-> TRUE]
    <3>1. row' = [row EXCEPT ![i] = new]
      <4>1. primary = FALSE
        BY <2>2
      <4> QED
        BY <1>3, <4>1
    <3>2. new \in Assignment /\ new.office = o /\ ~new.primary /\ new.active
      BY DEF Assignment
    <3> HIDE DEF new
    <3> QED
      BY <1>1, <1>4, <2>2, <3>1, <3>2, RowGiven
  <2> QED
    BY <2>1, <2>2
<1>6. /\ call' \in [Calls -> Call] /\ torn' \in BOOLEAN
      /\ \A d \in Calls : At(d, "write")' \/ At(d, "assign")' => call'[d].office \in Offices
      /\ \A d \in Calls : At(d, "assign")' => call'[d].late
      /\ ~torn' => ~torn /\ Updating \subseteq {c} /\ Updating' = {}
  BY <1>1, IdleWrites
<1>7. wanted \in [offices : SUBSET Offices, primary : Offices \cup {None}]
      /\ raced \in BOOLEAN /\ call[c] \in Call
  BY <1>1 DEF TypeOK
<1>8. wanted' \in [offices : SUBSET Offices, primary : Offices \cup {None}]
  BY <1>3, <1>7
<1>9. raced' \in BOOLEAN
  BY <1>1, <1>7 DEF Call
<1>10. TypeOK'
  BY <1>5, <1>6, <1>8, <1>9 DEF TypeOK
<1>11. c \notin Updating
  BY <1>1 DEF Updating, At
<1>12. UpdatesStand'
  <2> SUFFICES ASSUME ~torn'
               PROVE  OnePrimary' /\ AsAsked' /\ Updating' = {}
    BY DEF UpdatesStand
  <2>1. Updating = {} /\ OnePrimary /\ AsAsked
    BY <1>1, <1>6, <1>11, NoneUpdates
  <2>2. o # None
    BY NoneAssumption
  <2>3. wanted'.offices = wanted.offices \cup {o}
        /\ wanted'.primary = IF primary THEN o ELSE wanted.primary
    BY <1>3
  <2>4. AsAsked'
    BY <1>5, <2>1, <2>2, <2>3 DEF AsAsked
  <2> QED
    BY <1>5, <1>6, <2>1, <2>4
<1>13. NotDoubled'
  <2> SUFFICES ASSUME ~torn', ~raced'
               PROVE  OneRowEach' /\ ChecksHold'
    BY DEF NotDoubled
  <2>1. ~torn /\ ~raced /\ ~call[c].late
    BY <1>1, <1>6
  <2>2. OneRowEach /\ o \notin ActiveOffices
    BY <1>1, <1>2, <2>1 DEF NotDoubled, ChecksHold
  <2> QED
    BY <1>5, <1>6, <2>2 DEF ChecksHold
<1> QED
  BY <1>10, <1>12, <1>13 DEF Inv

LEMMA RemoveKeeps ==
    ASSUME Inv, NEW c \in Calls, Remove(c)
    PROVE  Inv'
<1>1. TypeOK /\ UpdatesStand /\ NotDoubled /\ At(c, "idle") /\ Writes(c, Idle) /\ raced' = raced
  BY DEF Inv, Remove
<1>2. PICK i \in Rows :
          /\ row' = [row EXCEPT ![i].active = FALSE]
          /\ wanted' = [offices |-> {row[j].office : j \in ActiveRows \ {i}}
                                       \cap wanted.offices,
                        primary |-> IF i \in ActiveRows /\ row[i].primary
                                    THEN None ELSE wanted.primary]
  BY DEF Remove
<1>3. i \in Ids
  BY RowsAreIds
<1>4. /\ row' \in [Ids -> Assignment]
      /\ ActiveOffices' = {row[j].office : j \in ActiveRows \ {i}}
      /\ Primaries' = {row[j].office : j \in {k \in ActiveRows \ {i} : row[k].primary}}
      /\ \A j \in ActiveRows' : row'[j].office \in Offices
      /\ OnePrimary => OnePrimary'
      /\ OneRowEach => OneRowEach'
  BY <1>1, <1>2, <1>3, RowTaken
<1>5. /\ call' \in [Calls -> Call] /\ torn' \in BOOLEAN
      /\ \A d \in Calls : At(d, "write")' \/ At(d, "assign")' => call'[d].office \in Offices
      /\ \A d \in Calls : At(d, "assign")' => call'[d].late
      /\ ~torn' => ~torn /\ Updating \subseteq {c} /\ Updating' = {}
  BY <1>1, IdleWrites
<1>6. wanted \in [offices : SUBSET Offices, primary : Offices \cup {None}] /\ raced \in BOOLEAN
  BY <1>1 DEF TypeOK
<1>7. wanted' \in [offices : SUBSET Offices, primary : Offices \cup {None}]
  BY <1>2, <1>6
<1>8. TypeOK'
  BY <1>1, <1>4, <1>5, <1>6, <1>7 DEF TypeOK
<1>9. c \notin Updating
  BY <1>1 DEF Updating, At
<1>10. UpdatesStand'
  <2> SUFFICES ASSUME ~torn'
               PROVE  OnePrimary' /\ AsAsked' /\ Updating' = {}
    BY DEF UpdatesStand
  <2>1. Updating = {} /\ OnePrimary /\ AsAsked
    BY <1>1, <1>5, <1>9, NoneUpdates
  <2>2. ActiveOffices' \subseteq ActiveOffices
    BY <1>4 DEF ActiveOffices
  <2>3. ActiveOffices' = wanted'.offices
    BY <1>2, <1>4, <2>1, <2>2 DEF AsAsked
  <2>4. Primaries' = {wanted'.primary} \ {None}
    <3>1. CASE i \in ActiveRows /\ row[i].primary
      <4>1. {k \in ActiveRows \ {i} : row[k].primary} = {}
        BY <2>1, <3>1 DEF OnePrimary
      <4>2. wanted'.primary = None
        BY <1>2, <3>1
      <4> QED
        BY <1>4, <4>1, <4>2
    <3>2. CASE ~(i \in ActiveRows /\ row[i].primary)
      <4>1. {k \in ActiveRows \ {i} : row[k].primary} = {k \in ActiveRows : row[k].primary}
        BY <3>2
      <4>2. wanted'.primary = wanted.primary
        BY <1>2, <3>2
      <4>3. Primaries' = Primaries
        BY <1>4, <4>1 DEF Primaries
      <4> QED
        BY <2>1, <4>2, <4>3 DEF AsAsked
    <3> QED
      BY <3>1, <3>2
  <2> QED
    BY <1>4, <1>5, <2>1, <2>3, <2>4 DEF AsAsked
<1>11. NotDoubled'
  BY <1>1, <1>4, <1>5 DEF NotDoubled, ChecksHold
<1> QED
  BY <1>8, <1>10, <1>11 DEF Inv


-----------------------------------------------------------------------------
(* The theorems *)

LEMMA StutterKeeps ==
    ASSUME Inv, UNCHANGED vars
    PROVE  Inv'
<1>1. UNCHANGED <<row, call, wanted, torn, raced>>
  BY DEF vars
<1>2. /\ ActiveRows' = ActiveRows /\ ActiveOffices' = ActiveOffices /\ Primaries' = Primaries
      /\ Updating' = Updating
  BY <1>1 DEF ActiveRows, Rows, ActiveOffices, Primaries, Updating, At
<1>3. TypeOK'
  BY <1>1, <1>2 DEF Inv, TypeOK, At
<1>4. OnePrimary' = OnePrimary /\ OneRowEach' = OneRowEach /\ AsAsked' = AsAsked
  BY <1>1, <1>2 DEF OnePrimary, OneRowEach, AsAsked
<1>5. \A c \in Calls : HalfWay(c) => HalfWay(c)'
  BY <1>1, <1>2 DEF HalfWay, Done, At
<1>6. UpdatesStand'
  BY <1>1, <1>2, <1>4, <1>5 DEF Inv, UpdatesStand, Updating
<1>7. ChecksHold => ChecksHold'
  BY <1>1, <1>2 DEF ChecksHold, At
<1> QED
  BY <1>1, <1>3, <1>4, <1>6, <1>7 DEF Inv, NotDoubled

LEMMA InvAlways == Spec => []Inv
<1>1. Inv /\ [Next]_vars => Inv'
  <2> SUFFICES ASSUME Inv, [Next]_vars PROVE Inv'
    OBVIOUS
  <2>1. ASSUME NEW c \in Calls,
               UpdateDemote(c) \/ UpdateFind(c) \/ UpdateWrite(c) \/ UpdateFails(c)
        PROVE  Inv'
    BY <2>1, DemoteKeeps, FindKeeps, WriteKeeps, FailsKeeps
  <2>2. ASSUME NEW c \in Calls, AssignRead(c) \/ AssignCommit(c) \/ Remove(c)
        PROVE  Inv'
    BY <2>2, AssignReadKeeps, AssignCommitKeeps, RemoveKeeps
  <2>3. CASE UNCHANGED vars
    BY <2>3, StutterKeeps
  <2> QED
    BY <2>1, <2>2, <2>3 DEF Next
<1> QED
  BY InitKeeps, <1>1, PTL DEF Spec

(* A set of rows in which any two are one has at most one member. *)
LEMMA AtMostOne ==
    ASSUME NEW S, \A i, j \in S : i = j
    PROVE  Cardinality(S) <= 1
<1>1. CASE S = {}
  <2>1. Cardinality({}) = 0
    BY FS_EmptySet
  <2> QED
    BY <1>1, <2>1
<1>2. CASE S # {}
  <2>1. PICK i : S = {i}
    BY <1>2
  <2>2. Cardinality({i}) = 1
    BY FS_Singleton
  <2> QED
    BY <2>1, <2>2
<1> QED
  BY <1>1, <1>2

(* However profile updates, assignments and removals of one employee's      *)
(* offices overlap: if no update was cut off or overlapped another write,   *)
(* there is at most one primary office, in the middle of an update too; and *)
(* if besides no two assignments raced, no office is actively assigned      *)
(* twice.                                                                   *)
THEOREM OfficesAreAssignedOnce == Spec => []NoDoubles
<1>1. Inv => NoDoubles
  <2> SUFFICES ASSUME Inv, ~torn
               PROVE  /\ Cardinality({i \in ActiveRows : row[i].primary}) <= 1
                      /\ ~raced => \A o \in Offices : Cardinality(RowsOf(o) \cap ActiveRows) <= 1
    BY DEF NoDoubles
  <2>1. \A i, j \in {k \in ActiveRows : row[k].primary} : i = j
    BY DEF Inv, UpdatesStand, OnePrimary
  <2>2. Cardinality({i \in ActiveRows : row[i].primary}) <= 1
    BY <2>1, AtMostOne
  <2>3. ASSUME ~raced, NEW o \in Offices
        PROVE  Cardinality(RowsOf(o) \cap ActiveRows) <= 1
    <3>1. \A i, j \in RowsOf(o) \cap ActiveRows : i = j
      BY <2>3 DEF Inv, NotDoubled, OneRowEach, RowsOf
    <3> QED
      BY <3>1, AtMostOne
  <2> QED
    BY <2>2, <2>3
<1> QED
  BY <1>1, InvAlways, PTL

(* When no update is under way and none was torn, isAssignedToOffice says   *)
(* yes for exactly the offices that the requests carried out so far ask     *)
(* for, and the primary office is the one they ask for.                     *)
THEOREM OfficesFollowRequests == Spec => []OfficesAreAsAsked
<1>1. Inv => OfficesAreAsAsked
  <2> SUFFICES ASSUME Inv, Updating = {}, ~torn
               PROVE  /\ \A o \in Offices : isAssignedToOffice(o) <=> o \in wanted.offices
                      /\ Primaries = {wanted.primary} \ {None}
    BY DEF OfficesAreAsAsked
  <2>1. AsAsked
    BY DEF Inv, UpdatesStand
  <2>2. \A o : isAssignedToOffice(o) <=> o \in ActiveOffices
    BY DEF isAssignedToOffice, ActiveOffices
  <2> QED
    BY <2>1, <2>2 DEF AsAsked
<1> QED
  BY <1>1, InvAlways, PTL

-----------------------------------------------------------------------------
(* EmployeeImport: the inductive invariant *)

(* What a file holds plays no part: a call has some rows. *)
JobOf(rows) == [pc : {"idle", "row", "create", "answer"}, rows : {rows}, at : Nat,
                late : BOOLEAN, alone : BOOLEAN]

IsJob(j) == \E rows : j \in JobOf(rows)

ImportTypeOK ==
    /\ job = [c \in AllCalls |-> job[c]]
    /\ \A c \in AllCalls : IsJob(job[c])

OnePerson == \A e, f \in employees : e.person = f.person => e = f

(* Who is about to be created is still not registered, unless another call  *)
(* has come first.                                                          *)
LookedUp == \A c \in AllCalls : Reached(c, "create") /\ ~job[c].late => Row(c).person \notin Persons

ImportInv == ImportTypeOK /\ (~personRaced => OnePerson /\ LookedUp)

(* What a call does to itself leaves the lookups of the others alone. *)
LEMMA GoesKeeps ==
    ASSUME ImportInv, NEW c \in AllCalls, NEW next, IsJob(next), Goes(c, next),
           next.pc = "create" => /\ next.rows = job[c].rows /\ next.at = job[c].at
                                 /\ Row(c).person \notin Persons
    PROVE  ImportInv'
<1>1. job = [d \in AllCalls |-> job[d]] /\ \A d \in AllCalls : IsJob(job[d])
  BY DEF ImportInv, ImportTypeOK
<1>2. job' = [job EXCEPT ![c] = next] /\ UNCHANGED <<employees, personRaced>>
  BY DEF Goes
<1>3. job'[c] = next /\ \A d \in AllCalls \ {c} : job'[d] = job[d]
  BY <1>1, <1>2
<1>7. job' = [d \in AllCalls |-> job'[d]] /\ \A d \in AllCalls : IsJob(job'[d])
  BY <1>1, <1>2, <1>3
<1>4. OnePerson => OnePerson'
  BY <1>2 DEF OnePerson
<1>5. LookedUp => LookedUp'
  BY <1>2, <1>3 DEF LookedUp, Reached, Row, Persons
<1>6. ImportTypeOK' /\ personRaced' = personRaced
  BY <1>2, <1>7 DEF ImportTypeOK
<1> QED
  BY <1>4, <1>5, <1>6, Zenon DEF ImportInv

LEMMA AdvancedType ==
    ASSUME ImportTypeOK, NEW c \in AllCalls
    PROVE  /\ IsJob(Advanced(c)) /\ Advanced(c).pc \in {"row", "answer"}
           /\ IsJob([Advanced(c) EXCEPT !.alone = FALSE])
           /\ [Advanced(c) EXCEPT !.alone = FALSE].pc \in {"row", "answer"}
<1>1. PICK rows : job[c] \in JobOf(rows)
  BY DEF ImportTypeOK, IsJob
<1>2. Advanced(c) \in JobOf(rows)
  <2>1. job[c].at + 1 \in Nat
    BY <1>1 DEF JobOf
  <2>2. PICK pc \in {"row", "answer"} :
           Advanced(c) = [job[c] EXCEPT !.pc = pc, !.at = @ + 1, !.late = FALSE]
    BY DEF Advanced
  <2> QED
    BY <1>1, <2>1, <2>2 DEF JobOf
<1>3. Advanced(c).pc \in {"row", "answer"}
  <2>1. PICK pc \in {"row", "answer"} :
           Advanced(c) = [job[c] EXCEPT !.pc = pc, !.at = @ + 1, !.late = FALSE]
    BY DEF Advanced
  <2> QED
    BY <1>1, <2>1 DEF JobOf
<1> HIDE DEF Advanced
<1>4. /\ [Advanced(c) EXCEPT !.alone = FALSE] \in JobOf(rows)
      /\ [Advanced(c) EXCEPT !.alone = FALSE].pc = Advanced(c).pc
  BY <1>2 DEF JobOf
<1> QED
  BY <1>2, <1>3, <1>4 DEF IsJob

LEMMA NoJobType == NoJob \in JobOf(<<>>) /\ IsJob(NoJob) /\ NoJob.pc = "idle"
BY DEF NoJob, JobOf, IsJob

LEMMA BeginKeeps ==
    ASSUME ImportInv, NEW c \in AllCalls, NEW rows, NEW alone \in BOOLEAN,
           job' = [job EXCEPT ![c] = [NoJob EXCEPT !.pc = "row", !.rows = rows, !.at = 1,
                                                   !.alone = alone]],
           UNCHANGED <<employees, personRaced>>
    PROVE  ImportInv'
<1>1. PICK next : /\ next = [NoJob EXCEPT !.pc = "row", !.rows = rows, !.at = 1, !.alone = alone]
                  /\ Goes(c, next)
  BY DEF Goes
<1>2. next \in JobOf(rows) /\ next.pc = "row"
  BY <1>1, NoJobType DEF JobOf
<1> QED
  BY <1>1, <1>2, GoesKeeps DEF IsJob

LEMMA ImportKeeps ==
    ASSUME ImportInv, NEW c \in AllCalls, Import(c)
    PROVE  ImportInv'
<1>1. PICK rows :
          /\ job' = [job EXCEPT ![c] = [NoJob EXCEPT !.pc = "row", !.rows = rows, !.at = 1,
                                                     !.alone = TRUE]]
          /\ UNCHANGED <<employees, personRaced>>
  BY DEF Import
<1> QED
  BY <1>1, BeginKeeps

LEMMA CreateOneKeeps ==
    ASSUME ImportInv, NEW c \in AllCalls, CreateOne(c)
    PROVE  ImportInv'
<1>1. NoJob.alone = FALSE
  BY DEF NoJob
<1>2. PICK rows :
          /\ job' = [job EXCEPT ![c] = [NoJob EXCEPT !.pc = "row", !.at = 1, !.rows = rows]]
          /\ UNCHANGED <<employees, personRaced>>
  BY DEF CreateOne
<1>3. [NoJob EXCEPT !.pc = "row", !.at = 1, !.rows = rows]
        = [NoJob EXCEPT !.pc = "row", !.rows = rows, !.at = 1, !.alone = FALSE]
  BY <1>1, NoJobType DEF JobOf, NoJob
<1> QED
  BY <1>2, <1>3, BeginKeeps

LEMMA RowStepKeeps ==
    ASSUME ImportInv, NEW c \in AllCalls,
           Skip(c) \/ Refuse(c) \/ Check(c) \/ CreateFails(c) \/ Answer(c)
    PROVE  ImportInv'
<1>1. ImportTypeOK
  BY DEF ImportInv
<1>2. CASE Skip(c) \/ Refuse(c)
  <2>1. Goes(c, Advanced(c))
    BY <1>2 DEF Skip, Refuse
  <2>2. IsJob(Advanced(c)) /\ Advanced(c).pc \in {"row", "answer"}
    BY <1>1, AdvancedType
  <2> QED
    BY <2>1, <2>2, GoesKeeps
<1>3. CASE Check(c)
  <2>1. PICK next : /\ Goes(c, next) /\ IsJob(next)
                    /\ next.rows = job[c].rows /\ next.at = job[c].at
    <3>1. PICK rows : job[c] \in JobOf(rows)
      BY <1>1 DEF ImportTypeOK, IsJob
    <3>2. PICK next : next = [job[c] EXCEPT !.pc = "create"] /\ Goes(c, next)
      BY <1>3 DEF Check
    <3>3. next \in JobOf(rows) /\ next.rows = job[c].rows /\ next.at = job[c].at
      BY <3>1, <3>2 DEF JobOf
    <3> QED
      BY <3>2, <3>3 DEF IsJob
  <2>2. Row(c).person \notin Persons
    BY <1>3 DEF Check, Taken
  <2> QED
    BY <2>1, <2>2, GoesKeeps
<1>4. CASE CreateFails(c)
  <2>1. Goes(c, [Advanced(c) EXCEPT !.alone = FALSE])
    BY <1>4 DEF CreateFails
  <2>2. /\ IsJob([Advanced(c) EXCEPT !.alone = FALSE])
        /\ [Advanced(c) EXCEPT !.alone = FALSE].pc \in {"row", "answer"}
    BY <1>1, AdvancedType
  <2> QED
    BY <2>1, <2>2, GoesKeeps
<1>5. CASE Answer(c)
  BY <1>5, NoJobType, GoesKeeps DEF Answer
<1> QED
  BY <1>2, <1>3, <1>4, <1>5

LEMMA CreateKeeps ==
    ASSUME ImportInv, NEW c \in AllCalls, Create(c)
    PROVE  ImportInv'
<1>1. job = [d \in AllCalls |-> job[d]] /\ \A d \in AllCalls : IsJob(job[d])
  BY DEF ImportInv, ImportTypeOK
<1>2. IsJob(Advanced(c)) /\ Advanced(c).pc \in {"row", "answer"}
  BY AdvancedType DEF ImportInv
<1>3. PICK e : /\ e.person = Row(c).person
               /\ employees' = employees \cup {e}
  <2> DEFINE e == [person |-> Row(c).person, code |-> Row(c).code, email |-> Row(c).email]
  <2>1. e.person = Row(c).person /\ employees' = employees \cup {e}
    BY DEF Create
  <2> QED
    BY <2>1
<1>4. /\ personRaced' = (personRaced \/ job[c].late)
      /\ job' = [d \in AllCalls |-> IF d = c THEN Advanced(c) ELSE Overtaken(d, c)]
  BY DEF Create
<1>5. \A d \in AllCalls :
          /\ IsJob(Overtaken(d, c))
          /\ Overtaken(d, c).pc = job[d].pc /\ Overtaken(d, c).rows = job[d].rows
          /\ Overtaken(d, c).at = job[d].at
          /\ Overtaken(d, c).late <=>
               job[d].late \/ (Reached(d, "create") /\ Row(d).person = Row(c).person)
  <2> SUFFICES ASSUME NEW d \in AllCalls
               PROVE  /\ IsJob(Overtaken(d, c))
                      /\ Overtaken(d, c).pc = job[d].pc /\ Overtaken(d, c).rows = job[d].rows
                      /\ Overtaken(d, c).at = job[d].at
                      /\ Overtaken(d, c).late <=>
                           job[d].late \/ (Reached(d, "create") /\ Row(d).person = Row(c).person)
    OBVIOUS
  <2> DEFINE same == Reached(d, "create") /\ Row(d).person = Row(c).person
  <2>1. PICK rows : job[d] \in JobOf(rows)
    BY <1>1 DEF IsJob
  <2>2. Overtaken(d, c) = [job[d] EXCEPT !.alone = FALSE, !.late = @ \/ same]
    BY DEF Overtaken
  <2>5. same \in BOOLEAN
    BY DEF Reached
  <2> HIDE DEF same
  <2>3. /\ Overtaken(d, c) \in JobOf(rows)
        /\ Overtaken(d, c).pc = job[d].pc /\ Overtaken(d, c).rows = job[d].rows
        /\ Overtaken(d, c).at = job[d].at
    BY <2>1, <2>2, <2>5 DEF JobOf
  <2>4. Overtaken(d, c).late = (job[d].late \/ same)
    BY <2>1, <2>2 DEF JobOf
  <2>6. Overtaken(d, c).late <=> job[d].late \/ same
    BY <2>4
  <2> QED
    BY <2>3, <2>6 DEF same, IsJob
<1>6. \A d \in AllCalls : job'[d] = IF d = c THEN Advanced(c) ELSE Overtaken(d, c)
  BY <1>4
<1>7. job' = [d \in AllCalls |-> job'[d]] /\ \A d \in AllCalls : IsJob(job'[d])
  BY <1>2, <1>4, <1>5, <1>6
<1>8. ImportTypeOK'
  BY <1>7 DEF ImportTypeOK
<1>9. Persons' = Persons \cup {Row(c).person}
  BY <1>3 DEF Persons
<1>10. ASSUME ~personRaced'
       PROVE  OnePerson' /\ LookedUp'
  <2>1. ~personRaced /\ ~job[c].late
    BY <1>4, <1>10
  <2>2. OnePerson /\ LookedUp
    BY <2>1 DEF ImportInv
  <2>3. Row(c).person \notin Persons
    BY <2>1, <2>2 DEF LookedUp, Create
  <2>4. \A f \in employees : f.person # e.person
    BY <1>3, <2>3 DEF Persons
  <2>5. OnePerson'
    BY <1>3, <2>2, <2>4 DEF OnePerson
  <2>6. ASSUME NEW d \in AllCalls, Reached(d, "create")', ~job'[d].late
        PROVE  (Row(d).person)' \notin Persons'
    <3>1. d # c
      BY <1>2, <1>6, <2>6 DEF Reached
    <3>2. job'[d] = Overtaken(d, c)
      BY <1>6, <3>1
    <3>3. Reached(d, "create") /\ ~job[d].late /\ Row(d).person # Row(c).person
      BY <1>5, <2>6, <3>2 DEF Reached
    <3>4. (Row(d).person)' = Row(d).person
      BY <1>5, <3>2 DEF Row
    <3>5. Row(d).person \notin Persons
      BY <2>2, <3>3 DEF LookedUp
    <3> QED
      BY <1>9, <3>3, <3>4, <3>5
  <2> QED
    BY <2>5, <2>6 DEF LookedUp
<1> QED
  BY <1>8, <1>10 DEF ImportInv

LEMMA CrashKeeps ==
    ASSUME ImportInv, Crash
    PROVE  ImportInv'
<1>1. job' = [c \in AllCalls |-> NoJob] /\ UNCHANGED <<employees, personRaced>>
  BY DEF Crash
<1>2. /\ job' = [d \in AllCalls |-> job'[d]]
      /\ \A d \in AllCalls : IsJob(job'[d]) /\ ~Reached(d, "create")'
  BY <1>1, NoJobType DEF Reached
<1>3. ImportTypeOK' /\ personRaced' = personRaced
  BY <1>1, <1>2 DEF ImportInv, ImportTypeOK
<1>4. (OnePerson => OnePerson') /\ LookedUp'
  BY <1>1, <1>2 DEF OnePerson, LookedUp
<1> QED
  BY <1>3, <1>4, Zenon DEF ImportInv

LEMMA DeleteKeeps ==
    ASSUME ImportInv, DeleteEmployee
    PROVE  ImportInv'
<1>1. job = [d \in AllCalls |-> job[d]] /\ \A d \in AllCalls : IsJob(job[d])
  BY DEF ImportInv, ImportTypeOK
<1>2. /\ employees' \subseteq employees /\ UNCHANGED personRaced
      /\ job' = [c \in AllCalls |-> [job[c] EXCEPT !.alone = FALSE]]
  BY DEF DeleteEmployee
<1>3. ASSUME NEW c \in AllCalls
      PROVE  /\ IsJob(job'[c]) /\ job'[c].pc = job[c].pc
             /\ job'[c].rows = job[c].rows /\ job'[c].at = job[c].at
             /\ job'[c].late = job[c].late
  <2>1. PICK rows : job[c] \in JobOf(rows)
    BY <1>1 DEF IsJob
  <2>2. job'[c] = [job[c] EXCEPT !.alone = FALSE]
    BY <1>2
  <2>3. /\ job'[c] \in JobOf(rows) /\ job'[c].pc = job[c].pc
        /\ job'[c].rows = job[c].rows /\ job'[c].at = job[c].at
        /\ job'[c].late = job[c].late
    BY <2>1, <2>2 DEF JobOf
  <2> QED
    BY <2>3 DEF IsJob
<1>4. job' = [c \in AllCalls |-> job'[c]] /\ \A c \in AllCalls : IsJob(job'[c])
  BY <1>2, <1>3
<1>5. Persons' \subseteq Persons
  BY <1>2 DEF Persons
<1>6. OnePerson => OnePerson'
  BY <1>2 DEF OnePerson
<1>7. LookedUp => LookedUp'
  BY <1>3, <1>5 DEF LookedUp, Reached, Row
<1>8. ImportTypeOK' /\ personRaced' = personRaced
  BY <1>1, <1>2, <1>4 DEF ImportTypeOK
<1> QED
  BY <1>6, <1>7, <1>8, Zenon DEF ImportInv

LEMMA ImportInvInit ==
    ASSUME ImportInit
    PROVE  ImportInv
<1>1. /\ job = [c \in AllCalls |-> job[c]]
      /\ \A c \in AllCalls : IsJob(job[c]) /\ ~Reached(c, "create")
  BY NoJobType DEF ImportInit, Reached
<1> QED
  BY <1>1 DEF ImportInit, ImportInv, ImportTypeOK, OnePerson, LookedUp

LEMMA ImportInvStep ==
    ASSUME ImportInv, [ImportNext]_importVars
    PROVE  ImportInv'
<1>1. ASSUME NEW c \in AllCalls, Import(c) \/ CreateOne(c)
      PROVE  ImportInv'
  BY <1>1, ImportKeeps, CreateOneKeeps
<1>2. ASSUME NEW c \in AllCalls, \/ Skip(c) \/ Refuse(c) \/ Check(c)
                                 \/ CreateFails(c) \/ Create(c) \/ Answer(c)
      PROVE  ImportInv'
  BY <1>2, RowStepKeeps, CreateKeeps
<1>3. CASE UNCHANGED importVars
  <2>1. UNCHANGED <<employees, job, personRaced>>
    BY <1>3 DEF importVars
  <2>2. ImportTypeOK' /\ personRaced' = personRaced
    BY <2>1 DEF ImportInv, ImportTypeOK
  <2>3. (OnePerson => OnePerson') /\ (LookedUp => LookedUp')
    BY <2>1 DEF OnePerson, LookedUp, Reached, Row, Persons
  <2> QED
    BY <2>2, <2>3, Zenon DEF ImportInv
<1> QED
  BY <1>1, <1>2, <1>3, CrashKeeps, DeleteKeeps DEF ImportNext, AllCalls

(* However single registrations and imports overlap, fail, are cut off by a *)
(* crash and are repeated, with employees deleted in between: a person is   *)
(* in the table twice only if one was created by a call that had looked the *)
(* person up before another call created the same person.                   *)
THEOREM PersonsAreRegisteredOnce == ImportSpec => []NoPersonTwice
<1>1. ImportInit => ImportInv
  BY ImportInvInit
<1>2. ImportInv /\ [ImportNext]_importVars => ImportInv'
  BY ImportInvStep
<1>3. ImportInv => NoPersonTwice
  BY DEF ImportInv, NoPersonTwice, OnePerson
<1> QED
  BY <1>1, <1>2, <1>3, PTL DEF ImportSpec

-----------------------------------------------------------------------------
(* EmployeeImport: what an import that is alone can count on *)

(* A valid row is the first of its person, of its code and of its address.  *)
RowsAreApart(rows) ==
    \A i \in 1..Len(rows) : rows[i].valid =>
        \A j \in 1..(i - 1) : /\ rows[j].person # rows[i].person
                              /\ rows[j].code # rows[i].code
                              /\ rows[j].email # rows[i].email

(* A row still to come whose code is made up would be created, or its person *)
(* is an employee or in an earlier row.                                      *)
StillAccepted(rows, i) ==
    IF rows[i].valid
    THEN /\ rows[i].code \notin Codes /\ rows[i].email \notin Emails
         /\ rows[i].person \notin Persons
    ELSE \/ rows[i].person \in Persons
         \/ \E j \in 1..(i - 1) : rows[j].person = rows[i].person

(* PeopleDone, row by row. *)
Registered(rows, n, persons) ==
    \A i \in 1..n :
        (\A j \in 1..n : rows[j].person = rows[i].person => ~rows[j].given)
            => rows[i].person \in persons

(* An import that is alone: the rows to come are accepted, those done are   *)
(* employees.                                                               *)
AloneOK(c) ==
    LET rows == job[c].rows IN
    job[c].alone =>
        /\ Len(rows) \in Nat
        /\ job[c].pc # "answer" => job[c].at \in 1..Len(rows)
        /\ RowsAreApart(rows)
        /\ \A i \in job[c].at..Len(rows) : ~rows[i].given => StillAccepted(rows, i)
        /\ Registered(rows, job[c].at - 1, Persons)

AloneInv == IsFiniteSet(employees) /\ \A c \in AllCalls : AloneOK(c)

-----------------------------------------------------------------------------
(* Induction over the naturals.  A set of naturals has a least element,     *)
(* because the intervals up to its members are finite sets, and inclusion   *)
(* of finite sets is well-founded.                                          *)

LEMMA LeastElement ==
    ASSUME NEW T, T \subseteq Nat, T # {}
    PROVE  \E x \in T : \A y \in T : x <= y
<1> DEFINE Upto == {0..k : k \in T}
<1>1. Upto \subseteq FiniteSubsetsOf(Nat)
  <2> SUFFICES ASSUME NEW k \in T PROVE 0..k \in FiniteSubsetsOf(Nat)
    OBVIOUS
  <2>1. IsFiniteSet(0..k)
    BY FS_Interval
  <2> QED
    BY <2>1 DEF FiniteSubsetsOf
<1>2. Upto # {}
  OBVIOUS
<1>3. PICK I \in Upto : \A J \in Upto : <<J, I>> \notin StrictSubsetOrdering(Nat)
  <2> HIDE DEF Upto
  <2> QED
    BY <1>1, <1>2, WFMin, FS_StrictSubsetOrderingWellFounded
<1>4. PICK x \in T : I = 0..x
  OBVIOUS
<1>5. ASSUME NEW y \in T, y < x
      PROVE  FALSE
  <2>1. 0..y \in Upto /\ 0..y \subseteq 0..x /\ 0..y # 0..x
    BY <1>5
  <2>2. <<0..y, 0..x>> \in StrictSubsetOrdering(Nat)
    BY <2>1, <1>5 DEF StrictSubsetOrdering
  <2> QED
    BY <2>1, <2>2, <1>3, <1>4
<1> QED
  BY <1>5

LEMMA EveryNatural ==
    ASSUME NEW S, 0 \in S, \A n \in Nat : n \in S => n + 1 \in S
    PROVE  Nat \subseteq S
<1> SUFFICES ASSUME Nat \ S # {} PROVE FALSE
  OBVIOUS
<1>1. PICK x \in Nat \ S : \A y \in Nat \ S : x <= y
  BY LeastElement
<1>2. x # 0 /\ x - 1 \in Nat /\ x - 1 \in S
  BY <1>1
<1> QED
  BY <1>1, <1>2

-----------------------------------------------------------------------------
(* What a file holds after its validation: the recursion has a solution,     *)
(* row by row, and what is made up for a row is taken nowhere.              *)

(* rows are the rows of the file up to n, validated one after the other.   *)
ValidatedTo(rows, file, n) ==
    rows = [i \in 1..n |-> ValidatedRow(i, file[i], {rows[j] : j \in 1..(i - 1)})]

LEMMA ValidatedOneMore ==
    ASSUME NEW file, NEW k \in Nat, NEW rows, ValidatedTo(rows, file, k)
    PROVE  \E more : ValidatedTo(more, file, k + 1)
<1> PICK last : last = ValidatedRow(k + 1, file[k + 1], {rows[j] : j \in 1..k})
  OBVIOUS
<1> PICK more : more = [i \in 1..(k + 1) |-> IF i <= k THEN rows[i] ELSE last]
  OBVIOUS
<1>1. ASSUME NEW i \in 1..(k + 1)
      PROVE  more[i] = ValidatedRow(i, file[i], {more[j] : j \in 1..(i - 1)})
  <2>1. {more[j] : j \in 1..(i - 1)} = {rows[j] : j \in 1..(i - 1)}
    <3>1. \A j \in 1..(i - 1) : j \in 1..(k + 1) /\ j <= k /\ more[j] = rows[j]
      OBVIOUS
    <3> QED
      BY <3>1
  <2>2. CASE i <= k
    <3>1. more[i] = rows[i] /\ i \in 1..k
      BY <2>2
    <3>2. rows[i] = ValidatedRow(i, file[i], {rows[j] : j \in 1..(i - 1)})
      BY <3>1, Zenon DEF ValidatedTo
    <3> QED
      BY <2>1, <3>1, <3>2
  <2>3. CASE i = k + 1
    <3>1. more[i] = last /\ i - 1 = k
      BY <2>3
    <3> QED
      BY <2>1, <2>3, <3>1
  <2> QED
    BY <2>2, <2>3
<1>2. more = [i \in 1..(k + 1) |-> more[i]]
  OBVIOUS
<1>3. ValidatedTo(more, file, k + 1)
  <2>1. [i \in 1..(k + 1) |-> more[i]]
          = [i \in 1..(k + 1) |-> ValidatedRow(i, file[i], {more[j] : j \in 1..(i - 1)})]
    BY <1>1, Zenon
  <2> QED
    BY <1>2, <2>1, Zenon DEF ValidatedTo
<1> QED
  BY <1>3, Zenon

LEMMA ValidatedExists ==
    ASSUME NEW file, NEW n \in Nat
    PROVE  \E rows : ValidatedTo(rows, file, n)
<1> DEFINE S == {k \in Nat : \E rows : ValidatedTo(rows, file, k)}
<1>1. 0 \in S
  <2> PICK rows : rows = [i \in 1..0 |-> {}]
    OBVIOUS
  <2>1. rows = [i \in 1..0 |-> ValidatedRow(i, file[i], {rows[j] : j \in 1..(i - 1)})]
    OBVIOUS
  <2>2. ValidatedTo(rows, file, 0)
    BY <2>1, Zenon DEF ValidatedTo
  <2> QED
    BY <2>2
<1>2. \A k \in Nat : k \in S => k + 1 \in S
  BY ValidatedOneMore
<1> HIDE DEF S
<1>3. Nat \subseteq S
  BY <1>1, <1>2, EveryNatural
<1> QED
  BY <1>3 DEF S

LEMMA ValidatedIs ==
    ASSUME NEW n \in Nat, NEW file, DOMAIN file = 1..n
    PROVE  ValidatedTo(Validated(file), file, n)
<1>1. Validated(file) = CHOOSE rows : ValidatedTo(rows, file, n)
  BY Zenon DEF Validated, ValidatedTo
<1> QED
  BY <1>1, ValidatedExists

(* There is a first free number: there are more numbers than taken ones.   *)
LEMMA FirstFreeIsFree ==
    ASSUME NEW n \in Nat, NEW taken, IsFiniteSet(taken)
    PROVE  /\ FirstFree(n, taken) \in n..(n + Cardinality(taken))
           /\ FirstFree(n, taken) \notin taken
<1> DEFINE m == n + Cardinality(taken)
           free == (n..m) \ taken
<1>1. Cardinality(taken) \in Nat /\ m \in Nat
  BY FS_CardinalityType
<1>2. free # {}
  <2>1. n \in Int /\ m \in Int /\ ~(n > m)
    BY <1>1
  <2> HIDE DEF m
  <2>2. IsFiniteSet(n..m) /\ Cardinality(n..m) = m - n + 1
    BY <2>1, FS_Interval
  <2> SUFFICES ASSUME n..m \subseteq taken PROVE FALSE
    OBVIOUS
  <2>3. Cardinality(n..m) <= Cardinality(taken)
    BY FS_Subset
  <2> QED
    BY <1>1, <2>2, <2>3 DEF m
<1>3. PICK k \in free : \A j \in free : k <= j
  <2>1. free \subseteq Nat
    BY <1>1
  <2> QED
    BY <1>2, <2>1, LeastElement
<1>4. \A j \in n..(k - 1) : j \in taken
  BY <1>1, <1>3
<1>5. k \in n..m /\ k \notin taken
  BY <1>3
<1> QED
  BY <1>4, <1>5 DEF FirstFree

LEMMA EmailIsNew ==
    ASSUME NEW p, NEW earlier, IsFiniteSet(earlier), IsFiniteSet(Emails)
    PROVE  MadeUpEmail(p, earlier) \notin Emails \cup {r.email : r \in earlier}
<1> DEFINE used == {r.email : r \in earlier}
           b == Cardinality(Emails) + Cardinality(earlier)
           mine == {k \in 0..b : <<NameOf[p], k>> \in Emails \cup used}
           f == FirstFree(0, mine)
<1>1. IsFiniteSet(used) /\ Cardinality(used) <= Cardinality(earlier)
  <2> DEFINE email == [r \in earlier |-> r.email]
  <2>1. email \in Surjection(earlier, used)
    BY DEF Surjection
  <2> HIDE DEF email, used
  <2> QED
    BY <2>1, FS_Surjection
<1>2. /\ Cardinality(Emails) \in Nat /\ Cardinality(earlier) \in Nat
      /\ Cardinality(used) \in Nat
  BY <1>1, FS_CardinalityType
<1>3. /\ IsFiniteSet(Emails \cup used)
      /\ Cardinality(Emails \cup used) \in Nat /\ Cardinality(Emails \cup used) <= b
  <2>1. IsFiniteSet(Emails \cap used) /\ Cardinality(Emails \cap used) \in Nat
    BY <1>1, FS_Intersection, FS_CardinalityType
  <2>2. /\ IsFiniteSet(Emails \cup used)
        /\ Cardinality(Emails \cup used)
             = Cardinality(Emails) + Cardinality(used) - Cardinality(Emails \cap used)
    BY <1>1, FS_Union
  <2> QED
    BY <1>1, <1>2, <2>1, <2>2, FS_CardinalityType
<1>4. IsFiniteSet(mine) /\ Cardinality(mine) \in Nat /\ Cardinality(mine) <= b
  <2>1. IsFiniteSet(0..b)
    BY <1>2, FS_Interval
  <2>2. IsFiniteSet(mine) /\ Cardinality(mine) \in Nat
    BY <2>1, FS_Subset, FS_CardinalityType
  <2> DEFINE addr == [k \in mine |-> <<NameOf[p], k>>]
  <2>3. addr \in Injection(mine, Emails \cup used)
    <3>1. addr \in [mine -> Emails \cup used] /\ DOMAIN addr = mine
      OBVIOUS
    <3>2. \A j, k \in mine : addr[j] = addr[k] => j = k
      OBVIOUS
    <3> QED
      BY <3>1, <3>2 DEF Injection, IsInjective
  <2> HIDE DEF addr
  <2>4. Cardinality(mine) <= Cardinality(Emails \cup used)
    BY <1>3, <2>2, <2>3, FS_Injection
  <2> QED
    BY <1>2, <1>3, <2>2, <2>4
<1>5. f \in 0..b /\ f \notin mine
  <2> HIDE DEF mine
  <2>1. f \in 0..(0 + Cardinality(mine)) /\ f \notin mine
    BY <1>4, FirstFreeIsFree
  <2> QED
    BY <1>2, <1>4, <2>1
<1>6. <<NameOf[p], f>> \notin Emails \cup used
  BY <1>5
<1>7. MadeUpEmail(p, earlier) = <<NameOf[p], f>>
  BY DEF MadeUpEmail
<1> QED
  BY <1>6, <1>7
LEMMA EmployeesFinite ==
    ASSUME IsFiniteSet(employees)
    PROVE  IsFiniteSet(Codes) /\ IsFiniteSet(Emails)
<1> DEFINE code == [e \in employees |-> e.code]
           email == [e \in employees |-> e.email]
<1>1. code \in Surjection(employees, Codes) /\ email \in Surjection(employees, Emails)
  BY DEF Surjection, Codes, Emails
<1> HIDE DEF code, email
<1> QED
  BY <1>1, FS_Surjection

LEMMA CodeIsNew ==
    ASSUME NEW i \in Nat, NEW earlier, IsFiniteSet(earlier), IsFiniteSet(Codes)
    PROVE  MadeUpCode(i, earlier) \notin Codes \cup {r.code : r \in earlier}
<1> DEFINE code == [r \in earlier |-> r.code]
           used == {r.code : r \in earlier}
<1>1. code \in Surjection(earlier, used)
  BY DEF Surjection
<1> HIDE DEF code
<1>2. IsFiniteSet(Codes \cup used)
  <2> HIDE DEF used
  <2>1. IsFiniteSet(used)
    BY <1>1, FS_Surjection
  <2> QED
    BY <2>1, FS_Union
<1> QED
  BY <1>2, FirstFreeIsFree DEF MadeUpCode

LEMMA RowIsApart ==
    ASSUME NEW i \in Nat, NEW line, NEW earlier, IsFiniteSet(earlier), IsFiniteSet(employees),
           NEW r, r = ValidatedRow(i, line, earlier)
    PROVE  /\ r.valid => \A s \in earlier : /\ s.person # r.person /\ s.code # r.code
                                            /\ s.email # r.email
           /\ ~r.given => IF r.valid
                          THEN r.code \notin Codes /\ r.email \notin Emails
                               /\ r.person \notin Persons
                          ELSE r.person \in Persons \/ \E s \in earlier : s.person = r.person
<1> DEFINE code == IF line.code = 0 THEN MadeUpCode(i, earlier) ELSE line.code
           email == MadeUpEmail(line.person, earlier)
<1>1. IsFiniteSet(Codes) /\ IsFiniteSet(Emails)
  BY EmployeesFinite
<1>2. email \notin Emails \cup {s.email : s \in earlier}
  BY <1>1, EmailIsNew
<1>3. MadeUpCode(i, earlier) \notin Codes \cup {s.code : s \in earlier}
  BY <1>1, CodeIsNew
<1> DEFINE valid == /\ line.person \notin Persons \cup {s.person : s \in earlier}
                    /\ \A s \in earlier : s.code # code /\ s.email # email
<1>4. /\ r.person = line.person /\ r.given = (line.code # 0) /\ r.code = code
      /\ r.email = email /\ r.valid = valid
  BY DEF ValidatedRow
<1>5. valid \in BOOLEAN
  OBVIOUS
<1>6. r.valid => \A s \in earlier : s.person # r.person /\ s.code # r.code /\ s.email # r.email
  BY <1>4
<1>7. ASSUME ~r.given
      PROVE  IF r.valid
             THEN r.code \notin Codes /\ r.email \notin Emails /\ r.person \notin Persons
             ELSE r.person \in Persons \/ \E s \in earlier : s.person = r.person
  <2>1. line.code = 0 /\ code = MadeUpCode(i, earlier)
    BY <1>4, <1>7
  <2>2. \A s \in earlier : s.code # code /\ s.email # email
    BY <1>2, <1>3, <2>1
  <2>3. valid <=> line.person \notin Persons /\ \A s \in earlier : s.person # line.person
    BY <2>2
  <2> HIDE DEF valid, code, email
  <2> QED
    BY <1>2, <1>3, <1>4, <2>1, <2>3
<1> QED
  BY <1>6, <1>7

(* What a validation leaves to an import that is carried out at once. *)
LEMMA ValidatedRowsAreApart ==
    ASSUME NEW n \in Nat, NEW file, DOMAIN file = 1..n, IsFiniteSet(employees),
           NEW rows, rows = Validated(file)
    PROVE  /\ Len(rows) = n /\ RowsAreApart(rows)
           /\ \A i \in 1..n : ~rows[i].given => StillAccepted(rows, i)
<1>1. rows = [i \in 1..n |-> ValidatedRow(i, file[i], {rows[j] : j \in 1..(i - 1)})]
  <2>1. ValidatedTo(rows, file, n)
    BY ValidatedIs
  <2> QED
    BY <2>1, Zenon DEF ValidatedTo
<1>2. Len(rows) = n
  BY <1>1
<1>3. ASSUME NEW i \in 1..n
      PROVE  /\ rows[i].valid => \A j \in 1..(i - 1) : /\ rows[j].person # rows[i].person
                                                       /\ rows[j].code # rows[i].code
                                                       /\ rows[j].email # rows[i].email
             /\ ~rows[i].given => StillAccepted(rows, i)
  <2> DEFINE earlier == {rows[j] : j \in 1..(i - 1)}
             at == [j \in 1..(i - 1) |-> rows[j]]
  <2>1. rows[i] = ValidatedRow(i, file[i], earlier)
    BY <1>1, Zenon
  <2>2. IsFiniteSet(earlier)
    <3>1. at \in Surjection(1..(i - 1), earlier)
      BY DEF Surjection
    <3>2. IsFiniteSet(1..(i - 1))
      BY FS_Interval
    <3> HIDE DEF at, earlier
    <3> QED
      BY <3>1, <3>2, FS_Surjection
  <2> PICK r : r = rows[i]
    OBVIOUS
  <2>3. /\ r.valid => \A s \in earlier : /\ s.person # r.person /\ s.code # r.code
                                         /\ s.email # r.email
        /\ ~r.given => IF r.valid
                       THEN r.code \notin Codes /\ r.email \notin Emails
                            /\ r.person \notin Persons
                       ELSE r.person \in Persons \/ \E s \in earlier : s.person = r.person
    <3> HIDE DEF earlier
    <3> QED
      BY <2>1, <2>2, RowIsApart
  <2> QED
    BY <2>3 DEF StillAccepted
<1> QED
  BY <1>2, <1>3 DEF RowsAreApart

LEMMA RegisteredOneMore ==
    ASSUME NEW rows, NEW k \in Nat, NEW P, NEW Q, P \subseteq Q, Registered(rows, k, P),
           ~rows[k + 1].given => \/ rows[k + 1].person \in Q
                                 \/ \E j \in 1..k : rows[j].person = rows[k + 1].person
    PROVE  Registered(rows, k + 1, Q)
BY DEF Registered

LEMMA AdvancedIs ==
    ASSUME NEW c, IsJob(job[c])
    PROVE  /\ Advanced(c).rows = job[c].rows /\ Advanced(c).at = job[c].at + 1
           /\ Advanced(c).alone = job[c].alone
           /\ Advanced(c).pc = IF job[c].at = Len(job[c].rows) THEN "answer" ELSE "row"
           /\ [Advanced(c) EXCEPT !.alone = FALSE].alone = FALSE
<1>1. PICK rows : job[c] \in JobOf(rows)
  BY DEF IsJob
<1> QED
  BY <1>1 DEF Advanced, JobOf

(* What a call does to itself leaves the others alone. *)
LEMMA GoesAlone ==
    ASSUME ImportTypeOK, AloneInv, NEW c \in AllCalls, NEW next, Goes(c, next), AloneOK(c)'
    PROVE  AloneInv'
<1>1. /\ job' = [job EXCEPT ![c] = next] /\ employees' = employees
  BY DEF Goes
<1>2. \A d \in AllCalls \ {c} : job'[d] = job[d]
  BY <1>1 DEF ImportTypeOK
<1>3. ASSUME NEW d \in AllCalls \ {c}
      PROVE  AloneOK(d)'
  <2>1. AloneOK(d)
    BY DEF AloneInv
  <2>2. job'[d] = job[d] /\ employees' = employees
    BY <1>1, <1>2
  <2>3. Persons' = Persons /\ \A rows, i : StillAccepted(rows, i)' <=> StillAccepted(rows, i)
    BY <2>2 DEF StillAccepted, Persons, Codes, Emails
  <2> QED
    BY <2>1, <2>2, <2>3 DEF AloneOK
<1> QED
  BY <1>1, <1>3 DEF AloneInv

LEMMA NotAlone ==
    ASSUME NEW c, ~job[c].alone
    PROVE  AloneOK(c)
BY DEF AloneOK

LEMMA ImportAlone ==
    ASSUME ImportTypeOK, AloneInv, NEW c \in AllCalls, Import(c)
    PROVE  AloneInv'
<1>1. PICK n \in 1..MaxRows : \E file \in [1..n -> [person : People, code : 0..MaxCode]] :
          job' = [job EXCEPT ![c] = [NoJob EXCEPT !.pc = "row",
                      !.rows = Validated(file), !.at = 1, !.alone = TRUE]]
  BY DEF Import
<1>2. PICK file \in [1..n -> [person : People, code : 0..MaxCode]] :
          job' = [job EXCEPT ![c] = [NoJob EXCEPT !.pc = "row",
                      !.rows = Validated(file), !.at = 1, !.alone = TRUE]]
  BY <1>1
<1>3. PICK rows : rows = Validated(file)
  OBVIOUS
<1>4. PICK next : next = [NoJob EXCEPT !.pc = "row", !.rows = rows, !.at = 1, !.alone = TRUE]
  OBVIOUS
<1>5. next.rows = rows /\ next.at = 1 /\ next.pc = "row"
  BY <1>4 DEF NoJob
<1>6. Goes(c, next) /\ UNCHANGED employees
  BY <1>2, <1>3, <1>4 DEF Import, Goes
<1>7. job'[c] = next
  BY <1>6 DEF Goes, ImportTypeOK
<1>8. /\ n \in Nat /\ n >= 1 /\ Len(rows) = n /\ RowsAreApart(rows)
      /\ \A i \in 1..n : ~rows[i].given => StillAccepted(rows, i)
  <2>1. n \in Nat /\ n >= 1 /\ DOMAIN file = 1..n
    BY ImportAssumption
  <2> QED
    BY <1>3, <2>1, ValidatedRowsAreApart DEF AloneInv
<1>9. \A i \in 1..n : ~rows[i].given => StillAccepted(rows, i)'
  BY <1>6, <1>8 DEF StillAccepted, Persons, Codes, Emails
<1>10. AloneOK(c)'
  <2>1. Registered(rows, 0, Persons')
    BY DEF Registered
  <2> QED
    BY <1>5, <1>7, <1>8, <1>9, <2>1 DEF AloneOK
<1> QED
  BY <1>6, <1>10, GoesAlone

LEMMA RowStepAlone ==
    ASSUME ImportTypeOK, AloneInv, NEW c \in AllCalls, Skip(c) \/ Refuse(c)
    PROVE  AloneInv'
<1>1. Reached(c, "row") /\ Goes(c, Advanced(c)) /\ employees' = employees
  BY DEF Skip, Refuse, Goes
<1>2. IsJob(job[c]) /\ AloneOK(c) /\ job'[c] = Advanced(c)
  BY <1>1 DEF ImportTypeOK, AloneInv, Goes
<1> PICK rows : rows = job[c].rows
  OBVIOUS
<1> PICK at : at = job[c].at
  OBVIOUS
<1>3. /\ job'[c].rows = rows /\ job'[c].at = at + 1 /\ job'[c].alone = job[c].alone
      /\ job'[c].pc = IF at = Len(rows) THEN "answer" ELSE "row"
  BY <1>2, AdvancedIs
<1>4. ASSUME job[c].alone
      PROVE  AloneOK(c)'
  <2>1. /\ Len(rows) \in Nat /\ at \in 1..Len(rows) /\ RowsAreApart(rows)
        /\ \A i \in at..Len(rows) : ~rows[i].given => StillAccepted(rows, i)
        /\ Registered(rows, at - 1, Persons)
    BY <1>1, <1>2, <1>4 DEF AloneOK, Reached
  <2>2. Persons' = Persons /\ \A i : StillAccepted(rows, i)' <=> StillAccepted(rows, i)
    BY <1>1 DEF StillAccepted, Persons, Codes, Emails
  <2>3. ~rows[at].given => \/ rows[at].person \in Persons
                           \/ \E j \in 1..(at - 1) : rows[j].person = rows[at].person
    <3>1. ASSUME ~rows[at].given
          PROVE  ~rows[at].valid /\ StillAccepted(rows, at)
      <4>1. StillAccepted(rows, at)
        BY <2>1, <3>1
      <4>2. Row(c) = rows[at]
        BY DEF Row
      <4> QED
        BY <4>1, <4>2 DEF StillAccepted, Skip, Refuse, Taken
    <3> QED
      BY <3>1 DEF StillAccepted
  <2>4. Registered(rows, at, Persons)
    <3>1. at - 1 \in Nat /\ (at - 1) + 1 = at
      BY <2>1
    <3> QED
      BY <2>1, <2>3, <3>1, RegisteredOneMore
  <2> QED
    BY <1>3, <2>1, <2>2, <2>4 DEF AloneOK
<1>5. ~job[c].alone => AloneOK(c)'
  BY <1>3 DEF AloneOK
<1> QED
  BY <1>1, <1>4, <1>5, GoesAlone
LEMMA CheckAlone ==
    ASSUME ImportTypeOK, AloneInv, NEW c \in AllCalls, Check(c)
    PROVE  AloneInv'
<1> PICK next : next = [job[c] EXCEPT !.pc = "create"]
  OBVIOUS
<1>1. Reached(c, "row") /\ Goes(c, next) /\ employees' = employees
  BY DEF Check, Goes
<1>2. IsJob(job[c]) /\ AloneOK(c) /\ job'[c] = next
  BY <1>1 DEF ImportTypeOK, AloneInv, Goes
<1>3. /\ next.rows = job[c].rows /\ next.at = job[c].at /\ next.alone = job[c].alone
      /\ next.pc = "create"
  BY <1>2 DEF IsJob, JobOf
<1>4. Persons' = Persons /\ \A rows, i : StillAccepted(rows, i)' <=> StillAccepted(rows, i)
  BY <1>1 DEF StillAccepted, Persons, Codes, Emails
<1>5. AloneOK(c)'
  BY <1>1, <1>2, <1>3, <1>4 DEF AloneOK, Reached
<1> QED
  BY <1>1, <1>5, GoesAlone

(* A call that is not alone, or no longer. *)
LEMMA LeftAlone ==
    ASSUME ImportTypeOK, AloneInv, NEW c \in AllCalls, NEW next, Goes(c, next), ~next.alone
    PROVE  AloneInv'
<1>1. job'[c] = next
  BY DEF ImportTypeOK, Goes
<1>2. AloneOK(c)'
  BY <1>1 DEF AloneOK
<1> QED
  BY <1>2, GoesAlone

LEMMA OthersAlone ==
    ASSUME ImportTypeOK, AloneInv, NEW c \in AllCalls, CreateOne(c) \/ CreateFails(c) \/ Answer(c)
    PROVE  AloneInv'
<1>1. CASE CreateOne(c)
  <2>1. PICK rows : Goes(c, [NoJob EXCEPT !.pc = "row", !.at = 1, !.rows = rows])
    BY <1>1 DEF CreateOne, Goes
  <2>2. ~[NoJob EXCEPT !.pc = "row", !.at = 1, !.rows = rows].alone
    BY DEF NoJob
  <2> QED
    BY <2>1, <2>2, LeftAlone
<1>2. CASE CreateFails(c)
  <2>1. IsJob(job[c]) /\ Goes(c, [Advanced(c) EXCEPT !.alone = FALSE])
    BY <1>2 DEF CreateFails, ImportTypeOK
  <2>2. ~[Advanced(c) EXCEPT !.alone = FALSE].alone
    BY <2>1, AdvancedIs
  <2> QED
    BY <2>1, <2>2, LeftAlone
<1>3. CASE Answer(c)
  <2>1. Goes(c, NoJob) /\ ~NoJob.alone
    BY <1>3 DEF Answer, NoJob
  <2> QED
    BY <2>1, LeftAlone
<1> QED
  BY <1>1, <1>2, <1>3

LEMMA CreateAlone ==
    ASSUME ImportTypeOK, AloneInv, NEW c \in AllCalls, Create(c)
    PROVE  AloneInv'
<1> PICK e : e = [person |-> Row(c).person, code |-> Row(c).code, email |-> Row(c).email]
  OBVIOUS
<1>1. /\ Reached(c, "create") /\ employees' = employees \cup {e}
      /\ job' = [d \in AllCalls |-> IF d = c THEN Advanced(c) ELSE Overtaken(d, c)]
  BY DEF Create
<1>2. IsFiniteSet(employees')
  BY <1>1, FS_AddElement DEF AloneInv
<1>3. ASSUME NEW d \in AllCalls, d # c
      PROVE  AloneOK(d)'
  <2>1. IsJob(job[d]) /\ job'[d] = Overtaken(d, c)
    BY <1>1, <1>3 DEF ImportTypeOK
  <2>2. ~job'[d].alone
    BY <2>1 DEF Overtaken, IsJob, JobOf
  <2> QED
    BY <2>2 DEF AloneOK
<1>4. IsJob(job[c]) /\ AloneOK(c) /\ job'[c] = Advanced(c)
  BY <1>1 DEF ImportTypeOK, AloneInv
<1> PICK rows : rows = job[c].rows
  OBVIOUS
<1> PICK at : at = job[c].at
  OBVIOUS
<1>5. /\ job'[c].rows = rows /\ job'[c].at = at + 1 /\ job'[c].alone = job[c].alone
      /\ job'[c].pc = IF at = Len(rows) THEN "answer" ELSE "row"
  BY <1>4, AdvancedIs
<1>6. ASSUME job[c].alone
      PROVE  AloneOK(c)'
  <2>1. /\ Len(rows) \in Nat /\ at \in 1..Len(rows) /\ RowsAreApart(rows)
        /\ \A i \in at..Len(rows) : ~rows[i].given => StillAccepted(rows, i)
        /\ Registered(rows, at - 1, Persons)
    BY <1>1, <1>4, <1>6 DEF AloneOK, Reached
  <2>2. /\ e.person = rows[at].person /\ e.code = rows[at].code /\ e.email = rows[at].email
    BY DEF Row
  <2>3. /\ Persons' = Persons \cup {rows[at].person} /\ Codes' = Codes \cup {rows[at].code}
        /\ Emails' = Emails \cup {rows[at].email}
    BY <1>1, <2>2 DEF Persons, Codes, Emails
  <2>4. ASSUME NEW i \in (at + 1)..Len(rows), ~rows[i].given
        PROVE  StillAccepted(rows, i)'
    <3>1. StillAccepted(rows, i) /\ at \in 1..(i - 1) /\ i \in 1..Len(rows)
      BY <2>1, <2>4
    <3>2. rows[i].valid => /\ rows[at].person # rows[i].person
                           /\ rows[at].code # rows[i].code /\ rows[at].email # rows[i].email
      BY <2>1, <3>1 DEF RowsAreApart
    <3> QED
      BY <2>3, <3>1, <3>2 DEF StillAccepted
  <2>5. Registered(rows, at, Persons')
    <3>1. at - 1 \in Nat /\ (at - 1) + 1 = at
      BY <2>1
    <3> QED
      BY <2>1, <2>3, <3>1, RegisteredOneMore
  <2> QED
    BY <1>5, <2>1, <2>4, <2>5 DEF AloneOK
<1>7. ~job[c].alone => AloneOK(c)'
  BY <1>5 DEF AloneOK
<1> QED
  BY <1>2, <1>3, <1>6, <1>7 DEF AloneInv

LEMMA CrashAlone ==
    ASSUME ImportTypeOK, AloneInv, Crash \/ DeleteEmployee
    PROVE  AloneInv'
<1>1. IsFiniteSet(employees')
  <2>1. employees' \subseteq employees
    BY DEF Crash, DeleteEmployee
  <2> QED
    BY <2>1, FS_Subset DEF AloneInv
<1>2. ASSUME NEW c \in AllCalls
      PROVE  ~job'[c].alone
  <2>1. CASE Crash
    BY <2>1 DEF Crash, NoJob
  <2>2. CASE DeleteEmployee
    <3>1. IsJob(job[c]) /\ job'[c] = [job[c] EXCEPT !.alone = FALSE]
      BY <2>2 DEF DeleteEmployee, ImportTypeOK
    <3> QED
      BY <3>1 DEF IsJob, JobOf
  <2> QED
    BY <2>1, <2>2
<1> QED
  BY <1>1, <1>2 DEF AloneInv, AloneOK

LEMMA AloneInit ==
    ASSUME ImportInit
    PROVE  AloneInv
<1>1. IsFiniteSet(employees) /\ \A c \in AllCalls : ~job[c].alone
  BY FS_EmptySet DEF ImportInit, NoJob
<1> QED
  BY <1>1 DEF AloneInv, AloneOK

LEMMA AloneStep ==
    ASSUME ImportTypeOK, AloneInv, [ImportNext]_importVars
    PROVE  AloneInv'
<1>1. ASSUME NEW c \in AllCalls, Import(c) \/ CreateOne(c)
      PROVE  AloneInv'
  BY <1>1, ImportAlone, OthersAlone
<1>2. ASSUME NEW c \in AllCalls, \/ Skip(c) \/ Refuse(c) \/ Check(c)
                                 \/ CreateFails(c) \/ Create(c) \/ Answer(c)
      PROVE  AloneInv'
  BY <1>2, RowStepAlone, CheckAlone, OthersAlone, CreateAlone
<1>3. CASE UNCHANGED importVars
  <2>1. employees' = employees /\ job' = job
    BY <1>3 DEF importVars
  <2>2. Persons' = Persons /\ \A rows, i : StillAccepted(rows, i)' <=> StillAccepted(rows, i)
    BY <2>1 DEF StillAccepted, Persons, Codes, Emails
  <2>3. \A c \in AllCalls : AloneOK(c) => AloneOK(c)'
    BY <2>1, <2>2 DEF AloneOK
  <2> QED
    BY <2>1, <2>3 DEF AloneInv
<1> QED
  BY <1>1, <1>2, <1>3, CrashAlone DEF ImportNext, AllCalls

LEMMA AloneInvSuffices ==
    ASSUME ImportTypeOK, AloneInv
    PROVE  EveryoneIsImported
<1> SUFFICES ASSUME NEW c \in AllCalls, job[c].alone
             PROVE  PeopleDone(c) \subseteq Persons
  BY DEF EveryoneIsImported
<1>1. AloneOK(c) /\ IsJob(job[c])
  BY DEF AloneInv, ImportTypeOK
<1>2. Registered(job[c].rows, job[c].at - 1, Persons)
  BY <1>1 DEF AloneOK
<1> QED
  BY <1>2 DEF PeopleDone, Registered
(* An import that no other call interferes with leaves nobody out whose      *)
(* code it makes up, for every number of rows and employees: the numbers it *)
(* chooses are taken neither in the table nor in an earlier row, so that    *)
(* createEmployee finds no conflict in any row that was found valid.        *)
THEOREM NobodyIsLeftOut == ImportSpec => []EveryoneIsImported
<1>1. ImportInit => ImportInv /\ AloneInv
  BY ImportInvInit, AloneInit
<1>2. ImportInv /\ AloneInv /\ [ImportNext]_importVars => ImportInv' /\ AloneInv'
  BY ImportInvStep, AloneStep DEF ImportInv
<1>3. ImportInv /\ AloneInv => EveryoneIsImported
  BY AloneInvSuffices DEF ImportInv
<1> QED
  BY <1>1, <1>2, <1>3, PTL DEF ImportSpec
=============================================================================
