---------------------------- MODULE EmployeeImport ----------------------------
(***************************************************************************)
(* How the employee-service registers employees: one by one, or from a     *)
(* file that is validated as a whole and then carried out row by row.  A   *)
(* row names a person (the personal address) and may give a code; the      *)
(* service makes up the missing code and the official address.  Only code  *)
(* and official address are unique in the database.                        *)
(*                                                                         *)
(* employees    the rows: person, code and official address                *)
(* job[c]       call c under way: its rows, the current one, whether       *)
(*              another call has created the current row's person since it *)
(*              was looked up (late), and whether no other call has        *)
(*              written and nothing has failed since the file was          *)
(*              validated (alone)                                          *)
(* personRaced  history: some person was created by a call that was late   *)
(***************************************************************************)
EXTENDS Naturals, FiniteSets, Sequences

CONSTANTS People, NameOf,     \* the official address is made from the name
          Imports, Singles,   \* the calls there are of each kind
          MaxRows, MaxCode,   \* bounds: the rows of a file, the codes given,
          MaxEmployees        \* and the employees there are

ASSUME ImportAssumption == MaxRows \in Nat

VARIABLES employees, job, personRaced

importVars == <<employees, job, personRaced>>

AllCalls == Imports \cup Singles

NoJob == [pc |-> "idle", rows |-> <<>>, at |-> 0, late |-> FALSE, alone |-> FALSE]

ImportInit ==
    /\ employees = {}
    /\ job = [c \in AllCalls |-> NoJob]
    /\ personRaced = FALSE

Persons == {e.person : e \in employees}
Codes == {e.code : e \in employees}
Emails == {e.email : e \in employees}

\* The first number from n on that is not taken.
FirstFree(n, taken) ==
    CHOOSE k \in n..(n + Cardinality(taken)) :
        k \notin taken /\ \A j \in n..(k - 1) : j \in taken

\* Mutant: the codes of earlier rows are forgotten.
MadeUpCodeAlone(i, earlier) == FirstFree(i, Codes)

\* The code made up for row i.
MadeUpCode(i, earlier) == FirstFree(i, Codes \cup {r.code : r \in earlier})

\* The official address: the name, with a number if it is taken.
MadeUpEmail(p, earlier) ==
    <<NameOf[p], FirstFree(0, {k \in 0..(Cardinality(Emails) + Cardinality(earlier)) :
                     <<NameOf[p], k>> \in Emails \cup {r.email : r \in earlier}})>>

\* validateImportFile: row i, after the earlier ones.  A given code is only
\* compared with those of the file.
ValidatedRow(i, row, earlier) ==
    LET code == IF row.code = 0 THEN MadeUpCode(i, earlier) ELSE row.code
        email == MadeUpEmail(row.person, earlier)
    IN  [person |-> row.person, given |-> row.code # 0, code |-> code, email |-> email,
         valid |-> /\ row.person \notin Persons \cup {r.person : r \in earlier}
                   /\ \A r \in earlier : r.code # code /\ r.email # email]

Validated(file) ==
    LET rows[i \in DOMAIN file] ==
            ValidatedRow(i, file[i], {rows[j] : j \in 1..(i - 1)})
    IN  rows

Reached(c, pc) == job[c].pc = pc
Row(c) == job[c].rows[job[c].at]

\* An import has read the employees and validated its file.
Import(c) ==
    /\ Reached(c, "idle")
    /\ \E n \in 1..MaxRows : \E file \in [1..n -> [person : People, code : 0..MaxCode]] :
          job' = [job EXCEPT ![c] = [NoJob EXCEPT !.pc = "row",
                      !.rows = Validated(file), !.at = 1, !.alone = TRUE]]
    /\ UNCHANGED <<employees, personRaced>>

\* HR registers one employee and gives code and address.
CreateOne(c) ==
    /\ Reached(c, "idle")
    /\ \E p \in People, code \in 1..MaxCode, k \in 0..1 :
          job' = [job EXCEPT ![c] = [NoJob EXCEPT !.pc = "row", !.at = 1,
                      !.rows = <<[person |-> p, given |-> TRUE, code |-> code,
                                  email |-> <<NameOf[p], k>>, valid |-> TRUE]>>]]
    /\ UNCHANGED <<employees, personRaced>>

\* The next row, or the answer.
Advanced(c) ==
    [job[c] EXCEPT !.pc = IF job[c].at = Len(job[c].rows) THEN "answer" ELSE "row",
                    !.at = @ + 1, !.late = FALSE]

Goes(c, next) == job' = [job EXCEPT ![c] = next] /\ UNCHANGED <<employees, personRaced>>

\* SKIPPED.
Skip(c) == Reached(c, "row") /\ ~Row(c).valid /\ Goes(c, Advanced(c))

\* Mutant: the personal address is not looked up.
TakenByIds(r) == r.code \in Codes \/ r.email \in Emails

\* What createEmployee looks up before it creates.
Taken(r) == r.code \in Codes \/ r.email \in Emails \/ r.person \in Persons

\* FAILED: a conflict was found.
Refuse(c) == Reached(c, "row") /\ Row(c).valid /\ Taken(Row(c)) /\ Goes(c, Advanced(c))

Check(c) ==
    /\ Reached(c, "row") /\ Row(c).valid /\ ~Taken(Row(c))
    /\ Goes(c, [job[c] EXCEPT !.pc = "create"])

\* FAILED: the database refuses the code or the address, or is gone.
CreateFails(c) == Reached(c, "create") /\ Goes(c, [Advanced(c) EXCEPT !.alone = FALSE])

\* Another call d, after call c has created its row's person.
Overtaken(d, c) ==
    [job[d] EXCEPT !.alone = FALSE,
                    !.late = @ \/ (Reached(d, "create") /\ Row(d).person = Row(c).person)]

\* CREATED.
Create(c) ==
    /\ Reached(c, "create")
    /\ Row(c).code \notin Codes /\ Row(c).email \notin Emails
    /\ Cardinality(employees) < MaxEmployees
    /\ employees' = employees \cup
          {[person |-> Row(c).person, code |-> Row(c).code, email |-> Row(c).email]}
    /\ personRaced' = (personRaced \/ job[c].late)
    /\ job' = [d \in AllCalls |-> IF d = c THEN Advanced(c) ELSE Overtaken(d, c)]

Answer(c) == Reached(c, "answer") /\ Goes(c, NoJob)

\* The service goes down: the rows done so far stay.
Crash ==
    /\ \E c \in AllCalls : ~Reached(c, "idle")
    /\ job' = [c \in AllCalls |-> NoJob]
    /\ UNCHANGED <<employees, personRaced>>

\* deleteEmployee.
DeleteEmployee ==
    /\ \E e \in employees : employees' = employees \ {e}
    /\ job' = [c \in AllCalls |-> [job[c] EXCEPT !.alone = FALSE]]
    /\ UNCHANGED personRaced

ImportNext ==
    \/ \E c \in Imports : Import(c)
    \/ \E c \in Singles : CreateOne(c)
    \/ \E c \in AllCalls : \/ Skip(c) \/ Refuse(c) \/ Check(c)
                         \/ CreateFails(c) \/ Create(c) \/ Answer(c)
    \/ Crash
    \/ DeleteEmployee

ImportSpec == ImportInit /\ [][ImportNext]_importVars

-----------------------------------------------------------------------------
\* A person is registered twice only if two calls had both looked the person
\* up before either created the employee: nothing in the database, and no
\* repetition of a file after a crash, does it otherwise.
NoPersonTwice ==
    ~personRaced => \A e, f \in employees : e.person = f.person => e = f

\* The people of the rows done so far none of whose rows gives a code.
PeopleDone(c) ==
    LET done == {job[c].rows[i] : i \in 1..(job[c].at - 1)}
    IN  {r.person : r \in done} \ {r.person : r \in {s \in done : s.given}}

\* An import no other call interferes with leaves nobody out whose code it
\* makes up, namesakes and numbers in use included: what validateImportFile
\* chooses, createEmployee accepts.
EveryoneIsImported ==
    \A c \in AllCalls : job[c].alone => PeopleDone(c) \subseteq Persons
=============================================================================
