-------------------------- MODULE AttendanceReports --------------------------
(***************************************************************************)
(* What the attendance-service shows of a day or a range of days: the      *)
(* sessions, to which it adds the hours HR has credited for the day.  The  *)
(* same hours are shown by four views, to the employee and to HR, each     *)
(* with bookkeeping of its own for where a credit goes.  An employee is    *)
(* known by two ids, and either may stand in a session or in a credit.     *)
(*                                                                         *)
(* A session has an employee id, a date, its regular working time and      *)
(* whether it is live; sessions come in the order of their check-ins.  A   *)
(* credit, the approved WORKING_TIME_ADJUSTMENT, has an id, a date and     *)
(* seconds.  A view shows a row of some of the sessions, and a row made up *)
(* for some of the credits.                                                *)
(***************************************************************************)
EXTENDS Naturals, Functions, FiniteSetsExt

CONSTANTS CodeOf     \* CodeOf[id]: the employee code for an id

\* cached: the ids whose code the service has been able to look up.
cleanEmployeeId(id, cached) == IF id \in cached THEN CodeOf[id] ELSE id

\* The credits in S together.
Seconds(credits, S) ==
    SumFunctionOnSet([i \in DOMAIN credits |-> credits[i].seconds], S)

\* toSessionDto.
SessionRow(s, special, cached) ==
    [emp |-> cleanEmployeeId(s.emp, cached), date |-> s.date,
     regular |-> s.regular, special |-> special]

\* createSynthesizedSpecialSession: a credit without a session to go to, shown
\* under an id of its employee.
SpecialRow(c, special, cached) ==
    [emp |-> cleanEmployeeId(c.emp, cached), date |-> c.date,
     regular |-> 0, special |-> special]

\* The rows: special[i] is added to session i, extra[i] has a row of its own.
View(sessions, special, credits, extra, cached) ==
    [sessions |-> [i \in DOMAIN special |-> SessionRow(sessions[i], special[i], cached)],
     specials |-> [i \in DOMAIN extra |-> SpecialRow(credits[i], extra[i], cached)]]

OfDays(xs, days) == {i \in DOMAIN xs : xs[i].date \in days}
OfIds(xs, ids, days) == {i \in OfDays(xs, days) : xs[i].emp \in ids}

-----------------------------------------------------------------------------
(***************************************************************************)
(* The employee's day: the credits go to the live session, or the last     *)
(***************************************************************************)

Target(sessions, own) ==
    LET live == {i \in own : sessions[i].live}
    IN  IF live = {} THEN Max(own) ELSE Min(live)

getToday(sessions, credits, ids, day, cached) ==
    LET own == OfIds(sessions, ids, {day})
        earned == OfIds(credits, ids, {day})
        total == Seconds(credits, earned)
        left == IF own = {} /\ total > 0 THEN {Min(earned)} ELSE {}
    IN  View(sessions, [i \in own |-> IF i = Target(sessions, own) THEN total ELSE 0],
             credits, [i \in left |-> total], cached)

-----------------------------------------------------------------------------
(***************************************************************************)
(* Everybody's day: the credits go to the employee's first session         *)
(***************************************************************************)

\* Mutant: only the id of the session is noted as done.
BothIdsOwnOnly(id, cached) == {id}

BothIds(id, cached) == {id, cleanEmployeeId(id, cached)}

\* Those who go ahead, in order: i does unless one of its ids is noted as done,
\* and has its ids noted.
GoAhead(emp, done, cached) ==
    LET goes[i \in DOMAIN emp] ==
            {emp[i], cleanEmployeeId(emp[i], cached)} \cap
                (done \cup UNION {BothIds(emp[j], cached) :
                              j \in {k \in DOMAIN emp : k < i /\ goes[k]}}) = {}
    IN  {i \in DOMAIN emp : goes[i]}

Under(id, credits, earned) == {j \in earned : credits[j].emp = id}

\* The credits a session may take: those under its own id, or else those under
\* the code.
CreditsFor(id, credits, earned, cached) ==
    IF Under(id, credits, earned) # {} THEN Under(id, credits, earned)
    ELSE Under(cleanEmployeeId(id, cached), credits, earned)

EmployeesOf(xs, S) == [i \in S |-> xs[i].emp]

\* The sessions that take credits.
Taking(sessions, credits, day, cached) ==
    GoAhead(EmployeesOf(sessions, {i \in OfDays(sessions, {day}) :
                CreditsFor(sessions[i].emp, credits, OfDays(credits, {day}), cached) # {}}),
            {}, cached)

\* The credits that have found no session: each with all those under its id.
Left(sessions, credits, day, cached) ==
    GoAhead(EmployeesOf(credits, {j \in OfDays(credits, {day}) :
                Seconds(credits, Under(credits[j].emp, credits, OfDays(credits, {day}))) > 0}),
            UNION {BothIds(sessions[i].emp, cached) :
                       i \in Taking(sessions, credits, day, cached)}, cached)

getAllToday(sessions, credits, day, cached) ==
    LET earned == OfDays(credits, {day})
        taking == Taking(sessions, credits, day, cached)
    IN  View(sessions,
             [i \in OfDays(sessions, {day}) |->
                 IF i \in taking
                 THEN Seconds(credits, CreditsFor(sessions[i].emp, credits, earned, cached))
                 ELSE 0],
             credits,
             [j \in Left(sessions, credits, day, cached) |->
                 Seconds(credits, Under(credits[j].emp, credits, earned))], cached)

-----------------------------------------------------------------------------
(***************************************************************************)
(* The histories: the credits of a key go to its first row, which is the   *)
(* last session of the day                                                 *)
(***************************************************************************)

\* Mutant: every session of the day has the credits.
SeenNever(keys, i) == FALSE

\* There is an earlier row with the key of row i: the last come first.
Seen(keys, i) == \E j \in DOMAIN keys : j > i /\ keys[j] = keys[i]

\* keys[i] is the key of session i, creditKeys[i] that of credit i.
Credited(sessions, keys, credits, creditKeys, cached) ==
    LET With(k) == Seconds(credits, {i \in DOMAIN creditKeys : creditKeys[i] = k})
        left == {i \in DOMAIN creditKeys :
                    /\ \A j \in DOMAIN creditKeys : j < i => creditKeys[j] # creditKeys[i]
                    /\ \A j \in DOMAIN keys : keys[j] # creditKeys[i]
                    /\ With(creditKeys[i]) > 0}
    IN  View(sessions, [i \in DOMAIN keys |-> IF Seen(keys, i) THEN 0 ELSE With(keys[i])],
             credits, [i \in left |-> With(creditKeys[i])], cached)

Dates(xs, S) == [i \in S |-> xs[i].date]
EmployeesAndDates(xs, S) == [i \in S |-> <<xs[i].emp, xs[i].date>>]

getHistory(sessions, credits, ids, days, cached) ==
    Credited(sessions, Dates(sessions, OfIds(sessions, ids, days)),
             credits, Dates(credits, OfIds(credits, ids, days)), cached)

getAllHistory(sessions, credits, days, cached) ==
    Credited(sessions, EmployeesAndDates(sessions, OfDays(sessions, days)),
             credits, EmployeesAndDates(credits, OfDays(credits, days)), cached)
=============================================================================
