---------------------------- MODULE ReportedHours ----------------------------
(***************************************************************************)
(* The views of AttendanceReports against each other: the sessions of some *)
(* days come one after the other, and HR approves credits, each under any  *)
(* id of its employee.  The order of credits matters within a day only.    *)
(***************************************************************************)
EXTENDS AttendanceReports, SequencesExt

CONSTANTS Staff,      \* the employees, each a set of ids
          Days,
          MaxShown,   \* bound: sessions and credits together
          Amounts     \* bound: the seconds of a credit

\* The code of an id is an id of the same employee.
ASSUME StaffAssumption ==
    /\ \A e \in Staff, f \in Staff : e \cap f # {} => e = f
    /\ \A e \in Staff : \A id \in e : CodeOf[id] \in e
    /\ Amounts \subseteq Nat

VARIABLES sessions, credits, cached

reportVars == <<sessions, credits, cached>>

StaffIds == UNION Staff

ReportInit ==
    /\ sessions = <<>> /\ credits = <<>>
    /\ cached \in SUBSET {id \in StaffIds : CodeOf[id] # id}

\* An earlier session may have been left live.
CheckIn(id, day, live) ==
    /\ Len(sessions) + Len(credits) < MaxShown
    /\ sessions # <<>> => Last(sessions).date <= day
    /\ sessions' = Append(sessions, [emp |-> id, date |-> day, live |-> live, regular |-> 1])
    /\ UNCHANGED <<credits, cached>>

Approve(id, day, seconds) ==
    /\ Len(sessions) + Len(credits) < MaxShown
    /\ credits # <<>> => Last(credits).date <= day
    /\ credits' = Append(credits, [emp |-> id, date |-> day, seconds |-> seconds])
    /\ UNCHANGED <<sessions, cached>>

ReportNext ==
    \E id \in StaffIds, day \in Days :
        \/ \E live \in BOOLEAN : CheckIn(id, day, live)
        \/ \E seconds \in Amounts : Approve(id, day, seconds)

ReportSpec == ReportInit /\ [][ReportNext]_reportVars

-----------------------------------------------------------------------------
\* The hours rows show of employee e on a day.
HoursIn(rows, e, day) ==
    SumFunctionOnSet([i \in DOMAIN rows |-> rows[i].regular + rows[i].special],
                     OfIds(rows, e, {day}))

ShownOf(view, e, day) == HoursIn(view.sessions, e, day) + HoursIn(view.specials, e, day)

\* The hours worked and credited.
Earned(e, day) ==
    SumFunctionOnSet([i \in DOMAIN sessions |-> sessions[i].regular], OfIds(sessions, e, {day}))
        + Seconds(credits, OfIds(credits, e, {day}))

\* The employee is shown each session and each credit exactly once, whichever
\* id it is under, with several sessions, one or none on the day, in the view of
\* the day and in that of any range of days.
EmployeeSeesEachHourOnce ==
    \A e \in Staff, day \in Days :
        LET earned == Earned(e, day)
        IN  /\ ShownOf(getToday(sessions, credits, e, day, cached), e, day) = earned
            /\ \A days \in SUBSET Days :
                  day \in days =>
                      ShownOf(getHistory(sessions, credits, e, days, cached), e, day) = earned

\* The credits of employee e on the day are all under one id.
OneId(e, day) ==
    \A i, j \in OfIds(credits, e, {day}) : credits[i].emp = credits[j].emp

\* HR is shown of every employee what the employee is shown, although HR's
\* views match credits to sessions by id and may not know that two ids are one
\* employee's: in the range of days always, in the view of the day unless the
\* day's credits are under two ids.
HrSeesTheSame ==
    LET range == getAllHistory(sessions, credits, Days, cached)
    IN  \A day \in Days :
            LET today == getAllToday(sessions, credits, day, cached)
            IN  \A e \in Staff :
                    LET earned == Earned(e, day)
                    IN  /\ ShownOf(range, e, day) = earned
                        /\ OneId(e, day) => ShownOf(today, e, day) = earned
=============================================================================
