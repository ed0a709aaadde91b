------------------------------- MODULE MCHours -------------------------------
(***************************************************************************)
(* Where the hours shown come from, for TLC: special hours asked for and   *)
(* granted, the derived working time, and the views of both.  The three    *)
(* share no state, so that a behaviour takes one of them, chosen in Init.  *)
(***************************************************************************)
EXTENDS SpecialHours, WorkingHistory, ReportedHours, TLC

MCStaff == {{"uuid1", "code1"}, {"code2"}}
MCCodeOf == [uuid1 |-> "code1", code1 |-> "code1", code2 |-> "code2"]

VARIABLE part

HoursInit ==
    /\ part \in {"special", "time", "views"}
    /\ Init /\ HistoryInit /\ ReportInit
    /\ part # "views" => cached = {}

HoursNext ==
    /\ UNCHANGED part
    /\ \/ part = "special" /\ Next /\ UNCHANGED <<historyVars, reportVars>>
       \/ part = "time" /\ HistoryNext /\ UNCHANGED <<vars, reportVars>>
       \/ part = "views" /\ ReportNext /\ UNCHANGED <<vars, historyVars>>

HoursSpec == HoursInit /\ [][HoursNext]_<<vars, historyVars, reportVars, part>>

Symmetry == Permutations(Employees) \union Permutations(Calls)
=============================================================================
