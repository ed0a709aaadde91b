--------------------------- MODULE WorkingHistory ---------------------------
(***************************************************************************)
(* The derived working time against the counter it replaces.  A session is *)
(* driven through any orderly history of exits, returns and a check-out,   *)
(* and worked counts its working ticks one by one, as the code says it     *)
(* never does.                                                             *)
(***************************************************************************)
EXTENDS WorkingTime, SequencesExt

CONSTANTS MaxNow     \* the last tick of a history

ASSUME HistoryAssumption == MaxNow \in Nat

VARIABLES now, status, outAt, pauseAt, pauses, worked

historyVars == <<now, status, outAt, pauseAt, pauses, worked>>

HistoryInit ==
    /\ now = 0 /\ status = "WORKING" /\ outAt = None /\ pauseAt = None
    /\ pauses = <<>> /\ worked = 0

Tick == /\ now < MaxNow
        /\ now' = now + 1
        /\ worked' = IF status = "WORKING" THEN worked + 1 ELSE worked
        /\ UNCHANGED <<status, outAt, pauseAt, pauses>>

Leave == /\ status = "WORKING"
         /\ status' = "PAUSED" /\ pauseAt' = now
         /\ pauses' = Append(pauses, [start |-> now, end |-> None])
         /\ UNCHANGED <<now, outAt, worked>>

EndLast == [pauses EXCEPT ![Len(pauses)].end = now]

Return == /\ status = "PAUSED" /\ now > pauseAt
          /\ status' = "WORKING" /\ pauseAt' = None /\ pauses' = EndLast
          /\ UNCHANGED <<now, outAt, worked>>

CheckOut == /\ status # "CHECKED_OUT"
            /\ status' = "CHECKED_OUT" /\ outAt' = now /\ pauseAt' = None
            /\ pauses' = IF status = "PAUSED" THEN EndLast ELSE pauses
            /\ UNCHANGED <<now, worked>>

HistoryNext == Tick \/ Leave \/ Return \/ CheckOut

HistorySpec == HistoryInit /\ [][HistoryNext]_historyVars

-----------------------------------------------------------------------------
\* What the service answers when asked now.
Shown == calculateWorkingSeconds(status, 0, outAt, pauseAt, pauses, now)

\* The loop of sumPauseSeconds(), pause by pause.
Loop(ps, end) == FoldLeft(LAMBDA total, p : total + MaxOf(0, EndOf(p, end) - p.start), 0, ps)

AnyPause == [start : 0 .. now, end : (0 .. now) \cup {None}]

\* The set of paused ticks has as many elements as the loop adds up, also when
\* one more pause overlaps the others, ends before it starts or is still open.
SumIsLoop ==
    \A p \in AnyPause, end \in 0 .. now :
        LET ps == Append(pauses, p) IN sumPauseSeconds(ps, end) = Loop(ps, end)

\* calculateWorkingSeconds() derives from the timestamps, at every moment of
\* every orderly history, the number a per-second counter would show, and what
\* it subtracts is what its loop over the pauses adds up.
DerivedEqualsCounter == Shown = worked /\ SumIsLoop
=============================================================================
