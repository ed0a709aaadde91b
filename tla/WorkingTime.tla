---------------------------- MODULE WorkingTime ----------------------------
(***************************************************************************)
(* The clock arithmetic of the attendance service: working-time.service.ts *)
(* and the calendar helpers at the end of attendance.service.ts.           *)
(*                                                                         *)
(* Time is a number of ticks of the server clock.  A calendar day is Day   *)
(* ticks long; the office's local time runs Tz ticks ahead of UTC.  Every  *)
(* duration is exact here: the code divides milliseconds by 1000 and       *)
(* rounds the final result once.                                           *)
(***************************************************************************)
EXTENDS Integers, FiniteSets, Sequences

CONSTANTS Day,      \* ticks in a calendar day
          Tz        \* APP_TIMEZONE's offset from UTC, in ticks

ASSUME CalendarAssumption == /\ Day \in Nat \ {0}
                             /\ Tz \in 0 .. Day - 1

None == -1          \* a nullable DATETIME column that is NULL
MaxOf(a, b) == IF a >= b THEN a ELSE b
MinOf(a, b) == IF a <= b THEN a ELSE b

-----------------------------------------------------------------------------
(* The calendar: attendance dates are UTC days, the automatic check-out    *)
(* happens at the midnight of the office's local day.                      *)

toDateOnly(t) == t \div Day

getMidnightCutoffForSession(checkInAt) == (((checkInAt + Tz) \div Day) + 1) * Day - Tz

-----------------------------------------------------------------------------
(* Working time.  A pause is a record with fields start and end, end being *)
(* None while the pause is open.                                           *)

resolveReferenceEnd(status, checkOutAt, pauseStartedAt, now) ==
    CASE status = "CHECKED_OUT" /\ checkOutAt # None -> checkOutAt
      [] status = "PAUSED" /\ pauseStartedAt # None  -> pauseStartedAt
      [] OTHER                                       -> now

EndOf(pause, referenceEnd) == IF pause.end = None THEN referenceEnd ELSE pause.end

(* The ticks of each pause, as pairs of the pause's index and a tick, so   *)
(* that overlapping pauses count twice, as in the code's loop.             *)
PausedTicks(pauses, referenceEnd) ==
    UNION { {i} \X (pauses[i].start .. EndOf(pauses[i], referenceEnd) - 1) : i \in DOMAIN pauses }

sumPauseSeconds(pauses, referenceEnd) == Cardinality(PausedTicks(pauses, referenceEnd))

(* Mutant of calculateWorkingSeconds: the open pause is not subtracted and  *)
(* the reference end is always now.                                         *)
RunningWorkingSeconds(status, checkInAt, checkOutAt, pauseStartedAt, pauses, now) ==
    MaxOf(0, now - checkInAt
               - sumPauseSeconds(SelectSeq(pauses, LAMBDA p : p.end # None), now))

calculateWorkingSeconds(status, checkInAt, checkOutAt, pauseStartedAt, pauses, now) ==
    LET referenceEnd == resolveReferenceEnd(status, checkOutAt, pauseStartedAt, now)
        gross        == MaxOf(0, referenceEnd - checkInAt)
    IN  MaxOf(0, gross - sumPauseSeconds(pauses, referenceEnd))

(* The total every closing write stores: the same calculation, asked as of *)
(* the check-out time.                                                     *)
TotalAtClose(checkInAt, checkOutAt, pauses) ==
    calculateWorkingSeconds("CHECKED_OUT", checkInAt, checkOutAt, None, pauses, checkOutAt)
=============================================================================
