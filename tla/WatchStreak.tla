----------------------------- MODULE WatchStreak -----------------------------
(***************************************************************************)
(* PhoneWatch with a history of the verdicts: streak is the number of      *)
(* outside verdicts since work was last shown to begin, and since the last *)
(* inside verdict that was not passed over because a transition was in     *)
(* flight.                                                                 *)
(***************************************************************************)
EXTENDS PhoneWatch

VARIABLE streak

Counted ==
    streak' = IF activeSession' # "WORKING" THEN 0
              ELSE IF \E k \in Checks : Judge(k) /\ check[k].pos # "inside"
              THEN IF streak = 2 THEN 2 ELSE streak + 1
              ELSE IF \E k \in Checks : Judge(k) /\ ~isTransitioning THEN 0
              ELSE streak

StreakInit == WatchInit /\ streak = 0
StreakNext == WatchNext /\ Counted
StreakSpec == StreakInit /\ [][StreakNext]_<<watchVars, streak>>

\* A single verdict just outside the boundary, which may be GPS drift, never
\* pauses a session: it takes two with none inside between them.
DriftIsTolerated ==
    [][\A k \in Checks :
         check[k].pc = "judge" /\ check'[k].pc = "exit" /\ ~IsFar(k)
           => streak' = 2]_<<watchVars, streak>>
=============================================================================
