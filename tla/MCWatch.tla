------------------------------- MODULE MCWatch -------------------------------
(* WatchStreak for TLC. *)
EXTENDS WatchStreak, TLC

\* Bound: of two checks, a reload and a button, three are under way at once.
ThreeAtOnce ==
    \/ \E k \in Checks : CheckAt(k, "idle")
    \/ \E j \in Loads : load[j] = "none"
    \/ button = "none"

BoundedSpec == StreakInit /\ [][StreakNext /\ ThreeAtOnce']_<<watchVars, streak>>

Symmetry == Permutations(Checks)
=============================================================================
