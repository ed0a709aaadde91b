---------------------------- MODULE MCAttendance ----------------------------
(* Instances of AttendanceSession for TLC. *)
EXTENDS AttendanceSession, TLC

CONSTANTS w1, w2, k1, a, b, x1, c1, c2, c3, c4

OneId     == {a}
OneWorker == {w1}
TwoWorkers == {w1, w2}
OneSweeper == {k1}
NoSweeper  == {}
TwoIds    == {a, b}

Distinct  == [i \in Ids |-> {i}]      \* every id is a person of its own
SameOne   == [i \in Ids |-> Ids]      \* all ids belong to one person

OneException == {x1}
NoException  == {}
DayZero == [x \in Exceptions |-> [emp |-> a, date |-> 0, from |-> 0, until |-> Day - 1]]

TwoEvents   == {c1, c2}
ThreeEvents == {c1, c2, c3}
FourEvents  == {c1, c2, c3, c4}

(* Workers are interchangeable, and so are the clients' event ids.  *)
Interchangeable == Permutations(Workers) \cup Permutations(ClientEventIds)
=============================================================================
