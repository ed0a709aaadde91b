------------------------ MODULE AttendanceLifecycle ------------------------
(***************************************************************************)
(* What the attendance service promises: the state diagram of its README   *)
(* (section 3.A) for every session, and never more than one live session   *)
(* per person (schema.prisma, AttendanceSession).  Times, events, races    *)
(* and retries are left to AttendanceSession, which implements this        *)
(* module.                                                                 *)
(***************************************************************************)
CONSTANTS Sessions,   \* session numbers
          Persons,    \* who can own a session
          Nobody      \* owner of a session not yet opened

VARIABLES status, owner

vars == <<status, owner>>

IsOpen(s) == status[s] \in {"WORKING", "PAUSED"}

Init == /\ status = [s \in Sessions |-> "NONE"]
        /\ owner = [s \in Sessions |-> Nobody]

(* Opening a session ends whatever session of that person was still open.  *)
CheckIn(p, s) ==
    /\ status[s] = "NONE"
    /\ status' = [r \in Sessions |->
                    IF r = s THEN "WORKING"
                    ELSE IF IsOpen(r) /\ owner[r] = p THEN "CHECKED_OUT" ELSE status[r]]
    /\ owner' = [owner EXCEPT ![s] = p]

Move(s, from, to) == /\ status[s] \in from
                     /\ status' = [status EXCEPT ![s] = to]
                     /\ UNCHANGED owner

Leave(s)  == Move(s, {"WORKING"}, "PAUSED")
Return(s) == Move(s, {"PAUSED"}, "WORKING")
Close(s)  == Move(s, {"WORKING", "PAUSED"}, "CHECKED_OUT")

Next == \E s \in Sessions : \/ \E p \in Persons : CheckIn(p, s)
                            \/ Leave(s) \/ Return(s) \/ Close(s)

Spec == Init /\ [][Next]_vars
=============================================================================
