---------------------------- MODULE SpecialHours ----------------------------
(***************************************************************************)
(* Special working hours: an employee asks, HR is notified and decides     *)
(* from the notification, and a check-in uses up an approval to check in   *)
(* again.  Each call is a row read first and written later, without a      *)
(* transaction, so calls interleave between the two.                       *)
(*                                                                         *)
(* exc[i]     the exception with id i, or NoRow                            *)
(* inbox      the requests HR has been notified of                         *)
(* call[c]    a call under way                                             *)
(* asked[e]   history: the requests of e that were created                 *)
(* unspent    history: approvals not used yet, as <<id, employee>>         *)
(***************************************************************************)
EXTENDS Naturals, FiniteSets, Functions

CONSTANTS Employees, Calls,
          MaxRequests,          \* bound: requests ever created
          LateIds               \* ids made from the clock, not from the count

ASSUME IdsAssumption ==
    /\ MaxRequests \in Nat
    /\ LateIds \subseteq Nat /\ IsFiniteSet(LateIds)
    /\ LateIds \intersect 1..MaxRequests = {}

VARIABLES exc, inbox, call, asked, unspent

vars == <<exc, inbox, call, asked, unspent>>

Kinds == {"ADJUSTMENT", "RECHECK_IN"}
Ids == 1..MaxRequests \union LateIds

NoRow == [of |-> "nobody", kind |-> "ADJUSTMENT", status |-> "NONE"]
Row(e, k) == [of |-> e, kind |-> k, status |-> "PENDING"]
Rows == {i \in Ids : exc[i] # NoRow}

\* id: the row the call is about; of, kind: the request; to: the decision.
Idle == [pc |-> "idle", id |-> 0, of |-> "nobody", kind |-> "ADJUSTMENT",
         to |-> "NONE"]

Init ==
    /\ exc = [i \in Ids |-> NoRow]
    /\ inbox = {}
    /\ call = [c \in Calls |-> Idle]
    /\ asked = [e \in Employees |-> 0]
    /\ unspent = {}

At(c, pc) == call[c].pc = pc
Goes(c, pc) == call' = [call EXCEPT ![c].pc = pc]
Ends(c) == call' = [call EXCEPT ![c] = Idle]

-----------------------------------------------------------------------------
(***************************************************************************)
(* createException                                                         *)
(***************************************************************************)

Creating == {c \in Calls : call[c].pc \in {"number", "insert"}}

CreateException(c, e, k) ==
    /\ At(c, "idle")
    /\ FoldFunction(+, 0, asked) + Cardinality(Creating) < MaxRequests
    /\ ~\E i \in Rows : exc[i] = Row(e, k)
    /\ call' = [call EXCEPT ![c] = [Idle EXCEPT !.pc = "number", !.of = e, !.kind = k]]
    /\ UNCHANGED <<exc, inbox, asked, unspent>>

\* The id is the count of the rows and one, or made from the clock when there
\* is such a row.
CreateNumber(c) ==
    /\ At(c, "number")
    /\ LET n == Cardinality(Rows) + 1 IN
       \E i \in IF n \in Rows THEN LateIds ELSE {n} :
         call' = [call EXCEPT ![c].pc = "insert", ![c].id = i]
    /\ UNCHANGED <<exc, inbox, asked, unspent>>

\* The notification is sent and forgotten: it may be lost.
CreateInsert(c) ==
    LET r == call[c] IN
    /\ At(c, "insert")
    /\ exc[r.id] = NoRow
    /\ exc' = [exc EXCEPT ![r.id] = Row(r.of, r.kind)]
    /\ inbox' \in {inbox, inbox \union {[id |-> r.id, of |-> r.of]}}
    /\ asked' = [asked EXCEPT ![r.of] = @ + 1]
    /\ Ends(c)
    /\ UNCHANGED unspent

\* The primary key refuses the row: the call fails.
CreateConflicts(c) ==
    /\ At(c, "insert")
    /\ exc[call[c].id] # NoRow
    /\ Ends(c)
    /\ UNCHANGED <<exc, inbox, asked, unspent>>

-----------------------------------------------------------------------------
(***************************************************************************)
(* approveException, as the notification dialog calls it: with the id and  *)
(* the employee the notification carries.                                  *)
(***************************************************************************)

ApproveRead(c, n, to) ==
    /\ At(c, "idle")
    /\ exc[n.id].status \in {"PENDING", "NONE"}
    /\ call' = [call EXCEPT ![c] =
         [Idle EXCEPT !.pc = IF exc[n.id] = NoRow THEN "heal" ELSE "decide",
                      !.id = n.id, !.of = n.of, !.to = to]]
    /\ UNCHANGED <<exc, inbox, asked, unspent>>

\* Mutant: a missing exception is recreated under an id of its own.
SelfHealAnew(c) ==
    /\ At(c, "heal")
    /\ \E i \in Ids \ Rows :
         /\ exc' = [exc EXCEPT ![i] = Row(call[c].of, "ADJUSTMENT")]
         /\ call' = [call EXCEPT ![c].pc = "decide", ![c].id = i]
    /\ UNCHANGED <<inbox, asked, unspent>>

\* A missing exception is recreated from the notification.
SelfHeal(c) ==
    /\ At(c, "heal")
    /\ exc[call[c].id] = NoRow
    /\ exc' = [exc EXCEPT ![call[c].id] = Row(call[c].of, "ADJUSTMENT")]
    /\ Goes(c, "decide")
    /\ UNCHANGED <<inbox, asked, unspent>>

\* The status that was read is not looked at again.
ApproveWrite(c) ==
    LET r == call[c] IN
    /\ At(c, "decide")
    /\ exc[r.id] # NoRow
    /\ exc' = [exc EXCEPT ![r.id].status = r.to]
    /\ unspent' = IF r.to = "APPROVED" THEN unspent \union {<<r.id, exc[r.id].of>>}
                                       ELSE unspent
    /\ Ends(c)
    /\ UNCHANGED <<inbox, asked>>

\* The row was created, or deleted, in the meantime.
ApproveFails(c) ==
    /\ \/ At(c, "heal") /\ exc[call[c].id] # NoRow
       \/ At(c, "decide") /\ exc[call[c].id] = NoRow
    /\ Ends(c)
    /\ UNCHANGED <<exc, inbox, asked, unspent>>

-----------------------------------------------------------------------------
(***************************************************************************)
(* cancelException                                                         *)
(***************************************************************************)

CancelRead(c, i) ==
    /\ At(c, "idle")
    /\ exc[i].status = "PENDING"
    /\ call' = [call EXCEPT ![c] = [Idle EXCEPT !.pc = "delete", !.id = i]]
    /\ UNCHANGED <<exc, inbox, asked, unspent>>

CancelDelete(c) ==
    /\ At(c, "delete")
    /\ exc' = [exc EXCEPT ![call[c].id] = NoRow]
    /\ Ends(c)
    /\ UNCHANGED <<inbox, asked, unspent>>

-----------------------------------------------------------------------------
(***************************************************************************)
(* A check-in after a completed session: under the lock of the employee it *)
(* looks for an approved exception and marks it used.                      *)
(***************************************************************************)

\* Mutant: check-ins of one person are not serialised.
LockedNever(e) == FALSE

Locked(e) == \E c \in Calls : At(c, "use") /\ call[c].of = e

CheckInRead(c, i) ==
    /\ At(c, "idle")
    /\ exc[i].kind = "RECHECK_IN" /\ exc[i].status = "APPROVED"
    /\ ~Locked(exc[i].of)
    /\ call' = [call EXCEPT ![c] =
                 [Idle EXCEPT !.pc = "use", !.id = i, !.of = exc[i].of]]
    /\ UNCHANGED <<exc, inbox, asked, unspent>>

CheckInUse(c) ==
    LET i == call[c].id IN
    /\ At(c, "use")
    /\ exc[i] # NoRow
    /\ exc' = [exc EXCEPT ![i].status = "USED"]
    /\ unspent' = unspent \ {<<i, call[c].of>>}
    /\ Ends(c)
    /\ UNCHANGED <<inbox, asked>>

\* The row is gone, or the transaction fails.
CheckInFails(c) ==
    /\ At(c, "use")
    /\ Ends(c)
    /\ UNCHANGED <<exc, inbox, asked, unspent>>

-----------------------------------------------------------------------------
Next ==
    \E c \in Calls :
      \/ \E e \in Employees, k \in Kinds : CreateException(c, e, k)
      \/ CreateNumber(c) \/ CreateInsert(c) \/ CreateConflicts(c)
      \/ \E n \in inbox, to \in {"APPROVED", "REJECTED"} : ApproveRead(c, n, to)
      \/ SelfHeal(c) \/ ApproveWrite(c) \/ ApproveFails(c)
      \/ \E i \in Ids : CancelRead(c, i) \/ CheckInRead(c, i)
      \/ CancelDelete(c) \/ CheckInUse(c) \/ CheckInFails(c)

Spec == Init /\ [][Next]_vars

-----------------------------------------------------------------------------
(***************************************************************************)
(* Properties                                                              *)
(***************************************************************************)

Person == Employees \union {"nobody"}
Exception == [of : Person, kind : Kinds,
              status : {"NONE", "PENDING", "APPROVED", "REJECTED", "USED"}]
Call == [pc : {"idle", "number", "insert", "heal", "decide", "delete", "use"},
         id : Nat, of : Person, kind : Kinds,
         to : {"NONE", "APPROVED", "REJECTED"}]

\* Rows, notifications and calls are what they look like, and a check-in works
\* on a row there can be.
TypeOK ==
    /\ exc \in [Ids -> Exception]
    /\ inbox \subseteq [id : Nat, of : Employees]
    /\ call \in [Calls -> Call]
    /\ \A c \in Calls :
         /\ At(c, "use") => call[c].id \in Ids
         /\ call[c].pc \in {"number", "insert"} => call[c].of \in Employees
    /\ asked \in [Employees -> Nat]

Of(e) == {i \in Rows : exc[i].of = e}

\* Nobody is credited for more requests than they made, whatever is cancelled,
\* recreated by a late decision, decided twice, retried, or given an id that
\* was another request's.
CreditsAreAskedFor ==
    \A e \in Employees : Cardinality(Of(e)) <= asked[e]

\* A check-in that uses up an exception spends an approval of its own, given
\* to that person, although two reviewers may both decide, a decision may land
\* after the use, and the id may have passed to another request meanwhile.
UsesAreApproved ==
    [][\A c \in Calls : CheckInUse(c) => <<call[c].id, call[c].of>> \in unspent]_vars
=============================================================================
