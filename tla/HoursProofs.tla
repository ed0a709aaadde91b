----------------------------- MODULE HoursProofs -----------------------------
(***************************************************************************)
(* Proofs about the hours shown: about SpecialHours, for every number of   *)
(* employees, calls and requests, about WorkingHistory, for every length   *)
(* of a session and every number of pauses, and about ReportedHours, for   *)
(* all staff and days and every number of sessions and credits.            *)
(***************************************************************************)
EXTENDS SpecialHours, WorkingHistory, ReportedHours, FiniteSetTheorems, SequenceTheorems,
        WellFoundedInduction, TLAPS

(***************************************************************************)
(* The inductive invariant                                                 *)
(***************************************************************************)

\* An approval that stands has not been spent.
ApprovalsStand ==
    \A i \in Ids : exc[i].status = "APPROVED" => <<i, exc[i].of>> \in unspent

\* A check-in that has found an approval still has it, and is the only one
\* of its employee that has got so far.
UsesStand ==
    \A c \in Calls : At(c, "use") =>
        /\ <<call[c].id, call[c].of>> \in unspent
        /\ \A d \in Calls : At(d, "use") /\ call[d].of = call[c].of => d = c

Inv == TypeOK /\ ApprovalsStand /\ UsesStand

\* The count of the rows is a number.
LEMMA RowsAreCounted == Cardinality(Rows) \in Nat
<1>1. IsFiniteSet(1..MaxRequests)
  BY FS_Interval, IdsAssumption
<1>2. IsFiniteSet(Ids)
  BY <1>1, FS_Union, IdsAssumption DEF Ids
<1>3. IsFiniteSet(Rows)
  BY <1>2, FS_Subset DEF Rows
<1> QED
  BY <1>3, FS_CardinalityType

LEMMA IdsAreNumbers == Ids \subseteq Nat
BY IdsAssumption DEF Ids

LEMMA InitInv == Init => Inv
BY DEF Init, Inv, TypeOK, ApprovalsStand, UsesStand, At, Idle, NoRow, Exception,
   Person, Kinds, Call

LEMMA CreateExceptionInv ==
    ASSUME Inv, NEW c \in Calls, NEW e \in Employees, NEW k \in Kinds,
           CreateException(c, e, k)
    PROVE  Inv'
<1> USE DEF CreateException, At, Goes, Ends, Idle
<1>1. TypeOK'
  BY DEF Inv, TypeOK, Exception, Call, Person, Kinds, NoRow
<1>2. ApprovalsStand'
  BY DEF Inv, ApprovalsStand, TypeOK, Exception, Call, NoRow, Row
<1>3. UsesStand'
  BY DEF Inv, UsesStand, ApprovalsStand, TypeOK, Exception, Call, Locked
<1> QED
  BY <1>1, <1>2, <1>3 DEF Inv

LEMMA CreateNumberInv ==
    ASSUME Inv, NEW c \in Calls, CreateNumber(c)
    PROVE  Inv'
<1>1. PICK i \in Nat : call' = [call EXCEPT ![c].pc = "insert", ![c].id = i]
  <2> DEFINE n == Cardinality(Rows) + 1
  <2>1. PICK i \in (IF n \in Rows THEN LateIds ELSE {n}) :
          call' = [call EXCEPT ![c].pc = "insert", ![c].id = i]
    BY DEF CreateNumber
  <2>2. n \in Nat /\ LateIds \subseteq Nat
    BY RowsAreCounted, IdsAssumption
  <2> HIDE DEF n
  <2>3. i \in Nat
    BY <2>1, <2>2
  <2> QED
    BY <2>1, <2>3
<1>2. call[c].pc = "number" /\ UNCHANGED <<exc, inbox, asked, unspent>>
  BY DEF CreateNumber, At
<1>3. TypeOK'
  <2>1. call' = [call EXCEPT ![c] = [call[c] EXCEPT !.pc = "insert", !.id = i]]
    BY <1>1 DEF Inv, TypeOK, Call
  <2>2. [call[c] EXCEPT !.pc = "insert", !.id = i] \in Call
    BY <1>1 DEF Inv, TypeOK, Call
  <2> QED
    BY <1>2, <2>1, <2>2 DEF Inv, TypeOK, At, Call
<1>4. ApprovalsStand'
  BY <1>2 DEF Inv, ApprovalsStand
<1>5. UsesStand'
  BY <1>1, <1>2 DEF Inv, UsesStand, TypeOK, Call, At
<1> QED
  BY <1>3, <1>4, <1>5 DEF Inv

LEMMA CreateInsertInv ==
    ASSUME Inv, NEW c \in Calls, CreateInsert(c)
    PROVE  Inv'
<1> USE DEF CreateInsert, At, Goes, Ends, Idle
<1>1. TypeOK'
  <2>1. call[c] \in Call /\ call[c].of \in Employees
    BY DEF Inv, TypeOK
  <2>2. Row(call[c].of, call[c].kind) \in Exception
    BY <2>1 DEF Row, Exception, Call, Person
  <2>3. exc' \in [Ids -> Exception]
    BY <2>2 DEF Inv, TypeOK
  <2>4. inbox' \subseteq [id : Nat, of : Employees]
    BY <2>1 DEF Inv, TypeOK, Call
  <2>5. call' \in [Calls -> Call] /\ asked' \in [Employees -> Nat]
    BY <2>1 DEF Inv, TypeOK, Call, Person, Kinds
  <2> QED
    BY <2>3, <2>4, <2>5 DEF Inv, TypeOK, Call
<1>2. ApprovalsStand'
  BY DEF Inv, ApprovalsStand, TypeOK, Exception, Call, NoRow, Row
<1>3. UsesStand'
  BY DEF Inv, UsesStand, ApprovalsStand, TypeOK, Exception, Call, Locked
<1> QED
  BY <1>1, <1>2, <1>3 DEF Inv

LEMMA CreateConflictsInv ==
    ASSUME Inv, NEW c \in Calls, CreateConflicts(c)
    PROVE  Inv'
<1> USE DEF CreateConflicts, At, Goes, Ends, Idle
<1>1. TypeOK'
  BY DEF Inv, TypeOK, Exception, Call, Person, Kinds, NoRow
<1>2. ApprovalsStand'
  BY DEF Inv, ApprovalsStand, TypeOK, Exception, Call, NoRow, Row
<1>3. UsesStand'
  BY DEF Inv, UsesStand, ApprovalsStand, TypeOK, Exception, Call, Locked
<1> QED
  BY <1>1, <1>2, <1>3 DEF Inv

LEMMA ApproveReadInv ==
    ASSUME Inv, NEW c \in Calls, NEW n \in inbox,
           NEW to \in {"APPROVED", "REJECTED"},
           ApproveRead(c, n, to)
    PROVE  Inv'
<1> USE DEF ApproveRead, At, Goes, Ends, Idle
<1>1. TypeOK'
  BY DEF Inv, TypeOK, Exception, Call, Person, Kinds, NoRow
<1>2. ApprovalsStand'
  BY DEF Inv, ApprovalsStand, TypeOK, Exception, Call, NoRow, Row
<1>3. UsesStand'
  BY DEF Inv, UsesStand, ApprovalsStand, TypeOK, Exception, Call, Locked
<1> QED
  BY <1>1, <1>2, <1>3 DEF Inv

LEMMA SelfHealInv ==
    ASSUME Inv, NEW c \in Calls, SelfHeal(c)
    PROVE  Inv'
<1> USE DEF SelfHeal, At, Goes, Ends, Idle
<1>1. TypeOK'
  <2>1. call[c] \in Call
    BY DEF Inv, TypeOK
  <2>2. Row(call[c].of, "ADJUSTMENT") \in Exception
    BY <2>1 DEF Row, Exception, Call, Kinds
  <2>3. exc' \in [Ids -> Exception]
    BY <2>2 DEF Inv, TypeOK
  <2>4. call' \in [Calls -> Call]
    BY <2>1 DEF Inv, TypeOK, Call
  <2> QED
    BY <2>3, <2>4 DEF Inv, TypeOK, Call
<1>2. ApprovalsStand'
  BY DEF Inv, ApprovalsStand, TypeOK, Exception, Call, NoRow, Row
<1>3. UsesStand'
  BY DEF Inv, UsesStand, ApprovalsStand, TypeOK, Exception, Call, Locked
<1> QED
  BY <1>1, <1>2, <1>3 DEF Inv

LEMMA ApproveWriteInv ==
    ASSUME Inv, NEW c \in Calls, ApproveWrite(c)
    PROVE  Inv'
<1> USE DEF ApproveWrite, At, Goes, Ends, Idle
<1>1. TypeOK'
  <2>1. call[c] \in Call
    BY DEF Inv, TypeOK
  <2>2. call[c].id \in Ids =>
          [exc[call[c].id] EXCEPT !.status = call[c].to] \in Exception
    BY <2>1 DEF Inv, TypeOK, Exception, Call
  <2>3. exc' \in [Ids -> Exception]
    BY <2>2 DEF Inv, TypeOK
  <2>4. call' \in [Calls -> Call]
    BY DEF Inv, TypeOK, Call, Person, Kinds
  <2> QED
    BY <2>3, <2>4 DEF Inv, TypeOK, Call
<1>2. ApprovalsStand'
  BY DEF Inv, ApprovalsStand, TypeOK, Exception, Call, NoRow, Row
<1>3. UsesStand'
  BY DEF Inv, UsesStand, ApprovalsStand, TypeOK, Exception, Call, Locked
<1> QED
  BY <1>1, <1>2, <1>3 DEF Inv

LEMMA ApproveFailsInv ==
    ASSUME Inv, NEW c \in Calls, ApproveFails(c)
    PROVE  Inv'
<1> USE DEF ApproveFails, At, Goes, Ends, Idle
<1>1. TypeOK'
  BY DEF Inv, TypeOK, Exception, Call, Person, Kinds, NoRow
<1>2. ApprovalsStand'
  BY DEF Inv, ApprovalsStand, TypeOK, Exception, Call, NoRow, Row
<1>3. UsesStand'
  BY DEF Inv, UsesStand, ApprovalsStand, TypeOK, Exception, Call, Locked
<1> QED
  BY <1>1, <1>2, <1>3 DEF Inv

LEMMA CancelReadInv ==
    ASSUME Inv, NEW c \in Calls, NEW i \in Ids, CancelRead(c, i)
    PROVE  Inv'
<1> USE DEF CancelRead, At, Goes, Ends, Idle
<1>1. TypeOK'
  <2>1. call' \in [Calls -> Call]
    BY IdsAreNumbers DEF Inv, TypeOK, Call, Person, Kinds
  <2> QED
    BY <2>1 DEF Inv, TypeOK, Call
<1>2. ApprovalsStand'
  BY DEF Inv, ApprovalsStand, TypeOK, Exception, Call, NoRow, Row
<1>3. UsesStand'
  BY DEF Inv, UsesStand, ApprovalsStand, TypeOK, Exception, Call, Locked
<1> QED
  BY <1>1, <1>2, <1>3 DEF Inv

LEMMA CancelDeleteInv ==
    ASSUME Inv, NEW c \in Calls, CancelDelete(c)
    PROVE  Inv'
<1> USE DEF CancelDelete, At, Goes, Ends, Idle
<1>1. TypeOK'
  BY DEF Inv, TypeOK, Exception, Call, Person, Kinds, NoRow
<1>2. ApprovalsStand'
  BY DEF Inv, ApprovalsStand, TypeOK, Exception, Call, NoRow, Row
<1>3. UsesStand'
  BY DEF Inv, UsesStand, ApprovalsStand, TypeOK, Exception, Call, Locked
<1> QED
  BY <1>1, <1>2, <1>3 DEF Inv

LEMMA CheckInReadInv ==
    ASSUME Inv, NEW c \in Calls, NEW i \in Ids, CheckInRead(c, i)
    PROVE  Inv'
<1> USE DEF CheckInRead, At, Goes, Ends, Idle
<1>1. TypeOK'
  <2>1. exc[i].of \in Person
    BY DEF Inv, TypeOK, Exception
  <2>2. call' \in [Calls -> Call]
    BY <2>1, IdsAreNumbers DEF Inv, TypeOK, Call, Person, Kinds
  <2> QED
    BY <2>2 DEF Inv, TypeOK, Call
<1>2. ApprovalsStand'
  BY DEF Inv, ApprovalsStand, TypeOK, Exception, Call, NoRow, Row
<1>3. UsesStand'
  BY DEF Inv, UsesStand, ApprovalsStand, TypeOK, Exception, Call, Locked
<1> QED
  BY <1>1, <1>2, <1>3 DEF Inv

LEMMA CheckInUseInv ==
    ASSUME Inv, NEW c \in Calls, CheckInUse(c)
    PROVE  Inv'
<1> USE DEF CheckInUse, At, Goes, Ends, Idle
<1>1. TypeOK'
  BY DEF Inv, TypeOK, Exception, Call, Person, Kinds, NoRow
<1>2. ApprovalsStand'
  BY DEF Inv, ApprovalsStand, TypeOK, Exception, Call, NoRow, Row
<1>3. UsesStand'
  BY DEF Inv, UsesStand, ApprovalsStand, TypeOK, Exception, Call, Locked
<1> QED
  BY <1>1, <1>2, <1>3 DEF Inv

LEMMA CheckInFailsInv ==
    ASSUME Inv, NEW c \in Calls, CheckInFails(c)
    PROVE  Inv'
<1> USE DEF CheckInFails, At, Goes, Ends, Idle
<1>1. TypeOK'
  BY DEF Inv, TypeOK, Exception, Call, Person, Kinds, NoRow
<1>2. ApprovalsStand'
  BY DEF Inv, ApprovalsStand, TypeOK, Exception, Call, NoRow, Row
<1>3. UsesStand'
  BY DEF Inv, UsesStand, ApprovalsStand, TypeOK, Exception, Call, Locked
<1> QED
  BY <1>1, <1>2, <1>3 DEF Inv

LEMMA NextInv == Inv /\ [Next]_vars => Inv'
<1> SUFFICES ASSUME Inv, [Next]_vars PROVE Inv'
  OBVIOUS
<1>1. ASSUME NEW c \in Calls, NEW e \in Employees, NEW k \in Kinds,
             CreateException(c, e, k)
      PROVE  Inv'
  BY <1>1, CreateExceptionInv
<1>2. ASSUME NEW c \in Calls, NEW n \in inbox, NEW to \in {"APPROVED", "REJECTED"},
             ApproveRead(c, n, to)
      PROVE  Inv'
  BY <1>2, ApproveReadInv
<1>3. ASSUME NEW c \in Calls, NEW i \in Ids, CancelRead(c, i) \/ CheckInRead(c, i)
      PROVE  Inv'
  BY <1>3, CancelReadInv, CheckInReadInv
<1>4. ASSUME NEW c \in Calls,
             \/ CreateNumber(c) \/ CreateInsert(c) \/ CreateConflicts(c)
             \/ SelfHeal(c) \/ ApproveWrite(c) \/ ApproveFails(c)
             \/ CancelDelete(c) \/ CheckInUse(c) \/ CheckInFails(c)
      PROVE  Inv'
  BY <1>4, CreateNumberInv, CreateInsertInv, CreateConflictsInv, SelfHealInv,
     ApproveWriteInv, ApproveFailsInv, CancelDeleteInv, CheckInUseInv,
     CheckInFailsInv
<1>5. CASE UNCHANGED vars
  BY <1>5 DEF vars, Inv, TypeOK, ApprovalsStand, UsesStand, At
<1> QED
  BY <1>1, <1>2, <1>3, <1>4, <1>5 DEF Next

-----------------------------------------------------------------------------
(***************************************************************************)
(* Theorems                                                                *)
(***************************************************************************)

LEMMA InvAlways == Spec => []Inv
BY InitInv, NextInv, PTL DEF Spec

\* However decisions, cancellations and new requests with a used id interleave
\* with it, a check-in only uses up an approval that was given to its employee
\* and that no other check-in has used.
THEOREM ApprovalsSpentOnce == Spec => UsesAreApproved
<1>1. Inv => \A c \in Calls : CheckInUse(c) => <<call[c].id, call[c].of>> \in unspent
  BY DEF Inv, UsesStand, CheckInUse
<1> QED
  BY <1>1, InvAlways, PTL DEF UsesAreApproved

-----------------------------------------------------------------------------
(***************************************************************************)
(* Credits                                                                 *)
(***************************************************************************)

\* The ids an employee has a claim to: those of their rows, and those in the
\* notifications about them, from which a missing row may be recreated.
Noted(e) == {n.id : n \in {m \in inbox : m.of = e}}
Claims(e) == Of(e) \union Noted(e)

\* A decision that is to recreate a row was taken from a notification.
HealsAreNoted ==
    \A c \in Calls : At(c, "heal") =>
        [id |-> call[c].id, of |-> call[c].of] \in inbox

ClaimsAreAskedFor == \A e \in Employees : Cardinality(Claims(e)) <= asked[e]

\* Rows come and go, claims only come, with the requests: this is why
\* recreating a row that was cancelled credits nobody with one request more.
CreditInv == Inv /\ IsFiniteSet(inbox) /\ HealsAreNoted /\ ClaimsAreAskedFor

LEMMA ClaimsAreFinite ==
    ASSUME CreditInv, NEW e \in Employees
    PROVE  IsFiniteSet(Claims(e)) /\ Cardinality(Claims(e)) \in Nat
<1>1. IsFiniteSet(Of(e))
  <2>1. IsFiniteSet(1..MaxRequests)
    BY FS_Interval, IdsAssumption
  <2>2. IsFiniteSet(Ids)
    BY <2>1, FS_Union, IdsAssumption DEF Ids
  <2> QED
    BY <2>2, FS_Subset DEF Of, Rows
<1>2. IsFiniteSet(Noted(e))
  <2> DEFINE M == {m \in inbox : m.of = e}
             f == [n \in M |-> n.id]
  <2>1. IsFiniteSet(M)
    BY FS_Subset DEF CreditInv
  <2>2. f \in Surjection(M, Noted(e))
    BY DEF Surjection, Noted
  <2> HIDE DEF M, f
  <2> QED
    BY <2>1, <2>2, FS_Surjection
<1>3. IsFiniteSet(Claims(e))
  BY <1>1, <1>2, FS_Union DEF Claims
<1> QED
  BY <1>3, FS_CardinalityType

LEMMA InitCredit == Init => CreditInv
<1> SUFFICES ASSUME Init PROVE CreditInv
  OBVIOUS
<1>1. Inv
  BY InitInv
<1>2. inbox = {} /\ IsFiniteSet({})
  BY FS_EmptySet DEF Init
<1>3. HealsAreNoted
  BY DEF Init, HealsAreNoted, At, Idle
<1>4. ASSUME NEW e \in Employees
      PROVE  Cardinality(Claims(e)) <= asked[e]
  <2>1. Claims(e) = {}
    BY <1>2 DEF Init, Claims, Of, Noted, Rows
  <2>2. Cardinality(Claims(e)) = 0
    BY <2>1, FS_EmptySet
  <2>3. asked[e] = 0
    BY DEF Init
  <2>4. 0 <= 0
    OBVIOUS
  <2> QED
    BY <2>2, <2>3, <2>4
<1> QED
  BY <1>1, <1>2, <1>3, <1>4 DEF CreditInv, ClaimsAreAskedFor

\* No claim is added by a step that sends no notification and adds no row that
\* was not claimed.
LEMMA NoNewClaims ==
    ASSUME CreditInv, UNCHANGED <<inbox, asked>>,
           \A e \in Employees : Of(e)' \subseteq Claims(e)
    PROVE  IsFiniteSet(inbox') /\ ClaimsAreAskedFor'
<1>1. IsFiniteSet(inbox')
  BY DEF CreditInv
<1>2. ASSUME NEW e \in Employees
      PROVE  Cardinality(Claims(e)') <= asked'[e]
  <2>1. Noted(e)' = Noted(e)
    BY DEF Noted
  <2>2. Claims(e)' \subseteq Claims(e)
    BY <2>1 DEF Claims
  <2>3. IsFiniteSet(Claims(e)) /\ Cardinality(Claims(e)) \in Nat
    BY ClaimsAreFinite
  <2>4. IsFiniteSet(Claims(e)') /\ Cardinality(Claims(e)') <= Cardinality(Claims(e))
    BY <2>2, <2>3, FS_Subset
  <2>5. Cardinality(Claims(e)') \in Nat
    BY <2>4, FS_CardinalityType
  <2>6. asked[e] \in Nat /\ Cardinality(Claims(e)) <= asked[e]
    BY DEF CreditInv, ClaimsAreAskedFor, Inv, TypeOK
  <2> QED
    BY <2>3, <2>4, <2>5, <2>6
<1> QED
  BY <1>1, <1>2 DEF ClaimsAreAskedFor

\* A step of a call that does not send it to recreate a row.
LEMMA HealsStay ==
    ASSUME CreditInv, NEW c \in Calls, inbox \subseteq inbox',
           NEW r, call' = [call EXCEPT ![c] = r], r.pc # "heal"
    PROVE  HealsAreNoted'
<1> SUFFICES ASSUME NEW d \in Calls, call'[d].pc = "heal"
             PROVE  [id |-> call'[d].id, of |-> call'[d].of] \in inbox'
  BY DEF HealsAreNoted, At
<1>1. call'[d] = call[d]
  BY DEF CreditInv, Inv, TypeOK
<1> QED
  BY <1>1 DEF CreditInv, HealsAreNoted, At

\* A step that leaves the rows, the notifications and the requests alone.
LEMMA QuietCredit ==
    ASSUME CreditInv, UNCHANGED <<exc, inbox, asked>>, Inv', HealsAreNoted'
    PROVE  CreditInv'
<1>1. \A e \in Employees : Of(e)' \subseteq Claims(e)
  BY DEF Of, Rows, Claims
<1> QED
  BY <1>1, NoNewClaims DEF CreditInv

LEMMA CreateInsertCredit ==
    ASSUME CreditInv, NEW c \in Calls, CreateInsert(c), Inv'
    PROVE  CreditInv'
<1> PICK r \in Call : r = call[c]
  BY DEF CreditInv, Inv, TypeOK
<1> DEFINE note == [id |-> r.id, of |-> r.of]
<1>1. /\ exc' = [exc EXCEPT ![r.id] = Row(r.of, r.kind)]
      /\ inbox' = inbox \/ inbox' = inbox \union {note}
      /\ asked' = [asked EXCEPT ![r.of] = @ + 1]
      /\ call' = [call EXCEPT ![c] = Idle]
  BY DEF CreateInsert, Ends
<1>2. r.of \in Employees
  BY DEF CreateInsert, At, CreditInv, Inv, TypeOK
<1>3. IsFiniteSet(inbox')
  <2>1. IsFiniteSet(inbox) /\ IsFiniteSet(inbox \union {note})
    BY FS_AddElement DEF CreditInv
  <2> QED
    BY <1>1, <2>1
<1>4. HealsAreNoted'
  <2>1. inbox \subseteq inbox'
    BY <1>1
  <2>2. Idle.pc # "heal"
    BY DEF Idle
  <2> QED
    BY <1>1, <2>1, <2>2, HealsStay
<1>5. ASSUME NEW e \in Employees
      PROVE  Cardinality(Claims(e)') <= asked'[e]
  <2>1. IsFiniteSet(Claims(e)) /\ Cardinality(Claims(e)) \in Nat
    BY ClaimsAreFinite
  <2>2. asked[e] \in Nat /\ Cardinality(Claims(e)) <= asked[e]
    BY DEF CreditInv, ClaimsAreAskedFor, Inv, TypeOK
  <2>3. CASE e = r.of
    <3>1. Of(e)' \subseteq Of(e) \union {r.id}
      BY <1>1 DEF Of, Rows, CreditInv, Inv, TypeOK
    <3>2. Noted(e)' \subseteq Noted(e) \union {r.id}
      BY <1>1 DEF Noted
    <3>3. Claims(e)' \subseteq Claims(e) \union {r.id}
      BY <3>1, <3>2 DEF Claims
    <3>4. /\ IsFiniteSet(Claims(e) \union {r.id})
          /\ \/ Cardinality(Claims(e) \union {r.id}) = Cardinality(Claims(e))
             \/ Cardinality(Claims(e) \union {r.id}) = Cardinality(Claims(e)) + 1
      BY <2>1, FS_AddElement
    <3>5. /\ IsFiniteSet(Claims(e)')
          /\ Cardinality(Claims(e)') <= Cardinality(Claims(e) \union {r.id})
      BY <3>3, <3>4, FS_Subset
    <3>6. Cardinality(Claims(e)') \in Nat
      BY <3>5, FS_CardinalityType
    <3>7. asked'[e] = asked[e] + 1
      BY <1>1, <2>3 DEF CreditInv, Inv, TypeOK
    <3> QED
      BY <2>1, <2>2, <3>4, <3>5, <3>6, <3>7
  <2>4. CASE e # r.of
    <3>1. Of(e)' \subseteq Of(e)
      BY <1>1, <2>4 DEF Of, Rows, Row, CreditInv, Inv, TypeOK
    <3>2. Noted(e)' = Noted(e)
      BY <1>1, <2>4 DEF Noted
    <3>3. Claims(e)' \subseteq Claims(e)
      BY <3>1, <3>2 DEF Claims
    <3>4. IsFiniteSet(Claims(e)') /\ Cardinality(Claims(e)') <= Cardinality(Claims(e))
      BY <2>1, <3>3, FS_Subset
    <3>5. Cardinality(Claims(e)') \in Nat
      BY <3>4, FS_CardinalityType
    <3>6. asked'[e] = asked[e]
      BY <1>1, <2>4 DEF CreditInv, Inv, TypeOK
    <3> QED
      BY <2>1, <2>2, <3>4, <3>5, <3>6
  <2> QED
    BY <2>3, <2>4
<1> QED
  BY <1>3, <1>4, <1>5 DEF CreditInv, ClaimsAreAskedFor

LEMMA ApproveReadCredit ==
    ASSUME CreditInv, NEW c \in Calls, NEW n \in inbox,
           NEW to \in {"APPROVED", "REJECTED"}, ApproveRead(c, n, to), Inv'
    PROVE  CreditInv'
<1>1. /\ call'[c].id = n.id /\ call'[c].of = n.of
      /\ \A d \in Calls \ {c} : call'[d] = call[d]
      /\ UNCHANGED <<exc, inbox, asked>>
  BY DEF ApproveRead, Idle, CreditInv, Inv, TypeOK
<1>2. n = [id |-> n.id, of |-> n.of]
  BY DEF CreditInv, Inv, TypeOK
<1>3. HealsAreNoted'
  BY <1>1, <1>2 DEF HealsAreNoted, At, CreditInv
<1> QED
  BY <1>1, <1>3, QuietCredit

LEMMA SelfHealCredit ==
    ASSUME CreditInv, NEW c \in Calls, SelfHeal(c), Inv'
    PROVE  CreditInv'
<1> PICK r \in Call : r = call[c]
  BY DEF CreditInv, Inv, TypeOK
<1>1. /\ exc' = [exc EXCEPT ![r.id] = Row(r.of, "ADJUSTMENT")]
      /\ UNCHANGED <<inbox, asked>>
      /\ call' = [call EXCEPT ![c] = [r EXCEPT !.pc = "decide"]]
  BY DEF SelfHeal, Goes
<1>2. HealsAreNoted'
  <2>1. [r EXCEPT !.pc = "decide"].pc # "heal"
    BY DEF Call
  <2> QED
    BY <1>1, <2>1, HealsStay
<1>3. [id |-> r.id, of |-> r.of] \in inbox
  BY DEF SelfHeal, HealsAreNoted, CreditInv
<1>4. ASSUME NEW e \in Employees
      PROVE  Of(e)' \subseteq Claims(e)
  <2>1. r.of = e => r.id \in Noted(e)
    BY <1>3 DEF Noted
  <2>2. Of(e)' \subseteq Of(e) \union (IF r.of = e THEN {r.id} ELSE {})
    BY <1>1 DEF Of, Rows, Row, CreditInv, Inv, TypeOK
  <2> QED
    BY <2>1, <2>2 DEF Claims
<1> QED
  BY <1>1, <1>2, <1>4, NoNewClaims DEF CreditInv

\* A row that is decided, used or deleted stays its employee's, or goes.
LEMMA RowWriteCredit ==
    ASSUME CreditInv, NEW c \in Calls,
           ApproveWrite(c) \/ CancelDelete(c) \/ CheckInUse(c), Inv'
    PROVE  CreditInv'
<1>1. UNCHANGED <<inbox, asked>> /\ call' = [call EXCEPT ![c] = Idle]
  BY DEF ApproveWrite, CancelDelete, CheckInUse, Ends
<1>2. HealsAreNoted'
  <2>1. Idle.pc # "heal"
    BY DEF Idle
  <2> QED
    BY <1>1, <2>1, HealsStay
<1>3. ASSUME NEW e \in Employees
      PROVE  Of(e)' \subseteq Of(e)
  <2>1. CASE CancelDelete(c)
    BY <2>1 DEF CancelDelete, Of, Rows, CreditInv, Inv, TypeOK
  <2>2. CASE ApproveWrite(c) \/ CheckInUse(c)
    <3>1. PICK to : /\ exc' = [exc EXCEPT ![call[c].id].status = to]
                    /\ exc[call[c].id] # NoRow
      BY <2>2 DEF ApproveWrite, CheckInUse
    <3>2. \A i \in Ids : exc'[i].of = exc[i].of
      BY <3>1 DEF CreditInv, Inv, TypeOK, Exception
    <3>3. Rows' \subseteq Rows
      BY <3>1 DEF Rows, CreditInv, Inv, TypeOK
    <3> QED
      BY <3>2, <3>3 DEF Of, Rows
  <2> QED
    BY <2>1, <2>2
<1>4. \A e \in Employees : Of(e)' \subseteq Claims(e)
  BY <1>3 DEF Claims
<1> QED
  BY <1>1, <1>2, <1>4, NoNewClaims DEF CreditInv

\* A call that only reads, or fails.
LEMMA QuietCallCredit ==
    ASSUME CreditInv, NEW c \in Calls, Inv',
           \/ \E e \in Employees, k \in Kinds : CreateException(c, e, k)
           \/ CreateNumber(c) \/ CreateConflicts(c) \/ ApproveFails(c)
           \/ \E i \in Ids : CancelRead(c, i) \/ CheckInRead(c, i)
           \/ CheckInFails(c)
    PROVE  CreditInv'
<1>1. UNCHANGED <<exc, inbox, asked>>
  BY DEF CreateException, CreateNumber, CreateConflicts, ApproveFails, CancelRead,
     CheckInRead, CheckInFails
<1>2. call'[c].pc # "heal" /\ \A d \in Calls \ {c} : call'[d] = call[d]
  <2>1. CASE CreateNumber(c)
    <3>1. PICK i : call' = [call EXCEPT ![c].pc = "insert", ![c].id = i]
      BY <2>1 DEF CreateNumber
    <3> QED
      BY <3>1 DEF CreditInv, Inv, TypeOK, Call
  <2>2. CASE CreateConflicts(c) \/ ApproveFails(c) \/ CheckInFails(c)
    BY <2>2 DEF CreateConflicts, ApproveFails, CheckInFails, Ends, Idle, CreditInv,
       Inv, TypeOK
  <2>3. CASE \E e \in Employees, k \in Kinds : CreateException(c, e, k)
    BY <2>3 DEF CreateException, Idle, CreditInv, Inv, TypeOK
  <2>4. CASE \E i \in Ids : CancelRead(c, i)
    BY <2>4 DEF CancelRead, Idle, CreditInv, Inv, TypeOK
  <2>5. CASE \E i \in Ids : CheckInRead(c, i)
    BY <2>5 DEF CheckInRead, Idle, CreditInv, Inv, TypeOK
  <2> QED
    BY <2>1, <2>2, <2>3, <2>4, <2>5
<1>3. HealsAreNoted'
  BY <1>1, <1>2 DEF HealsAreNoted, At, CreditInv
<1> QED
  BY <1>1, <1>3, QuietCredit

LEMMA NextCredit == CreditInv /\ [Next]_vars => CreditInv'
<1> SUFFICES ASSUME CreditInv, [Next]_vars PROVE CreditInv'
  OBVIOUS
<1>1. Inv'
  BY NextInv DEF CreditInv
<1>2. CASE UNCHANGED vars
  <2>1. HealsAreNoted'
    BY <1>2 DEF vars, HealsAreNoted, At, CreditInv
  <2> QED
    BY <1>1, <1>2, <2>1, QuietCredit DEF vars
<1>3. CASE Next
  <2>1. PICK c \in Calls :
          \/ \E e \in Employees, k \in Kinds : CreateException(c, e, k)
          \/ CreateNumber(c) \/ CreateInsert(c) \/ CreateConflicts(c)
          \/ \E n \in inbox, to \in {"APPROVED", "REJECTED"} : ApproveRead(c, n, to)
          \/ SelfHeal(c) \/ ApproveWrite(c) \/ ApproveFails(c)
          \/ \E i \in Ids : CancelRead(c, i) \/ CheckInRead(c, i)
          \/ CancelDelete(c) \/ CheckInUse(c) \/ CheckInFails(c)
    BY <1>3 DEF Next
  <2> QED
    BY <1>1, <2>1, CreateInsertCredit, ApproveReadCredit, SelfHealCredit,
       RowWriteCredit, QuietCallCredit
<1> QED
  BY <1>2, <1>3

\* Nobody has more special hours on record than they asked for: a decision
\* that recreates a cancelled row, two decisions of one request, and a request
\* whose id was another's add no row that was not somebody's request.
THEOREM NoCreditUnasked == Spec => []CreditsAreAskedFor
<1>1. CreditInv => CreditsAreAskedFor
  <2> SUFFICES ASSUME CreditInv, NEW e \in Employees
               PROVE  Cardinality(Of(e)) <= asked[e]
    BY DEF CreditsAreAskedFor
  <2>1. IsFiniteSet(Claims(e)) /\ Cardinality(Claims(e)) \in Nat
    BY ClaimsAreFinite
  <2>2. Of(e) \subseteq Claims(e)
    BY DEF Claims
  <2>3. IsFiniteSet(Of(e)) /\ Cardinality(Of(e)) <= Cardinality(Claims(e))
    BY <2>1, <2>2, FS_Subset
  <2>4. Cardinality(Of(e)) \in Nat
    BY <2>3, FS_CardinalityType
  <2>5. asked[e] \in Nat /\ Cardinality(Claims(e)) <= asked[e]
    BY DEF CreditInv, ClaimsAreAskedFor, Inv, TypeOK
  <2> QED
    BY <2>1, <2>3, <2>4, <2>5
<1> QED
  BY <1>1, InitCredit, NextCredit, PTL DEF Spec

-----------------------------------------------------------------------------
(* A set of naturals has a least element,     *)
(* because the intervals up to its members are finite sets, and inclusion   *)
(* of finite sets is well-founded.                                          *)

LEMMA LeastElement ==
    ASSUME NEW T, T \subseteq Nat, T # {}
    PROVE  \E x \in T : \A y \in T : x <= y
<1> DEFINE Upto == {0..k : k \in T}
<1>1. Upto \subseteq FiniteSubsetsOf(Nat)
  <2> SUFFICES ASSUME NEW k \in T PROVE 0..k \in FiniteSubsetsOf(Nat)
    OBVIOUS
  <2>1. IsFiniteSet(0..k)
    BY FS_Interval
  <2> QED
    BY <2>1 DEF FiniteSubsetsOf
<1>2. Upto # {}
  OBVIOUS
<1>3. PICK I \in Upto : \A J \in Upto : <<J, I>> \notin StrictSubsetOrdering(Nat)
  <2> HIDE DEF Upto
  <2> QED
    BY <1>1, <1>2, WFMin, FS_StrictSubsetOrderingWellFounded
<1>4. PICK x \in T : I = 0..x
  OBVIOUS
<1>5. ASSUME NEW y \in T, y < x
      PROVE  FALSE
  <2>1. 0..y \in Upto /\ 0..y \subseteq 0..x /\ 0..y # 0..x
    BY <1>5
  <2>2. <<0..y, 0..x>> \in StrictSubsetOrdering(Nat)
    BY <2>1, <1>5 DEF StrictSubsetOrdering
  <2> QED
    BY <2>1, <2>2, <1>3, <1>4
<1> QED
  BY <1>5

LEMMA EveryNatural ==
    ASSUME NEW S, 0 \in S, \A n \in Nat : n \in S => n + 1 \in S
    PROVE  Nat \subseteq S
<1> SUFFICES ASSUME Nat \ S # {} PROVE FALSE
  OBVIOUS
<1>1. PICK x \in Nat \ S : \A y \in Nat \ S : x <= y
  BY LeastElement
<1>2. x # 0 /\ x - 1 \in Nat /\ x - 1 \in S
  BY <1>1
<1> QED
  BY <1>1, <1>2

-----------------------------------------------------------------------------
(* The loop over the pauses of a session *)

(* Folding a sequence: the function the fold goes through, on the sets of   *)
(* indices left to do.                                                      *)
Folds(g, ps, end) ==
    g = [s \in SUBSET (DOMAIN ps) |->
            IF s = {} THEN 0
            ELSE g[s \ {Max(s)}] + MaxOf(0, EndOf(ps[Max(s)], end) - ps[Max(s)].start)]

LEMMA LoopIs ==
    ASSUME NEW ps, NEW end
    PROVE  Loop(ps, end) = (CHOOSE g : Folds(g, ps, end))[DOMAIN ps]
BY Zenon DEF Loop, FoldLeft, MapThenFoldSet, Folds

LEMMA MaxIsIn ==
    ASSUME NEW n \in Nat, NEW s, s \subseteq 1..n, s # {}
    PROVE  Max(s) \in s /\ \A i \in s : Max(s) >= i
<1> DEFINE below == {n - i : i \in s}
<1>1. below \subseteq Nat /\ below # {}
  <2>1. \A i \in s : n - i \in Nat
    OBVIOUS
  <2> QED
    BY <2>1
<1>2. PICK x \in below : \A y \in below : x <= y
  <2> HIDE DEF below
  <2> QED
    BY <1>1, LeastElement
<1>3. PICK m \in s : x = n - m
  BY <1>2
<1>4. \A i \in s : m >= i
  <2> SUFFICES ASSUME NEW i \in s PROVE m >= i
    OBVIOUS
  <2>1. x <= n - i
    BY <1>2
  <2> QED
    BY <1>3, <2>1
<1> QED
  BY <1>3, <1>4 DEF Max

(* There is only one such function. *)
LEMMA FoldsOnce ==
    ASSUME NEW n \in Nat, NEW ps, DOMAIN ps = 1..n, NEW end,
           NEW g, Folds(g, ps, end), NEW h, Folds(h, ps, end)
    PROVE  g = h
<1> DEFINE differ == {s \in SUBSET (1..n) : g[s] # h[s]}
<1>1. g = [s \in SUBSET (1..n) |-> g[s]] /\ h = [s \in SUBSET (1..n) |-> h[s]]
  BY DEF Folds
<1> SUFFICES ASSUME differ # {} PROVE FALSE
  BY <1>1
<1>2. differ \subseteq FiniteSubsetsOf(1..n)
  <2>1. IsFiniteSet(1..n)
    BY FS_Interval
  <2> SUFFICES ASSUME NEW s \in SUBSET (1..n) PROVE IsFiniteSet(s)
    BY DEF FiniteSubsetsOf
  <2> QED
    BY <2>1, FS_Subset
<1>3. PICK s \in differ : \A t \in differ : <<t, s>> \notin StrictSubsetOrdering(1..n)
  <2> HIDE DEF differ
  <2> QED
    BY <1>2, WFMin, FS_StrictSubsetOrderingWellFounded
<1>4. s \in SUBSET (1..n) /\ g[s] # h[s]
  BY <1>3
<1>5. g[{}] = 0 /\ h[{}] = 0
  BY DEF Folds
<1>6. s # {}
  BY <1>4, <1>5
<1>7. Max(s) \in s
  BY <1>4, <1>6, MaxIsIn
<1> PICK t : t = s \ {Max(s)}
  OBVIOUS
<1>8. t \in SUBSET (1..n) /\ t \subseteq s /\ t # s
  BY <1>4, <1>7
<1>9. g[t] = h[t]
  <2>1. <<t, s>> \in StrictSubsetOrdering(1..n)
    BY <1>4, <1>8 DEF StrictSubsetOrdering
  <2> QED
    BY <1>3, <1>8, <2>1
<1>10. /\ g[s] = g[t] + MaxOf(0, EndOf(ps[Max(s)], end) - ps[Max(s)].start)
       /\ h[s] = h[t] + MaxOf(0, EndOf(ps[Max(s)], end) - ps[Max(s)].start)
  BY <1>4, <1>6 DEF Folds
<1> QED
  BY <1>4, <1>9, <1>10

-----------------------------------------------------------------------------
(* Pauses and their ticks *)

Pause == [start : Nat, end : Nat \cup {None}]

TicksOf(pause, i, end) == {i} \X (pause.start .. EndOf(pause, end) - 1)

LEMMA TicksOfOne ==
    ASSUME NEW pause \in Pause, NEW i, NEW end \in Nat
    PROVE  /\ IsFiniteSet(TicksOf(pause, i, end))
           /\ Cardinality(TicksOf(pause, i, end)) = MaxOf(0, EndOf(pause, end) - pause.start)
           /\ MaxOf(0, EndOf(pause, end) - pause.start) \in Nat
<1>1. pause.start \in Int /\ EndOf(pause, end) \in Int
  BY DEF Pause, EndOf, None
<1> DEFINE a == pause.start
           b == EndOf(pause, end) - 1
<1>2. a \in Int /\ b \in Int
  BY <1>1
<1>3. IsFiniteSet(a..b) /\ Cardinality(a..b) = IF a > b THEN 0 ELSE b - a + 1
  <2> HIDE DEF a, b
  <2> QED
    BY <1>2, FS_Interval
<1>4. IsFiniteSet({i}) /\ Cardinality({i}) = 1
  BY FS_Singleton
<1>5. IsFiniteSet({i} \X (a..b)) /\ Cardinality({i} \X (a..b)) = 1 * Cardinality(a..b)
  <2> HIDE DEF a, b
  <2>1. /\ IsFiniteSet({i} \X (a..b))
        /\ Cardinality({i} \X (a..b)) = Cardinality({i}) * Cardinality(a..b)
    BY <1>3, <1>4, FS_Product, Zenon
  <2> QED
    BY <1>4, <2>1, Zenon
<1>6. Cardinality(a..b) = MaxOf(0, EndOf(pause, end) - pause.start)
  BY <1>1, <1>3 DEF MaxOf
<1>7. MaxOf(0, EndOf(pause, end) - pause.start) \in Nat
  BY <1>1 DEF MaxOf
<1> QED
  BY <1>5, <1>6, <1>7 DEF TicksOf

(* The ticks of the pauses with an index in s. *)
TicksIn(ps, end, s) == UNION {TicksOf(ps[i], i, end) : i \in s}

LEMMA TicksFinite ==
    ASSUME NEW ps \in Seq(Pause), NEW end \in Nat, NEW s, s \subseteq DOMAIN ps
    PROVE  IsFiniteSet(TicksIn(ps, end, s))
<1> DEFINE of == [i \in s |-> TicksOf(ps[i], i, end)]
           all == {TicksOf(ps[i], i, end) : i \in s}
<1>1. IsFiniteSet(s)
  <2>1. DOMAIN ps = 1..Len(ps) /\ Len(ps) \in Int
    OBVIOUS
  <2>2. IsFiniteSet(1..Len(ps))
    BY <2>1, FS_Interval
  <2> QED
    BY <2>1, <2>2, FS_Subset
<1>2. of \in Surjection(s, all)
  BY DEF Surjection
<1>3. \A T \in all : IsFiniteSet(T)
  <2> SUFFICES ASSUME NEW i \in s PROVE IsFiniteSet(TicksOf(ps[i], i, end))
    OBVIOUS
  <2>1. ps[i] \in Pause
    OBVIOUS
  <2> QED
    BY <2>1, TicksOfOne
<1> HIDE DEF of, all
<1>4. IsFiniteSet(UNION all)
  BY <1>1, <1>2, <1>3, FS_Surjection, FS_UNION
<1> QED
  BY <1>4 DEF all, TicksIn

LEMMA OneMorePause ==
    ASSUME NEW ps \in Seq(Pause), NEW end \in Nat, NEW s, s \subseteq DOMAIN ps,
           NEW m \in s
    PROVE  Cardinality(TicksIn(ps, end, s))
             = Cardinality(TicksIn(ps, end, s \ {m})) + MaxOf(0, EndOf(ps[m], end) - ps[m].start)
<1> PICK A : A = TicksIn(ps, end, s \ {m})
  OBVIOUS
<1> PICK B : B = TicksOf(ps[m], m, end)
  OBVIOUS
<1>1. ps[m] \in Pause
  OBVIOUS
<1>2. IsFiniteSet(A)
  BY TicksFinite
<1>3. IsFiniteSet(B) /\ Cardinality(B) = MaxOf(0, EndOf(ps[m], end) - ps[m].start)
  BY <1>1, TicksOfOne
<1>4. TicksIn(ps, end, s) = A \cup B
  BY DEF TicksIn
<1>5. A \cap B = {}
  <2> SUFFICES ASSUME NEW x \in A, x \in B PROVE FALSE
    OBVIOUS
  <2>1. PICK i \in s \ {m} : x \in TicksOf(ps[i], i, end)
    BY DEF TicksIn
  <2> QED
    BY <2>1 DEF TicksOf
<1>6. Cardinality(A \cup B) = Cardinality(A) + Cardinality(B) - Cardinality(A \cap B)
  BY <1>2, <1>3, FS_Union
<1>8. Cardinality(A \cap B) = 0
  BY <1>5, FS_EmptySet
<1>7. Cardinality(A) \in Nat /\ Cardinality(B) \in Nat
  BY <1>2, <1>3, FS_CardinalityType
<1> QED
  BY <1>3, <1>4, <1>6, <1>7, <1>8

(* What sumPauseSeconds() is modelled by is what its loop computes, for     *)
(* pauses of any number and shape.                                          *)
LEMMA SumIsTheLoop ==
    ASSUME NEW ps \in Seq(Pause), NEW end \in Nat
    PROVE  sumPauseSeconds(ps, end) = Loop(ps, end)
<1> DEFINE count == [s \in SUBSET (DOMAIN ps) |-> Cardinality(TicksIn(ps, end, s))]
<1>1. DOMAIN ps = 1..Len(ps) /\ Len(ps) \in Nat
  OBVIOUS
<1>2. ASSUME NEW s \in SUBSET (DOMAIN ps)
      PROVE  count[s] = IF s = {} THEN 0
                        ELSE count[s \ {Max(s)}]
                               + MaxOf(0, EndOf(ps[Max(s)], end) - ps[Max(s)].start)
  <2>1. CASE s = {}
    BY <2>1, FS_EmptySet DEF TicksIn
  <2>2. CASE s # {}
    <3>1. Max(s) \in s
      BY <1>1, <2>2, MaxIsIn
    <3>2. s \ {Max(s)} \in SUBSET (DOMAIN ps)
      OBVIOUS
    <3> QED
      BY <2>2, <3>1, <3>2, OneMorePause
  <2> QED
    BY <2>1, <2>2
<1>3. Folds(count, ps, end)
  BY <1>2, Zenon DEF Folds
<1>4. count[DOMAIN ps] = sumPauseSeconds(ps, end)
  BY DEF sumPauseSeconds, PausedTicks, TicksIn, TicksOf
<1> HIDE DEF count
<1>5. Folds(CHOOSE g : Folds(g, ps, end), ps, end)
  BY <1>3
<1>6. (CHOOSE g : Folds(g, ps, end)) = count
  BY <1>1, <1>3, <1>5, FoldsOnce
<1> QED
  BY <1>4, <1>6, LoopIs

-----------------------------------------------------------------------------
(* WorkingHistory: the inductive invariant *)

(* Pauses are closed, but for the last one of a session that is paused.     *)
PausesOK ==
    /\ pauses \in Seq(Pause)
    /\ \A i \in DOMAIN pauses :
          pauses[i].end = None <=> status = "PAUSED" /\ i = Len(pauses)
    /\ status = "PAUSED" => Len(pauses) > 0 /\ pauses[Len(pauses)].start = pauseAt

(* The time as of which the service answers. *)
Reference == resolveReferenceEnd(status, outAt, pauseAt, now)

(* What has been worked is the time up to the reference less the pauses.    *)
HistoryInv ==
    /\ now \in 0..MaxNow /\ worked \in Nat
    /\ status \in {"WORKING", "PAUSED", "CHECKED_OUT"}
    /\ IF status = "PAUSED" THEN pauseAt \in 0..now ELSE pauseAt = None
    /\ IF status = "CHECKED_OUT" THEN outAt \in 0..now ELSE outAt = None
    /\ PausesOK
    /\ \A i \in DOMAIN pauses : pauses[i].start <= MaxNow
    /\ worked + sumPauseSeconds(pauses, Reference) = Reference

LEMMA ReferenceIs ==
    ASSUME HistoryInv
    PROVE  /\ Reference = CASE status = "WORKING" -> now
                            [] status = "PAUSED" -> pauseAt
                            [] status = "CHECKED_OUT" -> outAt
           /\ Reference \in Nat
BY HistoryAssumption DEF HistoryInv, Reference, resolveReferenceEnd, None

LEMMA SumIsNatural ==
    ASSUME NEW ps \in Seq(Pause), NEW end \in Nat
    PROVE  /\ sumPauseSeconds(ps, end) = Cardinality(TicksIn(ps, end, DOMAIN ps))
           /\ sumPauseSeconds(ps, end) \in Nat
<1>1. PausedTicks(ps, end) = TicksIn(ps, end, DOMAIN ps)
  BY DEF PausedTicks, TicksIn, TicksOf
<1>2. IsFiniteSet(TicksIn(ps, end, DOMAIN ps))
  BY TicksFinite
<1> QED
  BY <1>1, <1>2, FS_CardinalityType DEF sumPauseSeconds

(* When no pause is open it does not matter as of when the sum is asked.    *)
LEMMA ClosedSum ==
    ASSUME NEW ps \in Seq(Pause), NEW s, s \subseteq DOMAIN ps,
           \A i \in s : ps[i].end # None, NEW d \in Nat, NEW e \in Nat
    PROVE  TicksIn(ps, d, s) = TicksIn(ps, e, s)
<1>1. \A i \in s : TicksOf(ps[i], i, d) = TicksOf(ps[i], i, e)
  BY DEF TicksOf, EndOf
<1> QED
  BY <1>1 DEF TicksIn

(* The last pause is ended: the time since its start is added. *)
LEMMA EndingAdds ==
    ASSUME HistoryInv, status = "PAUSED"
    PROVE  /\ EndLast \in Seq(Pause) /\ Len(EndLast) = Len(pauses)
           /\ \A i \in DOMAIN EndLast : EndLast[i].end # None /\ EndLast[i].start <= MaxNow
           /\ sumPauseSeconds(EndLast, now) = sumPauseSeconds(pauses, pauseAt) + (now - pauseAt)
<1>10. PICK n : n = Len(pauses)
  OBVIOUS
<1>11. PICK ps : ps = EndLast
  OBVIOUS
<1>12. PICK s : s = 1..n
  OBVIOUS
<1>1. /\ pauses \in Seq(Pause) /\ n \in Nat /\ n > 0 /\ n \in s /\ DOMAIN pauses = s
      /\ pauses[n].end = None /\ pauses[n].start = pauseAt /\ pauses[n] \in Pause
      /\ \A i \in s \ {n} : pauses[i].end # None
      /\ now \in Nat /\ pauseAt \in Nat /\ pauseAt <= now /\ now <= MaxNow
      /\ \A i \in s : pauses[i].start <= MaxNow
  BY <1>10, <1>12, HistoryAssumption DEF HistoryInv, PausesOK
<1>2. [pauses[n] EXCEPT !.end = now] \in Pause
  BY <1>1 DEF Pause
<1>3. ps \in Seq(Pause) /\ Len(ps) = n /\ DOMAIN ps = s
  BY <1>1, <1>2, <1>10, <1>11 DEF EndLast
<1>4. ps[n] = [pauses[n] EXCEPT !.end = now] /\ \A i \in s \ {n} : ps[i] = pauses[i]
  BY <1>1, <1>10, <1>11 DEF EndLast
<1>5. ps[n].end = now /\ ps[n].start = pauseAt
  BY <1>1, <1>4 DEF Pause
<1>6. TicksIn(ps, now, s \ {n}) = TicksIn(pauses, pauseAt, s \ {n})
  <2>1. TicksIn(ps, now, s \ {n}) = TicksIn(pauses, now, s \ {n})
    BY <1>4 DEF TicksIn
  <2>2. TicksIn(pauses, now, s \ {n}) = TicksIn(pauses, pauseAt, s \ {n})
    <3>1. s \ {n} \subseteq DOMAIN pauses
      BY <1>1
    <3> QED
      BY <1>1, <3>1, ClosedSum
  <2> QED
    BY <2>1, <2>2
<1>7. sumPauseSeconds(ps, now) = Cardinality(TicksIn(ps, now, s \ {n})) + (now - pauseAt)
  <2>1. EndOf(ps[n], now) = now /\ MaxOf(0, now - pauseAt) = now - pauseAt
    BY <1>1, <1>5 DEF EndOf, MaxOf, None
  <2>2. Cardinality(TicksIn(ps, now, s))
          = Cardinality(TicksIn(ps, now, s \ {n})) + MaxOf(0, EndOf(ps[n], now) - ps[n].start)
    BY <1>1, <1>3, OneMorePause
  <2>3. sumPauseSeconds(ps, now) = Cardinality(TicksIn(ps, now, s))
    BY <1>1, <1>3, SumIsNatural
  <2> QED
    BY <1>5, <2>1, <2>2, <2>3
<1>8. sumPauseSeconds(pauses, pauseAt) = Cardinality(TicksIn(pauses, pauseAt, s \ {n}))
  <2>1. EndOf(pauses[n], pauseAt) = pauseAt /\ MaxOf(0, pauseAt - pauseAt) = 0
    BY <1>1 DEF EndOf, MaxOf
  <2>2. IsFiniteSet(TicksIn(pauses, pauseAt, s \ {n}))
    BY <1>1, TicksFinite
  <2>3. Cardinality(TicksIn(pauses, pauseAt, s \ {n})) \in Nat
    BY <2>2, FS_CardinalityType
  <2>4. Cardinality(TicksIn(pauses, pauseAt, s))
          = Cardinality(TicksIn(pauses, pauseAt, s \ {n}))
              + MaxOf(0, EndOf(pauses[n], pauseAt) - pauses[n].start)
    <3>1. s \subseteq DOMAIN pauses /\ n \in s /\ pauses \in Seq(Pause) /\ pauseAt \in Nat
      BY <1>1
    <3> QED
      BY <3>1, OneMorePause, Zenon
  <2>5. sumPauseSeconds(pauses, pauseAt) = Cardinality(TicksIn(pauses, pauseAt, s))
    BY <1>1, SumIsNatural
  <2> QED
    BY <1>1, <2>1, <2>3, <2>4, <2>5
<1>9. \A i \in s : ps[i].end # None /\ ps[i].start <= MaxNow
  <2>1. ps[n].end # None /\ ps[n].start <= MaxNow
    BY <1>1, <1>5, HistoryAssumption DEF None
  <2>2. \A i \in s \ {n} : ps[i].end # None /\ ps[i].start <= MaxNow
    BY <1>1, <1>4
  <2> QED
    BY <2>1, <2>2
<1> QED
  BY <1>3, <1>6, <1>7, <1>8, <1>9, <1>10, <1>11

LEMMA HistoryInitInv == HistoryInit => HistoryInv
<1> SUFFICES ASSUME HistoryInit PROVE HistoryInv
  OBVIOUS
<1>1. Reference = 0 /\ pauses = <<>>
  BY DEF HistoryInit, Reference, resolveReferenceEnd
<1>2. sumPauseSeconds(<<>>, 0) = 0
  <2>1. PausedTicks(<<>>, 0) = {}
    BY DEF PausedTicks
  <2> QED
    BY <2>1, FS_EmptySet DEF sumPauseSeconds
<1>3. PausesOK
  BY DEF HistoryInit, PausesOK
<1> QED
  BY <1>1, <1>2, <1>3, HistoryAssumption DEF HistoryInit, HistoryInv

LEMMA ClosedSumStays ==
    ASSUME HistoryInv, status # "PAUSED", NEW d \in Nat, NEW e \in Nat
    PROVE  sumPauseSeconds(pauses, d) = sumPauseSeconds(pauses, e)
<1>1. pauses \in Seq(Pause) /\ \A i \in DOMAIN pauses : pauses[i].end # None
  BY DEF HistoryInv, PausesOK
<1>2. TicksIn(pauses, d, DOMAIN pauses) = TicksIn(pauses, e, DOMAIN pauses)
  BY <1>1, ClosedSum
<1> QED
  BY <1>1, <1>2, SumIsNatural

LEMMA TickInv ==
    ASSUME HistoryInv, Tick
    PROVE  HistoryInv'
<1>1. /\ now' = now + 1 /\ now < MaxNow
      /\ worked' = IF status = "WORKING" THEN worked + 1 ELSE worked
      /\ status' = status /\ outAt' = outAt /\ pauseAt' = pauseAt /\ pauses' = pauses
  BY DEF Tick
<1>2. /\ now \in 0..MaxNow /\ worked \in Nat /\ pauses \in Seq(Pause)
      /\ worked + sumPauseSeconds(pauses, Reference) = Reference /\ Reference \in Nat
      /\ status \in {"WORKING", "PAUSED", "CHECKED_OUT"}
      /\ status = "PAUSED" => pauseAt \in 0..now
      /\ status = "CHECKED_OUT" => outAt \in 0..now
  BY ReferenceIs DEF HistoryInv, PausesOK
<1>3. sumPauseSeconds(pauses, Reference) \in Nat
  BY <1>2, SumIsNatural
<1>4. worked' + sumPauseSeconds(pauses, Reference') = Reference'
  <2>1. CASE status = "WORKING"
    <3>1. Reference = now /\ Reference' = now + 1 /\ now \in Nat /\ now + 1 \in Nat
      BY <1>1, <1>2, <2>1 DEF Reference, resolveReferenceEnd
    <3>2. sumPauseSeconds(pauses, now + 1) = sumPauseSeconds(pauses, now)
      BY <2>1, <3>1, ClosedSumStays
    <3> QED
      BY <1>1, <1>2, <1>3, <2>1, <3>1, <3>2
  <2>2. CASE status # "WORKING"
    <3>1. Reference' = Reference
      BY <1>1, <1>2, <2>2 DEF Reference, resolveReferenceEnd, None
    <3> QED
      BY <1>1, <1>2, <2>2, <3>1
  <2> QED
    BY <2>1, <2>2
<1>5. PausesOK'
  BY <1>1 DEF HistoryInv, PausesOK
<1> QED
  BY <1>1, <1>2, <1>4, <1>5, HistoryAssumption DEF HistoryInv

LEMMA LeaveInv ==
    ASSUME HistoryInv, Leave
    PROVE  HistoryInv'
<1>10. PICK p : p = [start |-> now, end |-> None]
  OBVIOUS
<1>11. PICK n : n = Len(pauses)
  OBVIOUS
<1>12. PICK ps : ps = Append(pauses, p)
  OBVIOUS
<1>1. /\ status = "WORKING" /\ status' = "PAUSED" /\ pauseAt' = now /\ pauses' = ps
      /\ now' = now /\ outAt' = outAt /\ worked' = worked
  BY <1>10, <1>12 DEF Leave
<1>2. /\ now \in 0..MaxNow /\ now \in Nat /\ worked \in Nat /\ outAt = None
      /\ pauses \in Seq(Pause) /\ n \in Nat /\ DOMAIN pauses = 1..n
      /\ \A i \in 1..n : pauses[i].end # None /\ pauses[i].start <= MaxNow
  BY <1>1, <1>11, HistoryAssumption DEF HistoryInv, PausesOK
<1>3. p \in Pause /\ p.start = now /\ p.end = None
  BY <1>2, <1>10 DEF Pause
<1>4. /\ ps \in Seq(Pause) /\ Len(ps) = n + 1 /\ DOMAIN ps = 1..(n + 1)
      /\ ps[n + 1] = p /\ \A i \in 1..n : ps[i] = pauses[i]
  BY <1>2, <1>3, <1>11, <1>12, AppendProperties
<1>5. PausesOK'
  <2>1. \A i \in 1..(n + 1) : ps[i].end = None <=> i = n + 1
    BY <1>2, <1>3, <1>4
  <2> QED
    BY <1>1, <1>2, <1>3, <1>4, <2>1 DEF PausesOK
<1>6. Reference = now /\ Reference' = now
  BY <1>1, <1>2 DEF Reference, resolveReferenceEnd, None
<1>7. sumPauseSeconds(ps, now) = sumPauseSeconds(pauses, now)
  <2>1. n + 1 \in DOMAIN ps /\ (1..(n + 1)) \ {n + 1} = 1..n
    BY <1>2, <1>4
  <2>2. Cardinality(TicksIn(ps, now, 1..(n + 1)))
          = Cardinality(TicksIn(ps, now, 1..n)) + MaxOf(0, EndOf(p, now) - p.start)
    <3>1. PICK m : m = n + 1
      OBVIOUS
    <3>2. PICK s : s = 1..(n + 1)
      OBVIOUS
    <3>3. s \subseteq DOMAIN ps /\ m \in s /\ s \ {m} = 1..n
      BY <1>4, <2>1, <3>1, <3>2
    <3>4. Cardinality(TicksIn(ps, now, s))
            = Cardinality(TicksIn(ps, now, s \ {m})) + MaxOf(0, EndOf(ps[m], now) - ps[m].start)
      BY <1>2, <1>4, <3>3, OneMorePause
    <3> QED
      BY <1>4, <3>1, <3>2, <3>3, <3>4
  <2>3. MaxOf(0, EndOf(p, now) - p.start) = 0
    BY <1>2, <1>3 DEF EndOf, MaxOf
  <2>4. TicksIn(ps, now, 1..n) = TicksIn(pauses, now, 1..n)
    BY <1>4 DEF TicksIn
  <2>5. /\ sumPauseSeconds(ps, now) = Cardinality(TicksIn(ps, now, 1..(n + 1)))
        /\ sumPauseSeconds(pauses, now) = Cardinality(TicksIn(pauses, now, 1..n))
        /\ sumPauseSeconds(pauses, now) \in Nat
    BY <1>2, <1>4, SumIsNatural
  <2> QED
    BY <2>2, <2>3, <2>4, <2>5
<1>8. \A i \in DOMAIN ps : ps[i].start <= MaxNow
  <2>1. ps[n + 1].start <= MaxNow
    BY <1>2, <1>3, <1>4, HistoryAssumption
  <2> QED
    BY <1>2, <1>4, <2>1
<1>9. worked' + sumPauseSeconds(ps, Reference') = Reference'
  BY <1>1, <1>6, <1>7 DEF HistoryInv
<1> QED
  BY <1>1, <1>2, <1>5, <1>8, <1>9 DEF HistoryInv

(* Every way to end the last pause: it ends now, and so the session's time  *)
(* counts up to now.                                                        *)
LEMMA EndedInv ==
    ASSUME HistoryInv, status = "PAUSED",
           status' \in {"WORKING", "CHECKED_OUT"}, pauseAt' = None, pauses' = EndLast,
           outAt' = IF status' = "CHECKED_OUT" THEN now ELSE None,
           now' = now, worked' = worked
    PROVE  HistoryInv'
<1>1. /\ EndLast \in Seq(Pause) /\ Len(EndLast) = Len(pauses)
      /\ \A i \in DOMAIN EndLast : EndLast[i].end # None /\ EndLast[i].start <= MaxNow
      /\ sumPauseSeconds(EndLast, now) = sumPauseSeconds(pauses, pauseAt) + (now - pauseAt)
  BY EndingAdds
<1>2. now \in 0..MaxNow /\ now \in Nat /\ worked \in Nat /\ pauseAt \in Nat
      /\ pauses \in Seq(Pause)
  BY HistoryAssumption DEF HistoryInv, PausesOK
<1>3. Reference = pauseAt /\ Reference' = now
  BY <1>2 DEF Reference, resolveReferenceEnd, None
<1>4. sumPauseSeconds(pauses, pauseAt) \in Nat
  BY <1>2, SumIsNatural
<1>5. worked + sumPauseSeconds(pauses, pauseAt) = pauseAt
  BY <1>3 DEF HistoryInv
<1>6. worked' + sumPauseSeconds(EndLast, Reference') = Reference'
  <2> PICK sum : sum = sumPauseSeconds(pauses, pauseAt)
    OBVIOUS
  <2>1. sumPauseSeconds(EndLast, Reference') = sum + (now - pauseAt)
    BY <1>1, <1>3
  <2>2. sum \in Nat /\ worked + sum = pauseAt /\ worked' = worked /\ Reference' = now
    BY <1>3, <1>4, <1>5
  <2> QED
    BY <1>2, <2>1, <2>2
<1>7. PausesOK'
  BY <1>1 DEF PausesOK
<1>8. \A i \in DOMAIN EndLast : EndLast[i].start <= MaxNow
  BY <1>1
<1> HIDE DEF EndLast
<1> QED
  BY <1>2, <1>6, <1>7, <1>8 DEF HistoryInv

LEMMA CheckOutInv ==
    ASSUME HistoryInv, CheckOut, status = "WORKING"
    PROVE  HistoryInv'
<1>1. /\ status' = "CHECKED_OUT" /\ outAt' = now /\ pauseAt' = None /\ pauses' = pauses
      /\ now' = now /\ worked' = worked
  BY DEF CheckOut
<1>2. now \in 0..MaxNow /\ now \in Nat /\ worked \in Nat
  BY HistoryAssumption DEF HistoryInv
<1>3. Reference = now /\ Reference' = now
  BY <1>1, <1>2 DEF Reference, resolveReferenceEnd, None
<1>4. worked' + sumPauseSeconds(pauses, Reference') = Reference'
  BY <1>1, <1>3 DEF HistoryInv
<1>5. PausesOK'
  BY <1>1 DEF HistoryInv, PausesOK
<1> QED
  BY <1>1, <1>2, <1>4, <1>5 DEF HistoryInv

LEMMA HistoryStepInv ==
    ASSUME HistoryInv, [HistoryNext]_historyVars
    PROVE  HistoryInv'
<1>1. CASE Tick
  BY <1>1, TickInv
<1>2. CASE Leave
  BY <1>2, LeaveInv
<1>3. CASE Return \/ (CheckOut /\ status = "PAUSED")
  <2>1. status # "CHECKED_OUT" => outAt = None
    BY DEF HistoryInv
  <2>2. /\ status = "PAUSED" /\ status' \in {"WORKING", "CHECKED_OUT"} /\ pauseAt' = None
        /\ pauses' = EndLast /\ outAt' = IF status' = "CHECKED_OUT" THEN now ELSE None
        /\ now' = now /\ worked' = worked
    BY <1>3, <2>1 DEF Return, CheckOut
  <2> QED
    BY <2>2, EndedInv
<1>4. CASE CheckOut /\ status # "PAUSED"
  <2>1. status = "WORKING"
    BY <1>4 DEF CheckOut, HistoryInv
  <2> QED
    BY <1>4, <2>1, CheckOutInv
<1>5. CASE UNCHANGED historyVars
  <2>1. /\ now' = now /\ status' = status /\ outAt' = outAt /\ pauseAt' = pauseAt
        /\ pauses' = pauses /\ worked' = worked
    BY <1>5 DEF historyVars
  <2>2. Reference' = Reference /\ (PausesOK => PausesOK')
    BY <2>1 DEF Reference, PausesOK
  <2> QED
    BY <2>1, <2>2 DEF HistoryInv
<1> QED
  BY <1>1, <1>2, <1>3, <1>4, <1>5 DEF HistoryNext

LEMMA CounterShown ==
    ASSUME HistoryInv
    PROVE  DerivedEqualsCounter
<1>1. pauses \in Seq(Pause) /\ worked \in Nat /\ Reference \in Nat
      /\ worked + sumPauseSeconds(pauses, Reference) = Reference
  BY ReferenceIs DEF HistoryInv, PausesOK
<1>2. sumPauseSeconds(pauses, Reference) \in Nat
  BY <1>1, SumIsNatural
<1>3. Shown = MaxOf(0, MaxOf(0, Reference - 0) - sumPauseSeconds(pauses, Reference))
  BY DEF Shown, calculateWorkingSeconds, Reference
<1>4. Shown = worked
  BY <1>1, <1>2, <1>3 DEF MaxOf
<1>5. ASSUME NEW p \in AnyPause, NEW end \in 0..now
      PROVE  sumPauseSeconds(Append(pauses, p), end) = Loop(Append(pauses, p), end)
  <2>1. p \in Pause /\ end \in Nat
    BY HistoryAssumption DEF HistoryInv, AnyPause, Pause
  <2>2. Append(pauses, p) \in Seq(Pause)
    BY <1>1, <2>1
  <2> QED
    BY <2>1, <2>2, SumIsTheLoop
<1> QED
  BY <1>4, <1>5 DEF DerivedEqualsCounter, SumIsLoop

(* The derived working time is what a per-second counter would show, after  *)
(* every history of exits, returns and a check-out of any length, and the   *)
(* loop over the pauses adds up what is paused, for pauses of any number,   *)
(* also when they overlap, end before they start or are open.               *)
THEOREM CounterIsDerived == HistorySpec => []DerivedEqualsCounter
<1>1. HistoryInit => HistoryInv
  BY HistoryInitInv
<1>2. HistoryInv /\ [HistoryNext]_historyVars => HistoryInv'
  BY HistoryStepInv
<1>3. HistoryInv => DerivedEqualsCounter
  BY CounterShown
<1> QED
  BY <1>1, <1>2, <1>3, PTL DEF HistorySpec

-----------------------------------------------------------------------------
(* Sums over finite sets *)

(* The function such a sum goes through, on the sets of what is left to add. *)
Sums(g, f, S) ==
    g = [s \in SUBSET S |-> IF s = {} THEN 0
                            ELSE LET x == CHOOSE x \in s : TRUE
                                 IN  f[x] + g[s \ {x}]]

LEMMA SumIsChosen ==
    ASSUME NEW f, NEW S
    PROVE  SumFunctionOnSet(f, S) = (CHOOSE g : Sums(g, f, S))[S]
BY Zenon DEF SumFunctionOnSet, FoldFunctionOnSet, MapThenFoldSet, Sums

(* A function that goes through the sum has it as its value. *)
LEMMA SumsOnce ==
    ASSUME NEW S, IsFiniteSet(S), NEW f, NEW g, Sums(g, f, S), NEW h, Sums(h, f, S)
    PROVE  g = h
<1> DEFINE differ == {s \in SUBSET S : g[s] # h[s]}
<1>1. g = [s \in SUBSET S |-> g[s]] /\ h = [s \in SUBSET S |-> h[s]]
  BY Zenon DEF Sums
<1> SUFFICES ASSUME differ # {} PROVE FALSE
  BY <1>1
<1>2. differ \subseteq FiniteSubsetsOf(S)
  <2> SUFFICES ASSUME NEW s \in SUBSET S PROVE IsFiniteSet(s)
    BY DEF FiniteSubsetsOf
  <2> QED
    BY FS_Subset
<1>3. PICK s \in differ : \A t \in differ : <<t, s>> \notin StrictSubsetOrdering(S)
  <2> HIDE DEF differ
  <2> QED
    BY <1>2, WFMin, FS_StrictSubsetOrderingWellFounded
<1>4. s \in SUBSET S /\ g[s] # h[s]
  BY <1>3
<1>5. g[{}] = 0 /\ h[{}] = 0
  BY DEF Sums
<1>6. s # {}
  BY <1>4, <1>5
<1>7. PICK x : x = CHOOSE y \in s : TRUE
  OBVIOUS
<1>8. x \in s
  BY <1>6, <1>7
<1>9. PICK t : t = s \ {x}
  OBVIOUS
<1>10. t \in SUBSET S /\ t \subseteq s /\ t # s
  BY <1>4, <1>8, <1>9
<1>11. g[t] = h[t]
  <2>1. <<t, s>> \in StrictSubsetOrdering(S)
    BY <1>4, <1>10 DEF StrictSubsetOrdering
  <2> QED
    BY <1>3, <1>10, <2>1
<1>12. g[s] = f[x] + g[t] /\ h[s] = f[x] + h[t]
  BY <1>4, <1>6, <1>7, <1>9, Zenon DEF Sums
<1> QED
  BY <1>4, <1>11, <1>12

LEMMA SumIs ==
    ASSUME NEW S, IsFiniteSet(S), NEW f, NEW g, Sums(g, f, S)
    PROVE  SumFunctionOnSet(f, S) = g[S]
<1>1. Sums(CHOOSE h : Sums(h, f, S), f, S)
  OBVIOUS
<1>2. (CHOOSE h : Sums(h, f, S)) = g
  BY <1>1, SumsOnce
<1> QED
  BY <1>2, SumIsChosen

(* Numbers, as many as the sum. *)
Cells(f, S) == UNION {{x} \X (1..f[x]) : x \in S}

LEMMA CellsOfOne ==
    ASSUME NEW x, NEW n \in Nat
    PROVE  IsFiniteSet({x} \X (1..n)) /\ Cardinality({x} \X (1..n)) = n
<1>1. IsFiniteSet(1..n) /\ Cardinality(1..n) = n
  BY FS_Interval
<1>2. IsFiniteSet({x}) /\ Cardinality({x}) = 1
  BY FS_Singleton
<1>3. /\ IsFiniteSet({x} \X (1..n))
      /\ Cardinality({x} \X (1..n)) = Cardinality({x}) * Cardinality(1..n)
  BY <1>1, <1>2, FS_Product
<1> QED
  BY <1>1, <1>2, <1>3

LEMMA CellsFinite ==
    ASSUME NEW S, IsFiniteSet(S), NEW f, \A x \in S : f[x] \in Nat
    PROVE  IsFiniteSet(Cells(f, S))
<1> DEFINE of == [x \in S |-> {x} \X (1..f[x])]
           all == {{x} \X (1..f[x]) : x \in S}
<1>1. of \in Surjection(S, all)
  BY DEF Surjection
<1>2. \A T \in all : IsFiniteSet(T)
  <2> SUFFICES ASSUME NEW x \in S PROVE IsFiniteSet({x} \X (1..f[x]))
    OBVIOUS
  <2>1. f[x] \in Nat
    OBVIOUS
  <2> QED
    BY <2>1, CellsOfOne
<1> HIDE DEF of, all
<1>3. IsFiniteSet(UNION all)
  BY <1>1, <1>2, FS_Surjection, FS_UNION
<1> QED
  BY <1>3 DEF all, Cells

LEMMA CellsUnion ==
    ASSUME NEW S, NEW T, NEW f
    PROVE  Cells(f, S \cup T) = Cells(f, S) \cup Cells(f, T)
BY DEF Cells

LEMMA CellsApart ==
    ASSUME NEW S, NEW T, S \cap T = {}, NEW f
    PROVE  Cells(f, S) \cap Cells(f, T) = {}
BY DEF Cells

LEMMA CellsAdd ==
    ASSUME NEW S, IsFiniteSet(S), NEW T, IsFiniteSet(T), S \cap T = {},
           NEW f, \A x \in S \cup T : f[x] \in Nat
    PROVE  Cardinality(Cells(f, S \cup T)) = Cardinality(Cells(f, S)) + Cardinality(Cells(f, T))
<1>6. PICK A : A = Cells(f, S)
  OBVIOUS
<1>7. PICK B : B = Cells(f, T)
  OBVIOUS
<1>1. IsFiniteSet(A) /\ IsFiniteSet(B)
  <2>1. (\A x \in S : f[x] \in Nat) /\ (\A x \in T : f[x] \in Nat)
    OBVIOUS
  <2> QED
    BY <1>6, <1>7, <2>1, CellsFinite
<1>2. Cells(f, S \cup T) = A \cup B /\ A \cap B = {}
  BY <1>6, <1>7, CellsUnion, CellsApart
<1>3. Cardinality(A) \in Nat /\ Cardinality(B) \in Nat
  BY <1>1, FS_CardinalityType
<1>4. Cardinality(A \cup B) = Cardinality(A) + Cardinality(B) - Cardinality(A \cap B)
  BY <1>1, FS_Union
<1>5. Cardinality(A \cap B) = 0
  BY <1>2, FS_EmptySet
<1>8. Cardinality(A \cup B) = Cardinality(A) + Cardinality(B)
  BY <1>3, <1>4, <1>5
<1> QED
  BY <1>2, <1>6, <1>7, <1>8, Zenon

LEMMA SumIsCells ==
    ASSUME NEW S, IsFiniteSet(S), NEW f, \A x \in S : f[x] \in Nat
    PROVE  /\ SumFunctionOnSet(f, S) = Cardinality(Cells(f, S))
           /\ SumFunctionOnSet(f, S) \in Nat
<1> DEFINE count == [s \in SUBSET S |-> Cardinality(Cells(f, s))]
<1>1. ASSUME NEW s \in SUBSET S
      PROVE  count[s] = IF s = {} THEN 0
                        ELSE LET x == CHOOSE x \in s : TRUE
                             IN  f[x] + count[s \ {x}]
  <2>1. CASE s = {}
    BY <2>1, FS_EmptySet DEF Cells
  <2>2. CASE s # {}
    <3>1. PICK m : m = CHOOSE x \in s : TRUE
      OBVIOUS
    <3>2. m \in s
      BY <2>2, <3>1
    <3>3. IsFiniteSet(s \ {m}) /\ IsFiniteSet({m})
      BY FS_Subset, FS_Singleton
    <3>4. s = {m} \cup (s \ {m}) /\ {m} \cap (s \ {m}) = {}
      BY <3>2
    <3>5. Cells(f, {m}) = {m} \X (1..f[m])
      BY DEF Cells
    <3>6. Cardinality(Cells(f, {m})) = f[m]
      BY <3>2, <3>5, CellsOfOne
    <3>7. Cardinality(Cells(f, {m} \cup (s \ {m})))
            = Cardinality(Cells(f, {m})) + Cardinality(Cells(f, s \ {m}))
      BY <3>2, <3>3, <3>4, CellsAdd
    <3>8. count[s] = f[m] + count[s \ {m}]
      BY <3>4, <3>6, <3>7
    <3> QED
      BY <2>2, <3>1, <3>8, Zenon
  <2> QED
    BY <2>1, <2>2
<1>2. Sums(count, f, S)
  BY <1>1, Zenon DEF Sums
<1>3. SumFunctionOnSet(f, S) = count[S]
  <2> HIDE DEF count
  <2> QED
    BY <1>2, SumIs
<1>4. Cardinality(Cells(f, S)) \in Nat
  BY CellsFinite, FS_CardinalityType
<1> QED
  BY <1>3, <1>4

LEMMA SumEmpty ==
    ASSUME NEW f
    PROVE  SumFunctionOnSet(f, {}) = 0
<1>1. IsFiniteSet({}) /\ Cardinality({}) = 0
  BY FS_EmptySet
<1>2. SumFunctionOnSet(f, {}) = Cardinality(Cells(f, {}))
  BY <1>1, SumIsCells
<1>3. Cells(f, {}) = {}
  BY DEF Cells
<1> QED
  BY <1>1, <1>2, <1>3

LEMMA SumUnion ==
    ASSUME NEW S, IsFiniteSet(S), NEW T, IsFiniteSet(T), S \cap T = {},
           NEW f, \A x \in S \cup T : f[x] \in Nat
    PROVE  SumFunctionOnSet(f, S \cup T) = SumFunctionOnSet(f, S) + SumFunctionOnSet(f, T)
<1>1. IsFiniteSet(S \cup T)
  BY FS_Union
<1>2. (\A x \in S : f[x] \in Nat) /\ (\A x \in T : f[x] \in Nat)
  OBVIOUS
<1>3. SumFunctionOnSet(f, S \cup T) = Cardinality(Cells(f, S \cup T))
  BY <1>1, SumIsCells
<1>4. SumFunctionOnSet(f, S) = Cardinality(Cells(f, S))
  BY <1>2, SumIsCells
<1>5. SumFunctionOnSet(f, T) = Cardinality(Cells(f, T))
  BY <1>2, SumIsCells
<1>6. Cardinality(Cells(f, S \cup T)) = Cardinality(Cells(f, S)) + Cardinality(Cells(f, T))
  BY CellsAdd
<1> QED
  BY <1>3, <1>4, <1>5, <1>6, Zenon

LEMMA SumOfOne ==
    ASSUME NEW x, NEW f, f[x] \in Nat
    PROVE  SumFunctionOnSet(f, {x}) = f[x]
<1>1. IsFiniteSet({x})
  BY FS_Singleton
<1>2. SumFunctionOnSet(f, {x}) = Cardinality(Cells(f, {x}))
  BY <1>1, SumIsCells
<1>3. Cells(f, {x}) = {x} \X (1..f[x])
  BY DEF Cells
<1> QED
  BY <1>2, <1>3, CellsOfOne

(* One x and the others. *)
LEMMA SumOneMore ==
    ASSUME NEW S, IsFiniteSet(S), NEW f, \A y \in S : f[y] \in Nat, NEW x \in S
    PROVE  /\ SumFunctionOnSet(f, S) = f[x] + SumFunctionOnSet(f, S \ {x})
           /\ SumFunctionOnSet(f, S \ {x}) \in Nat
<1>1. PICK T : T = S \ {x}
  OBVIOUS
<1>2. IsFiniteSet({x}) /\ IsFiniteSet(T) /\ {x} \cap T = {} /\ S = {x} \cup T
  BY <1>1, FS_Singleton, FS_Subset
<1>3. \A y \in {x} \cup T : f[y] \in Nat
  BY <1>2
<1>4. SumFunctionOnSet(f, {x} \cup T) = SumFunctionOnSet(f, {x}) + SumFunctionOnSet(f, T)
  BY <1>2, <1>3, SumUnion
<1>5. SumFunctionOnSet(f, {x}) = f[x]
  BY SumOfOne
<1>6. SumFunctionOnSet(f, T) \in Nat
  BY <1>2, <1>3, SumIsCells
<1> QED
  BY <1>1, <1>2, <1>4, <1>5, <1>6, Zenon

LEMMA SumSame ==
    ASSUME NEW S, IsFiniteSet(S), NEW f, NEW g, \A x \in S : f[x] \in Nat /\ g[x] = f[x]
    PROVE  SumFunctionOnSet(g, S) = SumFunctionOnSet(f, S)
<1>1. (\A x \in S : f[x] \in Nat) /\ (\A x \in S : g[x] \in Nat)
  OBVIOUS
<1>2. Cells(f, S) = Cells(g, S)
  <2>1. \A x \in S : {x} \X (1..f[x]) = {x} \X (1..g[x])
    OBVIOUS
  <2> QED
    BY <2>1 DEF Cells
<1>3. SumFunctionOnSet(f, S) = Cardinality(Cells(f, S))
  BY <1>1, SumIsCells
<1>4. SumFunctionOnSet(g, S) = Cardinality(Cells(g, S))
  BY <1>1, SumIsCells
<1> QED
  BY <1>2, <1>3, <1>4

LEMMA SumOfNone ==
    ASSUME NEW S, IsFiniteSet(S), NEW f, \A x \in S : f[x] = 0
    PROVE  SumFunctionOnSet(f, S) = 0
<1>1. \A x \in S : f[x] \in Nat
  OBVIOUS
<1>2. SumFunctionOnSet(f, S) = Cardinality(Cells(f, S))
  BY <1>1, SumIsCells
<1>3. Cells(f, S) = {}
  <2>1. \A x \in S : 1..f[x] = {}
    OBVIOUS
  <2>2. \A x \in S : {x} \X (1..f[x]) = {}
    BY <2>1
  <2> QED
    BY <2>2 DEF Cells
<1> QED
  BY <1>2, <1>3, FS_EmptySet

LEMMA SumOnly ==
    ASSUME NEW S, IsFiniteSet(S), NEW f, NEW x \in S, f[x] \in Nat,
           \A y \in S \ {x} : f[y] = 0
    PROVE  SumFunctionOnSet(f, S) = f[x]
<1>1. \A y \in S : f[y] \in Nat
  OBVIOUS
<1>2. IsFiniteSet(S \ {x})
  BY FS_Subset
<1>3. SumFunctionOnSet(f, S \ {x}) = 0
  BY <1>2, SumOfNone
<1>4. SumFunctionOnSet(f, S) = f[x] + SumFunctionOnSet(f, S \ {x})
  BY <1>1, SumOneMore
<1> QED
  BY <1>3, <1>4

LEMMA NoneOfZero ==
    ASSUME NEW S, IsFiniteSet(S), NEW f, \A y \in S : f[y] \in Nat,
           SumFunctionOnSet(f, S) = 0, NEW x \in S
    PROVE  f[x] = 0
<1>1. /\ SumFunctionOnSet(f, S) = f[x] + SumFunctionOnSet(f, S \ {x})
      /\ SumFunctionOnSet(f, S \ {x}) \in Nat
  BY SumOneMore
<1> QED
  BY <1>1

(* Adding two functions, and adding up by the parts of a set. *)
IsPlus(h, f, g, S) == \A x \in S : f[x] \in Nat /\ g[x] \in Nat /\ h[x] = f[x] + g[x]

LEMMA SumPlus ==
    ASSUME NEW S, IsFiniteSet(S), NEW f, NEW g, NEW h, IsPlus(h, f, g, S)
    PROVE  SumFunctionOnSet(h, S) = SumFunctionOnSet(f, S) + SumFunctionOnSet(g, S)
<1> USE DEF IsPlus
<1> DEFINE count == [s \in SUBSET S |-> SumFunctionOnSet(f, s) + SumFunctionOnSet(g, s)]
<1>1. ASSUME NEW s \in SUBSET S
      PROVE  count[s] = IF s = {} THEN 0
                        ELSE LET x == CHOOSE x \in s : TRUE
                             IN  h[x] + count[s \ {x}]
  <2>1. CASE s = {}
    <3>1. count[s] = SumFunctionOnSet(f, {}) + SumFunctionOnSet(g, {})
      BY <2>1
    <3> QED
      BY <2>1, <3>1, SumEmpty
  <2>2. CASE s # {}
    <3>1. PICK m : m = CHOOSE x \in s : TRUE
      OBVIOUS
    <3>2. m \in s /\ m \in S
      BY <2>2, <3>1
    <3>3. IsFiniteSet(s) /\ (\A y \in s : f[y] \in Nat) /\ (\A y \in s : g[y] \in Nat)
      BY FS_Subset
    <3>4. /\ SumFunctionOnSet(f, s) = f[m] + SumFunctionOnSet(f, s \ {m})
          /\ SumFunctionOnSet(f, s \ {m}) \in Nat
      BY <3>2, <3>3, SumOneMore
    <3>5. /\ SumFunctionOnSet(g, s) = g[m] + SumFunctionOnSet(g, s \ {m})
          /\ SumFunctionOnSet(g, s \ {m}) \in Nat
      BY <3>2, <3>3, SumOneMore
    <3>6. f[m] \in Nat /\ g[m] \in Nat /\ h[m] = f[m] + g[m]
      BY <3>2
    <3>7. /\ count[s] = SumFunctionOnSet(f, s) + SumFunctionOnSet(g, s)
          /\ count[s \ {m}] = SumFunctionOnSet(f, s \ {m}) + SumFunctionOnSet(g, s \ {m})
      OBVIOUS
    <3>8. count[s] = h[m] + count[s \ {m}]
      <4> HIDE DEF count
      <4> QED
        BY <3>4, <3>5, <3>6, <3>7
    <3> QED
      BY <2>2, <3>1, <3>8, Zenon
  <2> QED
    BY <2>1, <2>2
<1>2. Sums(count, h, S)
  BY <1>1, Zenon DEF Sums
<1>3. SumFunctionOnSet(h, S) = count[S]
  <2> HIDE DEF count
  <2> QED
    BY <1>2, SumIs
<1> QED
  BY <1>3

LEMMA SumOfParts ==
    ASSUME NEW F, IsFiniteSet(F), NEW S, IsFiniteSet(S), NEW f, \A x \in S : f[x] \in Nat,
           NEW part, \A t \in F : part[t] \subseteq S,
           \A t, u \in F : t # u => part[t] \cap part[u] = {},
           NEW h, \A t \in F : h[t] = SumFunctionOnSet(f, part[t])
    PROVE  SumFunctionOnSet(h, F) = SumFunctionOnSet(f, UNION {part[t] : t \in F})
<1> DEFINE PartsOf(s) == UNION {part[t] : t \in s}
           count == [s \in SUBSET F |-> SumFunctionOnSet(f, PartsOf(s))]
<1>1. ASSUME NEW s \in SUBSET F
      PROVE  count[s] = IF s = {} THEN 0
                        ELSE LET x == CHOOSE x \in s : TRUE
                             IN  h[x] + count[s \ {x}]
  <2>1. CASE s = {}
    <3>1. PartsOf(s) = {}
      BY <2>1
    <3> QED
      BY <2>1, <3>1, SumEmpty
  <2>2. CASE s # {}
    <3>1. PICK m : m = CHOOSE x \in s : TRUE
      OBVIOUS
    <3>2. m \in s /\ m \in F
      BY <2>2, <3>1
    <3>3. PICK A : A = part[m]
      OBVIOUS
    <3>4. PICK B : B = PartsOf(s \ {m})
      OBVIOUS
    <3>5. PartsOf(s) = A \cup B
      BY <3>2, <3>3, <3>4
    <3>6. A \subseteq S /\ B \subseteq S
      BY <3>2, <3>3, <3>4
    <3>7. A \cap B = {}
      BY <3>2, <3>3, <3>4
    <3>8. IsFiniteSet(A) /\ IsFiniteSet(B) /\ \A x \in A \cup B : f[x] \in Nat
      BY <3>6, FS_Subset
    <3>9. SumFunctionOnSet(f, A \cup B) = SumFunctionOnSet(f, A) + SumFunctionOnSet(f, B)
      <4> HIDE DEF PartsOf, count
      <4> QED
        BY <3>7, <3>8, SumUnion
    <3>10. count[s] = SumFunctionOnSet(f, A \cup B) /\ count[s \ {m}] = SumFunctionOnSet(f, B)
      BY <3>4, <3>5
    <3>11. h[m] = SumFunctionOnSet(f, A)
      BY <3>2, <3>3
    <3>12. count[s] = h[m] + count[s \ {m}]
      <4> HIDE DEF PartsOf, count
      <4> QED
        BY <3>9, <3>10, <3>11
    <3> QED
      BY <2>2, <3>1, <3>12, Zenon
  <2> QED
    BY <2>1, <2>2
<1>2. Sums(count, h, F)
  BY <1>1, Zenon DEF Sums
<1>3. SumFunctionOnSet(h, F) = count[F]
  <2> HIDE DEF count
  <2> QED
    BY <1>2, SumIs
<1> QED
  BY <1>3

(* What f counts in C is spread over g in A and h in B: nothing is counted  *)
(* twice, and what is not counted is nothing.                               *)
Spread(f, C, g, A, partA, h, B, partB) ==
    /\ IsFiniteSet(A) /\ IsFiniteSet(B) /\ IsFiniteSet(C) /\ \A x \in C : f[x] \in Nat
    /\ \A t \in A : partA[t] \subseteq C /\ g[t] = SumFunctionOnSet(f, partA[t])
    /\ \A t \in B : partB[t] \subseteq C /\ h[t] = SumFunctionOnSet(f, partB[t])
    /\ \A t, u \in A : t # u => partA[t] \cap partA[u] = {}
    /\ \A t, u \in B : t # u => partB[t] \cap partB[u] = {}
    /\ \A t \in A, u \in B : partA[t] \cap partB[u] = {}
    /\ \A x \in C : \/ f[x] = 0
                    \/ \E t \in A : x \in partA[t]
                    \/ \E t \in B : x \in partB[t]

LEMMA SpreadIsAll ==
    ASSUME NEW f, NEW C, NEW g, NEW A, NEW partA, NEW h, NEW B, NEW partB,
           Spread(f, C, g, A, partA, h, B, partB)
    PROVE  SumFunctionOnSet(g, A) + SumFunctionOnSet(h, B) = SumFunctionOnSet(f, C)
<1> USE DEF Spread
<1>1. PICK P : P = UNION {partA[t] : t \in A}
  OBVIOUS
<1>2. PICK Q : Q = UNION {partB[t] : t \in B}
  OBVIOUS
<1>3. PICK R : R = C \ (P \cup Q)
  OBVIOUS
<1>4. P \subseteq C /\ Q \subseteq C /\ P \cap Q = {}
  BY <1>1, <1>2
<1>5. SumFunctionOnSet(g, A) = SumFunctionOnSet(f, P)
  BY <1>1, SumOfParts
<1>6. SumFunctionOnSet(h, B) = SumFunctionOnSet(f, Q)
  BY <1>2, SumOfParts
<1>7. \A x \in R : f[x] = 0
  BY <1>1, <1>2, <1>3
<1>8. IsFiniteSet(P) /\ IsFiniteSet(Q) /\ IsFiniteSet(R) /\ IsFiniteSet(P \cup Q)
  BY <1>3, <1>4, FS_Subset
<1>9. SumFunctionOnSet(f, R) = 0
  BY <1>7, <1>8, SumOfNone
<1>10. \A x \in (P \cup Q) \cup R : f[x] \in Nat
  BY <1>3, <1>4
<1>11. SumFunctionOnSet(f, P \cup Q) = SumFunctionOnSet(f, P) + SumFunctionOnSet(f, Q)
  BY <1>4, <1>8, <1>10, SumUnion
<1>12. SumFunctionOnSet(f, (P \cup Q) \cup R)
         = SumFunctionOnSet(f, P \cup Q) + SumFunctionOnSet(f, R)
  <2>1. (P \cup Q) \cap R = {}
    BY <1>3
  <2> QED
    BY <2>1, <1>8, <1>10, SumUnion
<1>13. C = (P \cup Q) \cup R
  BY <1>3, <1>4
<1>14. SumFunctionOnSet(f, P \cup Q) \in Nat
  BY <1>8, <1>10, SumIsCells
<1> QED
  BY <1>5, <1>6, <1>9, <1>11, <1>12, <1>13, <1>14

-----------------------------------------------------------------------------
(* ReportedHours: what sessions and credits are, and the two ids *)

ReportInv ==
    /\ sessions \in Seq([emp : StaffIds, date : Days, live : BOOLEAN, regular : {1}])
    /\ credits \in Seq([emp : StaffIds, date : Days, seconds : Nat])

LEMMA CleanStays ==
    ASSUME NEW e \in Staff, NEW id \in StaffIds, NEW known
    PROVE  cleanEmployeeId(id, known) \in e <=> id \in e
<1>1. PICK f \in Staff : id \in f
  BY DEF StaffIds
<1>2. CodeOf[id] \in f
  BY <1>1, StaffAssumption
<1>3. CodeOf[id] \in e => f = e
  BY <1>2, StaffAssumption
<1>4. id \in e => f = e
  BY <1>1, StaffAssumption
<1> QED
  BY <1>1, <1>2, <1>3, <1>4 DEF cleanEmployeeId

LEMMA RowsAre ==
    ASSUME ReportInv
    PROVE  /\ IsFiniteSet(DOMAIN sessions) /\ IsFiniteSet(DOMAIN credits)
           /\ DOMAIN sessions = 1..Len(sessions) /\ Len(sessions) \in Nat
           /\ DOMAIN credits = 1..Len(credits) /\ Len(credits) \in Nat
           /\ \A i \in DOMAIN sessions : sessions[i].emp \in StaffIds /\ sessions[i].regular = 1
           /\ \A i \in DOMAIN credits : credits[i].emp \in StaffIds /\ credits[i].seconds \in Nat
<1>1. /\ DOMAIN sessions = 1..Len(sessions) /\ Len(sessions) \in Nat
      /\ DOMAIN credits = 1..Len(credits) /\ Len(credits) \in Nat
  BY DEF ReportInv
<1>2. IsFiniteSet(DOMAIN sessions) /\ IsFiniteSet(DOMAIN credits)
  BY <1>1, FS_Interval
<1>3. \A i \in DOMAIN sessions : sessions[i].emp \in StaffIds /\ sessions[i].regular = 1
  <2> SUFFICES ASSUME NEW i \in DOMAIN sessions
               PROVE  sessions[i].emp \in StaffIds /\ sessions[i].regular = 1
    OBVIOUS
  <2>1. sessions[i] \in [emp : StaffIds, date : Days, live : BOOLEAN, regular : {1}]
    BY <1>1, ElementOfSeq DEF ReportInv
  <2> QED
    BY <2>1
<1>4. \A i \in DOMAIN credits : credits[i].emp \in StaffIds /\ credits[i].seconds \in Nat
  <2> SUFFICES ASSUME NEW i \in DOMAIN credits
               PROVE  credits[i].emp \in StaffIds /\ credits[i].seconds \in Nat
    OBVIOUS
  <2>1. credits[i] \in [emp : StaffIds, date : Days, seconds : Nat]
    BY <1>1, ElementOfSeq DEF ReportInv
  <2> QED
    BY <2>1
<1> QED
  BY <1>1, <1>2, <1>3, <1>4

(* The hours of rows that stand for some sessions or credits xs. *)
LEMMA HoursOfRows ==
    ASSUME NEW e \in Staff, NEW day, NEW xs, IsFiniteSet(DOMAIN xs),
           NEW special, DOMAIN special \subseteq DOMAIN xs,
           \A i \in DOMAIN special : xs[i].emp \in StaffIds /\ special[i] \in Nat,
           NEW regular, \A i \in DOMAIN special : regular[i] \in Nat,
           NEW rows, DOMAIN rows = DOMAIN special,
           \A i \in DOMAIN special :
               /\ rows[i].emp = cleanEmployeeId(xs[i].emp, cached) /\ rows[i].date = xs[i].date
               /\ rows[i].regular = regular[i] /\ rows[i].special = special[i],
           NEW S, S = DOMAIN special \cap OfIds(xs, e, {day})
    PROVE  HoursIn(rows, e, day) = SumFunctionOnSet(regular, S) + SumFunctionOnSet(special, S)
<1>1. OfIds(rows, e, {day}) = S
  <2>1. \A i \in DOMAIN special : rows[i].emp \in e <=> xs[i].emp \in e
    BY CleanStays
  <2> QED
    BY <2>1 DEF OfIds, OfDays
<1>2. PICK both : both = [i \in DOMAIN rows |-> rows[i].regular + rows[i].special]
  OBVIOUS
<1>3. HoursIn(rows, e, day) = SumFunctionOnSet(both, S)
  BY <1>1, <1>2 DEF HoursIn
<1>4. IsPlus(both, regular, special, S)
  BY <1>2 DEF IsPlus
<1>5. IsFiniteSet(S)
  BY FS_Subset DEF OfIds, OfDays
<1>6. SumFunctionOnSet(both, S) = SumFunctionOnSet(regular, S) + SumFunctionOnSet(special, S)
  BY <1>4, <1>5, SumPlus
<1> QED
  BY <1>3, <1>6

SecondsOf == [i \in DOMAIN credits |-> credits[i].seconds]

(* A view that gives out the credits of an employee and day shows the hours *)
(* of that employee and day.                                                *)
LEMMA GivenOut ==
    ASSUME ReportInv, NEW e \in Staff, NEW day,
           NEW A, A = OfIds(sessions, e, {day}),
           NEW special, A \subseteq DOMAIN special, DOMAIN special \subseteq DOMAIN sessions,
           \A i \in DOMAIN special : special[i] \in Nat,
           NEW extra, DOMAIN extra \subseteq DOMAIN credits,
           \A i \in DOMAIN extra : extra[i] \in Nat,
           NEW C, C = OfIds(credits, e, {day}), NEW B, B = DOMAIN extra \cap C,
           SumFunctionOnSet(special, A) + SumFunctionOnSet(extra, B)
             = SumFunctionOnSet(SecondsOf, C)
    PROVE  ShownOf(View(sessions, special, credits, extra, cached), e, day) = Earned(e, day)
<1>1. PICK view : view = View(sessions, special, credits, extra, cached)
  OBVIOUS
<1>2. PICK regular : regular = [i \in DOMAIN sessions |-> sessions[i].regular]
  OBVIOUS
<1>3. PICK none : none = [i \in DOMAIN extra |-> 0]
  OBVIOUS
<1>4. IsFiniteSet(A) /\ IsFiniteSet(B) /\ A = DOMAIN special \cap OfIds(sessions, e, {day})
  <2>1. A \subseteq DOMAIN sessions /\ B \subseteq DOMAIN credits
    BY DEF OfIds, OfDays
  <2> QED
    BY <2>1, RowsAre, FS_Subset
<1>5. HoursIn(view.sessions, e, day) = SumFunctionOnSet(regular, A) + SumFunctionOnSet(special, A)
  <2>1. PICK rows : rows = view.sessions
    OBVIOUS
  <2>2. /\ DOMAIN rows = DOMAIN special
        /\ \A i \in DOMAIN special :
               /\ rows[i].emp = cleanEmployeeId(sessions[i].emp, cached)
               /\ rows[i].date = sessions[i].date
               /\ rows[i].regular = regular[i] /\ rows[i].special = special[i]
    BY <1>1, <1>2, <2>1 DEF View, SessionRow
  <2>3. \A i \in DOMAIN special : sessions[i].emp \in StaffIds /\ regular[i] \in Nat
    BY <1>2, RowsAre
  <2>4. IsFiniteSet(DOMAIN sessions)
    BY RowsAre
  <2>5. PICK S : S = DOMAIN special \cap OfIds(sessions, e, {day})
    OBVIOUS
  <2>6. HoursIn(rows, e, day) = SumFunctionOnSet(regular, S) + SumFunctionOnSet(special, S)
    BY <2>2, <2>3, <2>4, <2>5, HoursOfRows
  <2> QED
    BY <1>4, <2>1, <2>5, <2>6
<1>6. HoursIn(view.specials, e, day) = SumFunctionOnSet(none, B) + SumFunctionOnSet(extra, B)
  <2>1. PICK rows : rows = view.specials
    OBVIOUS
  <2>2. /\ DOMAIN rows = DOMAIN extra
        /\ \A i \in DOMAIN extra :
               /\ rows[i].emp = cleanEmployeeId(credits[i].emp, cached)
               /\ rows[i].date = credits[i].date
               /\ rows[i].regular = none[i] /\ rows[i].special = extra[i]
    BY <1>1, <1>3, <2>1 DEF View, SpecialRow
  <2>3. \A i \in DOMAIN extra : credits[i].emp \in StaffIds /\ none[i] \in Nat
    BY <1>3, RowsAre
  <2>4. IsFiniteSet(DOMAIN credits)
    BY RowsAre
  <2>5. HoursIn(rows, e, day) = SumFunctionOnSet(none, B) + SumFunctionOnSet(extra, B)
    BY <2>2, <2>3, <2>4, HoursOfRows
  <2> QED
    BY <2>1, <2>5
<1>7. SumFunctionOnSet(none, B) = 0
  <2>1. \A i \in B : none[i] = 0
    BY <1>3
  <2> QED
    BY <1>4, <2>1, SumOfNone
<1>8. Earned(e, day) = SumFunctionOnSet(regular, A) + SumFunctionOnSet(SecondsOf, C)
  BY <1>2 DEF Earned, Seconds, SecondsOf
<1>9. SumFunctionOnSet(regular, A) \in Nat
  <2>1. \A i \in A : regular[i] \in Nat
    BY <1>2, <1>4, RowsAre DEF OfIds, OfDays
  <2> QED
    BY <1>4, <2>1, SumIsCells
<1>10. SumFunctionOnSet(special, A) \in Nat
  BY <1>4, SumIsCells
<1>11. SumFunctionOnSet(extra, B) \in Nat
  BY <1>4, SumIsCells
<1>12. ShownOf(view, e, day) = HoursIn(view.sessions, e, day) + HoursIn(view.specials, e, day)
  BY DEF ShownOf
<1> QED
  BY <1>1, <1>5, <1>6, <1>7, <1>8, <1>9, <1>10, <1>11, <1>12

(* Of a set of rows there is a first and a last. *)
LEMMA FirstAndLast ==
    ASSUME NEW n \in Nat, NEW S, S \subseteq 1..n, S # {}
    PROVE  /\ Min(S) \in S /\ \A i \in S : Min(S) <= i
           /\ Max(S) \in S /\ \A i \in S : Max(S) >= i
<1>1. \E x \in S : \A y \in S : x <= y
  <2>1. S \subseteq Nat
    OBVIOUS
  <2> QED
    BY <2>1, LeastElement
<1> QED
  BY <1>1, MaxIsIn DEF Min

(* Together they are a number of seconds. *)
LEMMA SecondsAre ==
    ASSUME ReportInv, NEW S, S \subseteq DOMAIN credits
    PROVE  /\ Seconds(credits, S) = SumFunctionOnSet(SecondsOf, S)
           /\ Seconds(credits, S) \in Nat
           /\ IsFiniteSet(S) /\ \A i \in S : SecondsOf[i] \in Nat
<1>1. IsFiniteSet(S)
  BY RowsAre, FS_Subset
<1>2. \A i \in S : SecondsOf[i] \in Nat
  BY RowsAre DEF SecondsOf
<1>3. Seconds(credits, S) = SumFunctionOnSet(SecondsOf, S)
  BY DEF Seconds, SecondsOf
<1> QED
  BY <1>1, <1>2, <1>3, SumIsCells

-----------------------------------------------------------------------------
(* The employee's day *)

LEMMA TodayShows ==
    ASSUME ReportInv, NEW e \in Staff, NEW day
    PROVE  ShownOf(getToday(sessions, credits, e, day, cached), e, day) = Earned(e, day)
<1>1. PICK A : A = OfIds(sessions, e, {day})
  OBVIOUS
<1>2. PICK C : C = OfIds(credits, e, {day})
  OBVIOUS
<1>3. PICK total : total = Seconds(credits, C)
  OBVIOUS
<1>4. PICK left : left = IF A = {} /\ total > 0 THEN {Min(C)} ELSE {}
  OBVIOUS
<1>5. PICK special : special = [i \in A |-> IF i = Target(sessions, A) THEN total ELSE 0]
  OBVIOUS
<1>6. PICK extra : extra = [i \in left |-> total]
  OBVIOUS
<1>7. getToday(sessions, credits, e, day, cached) = View(sessions, special, credits, extra, cached)
  BY <1>1, <1>2, <1>3, <1>4, <1>5, <1>6 DEF getToday
<1>8. A \subseteq DOMAIN sessions /\ C \subseteq DOMAIN credits
  BY <1>1, <1>2 DEF OfIds, OfDays
<1>9. total \in Nat /\ total = SumFunctionOnSet(SecondsOf, C)
  BY <1>3, <1>8, SecondsAre
<1>10. IsFiniteSet(A)
  BY <1>8, RowsAre, FS_Subset
<1>11. left \subseteq C
  <2>1. C = {} => total = 0
    BY <1>9, SumEmpty
  <2>2. C # {} => Min(C) \in C
    BY <1>8, RowsAre, FirstAndLast
  <2> QED
    BY <1>4, <2>1, <2>2
<1>12. SumFunctionOnSet(special, A) + SumFunctionOnSet(extra, left) = total
  <2>1. CASE A # {}
    <3>1. Target(sessions, A) \in A
      <4>1. PICK live : live = {i \in A : sessions[i].live}
        OBVIOUS
      <4>2. live # {} => Min(live) \in live
        BY <1>8, <4>1, RowsAre, FirstAndLast
      <4>3. Max(A) \in A
        BY <1>8, <2>1, RowsAre, FirstAndLast
      <4> QED
        BY <4>1, <4>2, <4>3 DEF Target
    <3>2. SumFunctionOnSet(special, A) = total
      <4>1. PICK t \in A : t = Target(sessions, A)
        BY <3>1
      <4>2. special[t] = total /\ \A i \in A \ {t} : special[i] = 0
        BY <1>5, <4>1
      <4> QED
        BY <1>9, <1>10, <4>2, SumOnly
    <3>3. left = {}
      BY <1>4, <2>1
    <3> QED
      BY <1>9, <3>2, <3>3, SumEmpty
  <2>2. CASE A = {} /\ total > 0
    <3>1. left = {Min(C)} /\ extra[Min(C)] = total
      BY <1>4, <1>6, <2>2
    <3>2. SumFunctionOnSet(extra, left) = total
      BY <1>9, <3>1, SumOfOne
    <3> QED
      BY <1>9, <2>2, <3>2, SumEmpty
  <2>3. CASE A = {} /\ ~(total > 0)
    <3>1. left = {} /\ total = 0
      BY <1>4, <1>9, <2>3
    <3> QED
      BY <2>3, <3>1, SumEmpty
  <2> QED
    BY <2>1, <2>2, <2>3
<1>13. /\ DOMAIN special = A /\ DOMAIN extra = left /\ left = left \cap C
       /\ \A i \in A : special[i] \in Nat
       /\ \A i \in left : extra[i] \in Nat
  BY <1>5, <1>6, <1>9, <1>11
<1>14. ShownOf(View(sessions, special, credits, extra, cached), e, day) = Earned(e, day)
  BY <1>1, <1>2, <1>8, <1>9, <1>11, <1>12, <1>13, GivenOut
<1> QED
  BY <1>7, <1>14

-----------------------------------------------------------------------------
(* The histories *)

(* A key is of the employee and day, or of another, for sessions and        *)
(* credits alike.                                                           *)
KeysFit(keys, A, ckeys, C) ==
    /\ A \subseteq DOMAIN keys /\ DOMAIN keys \subseteq DOMAIN sessions
    /\ C \subseteq DOMAIN ckeys /\ DOMAIN ckeys \subseteq DOMAIN credits
    /\ \A i \in DOMAIN keys, j \in DOMAIN ckeys : keys[i] = ckeys[j] => (i \in A <=> j \in C)
    /\ \A i, j \in DOMAIN ckeys : ckeys[i] = ckeys[j] => (i \in C <=> j \in C)

LEMMA CreditedShows ==
    ASSUME ReportInv, NEW e \in Staff, NEW day,
           NEW A, A = OfIds(sessions, e, {day}), NEW C, C = OfIds(credits, e, {day}),
           NEW keys, NEW ckeys, KeysFit(keys, A, ckeys, C)
    PROVE  ShownOf(Credited(sessions, keys, credits, ckeys, cached), e, day) = Earned(e, day)
<1> USE DEF KeysFit
<1> DEFINE With(k) == {i \in DOMAIN ckeys : ckeys[i] = k}
<1>1. PICK left : left = {i \in DOMAIN ckeys :
                             /\ \A j \in DOMAIN ckeys : j < i => ckeys[j] # ckeys[i]
                             /\ \A j \in DOMAIN keys : keys[j] # ckeys[i]
                             /\ Seconds(credits, With(ckeys[i])) > 0}
  OBVIOUS
<1>2. PICK special : special = [i \in DOMAIN keys |->
                                   IF Seen(keys, i) THEN 0 ELSE Seconds(credits, With(keys[i]))]
  OBVIOUS
<1>3. PICK extra : extra = [i \in left |-> Seconds(credits, With(ckeys[i]))]
  OBVIOUS
<1>4. Credited(sessions, keys, credits, ckeys, cached)
        = View(sessions, special, credits, extra, cached)
  BY <1>1, <1>2, <1>3 DEF Credited
<1>5. \A k : With(k) \subseteq DOMAIN credits
  OBVIOUS
<1>6. /\ \A i \in DOMAIN special : special[i] \in Nat
      /\ \A i \in DOMAIN extra : extra[i] \in Nat
      /\ DOMAIN special = DOMAIN keys /\ DOMAIN extra = left
      /\ left \subseteq DOMAIN ckeys
  <2> HIDE DEF With
  <2>1. \A k : Seconds(credits, With(k)) \in Nat
    BY <1>5, SecondsAre
  <2> QED
    BY <1>1, <1>2, <1>3, <2>1
<1>7. PICK B : B = left \cap C
  OBVIOUS
<1>8. PICK partA : partA = [i \in A |-> IF Seen(keys, i) THEN {} ELSE With(keys[i])]
  OBVIOUS
<1>9. PICK partB : partB = [i \in B |-> With(ckeys[i])]
  OBVIOUS
<1>10. (\A i \in A : partA[i] \subseteq C) /\ (\A i \in B : partB[i] \subseteq C)
  BY <1>1, <1>7, <1>8, <1>9
<1>11. DOMAIN keys \subseteq Nat /\ DOMAIN ckeys \subseteq Nat
  BY RowsAre
<1>12. \A i, j \in A : i # j => partA[i] \cap partA[j] = {}
  <2> SUFFICES ASSUME NEW i \in A, NEW j \in A, i # j, NEW x \in partA[i], x \in partA[j]
               PROVE  FALSE
    OBVIOUS
  <2>1. ~Seen(keys, i) /\ ~Seen(keys, j) /\ x \in With(keys[i]) /\ x \in With(keys[j])
    BY <1>8
  <2>2. keys[i] = keys[j]
    BY <2>1
  <2>3. i < j \/ j < i
    BY <1>11
  <2> QED
    BY <2>1, <2>2, <2>3 DEF Seen
<1>13. \A i, j \in B : i # j => partB[i] \cap partB[j] = {}
  <2> SUFFICES ASSUME NEW i \in B, NEW j \in B, i # j, NEW x \in partB[i], x \in partB[j]
               PROVE  FALSE
    OBVIOUS
  <2>1. ckeys[i] = ckeys[j]
    BY <1>9
  <2>2. i \in left /\ j \in left
    BY <1>7
  <2>3. i < j \/ j < i
    BY <1>6, <1>11, <2>2
  <2> QED
    BY <1>1, <2>1, <2>2, <2>3
<1>14. \A i \in A, j \in B : partA[i] \cap partB[j] = {}
  <2> SUFFICES ASSUME NEW i \in A, NEW j \in B, NEW x \in partA[i], x \in partB[j]
               PROVE  FALSE
    OBVIOUS
  <2>1. x \in With(keys[i]) /\ x \in With(ckeys[j])
    BY <1>8, <1>9
  <2>2. keys[i] = ckeys[j] /\ i \in DOMAIN keys
    BY <2>1
  <2> QED
    BY <1>1, <1>7, <2>2
<1>15. \A x \in C : \/ SecondsOf[x] = 0
                    \/ \E i \in A : x \in partA[i]
                    \/ \E i \in B : x \in partB[i]
  <2> SUFFICES ASSUME NEW x \in C, SecondsOf[x] # 0
               PROVE  (\E i \in A : x \in partA[i]) \/ (\E i \in B : x \in partB[i])
    OBVIOUS
  <2>1. PICK k : k = ckeys[x]
    OBVIOUS
  <2>2. x \in With(k) /\ x \in DOMAIN ckeys
    BY <2>1
  <2>3. CASE \E i \in DOMAIN keys : keys[i] = k
    <3>1. PICK S : S = {i \in DOMAIN keys : keys[i] = k}
      OBVIOUS
    <3>2. S \subseteq 1..Len(sessions) /\ Len(sessions) \in Nat /\ S # {}
      BY <2>3, <3>1, RowsAre
    <3>3. PICK i \in S : \A j \in S : i >= j
      BY <3>2, FirstAndLast
    <3>4. i \in DOMAIN keys /\ keys[i] = k /\ ~Seen(keys, i)
      <4>1. \A j \in S : ~(j > i)
        BY <1>11, <3>1, <3>3
      <4> QED
        BY <3>1, <4>1 DEF Seen
    <3>5. i \in A
      BY <2>1, <2>2, <3>4
    <3> QED
      BY <1>8, <2>2, <3>4, <3>5
  <2>4. CASE \A i \in DOMAIN keys : keys[i] # k
    <3>1. PICK S : S = With(k)
      OBVIOUS
    <3>2. S \subseteq 1..Len(credits) /\ Len(credits) \in Nat /\ S # {}
      BY <2>2, <3>1, RowsAre
    <3>3. PICK i \in S : \A j \in S : i <= j
      BY <3>2, FirstAndLast
    <3>4. i \in DOMAIN ckeys /\ ckeys[i] = k
      BY <3>1
    <3>5. \A j \in DOMAIN ckeys : j < i => ckeys[j] # ckeys[i]
      <4> SUFFICES ASSUME NEW j \in DOMAIN ckeys, j < i, ckeys[j] = k PROVE FALSE
        BY <3>4
      <4>1. j \in S /\ i \in Nat /\ j \in Nat
        BY <1>11, <3>1, <3>4
      <4> QED
        BY <3>3, <4>1
    <3>6. Seconds(credits, S) > 0
      <4>1. S \subseteq DOMAIN credits
        BY <3>1
      <4>2. /\ Seconds(credits, S) = SumFunctionOnSet(SecondsOf, S) /\ Seconds(credits, S) \in Nat
            /\ IsFiniteSet(S) /\ \A y \in S : SecondsOf[y] \in Nat
        BY <4>1, SecondsAre
      <4>3. SumFunctionOnSet(SecondsOf, S) # 0
        BY <2>2, <3>1, <4>2, NoneOfZero
      <4> QED
        BY <4>2, <4>3
    <3>7. i \in left
      BY <1>1, <2>4, <3>1, <3>4, <3>5, <3>6
    <3>8. i \in C
      BY <2>1, <2>2, <3>4
    <3> QED
      BY <1>7, <1>9, <2>2, <3>4, <3>7, <3>8
  <2> QED
    BY <2>3, <2>4
<1>16. /\ C \subseteq DOMAIN credits /\ A \subseteq DOMAIN sessions /\ B \subseteq DOMAIN credits
       /\ IsFiniteSet(A) /\ IsFiniteSet(B) /\ IsFiniteSet(C)
  BY <1>7, RowsAre, FS_Subset DEF OfIds, OfDays
<1>17. \A i \in A : special[i] = SumFunctionOnSet(SecondsOf, partA[i])
  <2> SUFFICES ASSUME NEW i \in A PROVE special[i] = SumFunctionOnSet(SecondsOf, partA[i])
    OBVIOUS
  <2>1. CASE Seen(keys, i)
    <3>1. partA[i] = {} /\ special[i] = 0
      BY <1>2, <1>8, <2>1
    <3> QED
      BY <3>1, SumEmpty
  <2>2. CASE ~Seen(keys, i)
    <3>1. partA[i] = With(keys[i]) /\ special[i] = Seconds(credits, With(keys[i]))
      BY <1>2, <1>8, <2>2
    <3> QED
      BY <3>1, <1>5, SecondsAre
  <2> QED
    BY <2>1, <2>2
<1>18. \A i \in B : extra[i] = SumFunctionOnSet(SecondsOf, partB[i])
  <2> HIDE DEF With
  <2>1. \A k : Seconds(credits, With(k)) = SumFunctionOnSet(SecondsOf, With(k))
    BY <1>5, SecondsAre
  <2> QED
    BY <1>3, <1>7, <1>9, <2>1
<1> HIDE DEF With
<1>19. \A i \in C : SecondsOf[i] \in Nat
  BY <1>16, SecondsAre
<1>20. SumFunctionOnSet(special, A) + SumFunctionOnSet(extra, B)
         = SumFunctionOnSet(SecondsOf, C)
  <2>1. Spread(SecondsOf, C, special, A, partA, extra, B, partB)
    BY <1>10, <1>12, <1>13, <1>14, <1>15, <1>16, <1>17, <1>18, <1>19 DEF Spread
  <2> QED
    BY <2>1, SpreadIsAll
<1>21. ShownOf(View(sessions, special, credits, extra, cached), e, day) = Earned(e, day)
  <2>1. DOMAIN extra \subseteq DOMAIN credits /\ B = DOMAIN extra \cap C
    BY <1>6, <1>7
  <2> QED
    BY <1>6, <1>20, <2>1, GivenOut
<1> QED
  BY <1>4, <1>21

LEMMA HistoryShows ==
    ASSUME ReportInv, NEW e \in Staff, NEW days, NEW day \in days
    PROVE  ShownOf(getHistory(sessions, credits, e, days, cached), e, day) = Earned(e, day)
<1>1. PICK A : A = OfIds(sessions, e, {day})
  OBVIOUS
<1>2. PICK C : C = OfIds(credits, e, {day})
  OBVIOUS
<1>3. PICK keys : keys = Dates(sessions, OfIds(sessions, e, days))
  OBVIOUS
<1>4. PICK ckeys : ckeys = Dates(credits, OfIds(credits, e, days))
  OBVIOUS
<1>5. /\ A \subseteq DOMAIN keys /\ DOMAIN keys \subseteq DOMAIN sessions
      /\ C \subseteq DOMAIN ckeys /\ DOMAIN ckeys \subseteq DOMAIN credits
  BY <1>1, <1>2, <1>3, <1>4 DEF Dates, OfIds, OfDays
<1>6. /\ \A i \in DOMAIN keys : i \in A <=> keys[i] = day
      /\ \A i \in DOMAIN ckeys : i \in C <=> ckeys[i] = day
  BY <1>1, <1>2, <1>3, <1>4 DEF Dates, OfIds, OfDays
<1>7. ShownOf(Credited(sessions, keys, credits, ckeys, cached), e, day) = Earned(e, day)
  <2>1. KeysFit(keys, A, ckeys, C)
    BY <1>5, <1>6 DEF KeysFit
  <2> QED
    BY <1>1, <1>2, <2>1, CreditedShows
<1> QED
  BY <1>3, <1>4, <1>7 DEF getHistory

LEMMA AllHistoryShows ==
    ASSUME ReportInv, NEW e \in Staff, NEW days, NEW day \in days
    PROVE  ShownOf(getAllHistory(sessions, credits, days, cached), e, day) = Earned(e, day)
<1>1. PICK A : A = OfIds(sessions, e, {day})
  OBVIOUS
<1>2. PICK C : C = OfIds(credits, e, {day})
  OBVIOUS
<1>3. PICK keys : keys = EmployeesAndDates(sessions, OfDays(sessions, days))
  OBVIOUS
<1>4. PICK ckeys : ckeys = EmployeesAndDates(credits, OfDays(credits, days))
  OBVIOUS
<1>5. /\ A \subseteq DOMAIN keys /\ DOMAIN keys \subseteq DOMAIN sessions
      /\ C \subseteq DOMAIN ckeys /\ DOMAIN ckeys \subseteq DOMAIN credits
  BY <1>1, <1>2, <1>3, <1>4 DEF EmployeesAndDates, OfIds, OfDays
<1>6. /\ \A i \in DOMAIN keys : i \in A <=> keys[i][1] \in e /\ keys[i][2] = day
      /\ \A i \in DOMAIN ckeys : i \in C <=> ckeys[i][1] \in e /\ ckeys[i][2] = day
  BY <1>1, <1>2, <1>3, <1>4 DEF EmployeesAndDates, OfIds, OfDays
<1>7. ShownOf(Credited(sessions, keys, credits, ckeys, cached), e, day) = Earned(e, day)
  <2>1. KeysFit(keys, A, ckeys, C)
    BY <1>5, <1>6 DEF KeysFit
  <2> QED
    BY <1>1, <1>2, <2>1, CreditedShows
<1> QED
  BY <1>3, <1>4, <1>7 DEF getAllHistory

-----------------------------------------------------------------------------
(* Everybody's day: who goes ahead *)

(* Neither id of row i is done, or those before have it.                    *)
IsFree(emp, i, done, known, before) ==
    {emp[i], cleanEmployeeId(emp[i], known)}
        \cap (done \cup UNION {BothIds(emp[j], known) : j \in before}) = {}

Before(emp, i, goes) == {m \in DOMAIN emp : m < i /\ goes[m]}

(* Which of the rows in D go ahead, as the recursion has it.                *)
GoesBy(goes, emp, D, done, known) ==
    goes = [i \in D |-> IsFree(emp, i, done, known, Before(emp, i, goes))]

LEMMA GoesOneMore ==
    ASSUME NEW n \in Nat, NEW emp, DOMAIN emp \subseteq 1..n, NEW done, NEW known, NEW k \in Nat,
           NEW goes, GoesBy(goes, emp, DOMAIN emp \cap 1..k, done, known)
    PROVE  \E more : GoesBy(more, emp, DOMAIN emp \cap 1..(k + 1), done, known)
<1>1. PICK D : D = DOMAIN emp \cap 1..(k + 1)
  OBVIOUS
<1>2. PICK more : more = [i \in D |-> IsFree(emp, i, done, known, Before(emp, i, goes))]
  OBVIOUS
<1>3. ASSUME NEW m \in D, m <= k
      PROVE  goes[m] = more[m]
  <2>1. m \in DOMAIN emp \cap 1..k
    BY <1>1, <1>3
  <2>2. goes[m] = IsFree(emp, m, done, known, Before(emp, m, goes))
    BY <2>1, Zenon DEF GoesBy
  <2> QED
    BY <1>2, <2>2
<1>4. ASSUME NEW i \in D
      PROVE  Before(emp, i, more) = Before(emp, i, goes)
  <2>1. \A m \in DOMAIN emp : m < i => m \in D /\ m <= k
    BY <1>1
  <2> QED
    BY <1>3, <2>1 DEF Before
<1>5. more = [i \in D |-> IsFree(emp, i, done, known, Before(emp, i, more))]
  BY <1>2, <1>4
<1>6. GoesBy(more, emp, D, done, known)
  BY <1>5, Zenon DEF GoesBy
<1> QED
  BY <1>1, <1>6

LEMMA GoesExists ==
    ASSUME NEW n \in Nat, NEW emp, DOMAIN emp \subseteq 1..n, NEW done, NEW known
    PROVE  \E goes : GoesBy(goes, emp, DOMAIN emp, done, known)
<1> DEFINE S == {k \in Nat : \E goes : GoesBy(goes, emp, DOMAIN emp \cap 1..k, done, known)}
<1>1. 0 \in S
  <2>1. PICK goes : goes = [i \in {} |-> {}]
    OBVIOUS
  <2>2. DOMAIN emp \cap 1..0 = {}
    OBVIOUS
  <2>3. goes = [i \in {} |-> IsFree(emp, i, done, known, Before(emp, i, goes))]
    BY <2>1
  <2>4. GoesBy(goes, emp, DOMAIN emp \cap 1..0, done, known)
    BY <2>2, <2>3, Zenon DEF GoesBy
  <2> QED
    BY <2>4
<1>2. \A k \in Nat : k \in S => k + 1 \in S
  <2> SUFFICES ASSUME NEW k \in Nat, k \in S PROVE k + 1 \in S
    OBVIOUS
  <2>1. PICK goes : GoesBy(goes, emp, DOMAIN emp \cap 1..k, done, known)
    OBVIOUS
  <2>2. \E more : GoesBy(more, emp, DOMAIN emp \cap 1..(k + 1), done, known)
    BY <2>1, GoesOneMore
  <2> QED
    BY <2>2
<1> HIDE DEF S
<1>3. n \in S
  BY <1>1, <1>2, EveryNatural
<1>4. DOMAIN emp \cap 1..n = DOMAIN emp
  OBVIOUS
<1> QED
  BY <1>3, <1>4 DEF S

(* Those who go ahead are those who are free of the ones who do before.     *)
LEMMA GoAheadIs ==
    ASSUME NEW n \in Nat, NEW emp, DOMAIN emp \subseteq 1..n, NEW done, NEW known,
           NEW G, G = GoAhead(emp, done, known)
    PROVE  /\ G \subseteq DOMAIN emp
           /\ \A i \in DOMAIN emp : i \in G <=> IsFree(emp, i, done, known, {m \in G : m < i})
<1>1. PICK goes : goes = CHOOSE g : GoesBy(g, emp, DOMAIN emp, done, known)
  OBVIOUS
<1>2. G = {i \in DOMAIN emp : goes[i]}
  BY <1>1, Zenon DEF GoAhead, GoesBy, IsFree, Before
<1>3. GoesBy(goes, emp, DOMAIN emp, done, known)
  BY <1>1, GoesExists
<1>4. ASSUME NEW i \in DOMAIN emp
      PROVE  i \in G <=> IsFree(emp, i, done, known, {m \in G : m < i})
  <2>1. goes[i] = IsFree(emp, i, done, known, Before(emp, i, goes))
    BY <1>3, Zenon DEF GoesBy
  <2>2. Before(emp, i, goes) = {m \in G : m < i}
    BY <1>2 DEF Before
  <2> QED
    BY <1>2, <2>1, <2>2
<1> QED
  BY <1>2, <1>4

(* Of the rows of one employee that share an id the first goes ahead, unless *)
(* that id was done before.                                                *)
Alike(emp, n, E, e, x) ==
    /\ n \in Nat /\ DOMAIN emp \subseteq 1..n /\ \A i \in DOMAIN emp : emp[i] \in StaffIds
    /\ E = {i \in DOMAIN emp : emp[i] \in e}
    /\ x \in e /\ \A i \in E : x \in BothIds(emp[i], cached)

LEMMA OneGoesAhead ==
    ASSUME NEW n, NEW emp, NEW e \in Staff, NEW E, NEW x, Alike(emp, n, E, e, x),
           NEW done, NEW G, G = GoAhead(emp, done, cached)
    PROVE  /\ x \in done => G \cap E = {}
           /\ E # {} /\ done \cap e = {} => G \cap E = {Min(E)}
<1> USE DEF Alike
<1>1. /\ G \subseteq DOMAIN emp
      /\ \A i \in DOMAIN emp : i \in G <=> IsFree(emp, i, done, cached, {m \in G : m < i})
  BY GoAheadIs
<1>2. x \in done => G \cap E = {}
  BY <1>1 DEF IsFree, BothIds
<1>3. ASSUME E # {}, done \cap e = {}
      PROVE  G \cap E = {Min(E)}
  <2>1. E \subseteq 1..n
    OBVIOUS
  <2>2. PICK f : f = Min(E)
    OBVIOUS
  <2>3. f \in E /\ \A i \in E : f <= i
    BY <1>3, <2>1, <2>2, FirstAndLast
  <2>4. IsFree(emp, f, done, cached, {m \in G : m < f})
    <3>1. emp[f] \in e /\ cleanEmployeeId(emp[f], cached) \in e
      BY <2>3, CleanStays
    <3>2. ASSUME NEW j \in G, j < f
          PROVE  BothIds(emp[j], cached) \cap e = {}
      <4>1. j \in DOMAIN emp /\ j \notin E
        BY <1>1, <2>1, <2>3, <3>2
      <4>2. emp[j] \notin e /\ emp[j] \in StaffIds
        BY <4>1
      <4>3. cleanEmployeeId(emp[j], cached) \notin e
        BY <4>2, CleanStays
      <4> QED
        BY <4>2, <4>3 DEF BothIds
    <3> QED
      BY <1>3, <3>1, <3>2 DEF IsFree
  <2>5. f \in G
    BY <1>1, <2>3, <2>4
  <2>6. ASSUME NEW i \in G, i \in E
        PROVE  i = f
    <3>1. ~(f < i)
      <4> SUFFICES ASSUME f < i PROVE FALSE
        OBVIOUS
      <4>1. IsFree(emp, i, done, cached, {m \in G : m < i})
        BY <1>1, <2>6
      <4>2. x \in BothIds(emp[i], cached) /\ x \in BothIds(emp[f], cached)
        BY <2>3, <2>6
      <4> QED
        BY <2>5, <4>1, <4>2 DEF IsFree, BothIds
    <3>2. f <= i /\ i \in Nat /\ f \in Nat
      BY <2>1, <2>3, <2>6
    <3> QED
      BY <3>1, <3>2
  <2> QED
    BY <2>2, <2>3, <2>5, <2>6
<1> QED
  BY <1>2, <1>3

(* When the credits of an employee are under one id, the one of its         *)
(* sessions that takes credits takes them all, and if there is none the     *)
(* first of the credits has a row with them all.                            *)
LEMMA AllTodayShows ==
    ASSUME ReportInv, NEW e \in Staff, NEW day, OneId(e, day)
    PROVE  ShownOf(getAllToday(sessions, credits, day, cached), e, day) = Earned(e, day)
<1>1. PICK A : A = OfIds(sessions, e, {day})
  OBVIOUS
<1>2. PICK C : C = OfIds(credits, e, {day})
  OBVIOUS
<1>3. PICK earned : earned = OfDays(credits, {day})
  OBVIOUS
<1>4. PICK taking : taking = Taking(sessions, credits, day, cached)
  OBVIOUS
<1>5. PICK left : left = Left(sessions, credits, day, cached)
  OBVIOUS
<1> DEFINE Takes(i) == CreditsFor(sessions[i].emp, credits, earned, cached)
           With(j) == Under(credits[j].emp, credits, earned)
<1>6. PICK special : special = [i \in OfDays(sessions, {day}) |->
                                   IF i \in taking THEN Seconds(credits, Takes(i)) ELSE 0]
  OBVIOUS
<1>7. PICK extra : extra = [j \in left |-> Seconds(credits, With(j))]
  OBVIOUS
<1>8. getAllToday(sessions, credits, day, cached)
        = View(sessions, special, credits, extra, cached)
  BY <1>3, <1>4, <1>5, <1>6, <1>7 DEF getAllToday
<1>9. PICK takers : takers = EmployeesOf(sessions, {i \in OfDays(sessions, {day}) : Takes(i) # {}})
  OBVIOUS
<1>10. PICK givers : givers = EmployeesOf(credits, {j \in earned : Seconds(credits, With(j)) > 0})
  OBVIOUS
<1>11. PICK done : done = UNION {BothIds(sessions[i].emp, cached) : i \in taking}
  OBVIOUS
<1>12. taking = GoAhead(takers, {}, cached) /\ left = GoAhead(givers, done, cached)
  BY <1>3, <1>4, <1>5, <1>9, <1>10, <1>11 DEF Taking, Left
<1>13. /\ DOMAIN takers \subseteq 1..Len(sessions) /\ Len(sessions) \in Nat
       /\ DOMAIN givers \subseteq 1..Len(credits) /\ Len(credits) \in Nat
       /\ \A i \in DOMAIN takers : takers[i] = sessions[i].emp /\ takers[i] \in StaffIds
       /\ \A i \in DOMAIN givers : givers[i] = credits[i].emp /\ givers[i] \in StaffIds
  BY <1>3, <1>9, <1>10, RowsAre DEF EmployeesOf, OfDays
<1>14. taking \subseteq DOMAIN takers /\ left \subseteq DOMAIN givers
  BY <1>12, <1>13, GoAheadIs
<1>15. /\ A \subseteq OfDays(sessions, {day}) /\ A \subseteq DOMAIN sessions
       /\ C \subseteq earned /\ C \subseteq DOMAIN credits
       /\ earned \subseteq DOMAIN credits /\ left \subseteq earned
       /\ \A i \in OfDays(sessions, {day}) : i \in A <=> sessions[i].emp \in e
       /\ \A j \in earned : j \in C <=> credits[j].emp \in e
       /\ DOMAIN special = OfDays(sessions, {day}) /\ DOMAIN special \subseteq DOMAIN sessions
       /\ DOMAIN extra = left
  <2>1. left \subseteq earned
    BY <1>10, <1>14 DEF EmployeesOf
  <2> QED
    BY <1>1, <1>2, <1>3, <1>6, <1>7, <2>1 DEF OfIds, OfDays
<1>16. IsFiniteSet(A) /\ IsFiniteSet(left \cap C)
  BY <1>15, RowsAre, FS_Subset
<1>17. /\ \A i : Takes(i) \subseteq DOMAIN credits
       /\ \A i : With(i) \subseteq DOMAIN credits
  BY <1>15 DEF CreditsFor, Under
<1>18. /\ \A i \in DOMAIN special : special[i] \in Nat
       /\ \A i \in DOMAIN extra : extra[i] \in Nat
  <2> HIDE DEF Takes, With
  <2>1. (\A i : Seconds(credits, Takes(i)) \in Nat) /\ (\A i : Seconds(credits, With(i)) \in Nat)
    BY <1>17, SecondsAre
  <2> QED
    BY <1>6, <1>7, <2>1
<1>19. SumFunctionOnSet(special, A) + SumFunctionOnSet(extra, left \cap C)
         = SumFunctionOnSet(SecondsOf, C)
  <2>1. CASE C = {}
    <3>1. ASSUME NEW i \in A
          PROVE  special[i] = 0
      <4>1. sessions[i].emp \in e /\ sessions[i].emp \in StaffIds
        BY <1>15, RowsAre
      <4>2. cleanEmployeeId(sessions[i].emp, cached) \in e
        BY <4>1, CleanStays
      <4>3. Takes(i) = {}
        BY <1>15, <2>1, <4>1, <4>2 DEF CreditsFor, Under
      <4>4. i \notin taking
        BY <1>9, <1>14, <4>3 DEF EmployeesOf
      <4> QED
        BY <1>6, <1>15, <4>4
    <3>2. SumFunctionOnSet(special, A) = 0
      BY <1>16, <3>1, SumOfNone
    <3>3. left \cap C = {}
      BY <2>1
    <3> QED
      BY <2>1, <3>2, <3>3, SumEmpty
  <2>2. CASE C # {}
    <3>1. PICK x \in e : \A j \in C : credits[j].emp = x
      <4>1. PICK j \in C : TRUE
        BY <2>2
      <4>2. credits[j].emp \in e
        BY <1>15
      <4>3. \A k \in C : credits[k].emp = credits[j].emp
        BY <1>2 DEF OneId
      <4> QED
        BY <4>2, <4>3
    <3>2. Under(x, credits, earned) = C
      BY <1>15, <3>1 DEF Under
    <3>3. ASSUME NEW id \in e, id # x
          PROVE  Under(id, credits, earned) = {}
      BY <1>15, <3>1, <3>3 DEF Under
    <3>4. ASSUME NEW i \in A
          PROVE  /\ sessions[i].emp \in e /\ cleanEmployeeId(sessions[i].emp, cached) \in e
                 /\ Takes(i) # {} => Takes(i) = C /\ x \in BothIds(sessions[i].emp, cached)
      <4>1. sessions[i].emp \in e /\ sessions[i].emp \in StaffIds
        BY <1>15, RowsAre
      <4>2. cleanEmployeeId(sessions[i].emp, cached) \in e
        BY <4>1, CleanStays
      <4> QED
        BY <2>2, <3>2, <3>3, <4>1, <4>2 DEF CreditsFor, BothIds
    <3>5. PICK E : E = {i \in DOMAIN takers : takers[i] \in e}
      OBVIOUS
    <3>6. E = {i \in A : Takes(i) # {}}
      <4>1. DOMAIN takers = {i \in OfDays(sessions, {day}) : Takes(i) # {}}
        BY <1>9 DEF EmployeesOf
      <4> QED
        BY <1>13, <1>15, <3>5, <4>1
    <3>7. \A i \in E : x \in BothIds(takers[i], cached)
      BY <1>13, <3>4, <3>5, <3>6
    <3>8. E # {} => taking \cap E = {Min(E)}
      <4>1. Alike(takers, Len(sessions), E, e, x)
        BY <1>13, <3>5, <3>7 DEF Alike
      <4> QED
        BY <1>12, <4>1, OneGoesAhead
    <3>9. taking \cap A = taking \cap E
      BY <1>13, <1>14, <1>15, <3>5, <3>6
    <3>10. PICK F : F = {j \in DOMAIN givers : givers[j] \in e}
      OBVIOUS
    <3>11. F = {j \in C : Seconds(credits, C) > 0}
      <4>1. DOMAIN givers = {j \in earned : Seconds(credits, With(j)) > 0}
        BY <1>10 DEF EmployeesOf
      <4>2. \A j \in C : With(j) = C
        BY <3>1, <3>2
      <4> QED
        BY <1>13, <1>15, <3>10, <4>1, <4>2
    <3>12. \A j \in F : x \in BothIds(givers[j], cached)
      BY <1>13, <3>1, <3>10, <3>11 DEF BothIds
    <3>13. /\ x \in done => left \cap F = {}
           /\ F # {} /\ done \cap e = {} => left \cap F = {Min(F)}
      <4>1. Alike(givers, Len(credits), F, e, x)
        BY <1>13, <3>10, <3>12 DEF Alike
      <4> QED
        BY <1>12, <4>1, OneGoesAhead
    <3>14. left \cap C = left \cap F
      BY <1>13, <1>14, <1>15, <3>10, <3>11
    <3>15. /\ Seconds(credits, C) = SumFunctionOnSet(SecondsOf, C)
           /\ Seconds(credits, C) \in Nat
      BY <1>15, SecondsAre
    <3>16. CASE E # {}
      <4>1. PICK f \in E : taking \cap A = {f}
        <5>1. E \subseteq 1..Len(sessions)
          BY <1>13, <3>5
        <5>2. Min(E) \in E
          BY <1>13, <3>16, <5>1, FirstAndLast
        <5> QED
          BY <3>8, <3>9, <3>16, <5>2
      <4>2. special[f] = Seconds(credits, C) /\ \A i \in A \ {f} : special[i] = 0
        BY <1>6, <1>15, <3>4, <3>6, <4>1
      <4>3. SumFunctionOnSet(special, A) = Seconds(credits, C)
        BY <1>16, <3>6, <3>15, <4>2, SumOnly
      <4>4. x \in done
        BY <1>11, <3>4, <3>6, <4>1
      <4>5. left \cap C = {}
        BY <3>13, <3>14, <4>4
      <4>6. SumFunctionOnSet(extra, left \cap C) = 0
        BY <4>5, SumEmpty
      <4> QED
        BY <3>15, <4>3, <4>6
    <3>17. CASE E = {}
      <4>1. SumFunctionOnSet(special, A) = 0
        <5>1. \A i \in A : special[i] = 0
          BY <1>6, <1>15, <3>9, <3>17
        <5> QED
          BY <1>16, <5>1, SumOfNone
      <4>2. done \cap e = {}
        <5> SUFFICES ASSUME NEW i \in taking PROVE BothIds(sessions[i].emp, cached) \cap e = {}
          BY <1>11
        <5>1. i \in DOMAIN takers /\ i \notin E
          BY <1>14, <3>17
        <5>2. sessions[i].emp \notin e /\ sessions[i].emp \in StaffIds
          BY <1>13, <3>5, <5>1
        <5>3. cleanEmployeeId(sessions[i].emp, cached) \notin e
          BY <5>2, CleanStays
        <5> QED
          BY <5>2, <5>3 DEF BothIds
      <4>3. CASE Seconds(credits, C) = 0
        <5>1. left \cap C = {}
          BY <3>11, <3>14, <4>3
        <5> QED
          BY <3>15, <4>1, <4>3, <5>1, SumEmpty
      <4>4. CASE Seconds(credits, C) > 0
        <5>1. F = C
          BY <3>11, <4>4
        <5>2. PICK f \in C : left \cap C = {f}
          <6>1. C \subseteq 1..Len(credits) /\ Len(credits) \in Nat
            BY <1>15, RowsAre
          <6>2. Min(C) \in C
            BY <2>2, <6>1, FirstAndLast
          <6> QED
            BY <2>2, <3>13, <3>14, <4>2, <5>1, <6>2
        <5>3. extra[f] = Seconds(credits, C)
          <6>1. With(f) = C
            BY <3>1, <3>2, <5>2
          <6> QED
            BY <1>7, <5>2, <6>1
        <5>4. SumFunctionOnSet(extra, left \cap C) = Seconds(credits, C)
          BY <3>15, <5>2, <5>3, SumOfOne
        <5> QED
          BY <3>15, <4>1, <5>4
      <4> QED
        BY <3>15, <4>3, <4>4
    <3> QED
      BY <3>16, <3>17
  <2> QED
    BY <2>1, <2>2
<1>20. ShownOf(View(sessions, special, credits, extra, cached), e, day) = Earned(e, day)
  <2>1. DOMAIN extra \subseteq DOMAIN credits /\ A \subseteq DOMAIN special
    BY <1>15
  <2>2. left \cap C = DOMAIN extra \cap C
    BY <1>15
  <2> HIDE DEF Takes, With
  <2> QED
    BY <1>1, <1>2, <1>15, <1>18, <1>19, <2>1, <2>2, GivenOut
<1> QED
  BY <1>8, <1>20

-----------------------------------------------------------------------------
(* ReportedHours: the invariant and the two theorems *)

LEMMA ReportInitInv == ReportInit => ReportInv
<1> SUFFICES ASSUME ReportInit PROVE ReportInv
  OBVIOUS
<1>1. sessions = <<>> /\ credits = <<>>
  BY DEF ReportInit
<1> QED
  BY <1>1 DEF ReportInv

LEMMA ReportStepInv == ReportInv /\ [ReportNext]_reportVars => ReportInv'
<1> SUFFICES ASSUME ReportInv, [ReportNext]_reportVars PROVE ReportInv'
  OBVIOUS
<1>1. CASE UNCHANGED reportVars
  BY <1>1 DEF ReportInv, reportVars
<1>2. ASSUME NEW id \in StaffIds, NEW day \in Days, NEW live \in BOOLEAN, CheckIn(id, day, live)
      PROVE  ReportInv'
  <2>1. PICK s : s = [emp |-> id, date |-> day, live |-> live, regular |-> 1]
    OBVIOUS
  <2>2. s \in [emp : StaffIds, date : Days, live : BOOLEAN, regular : {1}]
    BY <2>1
  <2>3. sessions' = Append(sessions, s) /\ credits' = credits
    BY <1>2, <2>1 DEF CheckIn
  <2> QED
    BY <2>2, <2>3, AppendProperties DEF ReportInv
<1>3. ASSUME NEW id \in StaffIds, NEW day \in Days, NEW seconds \in Amounts,
             Approve(id, day, seconds)
      PROVE  ReportInv'
  <2>1. PICK c : c = [emp |-> id, date |-> day, seconds |-> seconds]
    OBVIOUS
  <2>2. c \in [emp : StaffIds, date : Days, seconds : Nat]
    BY <2>1, StaffAssumption
  <2>3. credits' = Append(credits, c) /\ sessions' = sessions
    BY <1>3, <2>1 DEF Approve
  <2> QED
    BY <2>2, <2>3, AppendProperties DEF ReportInv
<1> QED
  BY <1>1, <1>2, <1>3 DEF ReportNext

LEMMA ReportAlways == ReportSpec => []ReportInv
BY ReportInitInv, ReportStepInv, PTL DEF ReportSpec

(* Both views of an employee give out each session and each credit exactly  *)
(* once, whichever id it is under (getToday(), getHistory()), for all       *)
(* staff, days and amounts and any number of sessions and credits.          *)
THEOREM EachHourShownOnce == ReportSpec => []EmployeeSeesEachHourOnce
<1>1. ReportInv => EmployeeSeesEachHourOnce
  <2> SUFFICES ASSUME ReportInv, NEW e \in Staff, NEW day \in Days
               PROVE  /\ ShownOf(getToday(sessions, credits, e, day, cached), e, day)
                           = Earned(e, day)
                      /\ \A days \in SUBSET Days :
                            day \in days =>
                                ShownOf(getHistory(sessions, credits, e, days, cached), e, day)
                                  = Earned(e, day)
    BY DEF EmployeeSeesEachHourOnce
  <2> QED
    BY TodayShows, HistoryShows
<1> QED
  BY <1>1, ReportAlways, PTL

(* HR's views show the same hours (getAllToday(), getAllHistory()): the     *)
(* range of days always, the day unless its credits are under two ids.      *)
THEOREM HrSeesEachHourOnce == ReportSpec => []HrSeesTheSame
<1>1. ReportInv => HrSeesTheSame
  <2> SUFFICES ASSUME ReportInv, NEW day \in Days, NEW e \in Staff
               PROVE  /\ ShownOf(getAllHistory(sessions, credits, Days, cached), e, day)
                           = Earned(e, day)
                      /\ OneId(e, day) =>
                            ShownOf(getAllToday(sessions, credits, day, cached), e, day)
                              = Earned(e, day)
    BY DEF HrSeesTheSame
  <2> QED
    BY AllTodayShows, AllHistoryShows
<1> QED
  BY <1>1, ReportAlways, PTL

=============================================================================
