----------------------------- MODULE InboxProofs -----------------------------
(***************************************************************************)
(* Proofs about Inbox, for every number of users, notifications and        *)
(* requests under way: what others do with a group's notification leaves   *)
(* the marks of one member alone.                                          *)
(***************************************************************************)
EXTENDS Inbox, TLAPS

Note == [to : SUBSET Users, group : BOOLEAN, isRead : BOOLEAN, is : {"unsent", "sent", "gone"}]

Req == [kind : {"none", "count", "list", "one", "all", "delete"},
        pc : {"none", "sent", "answered", "marking"},
        notes : SUBSET Notes, list : [Notes -> {"absent", "unread", "read"}]]

TypeOK ==
    /\ note \in [Notes -> Note]
    /\ req \in [Reqs -> Req]
    /\ shown \in [Notes -> {"absent", "unread", "read"}]

\* The mark of a group's row stays unset.
RowsUnmarked == \A n \in Notes : note[n].group => ~note[n].isRead

\* What Me has read, Me has asked for.
ReadsAsked == \A n \in Notes : <<n, Me>> \in reads => n \in asked

\* So has Me for what the requests under way are about to mark.
MarksAsked ==
    \A q \in Reqs : req[q].kind = "one" \/ (req[q].kind = "all" /\ req[q].pc = "marking")
        => req[q].notes \subseteq asked

Inv == TypeOK /\ RowsUnmarked /\ ReadsAsked /\ MarksAsked

-----------------------------------------------------------------------------
(* What the parts of the handlers do *)

LEMMA NoteTypes ==
    /\ NoNote \in Note /\ Gone \in Note
    /\ ~NoNote.group /\ ~Gone.group
    /\ Nothing \in [Notes -> {"absent", "unread", "read"}]
    /\ NoReq \in Req /\ NoReq.kind = "none"
<1>1. NoNote \in Note /\ ~NoNote.group
  BY DEF NoNote, Note
<1>2. Gone \in Note /\ Gone.group = NoNote.group
  BY DEF Gone, NoNote, Note
<1>3. Nothing \in [Notes -> {"absent", "unread", "read"}]
  BY DEF Nothing
<1>4. NoReq \in Req /\ NoReq.kind = "none"
  BY <1>3 DEF NoReq, Req
<1> QED
  BY <1>1, <1>2, <1>3, <1>4

LEMMA ListType == ListOf(Me) \in [Notes -> {"absent", "unread", "read"}]
BY DEF ListOf

\* Marking for a user marks no group's row, and is a read of that user at most.
LEMMA MarkMarks ==
    ASSUME Inv, NEW n \in Notes, NEW u, Mark(n, u)
    PROVE  /\ note' \in [Notes -> Note] /\ RowsUnmarked'
           /\ reads' \subseteq reads \cup {<<n, u>>}
<1>1. note \in [Notes -> Note] /\ RowsUnmarked
  BY DEF Inv, TypeOK
<1>2. note' = [note EXCEPT ![n] = RowMark(n)] /\ reads' \in {reads, reads \cup {<<n, u>>}}
  BY DEF Mark
<1>3. RowMark(n) \in Note /\ (RowMark(n).group => ~RowMark(n).isRead)
  <2>1. CASE note[n].group
    BY <1>1, <2>1 DEF RowMark, RowsUnmarked
  <2>2. CASE ~note[n].group
    <3>1. RowMark(n) = [note[n] EXCEPT !.isRead = TRUE]
      BY <2>2 DEF RowMark
    <3>2. note[n] \in Note
      BY <1>1
    <3>3. \A x \in Note : /\ [x EXCEPT !.isRead = TRUE] \in Note
                          /\ [x EXCEPT !.isRead = TRUE].group = x.group
      BY DEF Note
    <3> QED
      BY <2>2, <3>1, <3>2, <3>3
  <2> QED
    BY <2>1, <2>2
<1>4. note' \in [Notes -> Note]
  BY <1>1, <1>2, <1>3
<1>5. \A m \in Notes : note'[m] = IF m = n THEN RowMark(n) ELSE note[m]
  BY <1>1, <1>2
<1>6. RowsUnmarked'
  BY <1>1, <1>3, <1>5 DEF RowsUnmarked
<1> QED
  BY <1>2, <1>4, <1>6

LEMMA DismissMarks ==
    ASSUME Inv, NEW n \in Notes, NEW u, Dismiss(n, u)
    PROVE  note' \in [Notes -> Note] /\ RowsUnmarked' /\ reads' \subseteq reads
<1>1. note \in [Notes -> Note] /\ RowsUnmarked
  BY DEF Inv, TypeOK
<1>2. CASE UNCHANGED <<note, reads>>
  BY <1>1, <1>2 DEF RowsUnmarked
<1>3. CASE /\ note' = [note EXCEPT ![n] = Gone]
           /\ reads' = {r \in reads : r[1] # n}
  <2>1. \A m \in Notes : note'[m] = IF m = n THEN Gone ELSE note[m]
    BY <1>1, <1>3
  <2>2. note' \in [Notes -> Note]
    BY <1>1, <1>3, NoteTypes
  <2>3. RowsUnmarked'
    BY <1>1, <2>1, NoteTypes DEF RowsUnmarked
  <2> QED
    BY <1>3, <2>2, <2>3
<1> QED
  BY <1>2, <1>3 DEF Dismiss, server

\* A change of the marks keeps the invariant if Me's new reads have been asked
\* for, and a change of a request if what it is about to mark has.
LEMMA MarksKeep ==
    ASSUME Inv, note' \in [Notes -> Note], RowsUnmarked',
           req' \in [Reqs -> Req], shown' \in [Notes -> {"absent", "unread", "read"}],
           asked \subseteq asked',
           \A n \in Notes : <<n, Me>> \in reads' => <<n, Me>> \in reads \/ n \in asked',
           \A q \in Reqs : \/ req'[q] = req[q]
                           \/ req'[q].kind # "one" /\ ~(req'[q].kind = "all" /\ req'[q].pc = "marking")
                           \/ req'[q].notes \subseteq asked'
    PROVE  Inv'
<1>1. TypeOK'
  BY DEF TypeOK
<1>2. ReadsAsked'
  BY DEF Inv, ReadsAsked
<1>3. MarksAsked'
  BY DEF Inv, MarksAsked
<1> QED
  BY <1>1, <1>2, <1>3 DEF Inv

-----------------------------------------------------------------------------
(* The service *)

LEMMA CreateKeeps ==
    ASSUME Inv, NEW n \in Notes, Create(n)
    PROVE  Inv'
<1>1. TypeOK /\ RowsUnmarked /\ UNCHANGED <<reads, shown, req, asked>>
  BY DEF Inv, Create
<1>2. PICK new \in Note : ~new.isRead /\ note' = [note EXCEPT ![n] = new]
  <2>1. PICK to \in SUBSET Users \ {{}}, group \in BOOLEAN :
           note' = [note EXCEPT ![n] = [to |-> to, group |-> group,
                                        isRead |-> FALSE, is |-> "sent"]]
    BY DEF Create
  <2> DEFINE new == [to |-> to, group |-> group, isRead |-> FALSE, is |-> "sent"]
  <2>2. new \in Note
    BY DEF Note
  <2>3. ~new.isRead
    OBVIOUS
  <2> QED
    BY <2>1, <2>2, <2>3
<1>3. note' \in [Notes -> Note] /\ \A m \in Notes : note'[m] = IF m = n THEN new ELSE note[m]
  BY <1>1, <1>2 DEF TypeOK
<1>4. RowsUnmarked'
  BY <1>1, <1>2, <1>3 DEF RowsUnmarked
<1> QED
  BY <1>1, <1>3, <1>4, MarksKeep DEF TypeOK

LEMMA OthersKeep ==
    ASSUME Inv, NEW n \in Notes, NEW u \in Users, Others(u, n)
    PROVE  Inv'
<1>1. TypeOK /\ u # Me /\ UNCHANGED <<shown, req, asked>>
  BY DEF Inv, Others
<1>2. note' \in [Notes -> Note] /\ RowsUnmarked' /\ reads' \subseteq reads \cup {<<n, u>>}
  BY MarkMarks, DismissMarks DEF Others
<1>3. \A m \in Notes : <<m, Me>> \in reads' => <<m, Me>> \in reads
  BY <1>1, <1>2
<1> QED
  BY <1>1, <1>2, <1>3, MarksKeep DEF TypeOK

-----------------------------------------------------------------------------
(* Me's browser *)

LEMMA StreamKeeps ==
    ASSUME Inv, NEW n \in Notes, StreamArrives(n)
    PROVE  Inv'
<1>1. TypeOK /\ RowsUnmarked /\ UNCHANGED <<note, reads, req, asked>>
  BY DEF Inv, StreamArrives, server
<1>2. shown' \in [Notes -> {"absent", "unread", "read"}]
  BY <1>1 DEF StreamArrives, TypeOK
<1>3. RowsUnmarked'
  BY <1>1 DEF RowsUnmarked
<1> QED
  BY <1>1, <1>2, <1>3, MarksKeep DEF TypeOK

\* A request that changes no marks and no list of the browser.
LEMMA ReqKeeps ==
    ASSUME Inv, NEW q \in Reqs, NEW new \in Req, req' = [req EXCEPT ![q] = new],
           note' = note, reads' = reads, asked \subseteq asked',
           shown' \in [Notes -> {"absent", "unread", "read"}],
           \/ new.kind # "one" /\ ~(new.kind = "all" /\ new.pc = "marking")
           \/ new.notes \subseteq asked'
    PROVE  Inv'
<1>1. req \in [Reqs -> Req] /\ note \in [Notes -> Note] /\ RowsUnmarked
  BY DEF Inv, TypeOK
<1>2. req' \in [Reqs -> Req] /\ \A r \in Reqs : req'[r] = IF r = q THEN new ELSE req[r]
  BY <1>1
<1>3. RowsUnmarked'
  BY <1>1 DEF RowsUnmarked
<1> QED
  BY <1>1, <1>2, <1>3, MarksKeep

LEMMA SendKeeps ==
    ASSUME Inv, NEW q \in Reqs,
           NEW kind \in {"count", "list", "one", "all", "delete"}, NEW notes \in SUBSET Notes,
           Sends(q, kind, notes), asked \subseteq asked', kind = "one" => notes \subseteq asked'
    PROVE  Inv'
<1>1. TypeOK /\ UNCHANGED <<note, reads, shown>>
  BY DEF Inv, Sends, server
<1>2. PICK list \in [Notes -> {"absent", "unread", "read"}] :
         req' = [req EXCEPT ![q] = [kind |-> kind, pc |-> "sent", notes |-> notes, list |-> list]]
  <2> DEFINE list == [n \in Notes |-> IF n \in notes THEN shown[n] ELSE "absent"]
  <2>1. list \in [Notes -> {"absent", "unread", "read"}]
    BY <1>1 DEF TypeOK
  <2>2. req' = [req EXCEPT ![q] = [kind |-> kind, pc |-> "sent", notes |-> notes, list |-> list]]
    BY DEF Sends
  <2> HIDE DEF list
  <2> QED
    BY <2>1, <2>2
<1>3. PICK new \in Req : /\ new.kind = kind /\ new.pc = "sent" /\ new.notes = notes
                         /\ req' = [req EXCEPT ![q] = new]
  <2> DEFINE new == [kind |-> kind, pc |-> "sent", notes |-> notes, list |-> list]
  <2>1. new \in Req
    BY DEF Req
  <2>2. new.kind = kind /\ new.pc = "sent" /\ new.notes = notes
    OBVIOUS
  <2> QED
    BY <1>2, <2>1, <2>2
<1> QED
  BY <1>1, <1>3, ReqKeeps DEF TypeOK

LEMMA ClicksKeep ==
    ASSUME Inv, NEW q \in Reqs, Refresh(q) \/ Clicks(q)
    PROVE  Inv'
<1>1. CASE Refresh(q)
  BY <1>1, SendKeeps DEF Refresh
<1>2. CASE OpenList(q)
  BY <1>2, SendKeeps DEF OpenList
<1>3. CASE MarkAll(q)
  BY <1>3, SendKeeps DEF MarkAll
<1>4. ASSUME NEW n \in Notes, MarkOne(q, n)
      PROVE  Inv'
  <2>1. Sends(q, "one", {n}) /\ asked' = asked \cup {n}
    BY <1>4 DEF MarkOne
  <2> QED
    BY <2>1, SendKeeps
<1>5. ASSUME NEW n \in Notes, Delete(q, n)
      PROVE  Inv'
  <2>1. Sends(q, "delete", {n}) /\ asked' = asked
    BY <1>5 DEF Delete
  <2> QED
    BY <2>1, SendKeeps
<1> QED
  BY <1>1, <1>2, <1>3, <1>4, <1>5 DEF Clicks

\* The requests that only read, and the answers.
LEMMA AnswersKeep ==
    ASSUME Inv, NEW q \in Reqs,
           \/ FetchRead(q) \/ FetchAnswer(q) \/ OneAnswer(q) \/ AllAnswer(q)
           \/ DeleteAnswer(q) \/ Fail(q)
    PROVE  Inv'
<1>1. TypeOK /\ req[q] \in Req
  BY DEF Inv, TypeOK
<1>2. CASE FetchRead(q)
  <2>1. PICK new \in Req : /\ new.kind = req[q].kind /\ new.pc = "answered"
                           /\ req' = [req EXCEPT ![q] = new]
    <3> DEFINE new == [req[q] EXCEPT !.pc = "answered", !.list = ListOf(Me)]
    <3>1. new \in Req /\ new.kind = req[q].kind /\ new.pc = "answered"
      BY <1>1, ListType DEF Req
    <3>2. req' = [req EXCEPT ![q] = new]
      BY <1>2 DEF FetchRead
    <3> QED
      BY <3>1, <3>2
  <2>2. req[q].kind \in {"count", "list"}
    BY <1>2 DEF FetchRead, IsFetch, Is
  <2>3. UNCHANGED <<note, reads, shown, asked>>
    BY <1>2 DEF FetchRead, server
  <2> QED
    BY <1>1, <2>1, <2>2, <2>3, ReqKeeps DEF TypeOK
<1>3. CASE \/ FetchAnswer(q) \/ OneAnswer(q) \/ AllAnswer(q) \/ DeleteAnswer(q) \/ Fail(q)
  <2>1. req' = [req EXCEPT ![q] = NoReq] /\ UNCHANGED <<note, reads, asked>>
    BY <1>3 DEF FetchAnswer, OneAnswer, AllAnswer, DeleteAnswer, Fail, Ends, server
  <2>2. shown' \in [Notes -> {"absent", "unread", "read"}]
    <3>1. CASE FetchAnswer(q)
      BY <1>1, <3>1 DEF FetchAnswer, TypeOK, Req
    <3>2. CASE OneAnswer(q) \/ AllAnswer(q) \/ DeleteAnswer(q)
      BY <1>1, <3>2 DEF OneAnswer, AllAnswer, DeleteAnswer, TypeOK
    <3>3. CASE Fail(q)
      BY <1>1, <3>3 DEF Fail, TypeOK
    <3> QED
      BY <1>3, <3>1, <3>2, <3>3
  <2> QED
    BY <2>1, <2>2, NoteTypes, ReqKeeps
<1> QED
  BY <1>2, <1>3

\* The requests that mark and delete.
LEMMA WritesKeep ==
    ASSUME Inv, NEW q \in Reqs, NEW new \in Req, req' = [req EXCEPT ![q] = new],
           NEW n \in Notes, (Mark(n, Me) /\ n \in asked) \/ Dismiss(n, Me),
           UNCHANGED <<shown, asked>>,
           \/ new.kind # "one" /\ ~(new.kind = "all" /\ new.pc = "marking")
           \/ new.notes \subseteq asked
    PROVE  Inv'
<1>1. TypeOK
  BY DEF Inv
<1>2. req' \in [Reqs -> Req] /\ \A r \in Reqs : req'[r] = IF r = q THEN new ELSE req[r]
  BY <1>1 DEF TypeOK
<1>3. /\ note' \in [Notes -> Note] /\ RowsUnmarked'
      /\ \A m \in Notes : <<m, Me>> \in reads' => <<m, Me>> \in reads \/ m \in asked
  <2>1. CASE Mark(n, Me) /\ n \in asked
    <3>1. /\ note' \in [Notes -> Note] /\ RowsUnmarked'
          /\ reads' \subseteq reads \cup {<<n, Me>>}
      BY <2>1, MarkMarks
    <3>2. \A m \in Notes : <<m, Me>> = <<n, Me>> => m = n
      OBVIOUS
    <3> QED
      BY <2>1, <3>1, <3>2
  <2>2. CASE Dismiss(n, Me)
    BY <2>2, DismissMarks
  <2> QED
    BY <2>1, <2>2
<1> QED
  BY <1>1, <1>2, <1>3, MarksKeep DEF TypeOK

LEMMA MarkingKeeps ==
    ASSUME Inv, NEW q \in Reqs,
           OneWrite(q) \/ AllRead(q) \/ AllWrite(q) \/ DeleteWrite(q)
    PROVE  Inv'
<1>1. TypeOK /\ req[q] \in Req
  BY DEF Inv, TypeOK
<1>2. PICK answered \in Req : /\ answered = [req[q] EXCEPT !.pc = "answered"]
                              /\ answered.kind = req[q].kind /\ answered.pc = "answered"
                              /\ answered.notes = req[q].notes
  <2> DEFINE answered == [req[q] EXCEPT !.pc = "answered"]
  <2>1. /\ answered \in Req /\ answered.kind = req[q].kind /\ answered.pc = "answered"
        /\ answered.notes = req[q].notes
    BY <1>1 DEF Req
  <2> QED
    BY <2>1
<1>3. Answered(q) => req' = [req EXCEPT ![q] = answered]
  BY <1>2 DEF Answered
<1>4. CASE OneWrite(q)
  <2>1. req[q].notes \subseteq asked /\ req[q].notes \subseteq Notes
    BY <1>1, <1>4 DEF OneWrite, Is, Inv, MarksAsked, Req
  <2>2. PICK n \in req[q].notes : Mark(n, Me)
    BY <1>4 DEF OneWrite
  <2>3. req' = [req EXCEPT ![q] = answered] /\ UNCHANGED <<shown, asked>>
    BY <1>3, <1>4 DEF OneWrite
  <2> QED
    BY <1>2, <2>1, <2>2, <2>3, WritesKeep
<1>5. CASE AllRead(q)
  <2>1. Unread(Me) \subseteq Notes
    BY DEF Unread, InboxOf
  <2>2. PICK new \in Req : /\ new.notes = Unread(Me)
                           /\ req' = [req EXCEPT ![q] = new]
    <3> DEFINE new == [req[q] EXCEPT !.pc = "marking", !.notes = Unread(Me)]
    <3>1. new \in Req /\ new.notes = Unread(Me)
      BY <1>1, <2>1 DEF Req
    <3>2. req' = [req EXCEPT ![q] = new]
      BY <1>5 DEF AllRead
    <3> QED
      BY <3>1, <3>2
  <2>3. asked' = asked \cup Unread(Me) /\ UNCHANGED <<note, reads, shown>>
    BY <1>5 DEF AllRead, server
  <2> QED
    BY <1>1, <2>2, <2>3, ReqKeeps DEF TypeOK
<1>6. CASE AllWrite(q)
  <2>1. req[q].notes \subseteq asked /\ req[q].notes \subseteq Notes
    BY <1>1, <1>6 DEF AllWrite, Is, Inv, MarksAsked, Req
  <2>2. UNCHANGED <<shown, asked>>
    BY <1>6 DEF AllWrite
  <2>3. ASSUME NEW n \in req[q].notes, Mark(n, Me),
               req' = [req EXCEPT ![q].notes = @ \ {n}]
        PROVE  Inv'
    <3>1. PICK new \in Req : /\ new.notes = req[q].notes \ {n}
                             /\ req' = [req EXCEPT ![q] = new]
      <4> DEFINE new == [req[q] EXCEPT !.notes = req[q].notes \ {n}]
      <4>1. new \in Req /\ new.notes = req[q].notes \ {n}
        BY <1>1 DEF Req
      <4>2. req' = [req EXCEPT ![q] = new]
        BY <2>3
      <4> QED
        BY <4>1, <4>2
    <3> QED
      BY <2>1, <2>2, <2>3, <3>1, WritesKeep
  <2>4. ASSUME Answered(q), UNCHANGED server
        PROVE  Inv'
    <3>1. req' = [req EXCEPT ![q] = answered] /\ UNCHANGED <<note, reads>>
      BY <1>3, <2>4 DEF server
    <3> QED
      BY <1>1, <1>2, <2>2, <3>1, <2>1, ReqKeeps DEF TypeOK
  <2> QED
    BY <1>6, <2>3, <2>4 DEF AllWrite
<1>7. CASE DeleteWrite(q)
  <2>1. req[q].notes \subseteq Notes /\ req[q].kind = "delete"
    BY <1>1, <1>7 DEF DeleteWrite, Is, Req
  <2>2. PICK n \in req[q].notes : Dismiss(n, Me)
    BY <1>7 DEF DeleteWrite
  <2>3. req' = [req EXCEPT ![q] = answered] /\ UNCHANGED <<shown, asked>>
    BY <1>3, <1>7 DEF DeleteWrite
  <2> QED
    BY <1>2, <2>1, <2>2, <2>3, WritesKeep
<1> QED
  BY <1>4, <1>5, <1>6, <1>7

-----------------------------------------------------------------------------
(* The theorem *)

LEMMA InitInv == Init => Inv
<1> SUFFICES ASSUME Init PROVE Inv
  OBVIOUS
<1>1. note \in [Notes -> Note] /\ \A n \in Notes : note[n] = NoNote
  BY NoteTypes DEF Init
<1>2. req \in [Reqs -> Req] /\ \A q \in Reqs : req[q].kind = "none"
  BY NoteTypes DEF Init
<1>3. shown \in [Notes -> {"absent", "unread", "read"}] /\ reads = {}
  BY NoteTypes DEF Init
<1> QED
  BY <1>1, <1>2, <1>3, NoteTypes DEF Inv, TypeOK, RowsUnmarked, ReadsAsked, MarksAsked

LEMMA InvAlways == Spec => []Inv
<1>1. Inv /\ [Next]_vars => Inv'
  <2> SUFFICES ASSUME Inv, [Next]_vars PROVE Inv'
    OBVIOUS
  <2>1. ASSUME NEW n \in Notes, Create(n) \/ StreamArrives(n) \/ \E u \in Users : Others(u, n)
        PROVE  Inv'
    BY <2>1, CreateKeeps, StreamKeeps, OthersKeep
  <2>2. ASSUME NEW q \in Reqs, Refresh(q) \/ Clicks(q) \/ Runs(q)
        PROVE  Inv'
    BY <2>2, ClicksKeep, AnswersKeep, MarkingKeeps DEF Runs
  <2>3. CASE UNCHANGED vars
    BY <2>3 DEF vars, server, Inv, TypeOK, RowsUnmarked, ReadsAsked, MarksAsked
  <2> QED
    BY <2>1, <2>2, <2>3 DEF Next
<1> QED
  BY InitInv, <1>1, PTL DEF Spec

\* Whatever the other members of a group mark, dismiss or delete, and however
\* the browser's own requests overtake each other or fail: a group's
\* notification is read by Me only if Me has asked for that, one at a time or
\* with all that was unread.
THEOREM GroupsKeepApart == Spec => []GroupNotesArePersonal
<1>1. Inv => GroupNotesArePersonal
  BY DEF Inv, RowsUnmarked, ReadsAsked, GroupNotesArePersonal, IsRead
<1> QED
  BY <1>1, InvAlways, PTL
=============================================================================
