-------------------------- MODULE AttendanceProofs --------------------------
(***************************************************************************)
(* Proofs about AttendanceSession, for every number of workers, sweepers,  *)
(* ids, sessions and ticks.                                                *)
(*                                                                         *)
(* The first part proves the types and that status, pause columns and      *)
(* pauses of a session agree.  The second proves that AttendanceSession    *)
(* keeps the promises AttendanceLifecycle states: closed sessions stay     *)
(* closed, a person has one live session, and every step is a step of the  *)
(* documented state diagram; and that the tables the racing transactions   *)
(* write agree: the event log with the sessions, the exceptions with the   *)
(* sessions they reopened, the closing for a grace timeout with the pause  *)
(* it ends.                                                                *)
(***************************************************************************)
EXTENDS AttendanceSession, FiniteSetTheorems, SequenceTheorems, TLAPS

(* The midnight that ends a session lies after its check-in and at most one *)
(* day later: getMidnightCutoffForSession().                                *)
LEMMA MidnightFollows ==
    ASSUME NEW t \in Nat
    PROVE  /\ getMidnightCutoffForSession(t) \in Nat
           /\ t < getMidnightCutoffForSession(t)
           /\ getMidnightCutoffForSession(t) <= t + Day
<1> DEFINE q == (t + Tz) \div Day
<1>1. Day \in Nat \ {0} /\ Tz \in 0 .. Day - 1
  BY CalendarAssumption
<1>2. q \in Int /\ q * Day <= t + Tz /\ t + Tz < (q + 1) * Day
  BY <1>1
<1> HIDE DEF q
<1>3. (q + 1) * Day = q * Day + Day
  BY <1>1, <1>2
<1>4. q * Day \in Int
  BY <1>1, <1>2
<1> QED
  BY <1>1, <1>2, <1>3, <1>4 DEF getMidnightCutoffForSession, q

LEMMA TimesAreInstants == Times \subseteq Instants /\ Instants \subseteq Nat /\ None \notin Nat
BY ParameterAssumption, CalendarAssumption DEF Times, Instants, None

(* A check-in time's midnight is an instant of the model.                   *)
LEMMA MidnightIsInstant ==
    ASSUME NEW t \in Times
    PROVE  getMidnightCutoffForSession(t) \in Instants
BY MidnightFollows, CalendarAssumption, ParameterAssumption DEF Times, Instants

(* The stored total is a natural number, whatever the pauses and however    *)
(* check-in, check-out and pauses lie in time: calculateWorkingSeconds().   *)
LEMMA TotalType ==
    ASSUME NEW checkIn \in Instants, NEW checkOut \in Instants, NEW pauses \in Seq(Pause)
    PROVE  TotalAtClose(checkIn, checkOut, pauses) \in Nat
<1> DEFINE ticks == PausedTicks(pauses, checkOut)
<1>1. MaxTime \in Nat /\ Day \in Nat \ {0}
  BY CalendarAssumption, ParameterAssumption
<1>2. checkIn \in Nat /\ checkOut \in Nat /\ checkOut # None
  BY <1>1 DEF Instants, None
<1>3. Len(pauses) \in Nat /\ DOMAIN pauses = 1 .. Len(pauses)
  BY LenProperties
<1>4. ASSUME NEW i \in DOMAIN pauses
      PROVE  (pauses[i].start .. EndOf(pauses[i], checkOut) - 1) \subseteq Instants
  <2>1. pauses[i] \in Pause
    BY <1>3, <1>4, ElementOfSeq
  <2>2. pauses[i].start \in Times /\ EndOf(pauses[i], checkOut) \in Instants
    BY <2>1 DEF Pause, EndOf
  <2> QED
    BY <1>1, <2>2 DEF Instants, Times
<1>5. ticks \subseteq (1 .. Len(pauses)) \X Instants
  BY <1>3, <1>4 DEF PausedTicks
<1>6. IsFiniteSet((1 .. Len(pauses)) \X Instants)
  <2>1. IsFiniteSet(1 .. Len(pauses)) /\ IsFiniteSet(Instants)
    BY <1>1, <1>3, FS_Interval DEF Instants
  <2> QED
    BY <2>1, FS_Product
<1>7. Cardinality(ticks) \in Nat
  BY <1>5, <1>6, FS_Subset, FS_CardinalityType
<1>8. sumPauseSeconds(pauses, checkOut) \in Nat
  BY <1>7 DEF sumPauseSeconds
<1>9. resolveReferenceEnd("CHECKED_OUT", checkOut, None, checkOut) = checkOut
  BY <1>2 DEF resolveReferenceEnd
<1> QED
  BY <1>2, <1>8, <1>9 DEF TotalAtClose, calculateWorkingSeconds, MaxOf

-----------------------------------------------------------------------------
(* Rows *)

LEMMA OpenPauseType ==
    ASSUME NEW pauses \in Seq(Pause)
    PROVE  /\ OpenPause(pauses) \in 0 .. Len(pauses)
           /\ OpenPause(pauses) # 0 => pauses[OpenPause(pauses)].end = None
           /\ OpenPause(pauses) = 0 => \A i \in DOMAIN pauses : pauses[i].end # None
<1>1. Len(pauses) \in Nat /\ DOMAIN pauses = 1 .. Len(pauses)
  BY LenProperties
<1>2. CASE \E i \in DOMAIN pauses : pauses[i].end = None
  <2>1. OpenPause(pauses) \in DOMAIN pauses /\ pauses[OpenPause(pauses)].end = None
    BY <1>2 DEF OpenPause
  <2> QED
    BY <1>1, <2>1
<1>3. CASE ~ \E i \in DOMAIN pauses : pauses[i].end = None
  BY <1>1, <1>3 DEF OpenPause
<1> QED
  BY <1>2, <1>3

(* Ending a pause touches nothing of the row but that pause.                *)
LEMMA EndPauseRow ==
    ASSUME NEW row \in Row, NEW i, NEW at \in Instants,
           NEW why \in {"RETURNED", "AUTO_CHECKOUT"}
    PROVE  LET new == EndPause(row, i, at, why)
           IN  /\ new \in Row
               /\ Len(new.pauses) = Len(row.pauses)
               /\ \A col \in {"status", "emp", "date", "inAt", "reopen", "pauseAt", "deadline"} :
                    new[col] = row[col]
               /\ \A j \in DOMAIN row.pauses :
                     IF j = i THEN new.pauses[j].end # None
                     ELSE new.pauses[j] = row.pauses[j]
<1> DEFINE new == EndPause(row, i, at, why)
<1>0. row.pauses \in Seq(Pause) /\ DOMAIN row.pauses = 1 .. Len(row.pauses) /\ Len(row.pauses) \in Nat
  BY LenProperties DEF Row
<1>1. CASE i # 0 /\ row.pauses[i].end = None
  <2> DEFINE ended == [row.pauses[i] EXCEPT !.end = at, !.why = why]
             ps    == [row.pauses EXCEPT ![i] = ended]
  <2>2. new = [row EXCEPT !.pauses = ps]
    BY <1>1 DEF EndPause, Row
  <2>3. CASE i \in DOMAIN row.pauses
    <3>1. row.pauses[i] \in Pause
      BY <1>0, <2>3
    <3>2. ended \in Pause /\ ended.end = at /\ at # None
      <4>1. at # None
        BY ParameterAssumption, CalendarAssumption DEF Instants, None
      <4>2. ended \in Pause /\ ended.end = at
        BY <3>1 DEF Pause
      <4> QED
        BY <4>1, <4>2
    <3> HIDE DEF ended
    <3>3. /\ ps \in Seq(Pause) /\ Len(ps) = Len(row.pauses)
          /\ \A j \in 1 .. Len(row.pauses) :
                ps[j] = IF j = i THEN ended ELSE row.pauses[j]
      BY <1>0, <2>3, <3>2, ExceptSeq
    <3> HIDE DEF ps
    <3> QED
      BY <1>0, <2>2, <3>2, <3>3 DEF Row
  <2>4. CASE i \notin DOMAIN row.pauses
    <3>1. ps = row.pauses
      BY <1>0, <2>4
    <3> HIDE DEF ps
    <3> QED
      BY <1>0, <2>2, <2>4, <3>1 DEF Row
  <2> QED
    BY <2>3, <2>4
<1>2. CASE ~ (i # 0 /\ row.pauses[i].end = None)
  <2>1. new = row
    BY <1>2 DEF EndPause
  <2>2. ASSUME NEW j \in DOMAIN row.pauses, j = i PROVE row.pauses[j].end # None
    BY <1>0, <1>2, <2>2
  <2> QED
    BY <2>1, <2>2
<1> QED
  BY <1>1, <1>2

(* A closing write keeps the row a row and clears the pause columns.        *)
LEMMA ClosedRow ==
    ASSUME NEW row \in Row, NEW at \in Instants, NEW total \in Nat,
           NEW reason \in {"USER_CHECKOUT", "GEOFENCE_TIMEOUT", "SYSTEM_ACTION"}
    PROVE  LET new == Closed(row, at, reason, total)
           IN  /\ new \in Row
               /\ new.status = "CHECKED_OUT" /\ new.pauseAt = None /\ new.deadline = None
               /\ \A col \in {"emp", "date", "inAt", "reopen", "pauses"} : new[col] = row[col]
BY DEF Closed, Row

LEMMA DateType == ASSUME NEW t \in Nat PROVE toDateOnly(t) \in Nat
BY CalendarAssumption DEF toDateOnly

LEMMA NoRowType == NoRow \in Row /\ OneStory(NoRow) /\ NoRow.status = "NONE" /\ Len(NoRow.pauses) = 0
<1>1. (CHOOSE i \in Ids : TRUE) \in Ids
  BY IdentityAssumption
<1>2. 0 \in Times
  BY ParameterAssumption DEF Times
<1>3. << >> \in Seq(Pause) /\ Len(<< >>) = 0
  BY EmptySeq
<1> QED
  BY <1>1, <1>2, <1>3 DEF NoRow, Row, OneStory, None

(* A new session's row: working, without a pause.                           *)
LEMMA NewRowType ==
    ASSUME NEW i \in Ids, NEW t \in Times, NEW x \in Exceptions \cup {None, 0}
    PROVE  LET new == NewRow(i, t, x)
           IN  /\ new \in Row /\ OneStory(new) /\ new.status = "WORKING"
               /\ new.emp = i /\ new.reopen = x
<1>1. toDateOnly(t) \in Nat
  BY DateType, ParameterAssumption DEF Times
<1>2. NoRow.pauses = << >> /\ DOMAIN << >> = {} /\ NoRow.pauseAt = None /\ NoRow.deadline = None
  BY DEF NoRow
<1>3. NewRow(i, t, x) \in Row
  BY <1>1, NoRowType DEF NewRow, Row
<1> QED
  BY <1>2, <1>3, NoRowType DEF NewRow, Row, OneStory, OpenPauses

(* The row a geofence exit writes over a working row.                       *)
LEMMA PausedRow ==
    ASSUME NEW row \in Row, OneStory(row), row.status = "WORKING", NEW t \in Times
    PROVE  LET new == Paused(row, t)
           IN  /\ new \in Row /\ OneStory(new) /\ new.status = "PAUSED"
               /\ Len(new.pauses) = Len(row.pauses) + 1
               /\ \A col \in {"emp", "date", "inAt", "reopen"} : new[col] = row[col]
<1> DEFINE new == Paused(row, t)
           p   == [start |-> t, end |-> None, deadline |-> t + Grace, why |-> ""]
           n   == Len(row.pauses)
<1>1. row.pauses \in Seq(Pause) /\ n \in Nat /\ DOMAIN row.pauses = 1 .. n
  BY LenProperties DEF Row
<1>2. t + Grace \in Nat /\ p \in Pause
  BY ParameterAssumption DEF Pause, Times
<1>3. /\ new.status = "PAUSED" /\ new.pauseAt = t /\ new.deadline = t + Grace
      /\ new.pauses = Append(row.pauses, p)
  BY DEF Paused, Row
<1> HIDE DEF p
<1>4. /\ Append(row.pauses, p) \in Seq(Pause) /\ Len(Append(row.pauses, p)) = n + 1
      /\ \A i \in 1 .. n : Append(row.pauses, p)[i] = row.pauses[i]
      /\ Append(row.pauses, p)[n + 1] = p
  BY <1>1, <1>2, AppendProperties
<1>5. DOMAIN new.pauses = 1 .. n + 1
  BY <1>1, <1>3, <1>4, LenProperties
<1>6. p.start = t /\ p.end = None /\ p.deadline = t + Grace
  BY DEF p
<1>7. \A i \in 1 .. n : row.pauses[i].end # None
  BY <1>1 DEF OneStory, OpenPauses
<1>8. OpenPauses(new) = {n + 1}
  BY <1>1, <1>3, <1>4, <1>5, <1>6, <1>7 DEF OpenPauses
<1>9. OneStory(new)
  BY <1>3, <1>4, <1>6, <1>8 DEF OneStory
<1>10. new \in Row
  <2> DEFINE ps == Append(row.pauses, p)
  <2>1. new = [row EXCEPT !.status = "PAUSED", !.pauseAt = t, !.deadline = t + Grace, !.pauses = ps]
    BY DEF Paused, p, Row
  <2>2. ps \in Seq(Pause)
    BY <1>4
  <2> HIDE DEF ps
  <2> QED
    BY <1>2, <2>1, <2>2 DEF Row
<1> QED
  BY <1>3, <1>4, <1>9, <1>10 DEF Paused, Row

(* The row a geofence return writes once it has ended the open pause.       *)
LEMMA ResumedRow ==
    ASSUME NEW row \in Row, OpenPauses(row) = {}
    PROVE  LET new == Resumed(row)
           IN  /\ new \in Row /\ OneStory(new) /\ new.status = "WORKING"
               /\ new.pauses = row.pauses
               /\ \A col \in {"emp", "date", "inAt", "reopen"} : new[col] = row[col]
<1> DEFINE new == Resumed(row)
<1>1. /\ new \in Row /\ new.status = "WORKING" /\ new.pauses = row.pauses
      /\ new.pauseAt = None /\ new.deadline = None
  BY DEF Resumed, Row
<1>2. OpenPauses(new) = {}
  BY <1>1 DEF OpenPauses
<1>3. OneStory(new)
  BY <1>1, <1>2 DEF OneStory
<1> QED
  BY <1>1, <1>3 DEF Resumed, Row

(* Every closing write - a check-out, a sweep, a stale close - ends the     *)
(* pause it had read and leaves a closed row with its identity.             *)
LEMMA ClosingRow ==
    ASSUME NEW row \in Row, NEW at \in Instants, NEW pauses \in Seq(Pause), NEW i,
           NEW reason \in {"USER_CHECKOUT", "GEOFENCE_TIMEOUT", "SYSTEM_ACTION"},
           NEW why \in {"RETURNED", "AUTO_CHECKOUT"}
    PROVE  LET new == EndPause(Closed(row, at, reason, TotalAtClose(row.inAt, at, pauses)),
                               i, at, why)
           IN  /\ new \in Row /\ OneStory(new) /\ new.status = "CHECKED_OUT"
               /\ Len(new.pauses) = Len(row.pauses)
               /\ \A col \in {"emp", "date", "inAt", "reopen"} : new[col] = row[col]
<1> DEFINE total  == TotalAtClose(row.inAt, at, pauses)
           closed == Closed(row, at, reason, total)
           new    == EndPause(closed, i, at, why)
<1>1. row.inAt \in Instants
  <2>1. row.inAt \in Times
    BY DEF Row
  <2> QED
    BY <2>1, TimesAreInstants
<1>2. total \in Nat
  BY <1>1, TotalType
<1> HIDE DEF total
<1>3. /\ closed \in Row /\ closed.status = "CHECKED_OUT"
      /\ closed.pauseAt = None /\ closed.deadline = None
      /\ \A col \in {"emp", "date", "inAt", "reopen", "pauses"} : closed[col] = row[col]
  BY <1>2, ClosedRow, ZenonT(60)
<1> HIDE DEF closed
<1>4. /\ new \in Row /\ Len(new.pauses) = Len(closed.pauses)
      /\ \A col \in {"status", "emp", "date", "inAt", "reopen", "pauseAt", "deadline"} :
           new[col] = closed[col]
  BY <1>3, EndPauseRow
<1> HIDE DEF new
<1>5. /\ new.status = "CHECKED_OUT" /\ new.pauseAt = None /\ new.deadline = None
      /\ \A col \in {"emp", "date", "inAt", "reopen"} : new[col] = row[col]
  BY <1>3, <1>4
<1>6. OneStory(new)
  BY <1>5 DEF OneStory
<1>7. /\ new \in Row /\ OneStory(new) /\ new.status = "CHECKED_OUT"
      /\ Len(new.pauses) = Len(row.pauses)
      /\ \A col \in {"emp", "date", "inAt", "reopen"} : new[col] = row[col]
  BY <1>3, <1>4, <1>5, <1>6
<1> QED
  BY <1>7 DEF new, closed, total

LEMMA ClosedStaleRow ==
    ASSUME NEW row \in Row, NEW pauses \in Seq(Pause)
    PROVE  LET new == ClosedStale(row, pauses)
           IN  /\ new \in Row /\ OneStory(new) /\ new.status = "CHECKED_OUT"
               /\ Len(new.pauses) = Len(row.pauses)
               /\ \A col \in {"emp", "date", "inAt", "reopen"} : new[col] = row[col]
<1> DEFINE cutoff == getMidnightCutoffForSession(row.inAt)
<1>1. cutoff \in Instants
  BY MidnightIsInstant DEF Row
<1> HIDE DEF cutoff
<1> DEFINE new == EndPause(Closed(row, cutoff, "SYSTEM_ACTION", TotalAtClose(row.inAt, cutoff, pauses)),
                           OpenPause(pauses), cutoff, "AUTO_CHECKOUT")
<1>2. /\ new \in Row /\ OneStory(new) /\ new.status = "CHECKED_OUT"
      /\ Len(new.pauses) = Len(row.pauses)
      /\ \A col \in {"emp", "date", "inAt", "reopen"} : new[col] = row[col]
  BY <1>1, ClosingRow
<1>3. ClosedStale(row, pauses) = new
  BY DEF ClosedStale, cutoff
<1> HIDE DEF new
<1> QED
  BY <1>2, <1>3

-----------------------------------------------------------------------------
(* What the actions have in common *)

(* A step that changes no row but by a write of the kinds above.            *)
RowsKept ==
    /\ session' \in [SessionIds -> Row]
    /\ PauseMatchesStatus'
    /\ \A r \in SessionIds :
         /\ Len(session[r].pauses) \in Nat /\ Len(session'[r].pauses) \in Nat
         /\ session[r].status # "NONE" =>
              /\ session'[r].status # "NONE"
              /\ Len(session'[r].pauses) >= Len(session[r].pauses)

NoRowAdded ==
    \A r \in SessionIds : session'[r].status # "NONE" => session[r].status # "NONE"

LEMMA LenPauses == ASSUME NEW row \in Row PROVE Len(row.pauses) \in Nat
BY LenProperties DEF Row

LEMMA SessionSame == ASSUME Inv, UNCHANGED session PROVE RowsKept /\ NoRowAdded
BY LenPauses DEF Inv, TypeOK, RowsKept, NoRowAdded, PauseMatchesStatus

LEMMA SessionWrite ==
    ASSUME Inv, NEW s \in SessionIds, session[s].status # "NONE",
           NEW row \in Row, OneStory(row), row.status # "NONE",
           Len(row.pauses) >= Len(session[s].pauses),
           session' = [session EXCEPT ![s] = row]
    PROVE  RowsKept /\ NoRowAdded
<1>1. session \in [SessionIds -> Row] /\ \A r \in SessionIds : OneStory(session[r])
  BY DEF Inv, TypeOK, PauseMatchesStatus
<1>2. session' \in [SessionIds -> Row]
  BY <1>1
<1>3. \A r \in SessionIds : session'[r] = IF r = s THEN row ELSE session[r]
  BY <1>1
<1>4. \A r \in SessionIds : OneStory(session'[r])
  BY <1>1, <1>3
<1>5. \A r \in SessionIds : Len(session[r].pauses) \in Nat /\ Len(session'[r].pauses) \in Nat
  BY <1>1, <1>2, LenPauses
<1> QED
  BY <1>2, <1>3, <1>4, <1>5 DEF RowsKept, NoRowAdded, PauseMatchesStatus

LEMMA FinishKeeps ==
    ASSUME Inv, NEW w \in Workers, Finish(w), RowsKept
    PROVE  /\ call' \in [Workers -> Call] /\ view' \in [Workers -> View]
           /\ ReadBeforeWrite'
           /\ \A u \in Workers : view'[u].rows \in {0, view[u].rows}
<1>1. call \in [Workers -> Call] /\ view \in [Workers -> View]
  BY DEF Inv, TypeOK
<1>2. NoCall \in Call /\ NoCall.pc = "idle"
  <2>1. (CHOOSE i \in Ids : TRUE) \in Ids /\ 0 \in Times
    BY IdentityAssumption, ParameterAssumption DEF Times
  <2> QED
    BY <2>1 DEF NoCall, Call, Op
<1>3. NoView \in View /\ NoView.rows = 0
  BY EmptySeq, ParameterAssumption DEF NoView, View
<1>4. /\ call' \in [Workers -> Call] /\ view' \in [Workers -> View]
      /\ \A u \in Workers : /\ call'[u] = IF u = w THEN NoCall ELSE call[u]
                            /\ view'[u] = IF u = w THEN NoView ELSE view[u]
  BY <1>1, <1>2, <1>3 DEF Finish
<1>5. ASSUME NEW u \in Workers, call'[u].pc = "ready"
      PROVE  /\ view'[u].sess # 0
             /\ call'[u].op = "GEOFENCE_RETURN" =>
                  OpenPause(view'[u].pauses) \in 1 .. Len(session'[view'[u].sess].pauses)
  <2>1. u # w /\ call'[u] = call[u] /\ view'[u] = view[u]
    BY <1>2, <1>4, <1>5
  <2>2. view[u].sess \in SessionIds
    BY <1>1, <1>5, <2>1 DEF Inv, ReadBeforeWrite, View
  <2> QED
    BY <1>5, <2>1, <2>2 DEF Inv, ReadBeforeWrite, RowsKept
<1>6. ASSUME NEW u \in Workers, call'[u].pc # "idle" PROVE call'[u].ev \in ClientEventIds
  BY <1>2, <1>4, <1>6 DEF Inv, ReadBeforeWrite
<1>7. ASSUME NEW u \in Workers, view'[u].sess # 0
      PROVE  session'[view'[u].sess].status # "NONE"
  <2>1. view'[u] = view[u] /\ view[u].sess \in SessionIds
    BY <1>1, <1>4, <1>7 DEF NoView, View
  <2> QED
    BY <1>7, <2>1 DEF Inv, ReadBeforeWrite, RowsKept
<1> QED
  BY <1>3, <1>4, <1>5, <1>6, <1>7 DEF ReadBeforeWrite

LEMMA CallsSame ==
    ASSUME Inv, UNCHANGED <<call, view>>, RowsKept
    PROVE  /\ call' \in [Workers -> Call] /\ view' \in [Workers -> View]
           /\ ReadBeforeWrite'
           /\ \A u \in Workers : view'[u].rows \in {0, view[u].rows}
<1>1. call \in [Workers -> Call] /\ view \in [Workers -> View]
  BY DEF Inv, TypeOK
<1>2. ASSUME NEW u \in Workers, view[u].sess # 0 PROVE view[u].sess \in SessionIds
  BY <1>1, <1>2 DEF View
<1> QED
  BY <1>1, <1>2 DEF Inv, ReadBeforeWrite, RowsKept

(* The row count and the numbering stand when no row is inserted.           *)
LEMMA RowsStay ==
    ASSUME Inv, RowsKept, NoRowAdded, UNCHANGED nRows, \A u \in Workers : view'[u].rows \in {0, view[u].rows}
    PROVE  nRows' \in 0 .. MaxSessions /\ RowsInOrder'
BY DEF Inv, TypeOK, RowsInOrder, RowsKept, NoRowAdded

LEMMA RecordType ==
    ASSUME Inv, NEW w \in Workers, call[w].pc # "idle", NEW s \in SessionIds, Record(w, s)
    PROVE  events' \in SUBSET Event
<1>1. call[w].ev \in ClientEventIds /\ call[w].op \in EventType
  BY DEF Inv, TypeOK, ReadBeforeWrite, Call, Op, EventType
<1>2. [id |-> ClientEvent(call[w].ev), sess |-> s, type |-> call[w].op] \in Event
  BY <1>1 DEF Event, ClientEvent
<1> QED
  BY <1>2 DEF Inv, TypeOK, Record, Log

(* The transactions of check-out, exit and return: one row is written and   *)
(* the handler ends.                                                        *)
LEMMA CommitKeeps ==
    ASSUME Inv, NEW w \in Workers, call[w].pc # "idle", NEW s \in SessionIds,
           session[s].status # "NONE",
           NEW row \in Row, OneStory(row), row.status # "NONE",
           Len(row.pauses) >= Len(session[s].pauses),
           session' = [session EXCEPT ![s] = row],
           Record(w, s), Finish(w), UNCHANGED <<clock, nRows, exc, sweep>>
    PROVE  Inv'
<1>1. RowsKept /\ NoRowAdded
  BY SessionWrite
<1>2. /\ call' \in [Workers -> Call] /\ view' \in [Workers -> View] /\ ReadBeforeWrite'
      /\ \A u \in Workers : view'[u].rows \in {0, view[u].rows}
  BY <1>1, FinishKeeps
<1>3. nRows' \in 0 .. MaxSessions /\ RowsInOrder'
  BY <1>1, <1>2, RowsStay
<1>4. events' \in SUBSET Event
  BY RecordType
<1> QED
  BY <1>1, <1>2, <1>3, <1>4 DEF Inv, TypeOK, RowsKept

-----------------------------------------------------------------------------
(* The steps of the requests *)

LEMMA EventTimesType == ASSUME Inv PROVE EventTimes \subseteq Times
BY ParameterAssumption DEF Inv, TypeOK, EventTimes, Times

LEMMA NoViewType == NoView \in View /\ NoView.rows = 0 /\ NoView.sess = 0
BY EmptySeq, ParameterAssumption DEF NoView, View

LEMMA FoundType ==
    ASSUME Inv, NEW s \in SessionIds, IsLive(s)
    PROVE  /\ Found(s) \in View
           /\ Found(s).sess = s /\ Found(s).pauses = session[s].pauses /\ Found(s).rows = 0
           /\ session[s].status # "NONE"
<1>1. session[s].pauses \in Seq(Pause)
  BY DEF Inv, TypeOK, Row
<1>2. session[s].status \in LiveStatus
  BY DEF IsLive
<1> QED
  BY <1>1, <1>2, NoViewType DEF Found, View, LiveStatus

LEMMA WithReadsType ==
    ASSUME Inv, NEW v \in View, NEW i, NEW t
    PROVE  /\ WithReads(v, i, t) \in View /\ WithReads(v, i, t).rows = nRows
           /\ WithReads(v, i, t).sess = v.sess /\ WithReads(v, i, t).pauses = v.pauses
<1>1. nRows \in 0 .. MaxSessions /\ CompletedOn(i, toDateOnly(t)) \in BOOLEAN
      /\ UsableExceptions(i, t) \subseteq Exceptions
  BY DEF Inv, TypeOK, CompletedOn, UsableExceptions
<1> QED
  BY <1>1 DEF WithReads, View

LEMMA ActiveType ==
    ASSUME Inv, NEW i \in Ids, NEW t, NEW v, ActiveFor(i, t, v)
    PROVE  /\ v \in View /\ v.rows = 0
           /\ v.sess # 0 => v.sess \in SessionIds /\ session[v.sess].status # "NONE"
BY FoundType, NoViewType DEF ActiveFor, LiveOf

(* A handler that has started and read leaves the tables alone.             *)
LEMMA ReadKeeps ==
    ASSUME Inv, NEW w \in Workers, NEW c \in Call, NEW v \in View,
           c.pc # "idle" => c.ev \in ClientEventIds,
           c.pc = "ready" =>
             /\ v.sess # 0
             /\ c.op = "GEOFENCE_RETURN" =>
                  OpenPause(v.pauses) \in 1 .. Len(session[v.sess].pauses),
           v.sess # 0 => session[v.sess].status # "NONE",
           v.rows <= nRows,
           call' = [call EXCEPT ![w] = c], view' = [view EXCEPT ![w] = v],
           UNCHANGED <<clock, session, nRows, events, exc, sweep>>
    PROVE  Inv'
<1>1. call \in [Workers -> Call] /\ view \in [Workers -> View]
  BY DEF Inv, TypeOK
<1>2. /\ call' \in [Workers -> Call] /\ view' \in [Workers -> View]
      /\ \A u \in Workers : /\ call'[u] = IF u = w THEN c ELSE call[u]
                            /\ view'[u] = IF u = w THEN v ELSE view[u]
  BY <1>1
<1>3. TypeOK'
  BY <1>2 DEF Inv, TypeOK
<1>4. PauseMatchesStatus'
  BY DEF Inv, PauseMatchesStatus
<1>5. RowsInOrder'
  BY <1>2 DEF Inv, RowsInOrder
<1>6. ReadBeforeWrite'
  BY <1>2 DEF Inv, ReadBeforeWrite
<1> QED
  BY <1>3, <1>4, <1>5, <1>6 DEF Inv

LEMMA StartType ==
    ASSUME Inv, NEW w \in Workers, NEW pc \in {"begun", "ready"}, NEW op \in Op, NEW i \in Ids,
           NEW c \in ClientEventIds, NEW t \in EventTimes
    PROVE  [pc |-> pc, op |-> op, emp |-> i, ev |-> c, at |-> t] \in Call
BY EventTimesType DEF Call

LEMMA CheckInBeginKeeps == ASSUME Inv, NEW w \in Workers, CheckInBegin(w) PROVE Inv'
<1>1. PICK i \in Ids, c \in ClientEventIds, t \in EventTimes :
        /\ Start(w, "begun", "CHECK_IN", i, c, t)
        /\ IF SnapshotReads
           THEN \E v \in {NoView} \cup {Found(s) : s \in Rows} :
                    ActiveFor(i, t, v) /\ Remember(w, WithReads(v, i, t))
           ELSE Remember(w, NoView)
  BY DEF CheckInBegin
<1> DEFINE new == [pc |-> "begun", op |-> "CHECK_IN", emp |-> i, ev |-> c, at |-> t]
<1>2. new \in Call
  BY StartType DEF Op
<1>3. call' = [call EXCEPT ![w] = new]
  BY <1>1 DEF Start
<1>4. PICK v \in View :
        /\ v.rows <= nRows
        /\ v.sess # 0 => session[v.sess].status # "NONE"
        /\ view' = [view EXCEPT ![w] = v]
  <2>1. nRows \in Nat
    BY DEF Inv, TypeOK
  <2>2. CASE SnapshotReads
    BY <1>1, <2>1, <2>2, ActiveType, WithReadsType DEF Remember
  <2>3. CASE ~ SnapshotReads
    BY <1>1, <2>1, <2>3, NoViewType DEF Remember
  <2> QED
    BY <2>2, <2>3
<1>5. UNCHANGED <<clock, session, nRows, events, exc, sweep>>
  BY DEF CheckInBegin
<1>6. new.ev \in ClientEventIds /\ new.pc # "ready"
  OBVIOUS
<1> HIDE DEF new
<1> QED
  BY <1>2, <1>3, <1>4, <1>5, <1>6, ReadKeeps

LEMMA CheckInLockKeeps == ASSUME Inv, NEW w \in Workers, CheckInLock(w) PROVE Inv'
<1> DEFINE new == [call[w] EXCEPT !.pc = "locked"]
<1>1. call[w] \in Call /\ view[w] \in View
  BY DEF Inv, TypeOK
<1>2. new \in Call /\ new.pc = "locked" /\ new.ev = call[w].ev
  BY <1>1 DEF Call
<1>3. call[w].pc = "begun" /\ call[w].ev \in ClientEventIds
  BY DEF CheckInLock, Inv, ReadBeforeWrite
<1>4. call' = [call EXCEPT ![w] = new]
  BY DEF CheckInLock
<1>5. PICK v \in View :
        /\ v.rows <= nRows
        /\ v.sess # 0 => session[v.sess].status # "NONE"
        /\ view' = [view EXCEPT ![w] = v]
  <2>1. nRows \in Nat
    BY DEF Inv, TypeOK
  <2>2. CASE SnapshotReads
    <3>1. view' = [view EXCEPT ![w] = view[w]]
      BY <2>2 DEF CheckInLock, Inv, TypeOK
    <3> QED
      BY <1>1, <3>1 DEF Inv, RowsInOrder, ReadBeforeWrite
  <2>3. CASE ~ SnapshotReads
    <3>1. call[w].emp \in Ids
      BY <1>1 DEF Call
    <3> QED
      BY <2>1, <2>3, <3>1, ActiveType DEF CheckInLock, Remember
  <2> QED
    BY <2>2, <2>3
<1>6. UNCHANGED <<clock, session, nRows, events, exc, sweep>>
  BY DEF CheckInLock
<1> HIDE DEF new
<1> QED
  BY <1>2, <1>3, <1>4, <1>5, <1>6, ReadKeeps

(* A check-in closes the stale session, if it found one, and adds the row   *)
(* after the last.                                                          *)
LEMMA CheckInCreateKeeps == ASSUME Inv, NEW w \in Workers, CheckInCreate(w) PROVE Inv'
<1> DEFINE i    == call[w].emp
           t    == call[w].at
           v    == IF SnapshotReads THEN view[w] ELSE WithReads(view[w], i, t)
           n    == v.rows + 1
           base == IF v.sess = 0 THEN session ELSE CloseStale(v)
<1>1. call[w] \in Call /\ view[w] \in View
  BY DEF Inv, TypeOK
<1>2. i \in Ids /\ t \in Times /\ call[w].pc # "idle"
  BY <1>1 DEF Call, CheckInCreate
<1>3. v \in View /\ v.sess = view[w].sess /\ v.rows <= nRows
  <2>1. nRows \in Nat
    BY DEF Inv, TypeOK
  <2> QED
    BY <1>1, <2>1, WithReadsType DEF Inv, RowsInOrder
<1>4. n \in SessionIds /\ session[n].status = "NONE"
  BY DEF CheckInCreate
<1>5. n = nRows + 1 /\ nRows' = nRows + 1 /\ nRows \in Nat /\ v.rows \in Nat
  <2>1. ~ (n <= nRows)
    BY <1>4 DEF Inv, RowsInOrder
  <2>2. nRows \in Nat /\ v.rows \in Nat
    BY <1>3 DEF Inv, TypeOK, View
  <2> QED
    BY <1>3, <2>1, <2>2 DEF CheckInCreate
<1>6. PICK x \in Exceptions \cup {None, 0} :
        /\ session' = [base EXCEPT ![n] = NewRow(i, t, x)]
        /\ exc' = UsedUp(x)
  <2>1. v.usable \subseteq Exceptions
    BY <1>3 DEF View
  <2> QED
    BY <2>1 DEF CheckInCreate
<1>7. Finish(w) /\ Record(w, n) /\ UNCHANGED <<clock, sweep>>
  BY DEF CheckInCreate
<1> HIDE DEF v, n
<1>8. /\ base \in [SessionIds -> Row]
      /\ \A r \in SessionIds :
           /\ OneStory(base[r])
           /\ base[r].status # "NONE" <=> session[r].status # "NONE"
           /\ Len(base[r].pauses) \in Nat /\ Len(session[r].pauses) \in Nat
           /\ Len(base[r].pauses) >= Len(session[r].pauses)
  <2>1. CASE v.sess = 0
    BY <2>1, LenPauses DEF Inv, TypeOK, PauseMatchesStatus
  <2>2. CASE v.sess # 0
    <3>1. session[v.sess].status # "NONE"
      BY <1>3, <2>2 DEF Inv, ReadBeforeWrite
    <3>2. base = CloseStale(v)
      BY <2>2
    <3>3. v.sess \in SessionIds /\ v.pauses \in Seq(Pause)
      BY <1>3, <2>2 DEF View
    <3>4. session[v.sess] \in Row
      BY <3>3 DEF Inv, TypeOK
    <3> DEFINE row == ClosedStale(session[v.sess], v.pauses)
    <3>5. base = [session EXCEPT ![v.sess] = row]
      BY <3>2 DEF CloseStale
    <3>6. /\ row \in Row /\ OneStory(row) /\ row.status = "CHECKED_OUT"
          /\ Len(row.pauses) = Len(session[v.sess].pauses)
      BY <3>3, <3>4, ClosedStaleRow
    <3> HIDE DEF row, base
    <3> QED
      BY <3>1, <3>3, <3>5, <3>6, LenPauses DEF Inv, TypeOK, PauseMatchesStatus
  <2> QED
    BY <2>1, <2>2
<1> HIDE DEF base
<1> DEFINE new == NewRow(i, t, x)
<1>9. new \in Row /\ OneStory(new) /\ new.status = "WORKING" /\ Len(new.pauses) \in Nat
  BY <1>2, NewRowType, LenPauses
<1>10. /\ session' \in [SessionIds -> Row]
       /\ \A r \in SessionIds : session'[r] = IF r = n THEN new ELSE base[r]
  BY <1>4, <1>6, <1>8, <1>9
<1> HIDE DEF new
<1>11. RowsKept
  BY <1>4, <1>8, <1>9, <1>10 DEF RowsKept, PauseMatchesStatus
<1>12. /\ call' \in [Workers -> Call] /\ view' \in [Workers -> View] /\ ReadBeforeWrite'
       /\ \A u \in Workers : view'[u].rows \in {0, view[u].rows}
  BY <1>7, <1>11, FinishKeeps
<1>13. RowsInOrder'
  <2>1. \A r \in SessionIds : r \in Nat
    BY ParameterAssumption DEF SessionIds
  <2>2. \A r \in SessionIds : session[r].status # "NONE" <=> r <= nRows
    BY DEF Inv, RowsInOrder
  <2>3. ASSUME NEW r \in SessionIds PROVE session'[r].status # "NONE" <=> r <= nRows'
    <3>1. CASE r = n
      BY <1>5, <1>9, <1>10, <3>1
    <3>2. CASE r # n
      BY <1>5, <1>8, <1>10, <2>1, <2>2, <3>2
    <3> QED
      BY <3>1, <3>2
  <2>4. ASSUME NEW u \in Workers PROVE view'[u].rows <= nRows'
    <3>1. view[u].rows \in Nat /\ view[u].rows <= nRows
      BY DEF Inv, TypeOK, RowsInOrder, View
    <3> QED
      BY <1>5, <1>12, <3>1
  <2> QED
    BY <2>3, <2>4 DEF RowsInOrder
<1>14. nRows' \in 0 .. MaxSessions
  BY <1>4, <1>5, ParameterAssumption DEF SessionIds
<1>15. exc' \in [Exceptions -> {"PENDING", "APPROVED", "REJECTED", "USED"}]
  BY <1>6 DEF UsedUp, Inv, TypeOK
<1>16. events' \in SUBSET Event
  BY <1>2, <1>4, <1>7, RecordType
<1> QED
  BY <1>7, <1>10, <1>11, <1>12, <1>13, <1>14, <1>15, <1>16 DEF Inv, TypeOK, RowsKept

(* The three handlers that read one session before their transaction.       *)
LEMMA ReadyKeeps ==
    ASSUME Inv, NEW w \in Workers, NEW op \in Op, NEW i \in Ids, NEW c \in ClientEventIds,
           NEW t \in EventTimes, Start(w, "ready", op, i, c, t),
           NEW v \in View, v.sess # 0, v.rows = 0, session[v.sess].status # "NONE",
           op = "GEOFENCE_RETURN" => OpenPause(v.pauses) \in 1 .. Len(session[v.sess].pauses),
           Remember(w, v), UNCHANGED <<clock, session, nRows, events, exc, sweep>>
    PROVE  Inv'
<1> DEFINE new == [pc |-> "ready", op |-> op, emp |-> i, ev |-> c, at |-> t]
<1>1. new \in Call /\ new.ev \in ClientEventIds /\ new.op = op
  BY StartType
<1>2. call' = [call EXCEPT ![w] = new] /\ view' = [view EXCEPT ![w] = v]
  BY DEF Start, Remember
<1>3. v.rows <= nRows
  BY DEF Inv, TypeOK
<1> HIDE DEF new
<1> QED
  BY <1>1, <1>2, <1>3, ReadKeeps

LEMMA CheckOutReadKeeps == ASSUME Inv, NEW w \in Workers, CheckOutRead(w) PROVE Inv'
<1>1. PICK i \in Ids, c \in ClientEventIds, t \in EventTimes, s \in SessionIds :
        Start(w, "ready", "CHECK_OUT", i, c, t) /\ IsLive(s) /\ Remember(w, Found(s))
  BY DEF CheckOutRead, LiveOf
<1>2. /\ Found(s) \in View /\ Found(s).sess = s /\ Found(s).rows = 0
      /\ session[s].status # "NONE" /\ s # 0
  BY <1>1, FoundType DEF SessionIds
<1>3. UNCHANGED <<clock, session, nRows, events, exc, sweep>>
  BY DEF CheckOutRead
<1> QED
  BY <1>1, <1>2, <1>3, ReadyKeeps DEF Op

LEMMA GeofenceExitReadKeeps == ASSUME Inv, NEW w \in Workers, GeofenceExitRead(w) PROVE Inv'
<1>1. PICK i \in Ids, c \in ClientEventIds, t \in EventTimes, s \in SessionIds :
        /\ Start(w, "ready", "GEOFENCE_EXIT", i, c, t) /\ session[s].status = "WORKING"
        /\ Remember(w, [NoView EXCEPT !.sess = s, !.status = "WORKING"])
  BY DEF GeofenceExitRead, LiveOf
<1> DEFINE v == [NoView EXCEPT !.sess = s, !.status = "WORKING"]
<1>2. v \in View /\ v.sess = s /\ v.rows = 0 /\ s # 0
  <2>1. "WORKING" \in LiveStatus /\ s # 0
    BY DEF LiveStatus, SessionIds
  <2> QED
    BY <2>1, NoViewType DEF View
<1>3. UNCHANGED <<clock, session, nRows, events, exc, sweep>>
  BY DEF GeofenceExitRead
<1> HIDE DEF v
<1> QED
  BY <1>1, <1>2, <1>3, ReadyKeeps DEF Op, v

LEMMA GeofenceReturnReadKeeps == ASSUME Inv, NEW w \in Workers, GeofenceReturnRead(w) PROVE Inv'
<1>1. PICK i \in Ids, c \in ClientEventIds, t \in EventTimes, s \in SessionIds :
        /\ Start(w, "ready", "GEOFENCE_RETURN", i, c, t) /\ IsLive(s)
        /\ OpenPause(session[s].pauses) # 0
        /\ Remember(w, Found(s))
  BY DEF GeofenceReturnRead, LiveOf
<1>2. /\ Found(s) \in View /\ Found(s).sess = s /\ Found(s).rows = 0
      /\ Found(s).pauses = session[s].pauses
      /\ session[s].status # "NONE" /\ s # 0
  BY <1>1, FoundType DEF SessionIds
<1>3. session[s].pauses \in Seq(Pause)
  BY DEF Inv, TypeOK, Row
<1>4. OpenPause(session[s].pauses) \in 1 .. Len(session[s].pauses)
  BY <1>1, <1>3, OpenPauseType
<1>5. UNCHANGED <<clock, session, nRows, events, exc, sweep>>
  BY DEF GeofenceReturnRead
<1> QED
  BY <1>1, <1>2, <1>4, <1>5, ReadyKeeps DEF Op

(* What a transaction that is ready to commit works on.                     *)
LEMMA ReadyType ==
    ASSUME Inv, NEW w \in Workers, call[w].pc = "ready"
    PROVE  /\ view[w].sess \in SessionIds /\ view[w].pauses \in Seq(Pause)
           /\ session[view[w].sess] \in Row /\ session[view[w].sess].status # "NONE"
           /\ OneStory(session[view[w].sess])
           /\ Len(session[view[w].sess].pauses) \in Nat
           /\ call[w].at \in Times /\ call[w].at \in Instants /\ call[w].pc # "idle"
<1>1. view[w] \in View /\ call[w] \in Call /\ view[w].sess # 0
  BY DEF Inv, TypeOK, ReadBeforeWrite
<1>2. view[w].sess \in SessionIds /\ view[w].pauses \in Seq(Pause) /\ call[w].at \in Times
  BY <1>1 DEF View, Call
<1>3. session[view[w].sess] \in Row
  BY <1>2 DEF Inv, TypeOK
<1> QED
  BY <1>1, <1>2, <1>3, LenPauses, TimesAreInstants
     DEF Inv, ReadBeforeWrite, PauseMatchesStatus

LEMMA CheckOutCommitKeeps == ASSUME Inv, NEW w \in Workers, CheckOutCommit(w) PROVE Inv'
<1> DEFINE v   == view[w]
           t   == call[w].at
           old == session[v.sess]
           i   == IF v.status = "PAUSED" THEN OpenPause(v.pauses) ELSE 0
           row == EndPause(Closed(old, t, "USER_CHECKOUT", TotalAtClose(old.inAt, t, v.pauses)),
                           i, t, "RETURNED")
<1>1. /\ v.sess \in SessionIds /\ v.pauses \in Seq(Pause) /\ old \in Row
      /\ old.status # "NONE" /\ Len(old.pauses) \in Nat /\ t \in Instants /\ call[w].pc # "idle"
  BY ReadyType DEF CheckOutCommit
<1>2. session' = [session EXCEPT ![v.sess] = row]
  BY DEF CheckOutCommit
<1>3. row \in Row /\ OneStory(row) /\ row.status = "CHECKED_OUT" /\ Len(row.pauses) = Len(old.pauses)
  <2>1. "USER_CHECKOUT" \in {"USER_CHECKOUT", "GEOFENCE_TIMEOUT", "SYSTEM_ACTION"}
        /\ "RETURNED" \in {"RETURNED", "AUTO_CHECKOUT"}
    OBVIOUS
  <2> DEFINE ps == v.pauses
  <2>2. ps \in Seq(Pause)
    BY <1>1
  <2> HIDE DEF i, t, old, ps
  <2>3. LET new == EndPause(Closed(old, t, "USER_CHECKOUT", TotalAtClose(old.inAt, t, ps)),
                            i, t, "RETURNED")
        IN  /\ new \in Row /\ OneStory(new) /\ new.status = "CHECKED_OUT"
            /\ Len(new.pauses) = Len(old.pauses)
    BY <1>1, <2>1, <2>2, ClosingRow
  <2> QED
    BY <2>3 DEF ps
<1>4. Record(w, v.sess) /\ Finish(w) /\ UNCHANGED <<clock, nRows, exc, sweep>>
  BY DEF CheckOutCommit
<1>5. row.status # "NONE" /\ Len(row.pauses) >= Len(session[v.sess].pauses)
  BY <1>1, <1>3
<1> DEFINE s == v.sess
<1>6. s \in SessionIds /\ session[s].status # "NONE" /\ session' = [session EXCEPT ![s] = row]
      /\ Record(w, s) /\ Len(row.pauses) >= Len(session[s].pauses)
  BY <1>1, <1>2, <1>4, <1>5
<1> HIDE DEF row, s
<1> QED
  BY <1>1, <1>3, <1>4, <1>5, <1>6, CommitKeeps

LEMMA GeofenceExitCommitKeeps == ASSUME Inv, NEW w \in Workers, GeofenceExitCommit(w) PROVE Inv'
<1> DEFINE s   == view[w].sess
           old == session[s]
           row == Paused(old, call[w].at)
<1>1. /\ s \in SessionIds /\ old \in Row /\ OneStory(old) /\ old.status = "WORKING"
      /\ Len(old.pauses) \in Nat /\ call[w].at \in Times /\ call[w].pc # "idle"
  BY ReadyType DEF GeofenceExitCommit
<1>2. session' = [session EXCEPT ![s] = row]
  BY DEF GeofenceExitCommit
<1>3. row \in Row /\ OneStory(row) /\ row.status = "PAUSED" /\ Len(row.pauses) = Len(old.pauses) + 1
  BY <1>1, PausedRow
<1>4. Record(w, s) /\ Finish(w) /\ UNCHANGED <<clock, nRows, exc, sweep>>
  BY DEF GeofenceExitCommit
<1> HIDE DEF row
<1>5. /\ row.status # "NONE" /\ Len(row.pauses) >= Len(session[s].pauses)
      /\ session[s].status # "NONE"
  BY <1>1, <1>3, SMTT(30)
<1> HIDE DEF s
<1> QED
  BY <1>1, <1>2, <1>3, <1>4, <1>5, CommitKeeps

LEMMA GeofenceReturnCommitKeeps ==
    ASSUME Inv, NEW w \in Workers, GeofenceReturnCommit(w) PROVE Inv'
<1> DEFINE v     == view[w]
           i     == OpenPause(v.pauses)
           t     == call[w].at
           old   == session[v.sess]
           ended == EndPause(old, i, t, "RETURNED")
           row   == Resumed(ended)
<1>1. /\ v.sess \in SessionIds /\ old \in Row /\ OneStory(old) /\ old.status = "PAUSED"
      /\ old.pauses[i].end = None /\ i \in 1 .. Len(old.pauses)
      /\ Len(old.pauses) \in Nat /\ t \in Instants /\ call[w].pc # "idle"
  BY ReadyType DEF GeofenceReturnCommit, Inv, ReadBeforeWrite
<1>2. session' = [session EXCEPT ![v.sess] = row]
  BY DEF GeofenceReturnCommit
<1>3. DOMAIN old.pauses = 1 .. Len(old.pauses)
  BY <1>1, LenProperties DEF Row
<1> HIDE DEF i, t, old
<1>4. \A j \in DOMAIN old.pauses : j # i => old.pauses[j].end # None
  BY <1>1, <1>3 DEF OneStory, OpenPauses
<1>5. /\ ended \in Row /\ Len(ended.pauses) = Len(old.pauses)
      /\ \A j \in DOMAIN old.pauses : IF j = i THEN ended.pauses[j].end # None
                                      ELSE ended.pauses[j] = old.pauses[j]
  BY <1>1, EndPauseRow
<1> HIDE DEF ended
<1>6. DOMAIN ended.pauses = 1 .. Len(ended.pauses)
  BY <1>5, LenProperties DEF Row
<1>7. OpenPauses(ended) = {}
  BY <1>3, <1>4, <1>5, <1>6 DEF OpenPauses
<1>8. row \in Row /\ OneStory(row) /\ row.status = "WORKING" /\ row.pauses = ended.pauses
  BY <1>5, <1>7, ResumedRow
<1>9. Record(w, v.sess) /\ Finish(w) /\ UNCHANGED <<clock, nRows, exc, sweep>>
  BY DEF GeofenceReturnCommit
<1> HIDE DEF row
<1>10. /\ row.status # "NONE" /\ Len(row.pauses) >= Len(session[v.sess].pauses)
       /\ session[v.sess].status # "NONE"
  BY <1>1, <1>5, <1>8 DEF old
<1> DEFINE s == v.sess
<1>11. s \in SessionIds /\ session[s].status # "NONE" /\ session' = [session EXCEPT ![s] = row]
       /\ Record(w, s) /\ Len(row.pauses) >= Len(session[s].pauses)
  BY <1>1, <1>2, <1>9, <1>10
<1> HIDE DEF s
<1> QED
  BY <1>1, <1>8, <1>9, <1>10, <1>11, CommitKeeps

LEMMA AbortKeeps == ASSUME Inv, NEW w \in Workers, Abort(w) PROVE Inv'
<1>1. RowsKept /\ NoRowAdded
  BY SessionSame DEF Abort
<1>2. /\ call' \in [Workers -> Call] /\ view' \in [Workers -> View] /\ ReadBeforeWrite'
      /\ \A u \in Workers : view'[u].rows \in {0, view[u].rows}
  BY <1>1, FinishKeeps DEF Abort
<1>3. nRows' \in 0 .. MaxSessions /\ RowsInOrder'
  BY <1>1, <1>2, RowsStay DEF Abort
<1> QED
  BY <1>1, <1>2, <1>3 DEF Abort, Inv, TypeOK, RowsKept

-----------------------------------------------------------------------------
(* The steps of the sweep *)

(* A step of a sweeper that writes no table.                                *)
LEMMA SweepReadKeeps ==
    ASSUME Inv, NEW k \in Sweepers, NEW p \in Progress, sweep' = [sweep EXCEPT ![k] = p],
           UNCHANGED <<clock, session, nRows, events, exc, call, view>>
    PROVE  Inv'
<1>1. sweep' \in [Sweepers -> Progress]
  BY DEF Inv, TypeOK
<1>2. RowsKept /\ NoRowAdded
  BY SessionSame
<1>3. ReadBeforeWrite' /\ \A u \in Workers : view'[u].rows \in {0, view[u].rows}
  BY <1>2, CallsSame
<1>4. nRows' \in 0 .. MaxSessions /\ RowsInOrder'
  BY <1>2, <1>3, RowsStay
<1> QED
  BY <1>1, <1>2, <1>3, <1>4 DEF Inv, TypeOK, RowsKept

LEMMA NoItemType == NoItem \in Item /\ Resting \in Progress
<1>1. NoItem \in Item
  BY EmptySeq DEF NoItem, Item
<1>2. 0 \in Times
  BY ParameterAssumption DEF Times
<1> QED
  BY <1>1, <1>2 DEF Resting, Progress

LEMMA WorkingType ==
    ASSUME NEW now \in Times, NEW item \in [SessionIds -> Item]
    PROVE  Working(now, item) \in Progress
BY NoItemType DEF Working, Progress

(* What the sweep keeps of a live session; a paused one has a deadline.     *)
LEMMA ItemType ==
    ASSUME Inv, NEW s \in SessionIds, IsLive(s), NEW target \in Nat
    PROVE  ItemOf(s, target) \in Item
<1>1. session[s] \in Row
  BY DEF Inv, TypeOK
<1>2. session[s].pauses \in Seq(Pause) /\ session[s].deadline \in Nat \cup {None}
  BY <1>1 DEF Row
<1>3. session[s].status \in LiveStatus
  BY DEF IsLive
<1> QED
  BY <1>2, <1>3 DEF ItemOf, Item

LEMMA PausedDeadline ==
    ASSUME Inv, NEW s \in SessionIds, session[s].status = "PAUSED"
    PROVE  session[s].deadline \in Nat
<1> DEFINE ps == session[s].pauses
<1>1. ps \in Seq(Pause) /\ DOMAIN ps = 1 .. Len(ps)
  BY LenProperties DEF Inv, TypeOK, Row
<1>2. Len(ps) \in DOMAIN ps /\ session[s].deadline = ps[Len(ps)].deadline
  BY DEF Inv, PauseMatchesStatus, OneStory, OpenPauses
<1>3. ps[Len(ps)] \in Pause
  BY <1>1, <1>2, ElementOfSeq
<1> QED
  BY <1>2, <1>3 DEF Pause

LEMMA SweepReadPausedKeeps == ASSUME Inv, NEW k \in Sweepers, SweepReadPaused(k) PROVE Inv'
<1>1. PICK B \in SUBSET {s \in SessionIds : session[s].status = "PAUSED"} :
        sweep' = [sweep EXCEPT ![k] =
            [pc |-> "half", now |-> clock,
             item |-> [s \in SessionIds |->
                         IF s \in B THEN ItemOf(s, session[s].deadline) ELSE NoItem]]]
  BY DEF SweepReadPaused, Batches
<1> DEFINE item == [s \in SessionIds |-> IF s \in B THEN ItemOf(s, session[s].deadline) ELSE NoItem]
<1>2. ASSUME NEW s \in B PROVE ItemOf(s, session[s].deadline) \in Item
  <2>1. s \in SessionIds /\ IsLive(s) /\ session[s].deadline \in Nat
    BY <1>1, PausedDeadline DEF IsLive, LiveStatus
  <2> QED
    BY <2>1, ItemType
<1>3. item \in [SessionIds -> Item]
  BY <1>2, NoItemType
<1> HIDE DEF item
<1>4. [pc |-> "half", now |-> clock, item |-> item] \in Progress
  BY <1>3 DEF Progress, Inv, TypeOK
<1>5. UNCHANGED <<clock, session, nRows, events, exc, call, view>>
  BY DEF SweepReadPaused
<1>6. sweep' = [sweep EXCEPT ![k] = [pc |-> "half", now |-> clock, item |-> item]]
  BY <1>1 DEF item
<1> QED
  BY <1>4, <1>5, <1>6, SweepReadKeeps

LEMMA SweepReadActiveKeeps == ASSUME Inv, NEW k \in Sweepers, SweepReadActive(k) PROVE Inv'
<1> DEFINE cutoff(s) == getMidnightCutoffForSession(session[s].inAt)
           old       == sweep[k].item
<1>1. PICK D \in SUBSET {s \in SessionIds : IsLive(s)} :
        sweep' = [sweep EXCEPT ![k] =
            Working(sweep[k].now, [s \in SessionIds |->
                        IF s \in D THEN ItemOf(s, cutoff(s)) ELSE old[s]])]
  BY DEF SweepReadActive, Batches
<1> DEFINE item == [s \in SessionIds |-> IF s \in D THEN ItemOf(s, cutoff(s)) ELSE old[s]]
<1>2. sweep[k].now \in Times /\ old \in [SessionIds -> Item]
  BY DEF Inv, TypeOK, Progress
<1>3. ASSUME NEW s \in D PROVE ItemOf(s, cutoff(s)) \in Item
  <2>1. s \in SessionIds /\ IsLive(s) /\ session[s].inAt \in Times
    BY <1>1 DEF Inv, TypeOK, Row
  <2>2. cutoff(s) \in Nat
    BY <2>1, TimesAreInstants, MidnightFollows
  <2> HIDE DEF cutoff
  <2> QED
    BY <2>1, <2>2, ItemType
<1>4. item \in [SessionIds -> Item]
  BY <1>2, <1>3
<1>5. sweep' = [sweep EXCEPT ![k] = Working(sweep[k].now, item)]
  BY <1>1
<1> HIDE DEF item
<1>6. Working(sweep[k].now, item) \in Progress
  BY <1>2, <1>4, WorkingType
<1>7. UNCHANGED <<clock, session, nRows, events, exc, call, view>>
  BY DEF SweepReadActive
<1> QED
  BY <1>5, <1>6, <1>7, SweepReadKeeps

LEMMA WithoutItemType ==
    ASSUME Inv, NEW k \in Sweepers, NEW s \in SessionIds
    PROVE  WithoutItem(sweep[k], s) \in Progress
<1>1. sweep[k].now \in Times /\ [sweep[k].item EXCEPT ![s] = NoItem] \in [SessionIds -> Item]
  BY NoItemType DEF Inv, TypeOK, Progress
<1> QED
  BY <1>1, WorkingType DEF WithoutItem

LEMMA SweepSkipKeeps ==
    ASSUME Inv, NEW k \in Sweepers, NEW s \in SessionIds, SweepSkip(k, s) PROVE Inv'
<1>1. WithoutItem(sweep[k], s) \in Progress
  BY WithoutItemType
<1>2. sweep' = [sweep EXCEPT ![k] = WithoutItem(sweep[k], s)]
  BY DEF SweepSkip
<1>3. UNCHANGED <<clock, session, nRows, events, exc, call, view>>
  BY DEF SweepSkip
<1> QED
  BY <1>1, <1>2, <1>3, SweepReadKeeps

LEMMA SweepCloseKeeps ==
    ASSUME Inv, NEW k \in Sweepers, NEW s \in SessionIds, SweepClose(k, s) PROVE Inv'
<1> DEFINE item   == sweep[k].item[s]
           at     == MinOf(item.target, sweep[k].now)
           reason == CloseReason(item, sweep[k].now)
           old    == session[s]
           row    == EndPause(Closed(old, at, reason, TotalAtClose(old.inAt, at, item.pauses)),
                              OpenPause(item.pauses), at, "AUTO_CHECKOUT")
<1>1. item \in Item /\ sweep[k].now \in Times /\ old \in Row /\ IsLive(s)
  BY DEF SweepClose, Inv, TypeOK, Progress
<1>2. item.target \in Nat /\ item.pauses \in Seq(Pause)
  BY <1>1 DEF Item
<1>3. at \in Instants
  <2>1. at \in Times
    BY <1>1, <1>2, ParameterAssumption DEF MinOf, Times
  <2> QED
    BY <2>1, TimesAreInstants
<1>4. session' = [session EXCEPT ![s] = row]
  BY DEF SweepClose
<1>5. row \in Row /\ OneStory(row) /\ row.status = "CHECKED_OUT" /\ Len(row.pauses) = Len(old.pauses)
  <2>1. reason \in {"USER_CHECKOUT", "GEOFENCE_TIMEOUT", "SYSTEM_ACTION"}
    BY DEF CloseReason
  <2> DEFINE ps == item.pauses
  <2>2. ps \in Seq(Pause)
    BY <1>2
  <2> HIDE DEF at, reason, old, ps
  <2>3. LET new == EndPause(Closed(old, at, reason, TotalAtClose(old.inAt, at, ps)),
                            OpenPause(ps), at, "AUTO_CHECKOUT")
        IN  /\ new \in Row /\ OneStory(new) /\ new.status = "CHECKED_OUT"
            /\ Len(new.pauses) = Len(old.pauses)
    BY <1>1, <1>3, <2>1, <2>2, ClosingRow
  <2> QED
    BY <2>3 DEF ps
<1>6. old.status # "NONE" /\ Len(old.pauses) \in Nat
  BY <1>1, LenPauses DEF IsLive, LiveStatus
<1> HIDE DEF row
<1>7. /\ row.status # "NONE" /\ Len(row.pauses) >= Len(session[s].pauses)
      /\ session[s].status # "NONE"
  BY <1>5, <1>6
<1>a. RowsKept /\ NoRowAdded
  BY <1>4, <1>5, <1>7, SessionWrite
<1>8. UNCHANGED <<clock, nRows, exc, call, view>>
  BY DEF SweepClose
<1>9. /\ call' \in [Workers -> Call] /\ view' \in [Workers -> View] /\ ReadBeforeWrite'
      /\ \A u \in Workers : view'[u].rows \in {0, view[u].rows}
  BY <1>a, <1>8, CallsSame
<1>10. nRows' \in 0 .. MaxSessions /\ RowsInOrder'
  BY <1>a, <1>8, <1>9, RowsStay
<1>11. events' \in SUBSET Event
  <2>1. [id |-> AutoEvent(s), sess |-> s, type |-> "AUTO_CHECKOUT"] \in Event
    BY DEF AutoEvent, Event, EventType
  <2> QED
    BY <2>1 DEF SweepClose, Log, Inv, TypeOK
<1>12. sweep' \in [Sweepers -> Progress]
  <2>1. sweep' = [sweep EXCEPT ![k] = WithoutItem(sweep[k], s)]
    BY DEF SweepClose
  <2> QED
    BY <2>1, WithoutItemType DEF Inv, TypeOK
<1> QED
  BY <1>a, <1>8, <1>9, <1>10, <1>11, <1>12 DEF Inv, TypeOK, RowsKept

-----------------------------------------------------------------------------
(* The theorems *)

LEMMA InitInv == Init => Inv
<1> SUFFICES ASSUME Init PROVE Inv
  OBVIOUS
<1>1. 0 \in Times /\ MaxSessions \in Nat \ {0}
  BY ParameterAssumption DEF Times
<1>2. (CHOOSE i \in Ids : TRUE) \in Ids
  BY IdentityAssumption
<1>3. NoCall \in Call /\ NoCall.pc = "idle"
  BY <1>1, <1>2 DEF NoCall, Call, Op
<1>4. TypeOK
  BY <1>1, <1>3, NoRowType, NoViewType, NoItemType DEF Init, TypeOK
<1>5. PauseMatchesStatus
  BY NoRowType DEF Init, PauseMatchesStatus
<1>6. RowsInOrder
  BY <1>1, NoRowType, NoViewType DEF Init, RowsInOrder, SessionIds
<1>7. ReadBeforeWrite
  BY <1>3, NoViewType DEF Init, ReadBeforeWrite
<1> QED
  BY <1>4, <1>5, <1>6, <1>7 DEF Inv

LEMMA NextInv == Inv /\ [Next]_vars => Inv'
<1> SUFFICES ASSUME Inv, [Next]_vars PROVE Inv'
  OBVIOUS
<1>1. CASE Tick
  <2>1. clock' \in Times
    BY <1>1, ParameterAssumption DEF Tick, Inv, TypeOK, Times
  <2>2. UNCHANGED <<session, nRows, events, exc, call, view, sweep>>
    BY <1>1 DEF Tick
  <2> QED
    BY <2>1, <2>2 DEF Inv, TypeOK, PauseMatchesStatus, RowsInOrder, ReadBeforeWrite
<1>2. ASSUME NEW w \in Workers, Request(w) PROVE Inv'
  BY <1>2, CheckInBeginKeeps, CheckInLockKeeps, CheckInCreateKeeps, CheckOutReadKeeps,
     CheckOutCommitKeeps, GeofenceExitReadKeeps, GeofenceExitCommitKeeps,
     GeofenceReturnReadKeeps, GeofenceReturnCommitKeeps, AbortKeeps DEF Request
<1>3. ASSUME NEW k \in Sweepers, SweepStep(k) PROVE Inv'
  BY <1>3, SweepReadPausedKeeps, SweepReadActiveKeeps, SweepCloseKeeps, SweepSkipKeeps
     DEF SweepStep
<1>4. CASE UNCHANGED vars
  BY <1>4 DEF vars, Inv, TypeOK, PauseMatchesStatus, RowsInOrder, ReadBeforeWrite
<1> QED
  BY <1>1, <1>2, <1>3, <1>4 DEF Next

(* The inductive invariant: types, the pause story of every row, the        *)
(* numbering of the rows and what each handler may rely on having read.     *)
THEOREM InvAlways == Spec => []Inv
BY InitInv, NextInv, PTL DEF Spec

(* Every table and every handler's memory keeps its shape; in particular no *)
(* stored total is negative, whatever the order of events and retries.      *)
THEOREM TypeCorrect == Spec => []TypeOK
BY InvAlways, PTL DEF Inv

(* A session's status, pause columns and pauses always tell one story: no   *)
(* interleaving of handlers and sweeps, no abort and no retry leaves a      *)
(* working session with an open pause or a paused one without.              *)
THEOREM PausesConsistent == Spec => []PauseMatchesStatus
BY InvAlways, PTL DEF Inv

-----------------------------------------------------------------------------
(* What each step does to the sessions *)

SameIdentity(new, old) == \A col \in {"emp", "date", "inAt", "reopen"} : new[col] = old[col]

(* The moves of the state diagram.                                          *)
Moved(new, old) ==
    /\ SameIdentity(new, old)
    /\ \/ old.status = "WORKING" /\ new.status = "PAUSED"
       \/ old.status = "PAUSED" /\ new.status = "WORKING"
       \/ old.status \in LiveStatus /\ new.status = "CHECKED_OUT"

OneMove ==
    \/ UNCHANGED session
    \/ \E s \in SessionIds : /\ Moved(session'[s], session[s])
                             /\ \A r \in SessionIds \ {s} : session'[r] = session[r]

LEMMA WriteMoves ==
    ASSUME Inv, NEW s \in SessionIds, NEW row, session' = [session EXCEPT ![s] = row],
           Moved(row, session[s])
    PROVE  OneMove
<1>1. session \in [SessionIds -> Row]
  BY DEF Inv, TypeOK
<1>2. session'[s] = row /\ \A r \in SessionIds \ {s} : session'[r] = session[r]
  BY <1>1
<1> QED
  BY <1>2 DEF OneMove

(* A check-out moves a live session: the status it compares is one it read. *)
LEMMA CheckOutMoves == ASSUME Inv, NEW w \in Workers, CheckOutCommit(w) PROVE OneMove
<1> DEFINE v   == view[w]
           t   == call[w].at
           s   == v.sess
           old == session[s]
           i   == IF v.status = "PAUSED" THEN OpenPause(v.pauses) ELSE 0
           row == EndPause(Closed(old, t, "USER_CHECKOUT", TotalAtClose(old.inAt, t, v.pauses)),
                           i, t, "RETURNED")
<1>1. /\ s \in SessionIds /\ v.pauses \in Seq(Pause) /\ old \in Row
      /\ old.status # "NONE" /\ t \in Instants
  BY ReadyType DEF CheckOutCommit
<1>2. session' = [session EXCEPT ![s] = row]
  BY DEF CheckOutCommit
<1>3. old.status \in LiveStatus
  <2>1. v.status \in {"NONE"} \cup LiveStatus
    BY DEF Inv, TypeOK, View
  <2> QED
    BY <1>1, <2>1 DEF CheckOutCommit
<1>4. row.status = "CHECKED_OUT" /\ SameIdentity(row, old)
  <2>1. "USER_CHECKOUT" \in {"USER_CHECKOUT", "GEOFENCE_TIMEOUT", "SYSTEM_ACTION"}
        /\ "RETURNED" \in {"RETURNED", "AUTO_CHECKOUT"}
    OBVIOUS
  <2> DEFINE ps == v.pauses
  <2>2. ps \in Seq(Pause)
    BY <1>1
  <2> HIDE DEF i, t, old, ps
  <2>3. LET new == EndPause(Closed(old, t, "USER_CHECKOUT", TotalAtClose(old.inAt, t, ps)),
                            i, t, "RETURNED")
        IN  new.status = "CHECKED_OUT" /\ SameIdentity(new, old)
    BY <1>1, <2>1, <2>2, ClosingRow DEF SameIdentity
  <2> QED
    BY <2>3 DEF ps
<1> HIDE DEF row, s
<1>5. Moved(row, session[s])
  BY <1>3, <1>4 DEF Moved
<1> QED
  BY <1>1, <1>2, <1>5, WriteMoves

LEMMA GeofenceExitMoves == ASSUME Inv, NEW w \in Workers, GeofenceExitCommit(w) PROVE OneMove
<1> DEFINE s   == view[w].sess
           row == Paused(session[s], call[w].at)
<1>1. s \in SessionIds /\ session[s] \in Row /\ session[s].status = "WORKING"
  BY ReadyType DEF GeofenceExitCommit
<1>2. session' = [session EXCEPT ![s] = row]
  BY DEF GeofenceExitCommit
<1>3. Moved(row, session[s])
  BY <1>1 DEF Moved, SameIdentity, Paused, Row
<1> HIDE DEF row, s
<1> QED
  BY <1>1, <1>2, <1>3, WriteMoves

LEMMA GeofenceReturnMoves ==
    ASSUME Inv, NEW w \in Workers, GeofenceReturnCommit(w) PROVE OneMove
<1> DEFINE v     == view[w]
           s     == v.sess
           old   == session[s]
           i     == OpenPause(v.pauses)
           t     == call[w].at
           ended == EndPause(old, i, t, "RETURNED")
           row   == Resumed(ended)
<1>1. s \in SessionIds /\ old \in Row /\ old.status = "PAUSED" /\ t \in Instants
  BY ReadyType DEF GeofenceReturnCommit
<1>2. session' = [session EXCEPT ![s] = row]
  BY DEF GeofenceReturnCommit
<1> HIDE DEF i, t, old
<1>3. ended \in Row /\ SameIdentity(ended, old)
  BY <1>1, EndPauseRow DEF SameIdentity
<1> HIDE DEF ended
<1>4. row.status = "WORKING" /\ SameIdentity(row, old)
  BY <1>3 DEF Resumed, Row, SameIdentity
<1> HIDE DEF row
<1>5. Moved(row, session[s])
  BY <1>1, <1>4 DEF Moved, old
<1> HIDE DEF s
<1> QED
  BY <1>1, <1>2, <1>5, WriteMoves

LEMMA SweepCloseMoves ==
    ASSUME Inv, NEW k \in Sweepers, NEW s \in SessionIds, SweepClose(k, s) PROVE OneMove
<1> DEFINE item   == sweep[k].item[s]
           at     == MinOf(item.target, sweep[k].now)
           reason == CloseReason(item, sweep[k].now)
           old    == session[s]
           row    == EndPause(Closed(old, at, reason, TotalAtClose(old.inAt, at, item.pauses)),
                              OpenPause(item.pauses), at, "AUTO_CHECKOUT")
<1>1. item \in Item /\ sweep[k].now \in Times /\ old \in Row /\ old.status \in LiveStatus
  BY DEF SweepClose, Inv, TypeOK, Progress, IsLive
<1>2. item.target \in Nat /\ item.pauses \in Seq(Pause)
  BY <1>1 DEF Item
<1>3. at \in Instants
  <2>1. at \in Times
    BY <1>1, <1>2, ParameterAssumption DEF MinOf, Times
  <2> QED
    BY <2>1, TimesAreInstants
<1>4. session' = [session EXCEPT ![s] = row]
  BY DEF SweepClose
<1>5. row.status = "CHECKED_OUT" /\ SameIdentity(row, old)
  <2>1. reason \in {"USER_CHECKOUT", "GEOFENCE_TIMEOUT", "SYSTEM_ACTION"}
    BY DEF CloseReason
  <2> DEFINE ps == item.pauses
  <2>2. ps \in Seq(Pause)
    BY <1>2
  <2> HIDE DEF at, reason, old, ps
  <2>3. LET new == EndPause(Closed(old, at, reason, TotalAtClose(old.inAt, at, ps)),
                            OpenPause(ps), at, "AUTO_CHECKOUT")
        IN  new.status = "CHECKED_OUT" /\ SameIdentity(new, old)
    BY <1>1, <1>3, <2>1, <2>2, ClosingRow DEF SameIdentity
  <2> QED
    BY <2>3 DEF ps
<1> HIDE DEF row
<1>6. Moved(row, session[s])
  BY <1>1, <1>5 DEF Moved
<1> QED
  BY <1>4, <1>6, WriteMoves

(* A check-in inserts the row after the last and closes the session it read.*)
Opened(w, n) ==
    /\ n \in SessionIds /\ n = nRows + 1 /\ nRows' = nRows + 1
    /\ session[n].status = "NONE"
    /\ session'[n].status = "WORKING" /\ session'[n].emp = call[w].emp
    /\ SnapshotReads => view[w].rows = nRows
    /\ n # view[w].sess
    /\ \A r \in SessionIds \ {n} :
         IF r = view[w].sess
         THEN /\ session[r].status # "NONE" /\ session'[r].status = "CHECKED_OUT"
              /\ SameIdentity(session'[r], session[r])
         ELSE session'[r] = session[r]

LEMMA CheckInOpens ==
    ASSUME Inv, NEW w \in Workers, CheckInCreate(w) PROVE Opened(w, nRows + 1)
<1> DEFINE i    == call[w].emp
           t    == call[w].at
           v    == IF SnapshotReads THEN view[w] ELSE WithReads(view[w], i, t)
           n    == v.rows + 1
           base == IF v.sess = 0 THEN session ELSE CloseStale(v)
<1>1. call[w] \in Call /\ view[w] \in View /\ session \in [SessionIds -> Row] /\ nRows \in Nat
  BY DEF Inv, TypeOK
<1>2. i \in Ids /\ t \in Times
  BY <1>1 DEF Call
<1>3. v \in View /\ v.sess = view[w].sess /\ v.rows <= nRows /\ v.rows \in Nat
  <2>1. v \in View /\ v.sess = view[w].sess /\ v.rows <= nRows
    BY <1>1, WithReadsType DEF Inv, RowsInOrder
  <2> QED
    BY <2>1 DEF View
<1>4. n \in SessionIds /\ session[n].status = "NONE" /\ nRows' = nRows + 1
  BY DEF CheckInCreate
<1>5. n = nRows + 1 /\ v.rows = nRows
  <2>1. ~ (n <= nRows)
    BY <1>4 DEF Inv, RowsInOrder
  <2> QED
    BY <1>1, <1>3, <2>1
<1>6. PICK x \in Exceptions \cup {None, 0} : session' = [base EXCEPT ![n] = NewRow(i, t, x)]
  <2>1. v.usable \subseteq Exceptions
    BY <1>3 DEF View
  <2> QED
    BY <2>1 DEF CheckInCreate
<1>7. SnapshotReads => view[w].rows = nRows
  BY <1>5
<1> HIDE DEF v, n
<1>8. v.sess # 0 => v.sess \in SessionIds /\ session[v.sess].status # "NONE"
  BY <1>3 DEF Inv, ReadBeforeWrite, View
<1>9. n # v.sess
  BY <1>4, <1>8 DEF SessionIds
<1>10. /\ base \in [SessionIds -> Row]
       /\ \A r \in SessionIds :
            IF r = v.sess
            THEN base[r].status = "CHECKED_OUT" /\ SameIdentity(base[r], session[r])
            ELSE base[r] = session[r]
  <2>1. CASE v.sess = 0
    BY <1>1, <2>1 DEF SessionIds
  <2>2. CASE v.sess # 0
    <3>1. v.pauses \in Seq(Pause) /\ v.sess \in SessionIds /\ session[v.sess] \in Row
      BY <1>1, <1>3, <1>8, <2>2 DEF View
    <3> DEFINE row == ClosedStale(session[v.sess], v.pauses)
    <3>2. row \in Row /\ row.status = "CHECKED_OUT" /\ SameIdentity(row, session[v.sess])
      BY <3>1, ClosedStaleRow DEF SameIdentity
    <3>3. base = [session EXCEPT ![v.sess] = row]
      BY <2>2 DEF CloseStale
    <3> HIDE DEF row, base
    <3> QED
      BY <1>1, <3>1, <3>2, <3>3
  <2> QED
    BY <2>1, <2>2
<1>11. NewRow(i, t, x).status = "WORKING" /\ NewRow(i, t, x).emp = i
  BY DEF NewRow, NoRow
<1> HIDE DEF base
<1>12. session'[n] = NewRow(i, t, x) /\ \A r \in SessionIds \ {n} : session'[r] = base[r]
  BY <1>4, <1>6, <1>10
<1>13. \A r \in SessionIds \ {n} :
          IF r = view[w].sess
          THEN /\ session[r].status # "NONE" /\ session'[r].status = "CHECKED_OUT"
               /\ SameIdentity(session'[r], session[r])
          ELSE session'[r] = session[r]
  <2> SUFFICES ASSUME NEW r \in SessionIds \ {n}
               PROVE  IF r = view[w].sess
                      THEN /\ session[r].status # "NONE" /\ session'[r].status = "CHECKED_OUT"
                           /\ SameIdentity(session'[r], session[r])
                      ELSE session'[r] = session[r]
    OBVIOUS
  <2>1. session'[r] = base[r] /\ r # 0
    BY <1>12 DEF SessionIds
  <2>2. CASE r = v.sess
    BY <1>3, <1>8, <1>10, <2>1, <2>2
  <2>3. CASE r # v.sess
    BY <1>3, <1>10, <2>1, <2>3
  <2> QED
    BY <2>2, <2>3
<1>14. session'[n].status = "WORKING" /\ session'[n].emp = call[w].emp
  BY <1>11, <1>12
<1>15. n = nRows + 1 /\ n \in SessionIds /\ nRows' = nRows + 1 /\ session[n].status = "NONE"
       /\ n # view[w].sess
  BY <1>3, <1>4, <1>5, <1>9
<1> HIDE DEF i, t
<1> QED
  BY <1>7, <1>13, <1>14, <1>15 DEF Opened

(* Any step moves one session along the diagram, or opens one.              *)
LEMMA StepMoves ==
    ASSUME Inv, [Next]_vars
    PROVE  OneMove \/ \E w \in Workers : CheckInCreate(w) /\ Opened(w, nRows + 1)
<1>1. CASE UNCHANGED vars
  BY <1>1 DEF vars, OneMove
<1>2. CASE Tick
  BY <1>2 DEF Tick, OneMove
<1>3. ASSUME NEW w \in Workers,
             \/ CheckInBegin(w) \/ CheckInLock(w) \/ CheckOutRead(w)
             \/ GeofenceExitRead(w) \/ GeofenceReturnRead(w) \/ Abort(w)
      PROVE  OneMove
  <2>1. UNCHANGED session
    BY <1>3, Zenon DEF CheckInBegin, CheckInLock, CheckOutRead, GeofenceExitRead,
                       GeofenceReturnRead, Abort
  <2> QED
    BY <2>1 DEF OneMove
<1>4. ASSUME NEW w \in Workers,
             CheckOutCommit(w) \/ GeofenceExitCommit(w) \/ GeofenceReturnCommit(w)
      PROVE  OneMove
  BY <1>4, CheckOutMoves, GeofenceExitMoves, GeofenceReturnMoves
<1>5. ASSUME NEW w \in Workers, Request(w)
      PROVE  OneMove \/ CheckInCreate(w)
  BY <1>3, <1>4, <1>5, Zenon DEF Request
<1>6. ASSUME NEW w \in Workers, CheckInCreate(w) PROVE Opened(w, nRows + 1)
  BY <1>6, CheckInOpens
<1>7. ASSUME NEW k \in Sweepers, SweepStep(k) PROVE OneMove
  <2>1. CASE SweepReadPaused(k) \/ SweepReadActive(k)
    BY <2>1 DEF SweepReadPaused, SweepReadActive, OneMove
  <2>2. ASSUME NEW s \in SessionIds, SweepClose(k, s) PROVE OneMove
    BY <2>2, SweepCloseMoves
  <2>3. ASSUME NEW s \in SessionIds, SweepSkip(k, s) PROVE OneMove
    BY <2>3 DEF SweepSkip, OneMove
  <2> QED
    BY <1>7, <2>1, <2>2, <2>3 DEF SweepStep
<1> QED
  BY <1>1, <1>2, <1>5, <1>6, <1>7, Zenon DEF Next

-----------------------------------------------------------------------------
(* CHECKED_OUT is terminal and identities are fixed: whatever a handler or  *)
(* a sweep had read, its write never reopens or relabels a session.         *)
LEMMA StepKeepsClosed ==
    ASSUME Inv, [Next]_vars
    PROVE  \A s \in Rows :
             /\ session[s].status = "CHECKED_OUT" => session'[s].status = "CHECKED_OUT"
             /\ SameIdentity(session'[s], session[s])
<1>1. CASE OneMove
  BY <1>1 DEF OneMove, Moved, SameIdentity, Rows, LiveStatus
<1>2. ASSUME NEW w \in Workers, Opened(w, nRows + 1)
      PROVE  \A s \in Rows :
             /\ session[s].status = "CHECKED_OUT" => session'[s].status = "CHECKED_OUT"
             /\ SameIdentity(session'[s], session[s])
  BY <1>2 DEF Opened, SameIdentity, Rows
<1> QED
  BY <1>1, <1>2, StepMoves

THEOREM ClosedStaysClosed == Spec => ClosedIsFinal
<1>1. Inv /\ [Next]_vars =>
        [\A s \in Rows :
           /\ session[s].status = "CHECKED_OUT" => session'[s].status = "CHECKED_OUT"
           /\ \A col \in {"emp", "date", "inAt", "reopen"} : session'[s][col] = session[s][col]]_vars
  BY StepKeepsClosed DEF SameIdentity
<1> QED
  BY <1>1, InvAlways, PTL DEF Spec, ClosedIsFinal

-----------------------------------------------------------------------------
(* One live session per person *)

(* A move of the diagram opens nothing: who was not live stays so.          *)
LEMMA LiveNarrows ==
    ASSUME Inv, OneMove
    PROVE  \A s \in SessionIds : /\ session'[s].emp = session[s].emp
                                 /\ IsLive(s)' => IsLive(s)
BY DEF OneMove, Moved, SameIdentity, IsLive, LiveStatus

LEMMA OneMoveKeepsOneActive == ASSUME Inv, OneActive, OneMove PROVE OneActive'
BY LiveNarrows DEF OneActive

LEMMA SeesKept ==
    ASSUME Inv, OneMove, UNCHANGED nRows, NEW u \in Workers, Sees(u),
           call'[u] = call[u], view'[u] = view[u]
    PROVE  Sees(u)'
<1>1. view[u].sess # 0 => view[u].sess \in SessionIds
  BY DEF Inv, TypeOK, View
<1> QED
  BY <1>1, LiveNarrows DEF Sees, HasSearched, LiveOf

(* What the search of a check-in returns covers every live session of the   *)
(* person, the resolver having answered.                                    *)
LEMMA SearchCovers ==
    ASSUME Inv, OneActive, ~ ResolverMayFail, NEW i \in Ids, NEW t, NEW v, ActiveFor(i, t, v)
    PROVE  /\ LiveOf(Aliases[i]) \subseteq {v.sess}
           /\ v.sess # 0 => session[v.sess].emp \in Aliases[i]
<1>1. \/ LiveOf(Aliases[i]) = {} /\ v = NoView
      \/ \E s \in LiveOf(Aliases[i]) : v = Found(s)
  BY DEF ActiveFor, Resolved
<1>2. CASE LiveOf(Aliases[i]) = {} /\ v = NoView
  BY <1>2, NoViewType
<1>3. ASSUME NEW s \in LiveOf(Aliases[i]), v = Found(s)
      PROVE  /\ LiveOf(Aliases[i]) \subseteq {v.sess}
             /\ v.sess # 0 => session[v.sess].emp \in Aliases[i]
  <2>1. s \in SessionIds /\ IsLive(s) /\ session[s].emp \in Aliases[i] /\ v.sess = s
    BY <1>3, FoundType DEF LiveOf
  <2>2. Aliases[session[s].emp] = Aliases[i]
    BY <2>1, IdentityAssumption
  <2>3. \A r \in LiveOf(Aliases[i]) : s = r
    BY <2>1, <2>2 DEF LiveOf, OneActive
  <2> QED
    BY <2>1, <2>3
<1> QED
  BY <1>1, <1>2, <1>3

(* A step that leaves the other requests alone and ends at no search.       *)
LEMMA RequestKeepsOneActive ==
    ASSUME Inv, OneActiveInv, OneMove, UNCHANGED nRows, NEW w \in Workers,
           \A u \in Workers \ {w} : call'[u] = call[u] /\ view'[u] = view[u],
           call'[w].pc \notin {"begun", "locked"}
    PROVE  OneActiveInv'
<1>1. OneActive'
  BY OneMoveKeepsOneActive DEF OneActiveInv
<1>2. OneLockHolder'
  BY DEF OneActiveInv, OneLockHolder
<1>3. Sees(w)'
  BY DEF Sees, HasSearched
<1>4. \A u \in Workers \ {w} : Sees(u)'
  BY SeesKept DEF OneActiveInv
<1> QED
  BY <1>1, <1>2, <1>3, <1>4 DEF OneActiveInv

LEMMA SweepKeepsOneActive ==
    ASSUME Inv, OneActiveInv, OneMove, UNCHANGED <<nRows, call, view>>
    PROVE  OneActiveInv'
<1>1. OneActive'
  BY OneMoveKeepsOneActive DEF OneActiveInv
<1>2. OneLockHolder'
  BY DEF OneActiveInv, OneLockHolder
<1>3. \A u \in Workers : Sees(u)'
  BY SeesKept DEF OneActiveInv
<1> QED
  BY <1>1, <1>2, <1>3 DEF OneActiveInv

LEMMA CheckInBeginKeepsOneActive ==
    ASSUME LockCoversPerson, Inv, OneActiveInv, NEW w \in Workers, CheckInBegin(w)
    PROVE  OneActiveInv'
<1>1. PICK i \in Ids, c \in ClientEventIds, t \in EventTimes :
        /\ Start(w, "begun", "CHECK_IN", i, c, t)
        /\ IF SnapshotReads
           THEN \E v \in {NoView} \cup {Found(s) : s \in Rows} :
                    ActiveFor(i, t, v) /\ Remember(w, WithReads(v, i, t))
           ELSE Remember(w, NoView)
  BY DEF CheckInBegin
<1>2. UNCHANGED <<session, nRows>> /\ call \in [Workers -> Call] /\ view \in [Workers -> View]
  BY DEF CheckInBegin, Inv, TypeOK
<1>3. OneMove
  BY <1>2 DEF OneMove
<1>4. /\ call'[w].pc = "begun" /\ call'[w].emp = i
      /\ \A u \in Workers \ {w} : call'[u] = call[u]
  BY <1>1, <1>2 DEF Start
<1>5. \A u \in Workers \ {w} : view'[u] = view[u]
  BY <1>1, <1>2 DEF Remember
<1>6. OneActive' /\ OneLockHolder'
  BY <1>3, <1>4, OneMoveKeepsOneActive DEF OneActiveInv, OneLockHolder
<1>7. Sees(w)'
  <2>1. CASE ~ SnapshotReads
    BY <1>4, <2>1 DEF Sees, HasSearched
  <2>2. CASE SnapshotReads
    <3>1. PICK v : ActiveFor(i, t, v) /\ Remember(w, WithReads(v, i, t))
      BY <1>1, <2>2
    <3>2. view'[w] = WithReads(v, i, t)
      BY <1>2, <3>1 DEF Remember
    <3>3. v \in View
      BY <3>1, ActiveType
    <3>4. view'[w].sess = v.sess
      BY <3>2, <3>3, WithReadsType
    <3>5. /\ LiveOf(Aliases[i]) \subseteq {v.sess}
          /\ v.sess # 0 => session[v.sess].emp \in Aliases[i]
      BY <3>1, SearchCovers DEF LockCoversPerson, OneActiveInv
    <3> QED
      BY <1>2, <1>4, <3>4, <3>5 DEF Sees, LiveOf, IsLive
  <2> QED
    BY <2>1, <2>2
<1>8. \A u \in Workers \ {w} : Sees(u)'
  BY <1>2, <1>3, <1>4, <1>5, SeesKept DEF OneActiveInv
<1> QED
  BY <1>6, <1>7, <1>8 DEF OneActiveInv

LEMMA CheckInLockKeepsOneActive ==
    ASSUME LockCoversPerson, Inv, OneActiveInv, NEW w \in Workers, CheckInLock(w)
    PROVE  OneActiveInv'
<1>1. /\ UNCHANGED <<session, nRows>> /\ call \in [Workers -> Call] /\ view \in [Workers -> View]
      /\ call[w].pc = "begun"
  BY DEF CheckInLock, Inv, TypeOK
<1>2. OneMove
  BY <1>1 DEF OneMove
<1>3. /\ call'[w].pc = "locked" /\ call'[w].emp = call[w].emp /\ call[w].emp \in Ids
      /\ \A u \in Workers \ {w} : call'[u] = call[u]
  BY <1>1 DEF CheckInLock, Call
<1>4. \A u \in Workers \ {w} : view'[u] = view[u]
  BY <1>1 DEF CheckInLock, Remember
<1>5. OneActive'
  BY <1>2, OneMoveKeepsOneActive DEF OneActiveInv
<1>6. OneLockHolder'
  BY <1>3 DEF OneActiveInv, OneLockHolder, CheckInLock
<1>7. Sees(w)'
  <2>1. CASE SnapshotReads
    <3>1. view' = view
      BY <2>1 DEF CheckInLock
    <3> QED
      BY <1>1, <1>3, <2>1, <3>1 DEF OneActiveInv, Sees, HasSearched, LiveOf, IsLive
  <2>2. CASE ~ SnapshotReads
    <3>1. PICK v : ActiveFor(call[w].emp, call[w].at, v) /\ Remember(w, v)
      BY <2>2 DEF CheckInLock
    <3>2. view'[w] = v
      BY <1>1, <3>1 DEF Remember
    <3>3. /\ LiveOf(Aliases[call[w].emp]) \subseteq {v.sess}
          /\ v.sess # 0 => session[v.sess].emp \in Aliases[call[w].emp]
      BY <1>3, <3>1, SearchCovers DEF LockCoversPerson, OneActiveInv
    <3> QED
      BY <1>1, <1>3, <3>2, <3>3 DEF Sees, LiveOf, IsLive
  <2> QED
    BY <2>1, <2>2
<1>8. \A u \in Workers \ {w} : Sees(u)'
  BY <1>1, <1>2, <1>3, <1>4, SeesKept DEF OneActiveInv
<1> QED
  BY <1>5, <1>6, <1>7, <1>8 DEF OneActiveInv

LEMMA CheckInCreateKeepsOneActive ==
    ASSUME LockCoversPerson, Inv, OneActiveInv, NEW w \in Workers, CheckInCreate(w)
    PROVE  OneActiveInv'
<1> DEFINE n   == nRows + 1
           ids == Aliases[call[w].emp]
           old == view[w].sess
<1>1. Opened(w, n)
  BY CheckInOpens
<1>2. /\ call \in [Workers -> Call] /\ view \in [Workers -> View] /\ nRows \in Nat
      /\ session \in [SessionIds -> Row] /\ call[w].emp \in Ids /\ call[w].pc = "locked"
      /\ call' = [call EXCEPT ![w] = NoCall] /\ view' = [view EXCEPT ![w] = NoView]
  BY DEF Inv, TypeOK, Call, CheckInCreate, Finish
<1>3. n \in SessionIds /\ ~ IsLive(n) /\ session'[n].emp = call[w].emp
  BY <1>1 DEF Opened, IsLive, LiveStatus
<1>4. LiveOf(ids) \subseteq {old}
  BY <1>1, <1>2 DEF Opened, OneActiveInv, Sees, HasSearched
<1>5. \A r \in SessionIds \ {n} :
        /\ session'[r].emp = session[r].emp
        /\ IsLive(r)' => IsLive(r) /\ r # old
  BY <1>1 DEF Opened, SameIdentity, IsLive, LiveStatus
<1> HIDE DEF n, ids, old
<1>6. OneActive'
  <2> SUFFICES ASSUME NEW s \in SessionIds, NEW r \in SessionIds, IsLive(s)', IsLive(r)',
                      session'[r].emp \in Aliases[session'[s].emp]
               PROVE  s = r
    BY DEF OneActive
  <2>1. CASE s # n /\ r # n
    BY <1>5, <2>1 DEF OneActiveInv, OneActive
  <2>2. CASE s = n /\ r # n
    BY <1>3, <1>4, <1>5, <2>2 DEF LiveOf, ids
  <2>3. CASE s # n /\ r = n
    <3>1. session[s].emp \in Ids /\ session[s].emp = session'[s].emp
      BY <1>2, <1>5, <2>3 DEF Row
    <3>2. session[s].emp \in ids
      BY <1>2, <1>3, <2>3, <3>1, IdentityAssumption DEF ids
    <3> QED
      BY <1>4, <1>5, <2>3, <3>2 DEF LiveOf
  <2> QED
    BY <2>1, <2>2, <2>3
<1>7. OneLockHolder'
  BY <1>2 DEF OneActiveInv, OneLockHolder, NoCall
<1>8. ASSUME NEW u \in Workers PROVE Sees(u)'
  <2>1. CASE u = w
    BY <1>2, <2>1 DEF Sees, HasSearched, NoCall
  <2>2. CASE u # w
    <3>1. call'[u] = call[u] /\ view'[u] = view[u]
      BY <1>2, <2>2
    <3>2. view[u].sess # 0 => view[u].sess \in SessionIds \ {n}
      <4>1. view[u].sess # 0 => view[u].sess \in SessionIds /\ session[view[u].sess].status # "NONE"
        BY <1>2 DEF Inv, ReadBeforeWrite, View
      <4> QED
        BY <1>1, <4>1 DEF Opened, n
    <3>3. HasSearched(u)' => HasSearched(u)
      BY <3>1 DEF HasSearched
    <3>4. HasSearched(u) =>
            (view[u].sess # 0 => session'[view[u].sess].emp \in Aliases[call[u].emp])
      BY <1>5, <3>2 DEF OneActiveInv, Sees
    <3>5. CASE SnapshotReads
      <4>1. view[u].rows # nRows'
        BY <1>1, <1>2 DEF Inv, RowsInOrder, Opened, View
      <4> QED
        BY <3>1, <3>3, <3>4, <3>5, <4>1 DEF Sees
    <3>6. CASE ~ SnapshotReads
      <4>1. HasSearched(u) => call[u].pc = "locked" /\ call[u].emp # call[w].emp
        BY <1>2, <2>2, <3>6 DEF HasSearched, OneActiveInv, OneLockHolder
      <4>2. Aliases[call[u].emp] = {call[u].emp}
        BY <1>2, <3>6 DEF LockCoversPerson, Call
      <4>3. HasSearched(u) => (LiveOf(Aliases[call[u].emp]))' \subseteq LiveOf(Aliases[call[u].emp])
        BY <1>3, <1>5, <3>1, <4>1, <4>2 DEF LiveOf
      <4> QED
        BY <3>1, <3>3, <3>4, <3>6, <4>3 DEF OneActiveInv, Sees
    <3> QED
      BY <3>5, <3>6
  <2> QED
    BY <2>1, <2>2
<1> QED
  BY <1>6, <1>7, <1>8 DEF OneActiveInv

LEMMA OtherRequestKeepsOneActive ==
    ASSUME Inv, OneActiveInv, NEW w \in Workers,
           \/ CheckOutRead(w) \/ CheckOutCommit(w)
           \/ GeofenceExitRead(w) \/ GeofenceExitCommit(w)
           \/ GeofenceReturnRead(w) \/ GeofenceReturnCommit(w)
           \/ Abort(w)
    PROVE  OneActiveInv'
<1>1. call \in [Workers -> Call] /\ view \in [Workers -> View]
  BY DEF Inv, TypeOK
<1>2. ASSUME CheckOutRead(w) \/ GeofenceExitRead(w) \/ GeofenceReturnRead(w)
      PROVE  OneActiveInv'
  <2>1. UNCHANGED <<session, nRows>>
    BY <1>2 DEF CheckOutRead, GeofenceExitRead, GeofenceReturnRead
  <2>2. \E op, i, c, t, v : Start(w, "ready", op, i, c, t) /\ Remember(w, v)
    BY <1>2 DEF CheckOutRead, GeofenceExitRead, GeofenceReturnRead
  <2>3. /\ \A u \in Workers \ {w} : call'[u] = call[u] /\ view'[u] = view[u]
        /\ call'[w].pc = "ready"
    BY <1>1, <2>2 DEF Start, Remember
  <2>4. OneMove
    BY <2>1 DEF OneMove
  <2> QED
    BY <2>1, <2>3, <2>4, RequestKeepsOneActive
<1>3. ASSUME UNCHANGED nRows, Finish(w), OneMove PROVE OneActiveInv'
  <2>1. /\ \A u \in Workers \ {w} : call'[u] = call[u] /\ view'[u] = view[u]
        /\ call'[w].pc = "idle"
    BY <1>1, <1>3 DEF Finish, NoCall
  <2> QED
    BY <1>3, <2>1, RequestKeepsOneActive
<1>4. CASE CheckOutCommit(w)
  BY <1>3, <1>4, CheckOutMoves DEF CheckOutCommit
<1>5. CASE GeofenceExitCommit(w)
  BY <1>3, <1>5, GeofenceExitMoves DEF GeofenceExitCommit
<1>6. CASE GeofenceReturnCommit(w)
  BY <1>3, <1>6, GeofenceReturnMoves DEF GeofenceReturnCommit
<1>7. CASE Abort(w)
  BY <1>3, <1>7 DEF Abort, OneMove
<1> QED
  BY <1>2, <1>4, <1>5, <1>6, <1>7

LEMMA NextKeepsOneActive ==
    ASSUME LockCoversPerson, Inv, OneActiveInv, [Next]_vars
    PROVE  OneActiveInv'
<1>1. CASE UNCHANGED vars
  BY <1>1, SweepKeepsOneActive DEF vars, OneMove
<1>2. CASE Tick
  BY <1>2, SweepKeepsOneActive DEF Tick, OneMove
<1>3. ASSUME NEW w \in Workers, Request(w) PROVE OneActiveInv'
  BY <1>3, CheckInBeginKeepsOneActive, CheckInLockKeepsOneActive, CheckInCreateKeepsOneActive,
     OtherRequestKeepsOneActive DEF Request
<1>4. ASSUME NEW k \in Sweepers, SweepStep(k) PROVE OneActiveInv'
  <2>1. CASE SweepReadPaused(k)
    BY <2>1, SweepKeepsOneActive DEF SweepReadPaused, OneMove
  <2>2. CASE SweepReadActive(k)
    BY <2>2, SweepKeepsOneActive DEF SweepReadActive, OneMove
  <2>3. ASSUME NEW s \in SessionIds, SweepClose(k, s) PROVE OneActiveInv'
    BY <2>3, SweepCloseMoves, SweepKeepsOneActive DEF SweepClose
  <2>4. ASSUME NEW s \in SessionIds, SweepSkip(k, s) PROVE OneActiveInv'
    BY <2>4, SweepKeepsOneActive DEF SweepSkip, OneMove
  <2> QED
    BY <1>4, <2>1, <2>2, <2>3, <2>4 DEF SweepStep
<1> QED
  BY <1>1, <1>2, <1>3, <1>4 DEF Next

LEMMA InitOneActive == ASSUME Init PROVE OneActiveInv
<1>1. /\ \A s \in SessionIds : ~ IsLive(s)
      /\ \A w \in Workers : call[w].pc = "idle"
  BY NoRowType DEF Init, IsLive, LiveStatus, NoCall
<1> QED
  BY <1>1 DEF OneActiveInv, OneActive, OneLockHolder, Sees, HasSearched

(* With the lock and the search that protect it: a check-in past its lock   *)
(* has seen every live session of its person, and holds the lock alone.     *)
THEOREM OneActiveInvAlways == ASSUME LockCoversPerson PROVE Spec => []OneActiveInv
<1>1. Init => OneActiveInv
  BY InitOneActive
<1>2. Inv /\ OneActiveInv /\ [Next]_vars => OneActiveInv'
  BY NextKeepsOneActive
<1> QED
  BY <1>1, <1>2, InvAlways, PTL DEF Spec

(* A person never has two live sessions, for any number of handlers, sweeps *)
(* and sessions - as long as the resolver answers and either the check-in's *)
(* reads are one snapshot or every id is a person of its own.               *)
THEOREM OneLiveSession == ASSUME LockCoversPerson PROVE Spec => []OneActive
BY OneActiveInvAlways, PTL DEF OneActiveInv

-----------------------------------------------------------------------------
(* Refinement *)

LEMMA InitRefines == ASSUME Init PROVE Lifecycle!Init
<1>1. \A s \in SessionIds : session[s].status = "NONE"
  BY NoRowType DEF Init
<1> QED
  BY <1>1 DEF Lifecycle!Init

LEMMA MoveRefines == ASSUME Inv, OneMove PROVE [Lifecycle!Next]_(Lifecycle!vars)
<1> DEFINE status == [s \in SessionIds |-> session[s].status]
           owner  == [s \in SessionIds |->
                        IF session[s].status = "NONE" THEN {} ELSE Aliases[session[s].emp]]
<1>1. CASE UNCHANGED session
  BY <1>1 DEF Lifecycle!vars
<1>2. ASSUME NEW s \in SessionIds, Moved(session'[s], session[s]),
             \A r \in SessionIds \ {s} : session'[r] = session[r]
      PROVE  Lifecycle!Next
  <2>1. owner' = owner
    BY <1>2 DEF Moved, SameIdentity, LiveStatus
  <2>2. status' = [status EXCEPT ![s] = session'[s].status]
    BY <1>2
  <2>3. Lifecycle!Leave(s) \/ Lifecycle!Return(s) \/ Lifecycle!Close(s)
    BY <1>2, <2>1, <2>2 DEF Moved, LiveStatus, Lifecycle!Leave, Lifecycle!Return,
                            Lifecycle!Close, Lifecycle!Move
  <2> QED
    BY <2>3 DEF Lifecycle!Next
<1> QED
  BY <1>1, <1>2 DEF OneMove

LEMMA CheckInRefinesAt ==
    ASSUME Inv, OneActiveInv, NEW w \in Workers, CheckInCreate(w),
           NEW n, n = nRows + 1, NEW p, p = Aliases[call[w].emp]
    PROVE  Lifecycle!CheckIn(p, n)
<1> DEFINE old    == view[w].sess
           status == [s \in SessionIds |-> session[s].status]
           owner  == [s \in SessionIds |->
                        IF session[s].status = "NONE" THEN {} ELSE Aliases[session[s].emp]]
<1>1. Opened(w, n)
  BY CheckInOpens
<1>2. /\ session \in [SessionIds -> Row] /\ call[w].emp \in Ids /\ call[w].pc = "locked"
      /\ old # 0 => old \in SessionIds /\ session[old].status # "NONE"
      /\ \A r \in SessionIds : r # 0
  BY DEF Inv, TypeOK, Call, View, ReadBeforeWrite, CheckInCreate, SessionIds
<1>3. n \in SessionIds /\ session[n].status = "NONE" /\ session'[n].status = "WORKING"
      /\ session'[n].emp = call[w].emp /\ n # old
  BY <1>1 DEF Opened
<1>4. LiveOf(p) \subseteq {old} /\ (old # 0 => session[old].emp \in p)
  BY <1>1, <1>2 DEF Opened, OneActiveInv, Sees, HasSearched
<1>5. \A r \in SessionIds \ {n} :
        /\ session'[r].emp = session[r].emp
        /\ r = old => session'[r].status = "CHECKED_OUT"
        /\ r # old => session'[r].status = session[r].status
  BY <1>1 DEF Opened, SameIdentity
<1> HIDE DEF old
<1>6. ASSUME NEW r \in SessionIds \ {n}
      PROVE  session'[r].status = IF /\ session[r].status \in {"WORKING", "PAUSED"}
                                     /\ owner[r] = p
                                  THEN "CHECKED_OUT" ELSE session[r].status
  <2>1. session[r].emp \in Ids
    BY <1>2 DEF Row
  <2>2. CASE r = old
    <3>1. session[r].status # "NONE" /\ session[r] \in Row /\ r # 0
      BY <1>2, <2>2
    <3>3. session[r].status \in {"WORKING", "PAUSED", "CHECKED_OUT"}
      BY <3>1 DEF Row
    <3>2. Aliases[session[r].emp] = p
      BY <1>2, <1>4, <2>2, <3>1, IdentityAssumption
    <3> QED
      BY <1>5, <2>2, <3>2, <3>3
  <2>3. CASE r # old
    <3>1. session[r].status \in {"WORKING", "PAUSED"} => session[r].emp \notin p
      BY <1>4, <2>3 DEF LiveOf, IsLive, LiveStatus
    <3>2. session[r].status \in {"WORKING", "PAUSED"} => owner[r] # p
      BY <2>1, <3>1, IdentityAssumption
    <3> QED
      BY <1>5, <2>3, <3>2
  <2> QED
    BY <2>2, <2>3
<1>7. owner' = [owner EXCEPT ![n] = p]
  <2>1. \A r \in SessionIds \ {n} : (session'[r].status = "NONE") <=> (session[r].status = "NONE")
    BY <1>2, <1>5
  <2> QED
    BY <1>3, <1>5, <2>1
<1>8. status' = [r \in SessionIds |->
                   IF r = n THEN "WORKING"
                   ELSE IF /\ status[r] \in {"WORKING", "PAUSED"} /\ owner[r] = p
                   THEN "CHECKED_OUT" ELSE status[r]]
  BY <1>3, <1>6
<1> QED
  BY <1>3, <1>7, <1>8 DEF Lifecycle!CheckIn, Lifecycle!IsOpen

LEMMA CheckInRefines ==
    ASSUME Inv, OneActiveInv, NEW w \in Workers, CheckInCreate(w)
    PROVE  Lifecycle!Next
<1>1. nRows + 1 \in SessionIds /\ call[w].emp \in Ids
  BY CheckInOpens DEF Opened, Inv, TypeOK, Call
<1>2. PICK n \in SessionIds : n = nRows + 1
  BY <1>1
<1>3. PICK p \in {Aliases[i] : i \in Ids} : p = Aliases[call[w].emp]
  BY <1>1
<1>4. Lifecycle!CheckIn(p, n)
  BY <1>2, <1>3, CheckInRefinesAt
<1> QED
  BY <1>4 DEF Lifecycle!Next

(* Every step of the handlers and the sweep, however interleaved, is a step *)
(* of the documented state diagram or shows nothing, under the same proviso.*)
THEOREM Refinement == ASSUME LockCoversPerson PROVE Spec => ImplementsLifecycle
<1>1. Init => Lifecycle!Init
  BY InitRefines
<1>2. Inv /\ OneActiveInv /\ [Next]_vars => [Lifecycle!Next]_(Lifecycle!vars)
  BY StepMoves, MoveRefines, CheckInRefines
<1> QED
  BY <1>1, <1>2, InvAlways, OneActiveInvAlways, PTL DEF Spec, ImplementsLifecycle, Lifecycle!Spec

-----------------------------------------------------------------------------
(* What the writes do to pauses, reasons and the event log *)

(* A row's pauses are only added to, and the deadlines of those it has stand.*)
Grows(new, old, n) ==
    /\ SameIdentity(new, old)
    /\ Len(new.pauses) = Len(old.pauses) + n
    /\ \A j \in 1 .. Len(old.pauses) : new.pauses[j].deadline = old.pauses[j].deadline

SameEnd(new, old) == new.reason = old.reason /\ new.outAt = old.outAt

LEMMA EndPauseGrows ==
    ASSUME NEW row \in Row, NEW i, NEW at \in Instants,
           NEW why \in {"RETURNED", "AUTO_CHECKOUT"}
    PROVE  LET new == EndPause(row, i, at, why)
           IN  Grows(new, row, 0) /\ SameEnd(new, row)
<1> DEFINE new == EndPause(row, i, at, why)
<1>1. /\ new \in Row /\ Len(new.pauses) = Len(row.pauses)
      /\ SameIdentity(new, row) /\ Len(row.pauses) \in Nat
  BY EndPauseRow, LenPauses DEF SameIdentity
<1>2. row.pauses \in Seq(Pause) /\ DOMAIN row.pauses = 1 .. Len(row.pauses)
  BY LenProperties DEF Row
<1>3. SameEnd(new, row) /\ \A j \in 1 .. Len(row.pauses) : new.pauses[j].deadline = row.pauses[j].deadline
  <2>1. CASE i # 0 /\ row.pauses[i].end = None
    <3> DEFINE ended == [row.pauses[i] EXCEPT !.end = at, !.why = why]
               ps    == [row.pauses EXCEPT ![i] = ended]
    <3>1. new = [row EXCEPT !.pauses = ps]
      BY <2>1 DEF EndPause, Row
    <3>2. i \in DOMAIN row.pauses => ended.deadline = row.pauses[i].deadline
      <4>1. i \in DOMAIN row.pauses => row.pauses[i] \in Pause
        BY <1>2
      <4> QED
        BY <4>1 DEF Pause
    <3> HIDE DEF ended
    <3>3. \A j \in DOMAIN row.pauses : ps[j].deadline = row.pauses[j].deadline
      BY <1>2, <3>2
    <3> HIDE DEF ps
    <3>4. new.pauses = ps /\ SameEnd(new, row)
      BY <3>1 DEF Row, SameEnd
    <3> QED
      BY <1>2, <3>3, <3>4
  <2>2. CASE ~ (i # 0 /\ row.pauses[i].end = None)
    BY <2>2 DEF EndPause, SameEnd
  <2> QED
    BY <2>1, <2>2
<1> HIDE DEF new
<1>4. Grows(new, row, 0)
  BY <1>1, <1>3 DEF Grows
<1> QED
  BY <1>3, <1>4 DEF new

LEMMA ClosingGrows ==
    ASSUME NEW row \in Row, NEW at \in Instants, NEW pauses \in Seq(Pause), NEW i,
           NEW reason \in {"USER_CHECKOUT", "GEOFENCE_TIMEOUT", "SYSTEM_ACTION"},
           NEW why \in {"RETURNED", "AUTO_CHECKOUT"}
    PROVE  LET new == EndPause(Closed(row, at, reason, TotalAtClose(row.inAt, at, pauses)),
                               i, at, why)
           IN  /\ Grows(new, row, 0) /\ new.status = "CHECKED_OUT"
               /\ new.reason = reason /\ new.outAt = at
<1> DEFINE total  == TotalAtClose(row.inAt, at, pauses)
           closed == Closed(row, at, reason, total)
           new    == EndPause(closed, i, at, why)
<1>1. total \in Nat
  <2>1. row.inAt \in Times
    BY DEF Row
  <2> QED
    BY <2>1, TimesAreInstants, TotalType
<1> HIDE DEF total
<1>2. /\ closed \in Row
      /\ \A col \in {"emp", "date", "inAt", "reopen", "pauses"} : closed[col] = row[col]
  BY <1>1, ClosedRow
<1>3. closed.reason = reason /\ closed.outAt = at
  BY DEF Closed, Row
<1> HIDE DEF closed
<1>4. Grows(new, closed, 0) /\ SameEnd(new, closed)
  BY <1>2, EndPauseGrows
<1>5. new.status = "CHECKED_OUT"
  BY ClosingRow DEF closed, total
<1> HIDE DEF new
<1>6. Grows(new, row, 0)
  BY <1>2, <1>4 DEF Grows, SameIdentity
<1>7. new.reason = reason /\ new.outAt = at
  BY <1>3, <1>4 DEF SameEnd
<1> QED
  BY <1>5, <1>6, <1>7 DEF new, closed, total

LEMMA PausedGrows ==
    ASSUME NEW row \in Row, NEW t \in Times
    PROVE  Grows(Paused(row, t), row, 1) /\ SameEnd(Paused(row, t), row)
<1> DEFINE p == [start |-> t, end |-> None, deadline |-> t + Grace, why |-> ""]
<1>1. row.pauses \in Seq(Pause) /\ Len(row.pauses) \in Nat
  BY LenPauses DEF Row
<1>2. p \in Pause
  BY ParameterAssumption DEF Pause, Times
<1> HIDE DEF p
<1> DEFINE ps == Append(row.pauses, p)
<1>3. /\ Len(ps) = Len(row.pauses) + 1
      /\ \A i \in 1 .. Len(row.pauses) : ps[i] = row.pauses[i]
  BY <1>1, <1>2, AppendProperties
<1>4. Paused(row, t).pauses = ps
  BY DEF Paused, Row, p
<1>5. SameEnd(Paused(row, t), row) /\ SameIdentity(Paused(row, t), row)
  BY DEF Paused, Row, SameEnd, SameIdentity
<1> HIDE DEF ps
<1> QED
  BY <1>3, <1>4, <1>5 DEF Grows

LEMMA ResumedGrows ==
    ASSUME NEW row, NEW ended \in Row, Grows(ended, row, 0), SameEnd(ended, row)
    PROVE  Grows(Resumed(ended), row, 0) /\ SameEnd(Resumed(ended), row)
<1> DEFINE new == Resumed(ended)
<1>1. /\ new.pauses = ended.pauses /\ new.reason = ended.reason /\ new.outAt = ended.outAt
      /\ SameIdentity(new, ended)
  BY DEF Resumed, Row, SameIdentity
<1> HIDE DEF new
<1>2. Grows(new, row, 0) /\ SameEnd(new, row)
  BY <1>1 DEF Grows, SameIdentity, SameEnd
<1> QED
  BY <1>2 DEF new

(* One row is written: its status goes from one of "from" to "to" and it    *)
(* gains n pauses.                                                          *)
Changes(s, from, to, n) ==
    /\ session[s].status \in from /\ session'[s].status = to
    /\ Grows(session'[s], session[s], n)
    /\ \A r \in SessionIds \ {s} : session'[r] = session[r]

(* One event, new to the log, is logged.                                    *)
Logs(s, typ) == \E id : ~ Logged(id) /\ events' = Log(id, s, typ)

LEMMA CheckOutWrites ==
    ASSUME Inv, NEW w \in Workers, CheckOutCommit(w)
    PROVE  \E s \in SessionIds : /\ Changes(s, LiveStatus, "CHECKED_OUT", 0)
                                 /\ session'[s].reason = "USER_CHECKOUT"
                                 /\ Logs(s, "CHECK_OUT")
<1> DEFINE v   == view[w]
           t   == call[w].at
           s   == v.sess
           old == session[s]
           i   == IF v.status = "PAUSED" THEN OpenPause(v.pauses) ELSE 0
           ps  == v.pauses
           row == EndPause(Closed(old, t, "USER_CHECKOUT", TotalAtClose(old.inAt, t, ps)),
                           i, t, "RETURNED")
<1>1. /\ s \in SessionIds /\ ps \in Seq(Pause) /\ old \in Row
      /\ old.status # "NONE" /\ t \in Instants
  BY ReadyType DEF CheckOutCommit
<1>2. session' = [session EXCEPT ![s] = row] /\ session \in [SessionIds -> Row]
  BY DEF CheckOutCommit, Inv, TypeOK
<1>3. old.status \in LiveStatus
  <2>1. v.status \in {"NONE"} \cup LiveStatus
    BY DEF Inv, TypeOK, View
  <2> QED
    BY <1>1, <2>1 DEF CheckOutCommit
<1>4. Logs(s, "CHECK_OUT")
  BY DEF CheckOutCommit, Record, Logs
<1>5. /\ Grows(row, old, 0) /\ row.status = "CHECKED_OUT" /\ row.reason = "USER_CHECKOUT"
  <2>1. "USER_CHECKOUT" \in {"USER_CHECKOUT", "GEOFENCE_TIMEOUT", "SYSTEM_ACTION"}
        /\ "RETURNED" \in {"RETURNED", "AUTO_CHECKOUT"}
    OBVIOUS
  <2> HIDE DEF i, t, old, ps
  <2> QED
    BY <1>1, <2>1, ClosingGrows
<1> HIDE DEF row, s
<1>6. session'[s] = row /\ \A r \in SessionIds \ {s} : session'[r] = session[r]
  BY <1>1, <1>2
<1>7. Changes(s, LiveStatus, "CHECKED_OUT", 0)
  BY <1>3, <1>5, <1>6 DEF Changes
<1> QED
  BY <1>1, <1>4, <1>5, <1>6, <1>7

LEMMA GeofenceExitWrites ==
    ASSUME Inv, NEW w \in Workers, GeofenceExitCommit(w)
    PROVE  \E s \in SessionIds : /\ Changes(s, {"WORKING"}, "PAUSED", 1)
                                 /\ SameEnd(session'[s], session[s])
                                 /\ Logs(s, "GEOFENCE_EXIT")
<1> DEFINE s   == view[w].sess
           old == session[s]
           row == Paused(old, call[w].at)
<1>1. s \in SessionIds /\ old \in Row /\ old.status = "WORKING" /\ call[w].at \in Times
  BY ReadyType DEF GeofenceExitCommit
<1>2. session' = [session EXCEPT ![s] = row] /\ session \in [SessionIds -> Row]
  BY DEF GeofenceExitCommit, Inv, TypeOK
<1>3. Logs(s, "GEOFENCE_EXIT")
  BY DEF GeofenceExitCommit, Record, Logs
<1>4. Grows(row, old, 1) /\ SameEnd(row, old)
  BY <1>1, PausedGrows
<1>5. row.status = "PAUSED"
  BY <1>1 DEF Paused, Row
<1> HIDE DEF row, s
<1>6. session'[s] = row /\ \A r \in SessionIds \ {s} : session'[r] = session[r]
  BY <1>1, <1>2
<1>7. Changes(s, {"WORKING"}, "PAUSED", 1)
  BY <1>1, <1>4, <1>5, <1>6 DEF Changes
<1> QED
  BY <1>1, <1>3, <1>4, <1>6, <1>7

LEMMA GeofenceReturnWrites ==
    ASSUME Inv, NEW w \in Workers, GeofenceReturnCommit(w)
    PROVE  \E s \in SessionIds : /\ Changes(s, {"PAUSED"}, "WORKING", 0)
                                 /\ SameEnd(session'[s], session[s])
                                 /\ Logs(s, "GEOFENCE_RETURN")
<1> DEFINE v     == view[w]
           s     == v.sess
           old   == session[s]
           i     == OpenPause(v.pauses)
           t     == call[w].at
           ended == EndPause(old, i, t, "RETURNED")
           row   == Resumed(ended)
<1>1. s \in SessionIds /\ old \in Row /\ old.status = "PAUSED" /\ t \in Instants
  BY ReadyType DEF GeofenceReturnCommit
<1>2. session' = [session EXCEPT ![s] = row] /\ session \in [SessionIds -> Row]
  BY DEF GeofenceReturnCommit, Inv, TypeOK
<1>3. Logs(s, "GEOFENCE_RETURN")
  BY DEF GeofenceReturnCommit, Record, Logs
<1> HIDE DEF i, t, old
<1>4. ended \in Row /\ Grows(ended, old, 0) /\ SameEnd(ended, old)
  BY <1>1, EndPauseRow, EndPauseGrows
<1> HIDE DEF ended
<1>5. Grows(row, old, 0) /\ SameEnd(row, old)
  BY <1>4, ResumedGrows
<1>6. row.status = "WORKING"
  BY <1>4 DEF Resumed, Row
<1> HIDE DEF row, s
<1>7. session'[s] = row /\ \A r \in SessionIds \ {s} : session'[r] = session[r]
  BY <1>1, <1>2
<1>8. session[s] = old
  BY DEF old
<1>9. Changes(s, {"PAUSED"}, "WORKING", 0)
  BY <1>1, <1>5, <1>6, <1>7, <1>8 DEF Changes
<1> QED
  BY <1>1, <1>3, <1>5, <1>7, <1>8, <1>9

LEMMA SweepCloseWrites ==
    ASSUME Inv, NEW k \in Sweepers, NEW s \in SessionIds, SweepClose(k, s)
    PROVE  /\ Changes(s, LiveStatus, "CHECKED_OUT", 0)
           /\ session'[s].reason = CloseReason(sweep[k].item[s], sweep[k].now)
           /\ session'[s].outAt = MinOf(sweep[k].item[s].target, sweep[k].now)
           /\ UNCHANGED events \/ Logs(s, "AUTO_CHECKOUT")
<1> DEFINE item   == sweep[k].item[s]
           at     == MinOf(item.target, sweep[k].now)
           reason == CloseReason(item, sweep[k].now)
           old    == session[s]
           ps     == item.pauses
           row    == EndPause(Closed(old, at, reason, TotalAtClose(old.inAt, at, ps)),
                              OpenPause(ps), at, "AUTO_CHECKOUT")
<1>1. /\ item \in Item /\ sweep[k].now \in Times /\ old \in Row /\ old.status \in LiveStatus
      /\ session \in [SessionIds -> Row]
  BY DEF SweepClose, Inv, TypeOK, Progress, IsLive
<1>2. item.target \in Nat /\ ps \in Seq(Pause)
  BY <1>1 DEF Item
<1>3. at \in Instants
  <2>1. at \in Times
    BY <1>1, <1>2, ParameterAssumption DEF MinOf, Times
  <2> QED
    BY <2>1, TimesAreInstants
<1>4. session' = [session EXCEPT ![s] = row]
  BY DEF SweepClose
<1>5. Grows(row, old, 0) /\ row.status = "CHECKED_OUT" /\ row.reason = reason /\ row.outAt = at
  <2>1. reason \in {"USER_CHECKOUT", "GEOFENCE_TIMEOUT", "SYSTEM_ACTION"}
    BY DEF CloseReason
  <2> HIDE DEF at, reason, old, ps
  <2> QED
    BY <1>1, <1>2, <1>3, <2>1, ClosingGrows
<1>6. UNCHANGED events \/ Logs(s, "AUTO_CHECKOUT")
  BY DEF SweepClose, Logs
<1> HIDE DEF row
<1>7. session'[s] = row /\ \A r \in SessionIds \ {s} : session'[r] = session[r]
  BY <1>1, <1>4
<1>8. Changes(s, LiveStatus, "CHECKED_OUT", 0)
  BY <1>1, <1>5, <1>7 DEF Changes
<1> QED
  BY <1>5, <1>6, <1>7, <1>8

(* A check-in logs the row it inserts, takes up an exception only if its    *)
(* transaction saw it approved, and closes the stale session by the system. *)
LEMMA CheckInWrites ==
    ASSUME Inv, NEW w \in Workers, CheckInCreate(w)
    PROVE  /\ \E x \in Exceptions \cup {None, 0} :
                /\ session'[nRows + 1] = NewRow(call[w].emp, call[w].at, x)
                /\ exc' = UsedUp(x)
                /\ x \in Exceptions => IF SnapshotReads THEN x \in view[w].usable
                                       ELSE exc[x] = "APPROVED"
           /\ Logs(nRows + 1, call[w].op)
           /\ view[w].sess # 0 =>
                /\ Grows(session'[view[w].sess], session[view[w].sess], 0)
                /\ session'[view[w].sess].reason = "SYSTEM_ACTION"
<1> DEFINE i    == call[w].emp
           t    == call[w].at
           v    == IF SnapshotReads THEN view[w] ELSE WithReads(view[w], i, t)
           n    == v.rows + 1
           base == IF v.sess = 0 THEN session ELSE CloseStale(v)
           m    == nRows + 1
           old  == view[w].sess
<1>1. /\ call[w] \in Call /\ view[w] \in View /\ session \in [SessionIds -> Row] /\ nRows \in Nat
      /\ m \in SessionIds /\ m # old /\ session[m].status = "NONE"
  BY CheckInOpens DEF Inv, TypeOK, Opened
<1>2. v \in View /\ v.sess = old /\ v.pauses = view[w].pauses /\ v.rows <= nRows /\ v.rows \in Nat
  <2>1. /\ v \in View /\ v.sess = old /\ v.rows <= nRows /\ v.pauses = view[w].pauses
    BY <1>1, WithReadsType DEF Inv, RowsInOrder
  <2> QED
    BY <2>1 DEF View
<1>3. n = m
  <2>1. n \in SessionIds /\ session[n].status = "NONE"
    BY DEF CheckInCreate
  <2>2. ~ (n <= nRows)
    BY <2>1 DEF Inv, RowsInOrder
  <2> QED
    BY <1>1, <1>2, <2>2
<1>4. PICK x \in Exceptions \cup {None, 0} :
        /\ session' = [base EXCEPT ![n] = NewRow(i, t, x)]
        /\ exc' = UsedUp(x)
        /\ x \in Exceptions => x \in v.usable
  <2>1. v.usable \subseteq Exceptions
    BY <1>2 DEF View
  <2> QED
    BY <2>1, ExceptionAssumption DEF CheckInCreate
<1>5. x \in Exceptions => IF SnapshotReads THEN x \in view[w].usable ELSE exc[x] = "APPROVED"
  <2>1. ~ SnapshotReads => v.usable = UsableExceptions(i, t)
    BY <1>1 DEF WithReads, View
  <2> QED
    BY <1>4, <2>1 DEF UsableExceptions
<1>6. Logs(m, call[w].op)
  BY <1>3 DEF CheckInCreate, Record, Logs
<1> HIDE DEF v, n
<1>7. /\ base \in [SessionIds -> Row]
      /\ old # 0 => base[old] = ClosedStale(session[old], view[w].pauses) /\ old \in SessionIds
                    /\ session[old] \in Row
  <2>1. CASE old = 0
    BY <1>1, <1>2, <2>1
  <2>2. CASE old # 0
    <3>1. old \in SessionIds /\ view[w].pauses \in Seq(Pause) /\ session[old] \in Row
      BY <1>1, <2>2 DEF View
    <3> DEFINE row == ClosedStale(session[old], view[w].pauses)
    <3>2. base = [session EXCEPT ![old] = row]
      BY <1>2, <2>2 DEF CloseStale
    <3>3. row \in Row
      BY <3>1, ClosedStaleRow
    <3> HIDE DEF row, base
    <3>4. base \in [SessionIds -> Row] /\ base[old] = row
      BY <1>1, <3>1, <3>2, <3>3
    <3> QED
      BY <3>1, <3>4 DEF row
  <2> QED
    BY <2>1, <2>2
<1> HIDE DEF base
<1>8. /\ session'[m] = NewRow(i, t, x)
      /\ old # 0 => session'[old] = ClosedStale(session[old], view[w].pauses)
  BY <1>1, <1>3, <1>4, <1>7
<1>9. ASSUME old # 0
      PROVE  Grows(session'[old], session[old], 0) /\ session'[old].reason = "SYSTEM_ACTION"
  <2> DEFINE row == session[old]
             at  == getMidnightCutoffForSession(row.inAt)
             ps  == view[w].pauses
             new == EndPause(Closed(row, at, "SYSTEM_ACTION", TotalAtClose(row.inAt, at, ps)),
                             OpenPause(ps), at, "AUTO_CHECKOUT")
  <2>1. row \in Row /\ ps \in Seq(Pause)
    BY <1>1, <1>7, <1>9 DEF View
  <2>2. at \in Instants
    BY <2>1, MidnightIsInstant DEF Row
  <2>3. session'[old] = new
    BY <1>8, <1>9 DEF ClosedStale
  <2> HIDE DEF row, at, ps
  <2>4. Grows(new, row, 0) /\ new.reason = "SYSTEM_ACTION"
    BY <2>1, <2>2, ClosingGrows
  <2> QED
    BY <2>3, <2>4 DEF row
<1> QED
  BY <1>4, <1>5, <1>6, <1>8, <1>9

(* Whatever else a step does, the tables change by one of these writes.     *)
LEMMA StepWrites ==
    ASSUME Inv, [Next]_vars
    PROVE  \/ UNCHANGED <<session, nRows, events, exc>>
           \/ \E w \in Workers : CheckInCreate(w)
           \/ \E s \in SessionIds :
                /\ UNCHANGED <<nRows, exc>>
                /\ \/ /\ Changes(s, LiveStatus, "CHECKED_OUT", 0)
                      /\ session'[s].reason = "USER_CHECKOUT"
                      /\ Logs(s, "CHECK_OUT")
                   \/ /\ Changes(s, {"WORKING"}, "PAUSED", 1)
                      /\ SameEnd(session'[s], session[s])
                      /\ Logs(s, "GEOFENCE_EXIT")
                   \/ /\ Changes(s, {"PAUSED"}, "WORKING", 0)
                      /\ SameEnd(session'[s], session[s])
                      /\ Logs(s, "GEOFENCE_RETURN")
           \/ \E k \in Sweepers : \E s \in SessionIds : SweepClose(k, s)
<1>1. CASE UNCHANGED vars \/ Tick
  BY <1>1 DEF vars, Tick
<1>2. ASSUME NEW w \in Workers,
             \/ CheckInBegin(w) \/ CheckInLock(w) \/ CheckOutRead(w)
             \/ GeofenceExitRead(w) \/ GeofenceReturnRead(w) \/ Abort(w)
      PROVE  UNCHANGED <<session, nRows, events, exc>>
  BY <1>2, Zenon DEF CheckInBegin, CheckInLock, CheckOutRead, GeofenceExitRead,
                     GeofenceReturnRead, Abort
<1>3. ASSUME NEW w \in Workers,
             CheckOutCommit(w) \/ GeofenceExitCommit(w) \/ GeofenceReturnCommit(w)
      PROVE  UNCHANGED <<nRows, exc>>
  BY <1>3 DEF CheckOutCommit, GeofenceExitCommit, GeofenceReturnCommit
<1>4. CASE \E w \in Workers : Request(w)
  BY <1>2, <1>3, <1>4, CheckOutWrites, GeofenceExitWrites, GeofenceReturnWrites, Zenon
     DEF Request
<1>5. ASSUME NEW k \in Sweepers, SweepStep(k)
      PROVE  \/ UNCHANGED <<session, nRows, events, exc>>
             \/ \E s \in SessionIds : SweepClose(k, s)
  BY <1>5, Zenon DEF SweepStep, SweepReadPaused, SweepReadActive, SweepSkip
<1> QED
  BY <1>1, <1>4, <1>5, Zenon DEF Next

-----------------------------------------------------------------------------
(* Events are logged on open sessions only: the status a transaction checks *)
(* again, or the row it has just inserted, decides - not what it had read.  *)
LEMMA StepLogsOnOpen ==
    ASSUME Inv, [Next]_vars
    PROVE  \A e \in events' \ events : session[e.sess].status # "CHECKED_OUT"
<1>1. ASSUME NEW s, NEW typ, Logs(s, typ), session[s].status # "CHECKED_OUT"
      PROVE  \A e \in events' \ events : session[e.sess].status # "CHECKED_OUT"
  BY <1>1 DEF Logs, Log
<1>2. ASSUME NEW w \in Workers, CheckInCreate(w)
      PROVE  Logs(nRows + 1, call[w].op) /\ session[nRows + 1].status # "CHECKED_OUT"
  BY <1>2, CheckInWrites, CheckInOpens DEF Opened
<1>3. ASSUME NEW k \in Sweepers, NEW s \in SessionIds, SweepClose(k, s)
      PROVE  UNCHANGED events \/ (Logs(s, "AUTO_CHECKOUT") /\ session[s].status # "CHECKED_OUT")
  BY <1>3, SweepCloseWrites DEF Changes, LiveStatus
<1> QED
  BY <1>1, <1>2, <1>3, StepWrites DEF Changes, LiveStatus

(* No event is ever logged against a session that was already closed,       *)
(* however stale the read that chose the session was.                       *)
THEOREM NoEventAfterClose == Spec => EventsOnlyOnOpenSessions
<1>1. Inv /\ [Next]_vars =>
        [\A e \in events' \ events : session[e.sess].status # "CHECKED_OUT"]_vars
  BY StepLogsOnOpen
<1> QED
  BY <1>1, InvAlways, PTL DEF Spec, EventsOnlyOnOpenSessions

-----------------------------------------------------------------------------
(* The event log and the session table agree *)

Count(s, types) == Cardinality(EventsOf(s, types))

Closing == {"CHECK_OUT", "AUTO_CHECKOUT"}

LogStory(s) ==
    /\ Count(s, {"CHECK_IN"}) = IF s \in Rows THEN 1 ELSE 0
    /\ Count(s, {"GEOFENCE_EXIT"}) = Len(session[s].pauses)
    /\ IsLive(s) => /\ Count(s, Closing) = 0
                    /\ Count(s, {"GEOFENCE_EXIT"}) - Count(s, {"GEOFENCE_RETURN"})
                         = IF session[s].status = "PAUSED" THEN 1 ELSE 0
    /\ Count(s, Closing) <= 1

(* What makes it inductive: only rows have events, so that a new row starts *)
(* with none, and a check-in's event is a check-in.                         *)
LoggedRows == IsFiniteSet(events) /\ \A e \in events : e.sess \in Rows

CheckInsOnly ==
    \A w \in Workers : call[w].pc \in {"begun", "locked"} => call[w].op = "CHECK_IN"

LogInv == LogMatchesSessions /\ LoggedRows /\ CheckInsOnly

LEMMA LogStories == LogMatchesSessions <=> \A s \in SessionIds : LogStory(s)
BY DEF LogMatchesSessions, LogStory, Count, Closing

LEMMA CountType ==
    ASSUME IsFiniteSet(events), NEW s, NEW types
    PROVE  Count(s, types) \in Nat
<1>1. EventsOf(s, types) \subseteq events
  BY DEF EventsOf
<1> QED
  BY <1>1, FS_Subset, FS_CardinalityType DEF Count

LEMMA CountAfter ==
    ASSUME IsFiniteSet(events), NEW s, NEW typ, Logs(s, typ)
    PROVE  /\ IsFiniteSet(events)'
           /\ \A r, types :
                Count(r, types)' = Count(r, types) + (IF r = s /\ typ \in types THEN 1 ELSE 0)
<1>1. PICK id : ~ Logged(id) /\ events' = Log(id, s, typ)
  BY DEF Logs
<1> DEFINE e == [id |-> id, sess |-> s, type |-> typ]
<1>2. e.id = id /\ e.sess = s /\ e.type = typ
  OBVIOUS
<1>3. events' = events \cup {e} /\ e \notin events
  BY <1>1 DEF Log, Logged
<1> HIDE DEF e
<1>4. IsFiniteSet(events)'
  BY <1>3, FS_AddElement
<1>5. ASSUME NEW r, NEW types
      PROVE  Count(r, types)' = Count(r, types) + (IF r = s /\ typ \in types THEN 1 ELSE 0)
  <2> DEFINE E == EventsOf(r, types)
  <2>1. IsFiniteSet(E) /\ e \notin E /\ Cardinality(E) \in Nat
    <3>1. E \subseteq events
      BY DEF EventsOf
    <3> QED
      BY <1>3, <3>1, FS_Subset, FS_CardinalityType
  <2>2. E' = IF r = s /\ typ \in types THEN E \cup {e} ELSE E
    BY <1>2, <1>3 DEF EventsOf
  <2>3. Cardinality(E \cup {e}) = Cardinality(E) + 1
    BY <2>1, FS_AddElement
  <2> QED
    BY <2>1, <2>2, <2>3 DEF Count
<1> QED
  BY <1>4, <1>5

(* The rows a write leaves alone, or closes again, keep their story.        *)
LEMMA OtherStories ==
    ASSUME Inv, LogInv, NEW s \in SessionIds, NEW typ, Logs(s, typ), NEW r \in SessionIds, r # s,
           \/ session'[r] = session[r]
           \/ /\ session[r].status # "NONE" /\ session'[r].status = "CHECKED_OUT"
              /\ Len(session'[r].pauses) = Len(session[r].pauses)
    PROVE  LogStory(r)'
<1>1. \A types : Count(r, types)' = Count(r, types) /\ Count(r, types) \in Nat
  BY CountAfter, CountType DEF LogInv, LoggedRows
<1>2. LogStory(r)
  BY LogStories DEF LogInv
<1>3. r \in Rows' <=> r \in Rows
  BY DEF Rows
<1>4. IsLive(r)' => IsLive(r) /\ session'[r] = session[r]
  BY DEF IsLive, LiveStatus
<1>5. Len(session'[r].pauses) = Len(session[r].pauses)
  OBVIOUS
<1> QED
  BY <1>1, <1>2, <1>3, <1>4, <1>5 DEF LogStory

LEMMA RowsLogged ==
    ASSUME Inv, LogInv, NEW s \in SessionIds, NEW typ, Logs(s, typ),
           session'[s].status # "NONE",
           \A r \in SessionIds \ {s} : session[r].status # "NONE" => session'[r].status # "NONE"
    PROVE  LoggedRows'
<1>1. PICK id : events' = Log(id, s, typ)
  BY DEF Logs
<1>2. s \in Rows' /\ Rows \subseteq Rows'
  BY DEF Rows
<1>3. IsFiniteSet(events)'
  BY CountAfter DEF LogInv, LoggedRows
<1>4. ASSUME NEW e \in events' PROVE e.sess \in Rows'
  BY <1>1, <1>2, <1>4 DEF Log, LogInv, LoggedRows
<1> QED
  BY <1>3, <1>4 DEF LoggedRows

LEMMA StoryOfNone ==
    ASSUME LogInv, NEW s \in SessionIds, session[s].status = "NONE", NEW types
    PROVE  Count(s, types) = 0
<1>1. EventsOf(s, types) = {}
  BY DEF EventsOf, LogInv, LoggedRows, Rows
<1> QED
  BY <1>1, FS_EmptySet DEF Count

(* A transaction on one live session writes the row and its event together. *)
LEMMA ChangeKeepsLog ==
    ASSUME Inv, LogInv, NEW s \in SessionIds,
           \/ Changes(s, LiveStatus, "CHECKED_OUT", 0) /\ Logs(s, "CHECK_OUT")
           \/ Changes(s, LiveStatus, "CHECKED_OUT", 0) /\ Logs(s, "AUTO_CHECKOUT")
           \/ Changes(s, {"WORKING"}, "PAUSED", 1) /\ Logs(s, "GEOFENCE_EXIT")
           \/ Changes(s, {"PAUSED"}, "WORKING", 0) /\ Logs(s, "GEOFENCE_RETURN")
    PROVE  LogMatchesSessions' /\ LoggedRows'
<1>1. PICK typ \in {"CHECK_OUT", "AUTO_CHECKOUT", "GEOFENCE_EXIT", "GEOFENCE_RETURN"} :
        /\ Logs(s, typ)
        /\ typ \in Closing => Changes(s, LiveStatus, "CHECKED_OUT", 0)
        /\ typ = "GEOFENCE_EXIT" => Changes(s, {"WORKING"}, "PAUSED", 1)
        /\ typ = "GEOFENCE_RETURN" => Changes(s, {"PAUSED"}, "WORKING", 0)
  BY DEF Closing
<1>2. /\ session[s].status \in LiveStatus /\ session'[s].status # "NONE"
      /\ \A r \in SessionIds \ {s} : session'[r] = session[r]
  BY <1>1 DEF Changes, LiveStatus, Closing
<1>3. \A r \in SessionIds \ {s} : LogStory(r)'
  BY <1>1, <1>2, OtherStories
<1>4. LogStory(s) /\ IsLive(s) /\ s \in Rows /\ s \in Rows'
  BY <1>2, LogStories DEF LogInv, IsLive, LiveStatus, Rows
<1>5. \A types : /\ Count(s, types)' = Count(s, types) + (IF typ \in types THEN 1 ELSE 0)
                 /\ Count(s, types) \in Nat
  BY <1>1, CountAfter, CountType DEF LogInv, LoggedRows
<1>6. LogStory(s)'
  <2>1. CASE typ \in Closing
    <3>1. /\ Len(session'[s].pauses) = Len(session[s].pauses)
          /\ ~ IsLive(s)'
      <4>1. Changes(s, LiveStatus, "CHECKED_OUT", 0) /\ Len(session[s].pauses) \in Nat
        BY <1>1, <2>1, LenPauses DEF Inv, TypeOK
      <4> QED
        BY <4>1 DEF Changes, Grows, IsLive, LiveStatus
    <3>2. typ \notin {"CHECK_IN"} /\ typ \notin {"GEOFENCE_EXIT"}
      BY <2>1 DEF Closing
    <3> QED
      BY <1>4, <1>5, <2>1, <3>1, <3>2 DEF LogStory
  <2>2. CASE typ = "GEOFENCE_EXIT"
    <3>1. /\ Len(session'[s].pauses) = Len(session[s].pauses) + 1
          /\ session[s].status = "WORKING" /\ session'[s].status = "PAUSED"
      BY <1>1, <2>2 DEF Changes, Grows
    <3>2. typ \notin {"CHECK_IN"} /\ typ \notin {"GEOFENCE_RETURN"} /\ typ \notin Closing
      BY <2>2 DEF Closing
    <3>3. /\ Count(s, {"CHECK_IN"})' = Count(s, {"CHECK_IN"})
          /\ Count(s, {"GEOFENCE_EXIT"})' = Count(s, {"GEOFENCE_EXIT"}) + 1
          /\ Count(s, {"GEOFENCE_RETURN"})' = Count(s, {"GEOFENCE_RETURN"})
          /\ Count(s, Closing)' = Count(s, Closing)
      BY <1>5, <2>2, <3>2
    <3>4. Count(s, {"GEOFENCE_EXIT"}) \in Nat /\ Count(s, {"GEOFENCE_RETURN"}) \in Nat
      BY <1>5
    <3> QED
      BY <1>4, <3>1, <3>3, <3>4 DEF LogStory
  <2>3. CASE typ = "GEOFENCE_RETURN"
    <3>1. /\ Len(session'[s].pauses) = Len(session[s].pauses)
          /\ session[s].status = "PAUSED" /\ session'[s].status = "WORKING"
      <4>1. Changes(s, {"PAUSED"}, "WORKING", 0) /\ Len(session[s].pauses) \in Nat
        BY <1>1, <2>3, LenPauses DEF Inv, TypeOK
      <4> QED
        BY <4>1 DEF Changes, Grows
    <3>2. typ \notin {"CHECK_IN"} /\ typ \notin {"GEOFENCE_EXIT"} /\ typ \notin Closing
      BY <2>3 DEF Closing
    <3>3. /\ Count(s, {"CHECK_IN"})' = Count(s, {"CHECK_IN"})
          /\ Count(s, {"GEOFENCE_EXIT"})' = Count(s, {"GEOFENCE_EXIT"})
          /\ Count(s, {"GEOFENCE_RETURN"})' = Count(s, {"GEOFENCE_RETURN"}) + 1
          /\ Count(s, Closing)' = Count(s, Closing)
      BY <1>5, <2>3, <3>2
    <3>4. Count(s, {"GEOFENCE_EXIT"}) \in Nat /\ Count(s, {"GEOFENCE_RETURN"}) \in Nat
      BY <1>5
    <3> QED
      BY <1>4, <3>1, <3>3, <3>4 DEF LogStory
  <2> QED
    BY <1>1, <2>1, <2>2, <2>3 DEF Closing
<1>7. LogMatchesSessions'
  <2>1. \A r \in SessionIds : LogStory(r)'
    BY <1>3, <1>6
  <2> QED
    BY <2>1 DEF LogMatchesSessions, LogStory, Count, Closing
<1>8. LoggedRows'
  BY <1>1, <1>2, RowsLogged
<1> QED
  BY <1>7, <1>8

(* A sweep that finds its event logged already writes the row alone.        *)
LEMMA SilentCloseKeepsLog ==
    ASSUME Inv, LogInv, NEW s \in SessionIds, Changes(s, LiveStatus, "CHECKED_OUT", 0),
           UNCHANGED events
    PROVE  LogMatchesSessions' /\ LoggedRows'
<1>1. \A r, types : Count(r, types)' = Count(r, types)
  BY DEF Count, EventsOf
<1>2. \A r \in SessionIds :
        /\ Len(session'[r].pauses) = Len(session[r].pauses)
        /\ IsLive(r)' => session'[r] = session[r]
        /\ session'[r].status # "NONE" <=> session[r].status # "NONE"
  <2>1. \A r \in SessionIds : Len(session[r].pauses) \in Nat
    BY LenPauses DEF Inv, TypeOK
  <2> QED
    BY <2>1 DEF Changes, Grows, IsLive, LiveStatus
<1>3. Rows' = Rows
  BY <1>2 DEF Rows
<1>4. \A r \in SessionIds : LogStory(r)
  BY LogStories DEF LogInv
<1>5. ASSUME NEW r \in SessionIds PROVE LogStory(r)'
  BY <1>1, <1>2, <1>3, <1>4 DEF LogStory, IsLive
<1>6. LogMatchesSessions'
  BY <1>5 DEF LogMatchesSessions, LogStory, Count, Closing
<1> QED
  BY <1>3, <1>6 DEF LogInv, LoggedRows

LEMMA CheckInKeepsLog ==
    ASSUME Inv, LogInv, NEW w \in Workers, CheckInCreate(w)
    PROVE  LogMatchesSessions' /\ LoggedRows'
<1>0. nRows + 1 \in SessionIds
  BY CheckInOpens DEF Opened
<1> PICK n \in SessionIds : n = nRows + 1
  BY <1>0
<1> PICK old : old = view[w].sess
  OBVIOUS
<1>1. /\ session[n].status = "NONE" /\ session'[n].status = "WORKING"
      /\ \A r \in SessionIds \ {n} :
           IF r = old THEN session[r].status # "NONE" /\ session'[r].status = "CHECKED_OUT"
           ELSE session'[r] = session[r]
  BY CheckInOpens DEF Opened
<1>2. Logs(n, "CHECK_IN")
  BY CheckInWrites DEF LogInv, CheckInsOnly, CheckInCreate
<1>3. Len(session'[n].pauses) = 0
  <2>1. PICK x : session'[n] = NewRow(call[w].emp, call[w].at, x)
    BY CheckInWrites
  <2>2. session'[n].pauses = << >>
    BY <2>1 DEF NewRow, NoRow
  <2> QED
    BY <2>2, EmptySeq
<1>4. old \in SessionIds => Len(session'[old].pauses) = Len(session[old].pauses)
  <2>1. old \in SessionIds => old # 0 /\ Len(session[old].pauses) \in Nat
    BY LenPauses DEF SessionIds, Inv, TypeOK
  <2> QED
    BY <2>1, CheckInWrites DEF Grows
<1>5. ASSUME NEW r \in SessionIds \ {n} PROVE LogStory(r)'
  <2>1. CASE r = old
    BY <1>1, <1>2, <1>4, <1>5, <2>1, OtherStories
  <2>2. CASE r # old
    BY <1>1, <1>2, <1>5, <2>2, OtherStories
  <2> QED
    BY <2>1, <2>2
<1>6. LogStory(n)'
  <2>1. ASSUME NEW types PROVE Count(n, types)' = IF "CHECK_IN" \in types THEN 1 ELSE 0
    <3>1. Count(n, types) = 0
      BY <1>1, StoryOfNone
    <3>2. Count(n, types)' = Count(n, types) + (IF "CHECK_IN" \in types THEN 1 ELSE 0)
      BY <1>2, CountAfter DEF LogInv, LoggedRows
    <3> QED
      BY <3>1, <3>2
  <2>2. n \in Rows' /\ session'[n].status # "PAUSED"
    BY <1>1 DEF Rows
  <2>3. "CHECK_IN" \notin Closing /\ "CHECK_IN" \notin {"GEOFENCE_EXIT"}
        /\ "CHECK_IN" \notin {"GEOFENCE_RETURN"}
    BY DEF Closing
  <2>4. /\ Count(n, {"CHECK_IN"})' = 1 /\ Count(n, {"GEOFENCE_EXIT"})' = 0
        /\ Count(n, {"GEOFENCE_RETURN"})' = 0 /\ Count(n, Closing)' = 0
    BY <2>1, <2>3
  <2> QED
    BY <1>3, <2>2, <2>4 DEF LogStory
<1>7. LogMatchesSessions'
  <2>1. \A r \in SessionIds : LogStory(r)'
    BY <1>5, <1>6
  <2> QED
    BY <2>1 DEF LogMatchesSessions, LogStory, Count, Closing
<1>8. LoggedRows'
  <2>1. \A r \in SessionIds \ {n} : session[r].status # "NONE" => session'[r].status # "NONE"
    BY <1>1
  <2> QED
    BY <1>1, <1>2, <2>1, RowsLogged
<1> QED
  BY <1>7, <1>8

LEMMA CheckInsKept == ASSUME Inv, CheckInsOnly, [Next]_vars PROVE CheckInsOnly'
<1>1. call \in [Workers -> Call]
  BY DEF Inv, TypeOK
<1>2. CASE UNCHANGED call
  BY <1>2 DEF CheckInsOnly
<1>3. ASSUME NEW w \in Workers, Finish(w) PROVE CheckInsOnly'
  BY <1>1, <1>3 DEF Finish, NoCall, CheckInsOnly
<1>4. ASSUME NEW w \in Workers, CheckInBegin(w) PROVE CheckInsOnly'
  BY <1>1, <1>4 DEF CheckInBegin, Start, CheckInsOnly
<1>5. ASSUME NEW w \in Workers, CheckInLock(w) PROVE CheckInsOnly'
  BY <1>1, <1>5 DEF CheckInLock, CheckInsOnly, Call
<1>6. ASSUME NEW w \in Workers, CheckOutRead(w) \/ GeofenceExitRead(w) \/ GeofenceReturnRead(w)
      PROVE  CheckInsOnly'
  <2>1. \E op, i, c, t : Start(w, "ready", op, i, c, t)
    BY <1>6 DEF CheckOutRead, GeofenceExitRead, GeofenceReturnRead
  <2> QED
    BY <1>1, <2>1 DEF Start, CheckInsOnly
<1>7. ASSUME NEW w \in Workers,
             \/ CheckInCreate(w) \/ CheckOutCommit(w) \/ GeofenceExitCommit(w)
             \/ GeofenceReturnCommit(w) \/ Abort(w)
      PROVE  Finish(w)
  BY <1>7, Zenon DEF CheckInCreate, CheckOutCommit, GeofenceExitCommit, GeofenceReturnCommit, Abort
<1>8. ASSUME NEW w \in Workers, Request(w) PROVE CheckInsOnly'
  BY <1>3, <1>4, <1>5, <1>6, <1>7, <1>8, Zenon DEF Request
<1>9. ASSUME NEW k \in Sweepers, SweepStep(k) PROVE UNCHANGED call
  BY <1>9, Zenon DEF SweepStep, SweepReadPaused, SweepReadActive, SweepClose, SweepSkip
<1>10. Tick \/ UNCHANGED vars => UNCHANGED call
  BY DEF Tick, vars
<1> QED
  BY <1>2, <1>8, <1>9, <1>10, Zenon DEF Next

LEMMA NextKeepsLog == ASSUME Inv, LogInv, [Next]_vars PROVE LogInv'
<1>1. CheckInsOnly'
  BY CheckInsKept DEF LogInv
<1>2. LogMatchesSessions' /\ LoggedRows'
  <2>1. CASE UNCHANGED <<session, nRows, events, exc>>
    BY <2>1 DEF LogInv, LogMatchesSessions, LoggedRows, EventsOf, Rows, IsLive
  <2>2. ASSUME NEW k \in Sweepers, NEW s \in SessionIds, SweepClose(k, s)
        PROVE  LogMatchesSessions' /\ LoggedRows'
    BY <2>2, SweepCloseWrites, ChangeKeepsLog, SilentCloseKeepsLog
  <2> QED
    BY <2>1, <2>2, StepWrites, CheckInKeepsLog, ChangeKeepsLog
<1> QED
  BY <1>1, <1>2 DEF LogInv

LEMMA InitLog == ASSUME Init PROVE LogInv
<1>1. /\ \A s \in SessionIds : session[s] = NoRow
      /\ events = {} /\ \A w \in Workers : call[w].pc = "idle"
  BY DEF Init, NoCall
<1>2. \A s, types : Count(s, types) = 0
  <2>1. \A s, types : EventsOf(s, types) = {}
    BY <1>1 DEF EventsOf
  <2> QED
    BY <2>1, FS_EmptySet DEF Count
<1>3. \A s \in SessionIds : LogStory(s)
  BY <1>1, <1>2, NoRowType DEF LogStory, Rows, IsLive, LiveStatus
<1>4. LoggedRows /\ CheckInsOnly
  BY <1>1, FS_EmptySet DEF LoggedRows, CheckInsOnly
<1> QED
  BY <1>3, <1>4, LogStories DEF LogInv

(* The event log and the session table tell the same history, though racing *)
(* transactions write them: one check-in per session, one exit per pause, a *)
(* return for every pause but an open one, one closing event at most.       *)
THEOREM LogAgrees == Spec => []LogMatchesSessions
<1>1. Init => LogInv
  BY InitLog
<1>2. Inv /\ LogInv /\ [Next]_vars => LogInv'
  BY NextKeepsLog
<1> QED
  BY <1>1, <1>2, InvAlways, PTL DEF Spec, LogInv

-----------------------------------------------------------------------------
(* An approved exception opens one session *)

Approved == {x \in Exceptions : exc[x] = "APPROVED"}

(* What makes it inductive: no row has a reopening exception before it is   *)
(* inserted, and a transaction whose number is still free has seen as       *)
(* approved only what still is: to use an exception up is to take a number. *)
NotYetReopened == \A s \in SessionIds : session[s].status = "NONE" => session[s].reopen = None

UsableStand == \A w \in Workers : view[w].rows = nRows => view[w].usable \subseteq Approved

ExceptionInv == ExceptionUsedOnce /\ NotYetReopened /\ UsableStand

LEMMA ViewAfter ==
    ASSUME Inv, [Next]_vars, NEW u \in Workers
    PROVE  view'[u] = view[u] \/ view'[u].usable = {} \/ view'[u].usable \subseteq Approved
<1>1. view \in [Workers -> View] /\ NoView.usable = {}
  BY DEF Inv, TypeOK, NoView
<1>2. ASSUME NEW w \in Workers, NEW v, Remember(w, v), v.usable \subseteq Approved
      PROVE  view'[u] = view[u] \/ view'[u].usable \subseteq Approved
  BY <1>1, <1>2 DEF Remember
<1>3. ASSUME NEW w \in Workers, Finish(w)
      PROVE  view'[u] = view[u] \/ view'[u].usable = {}
  BY <1>1, <1>3 DEF Finish
<1>4. ASSUME NEW i, NEW t, NEW v, ActiveFor(i, t, v) PROVE v.usable \subseteq Approved
  <2>1. v = NoView \/ \E s : v = Found(s)
    BY <1>4 DEF ActiveFor
  <2>2. \A s : Found(s).usable = {}
    BY DEF Found, NoView
  <2> QED
    BY <1>1, <2>1, <2>2
<1>5. ASSUME NEW w \in Workers, CheckInBegin(w)
      PROVE  view'[u] = view[u] \/ view'[u].usable \subseteq Approved
  <2>1. ASSUME NEW i \in Ids, NEW t, NEW v, ActiveFor(i, t, v)
        PROVE  WithReads(v, i, t).usable \subseteq Approved
    <3>1. v \in View
      BY <2>1, ActiveType
    <3>2. WithReads(v, i, t).usable = UsableExceptions(i, t)
      BY <3>1 DEF WithReads, View
    <3> QED
      BY <3>2 DEF UsableExceptions, Approved
  <2>2. PICK v : Remember(w, v) /\ v.usable \subseteq Approved
    <3>1. NoView.usable \subseteq Approved
      BY <1>1
    <3>2. PICK i \in Ids, t \in EventTimes :
             IF SnapshotReads
             THEN \E v : ActiveFor(i, t, v) /\ Remember(w, WithReads(v, i, t))
             ELSE Remember(w, NoView)
      BY <1>5 DEF CheckInBegin
    <3>3. CASE SnapshotReads
      BY <2>1, <3>2, <3>3
    <3>4. CASE ~ SnapshotReads
      BY <3>1, <3>2, <3>4
    <3> QED
      BY <3>3, <3>4
  <2> QED
    BY <1>2, <2>2
<1>6. ASSUME NEW w \in Workers, CheckInLock(w)
      PROVE  view'[u] = view[u] \/ view'[u].usable \subseteq Approved
  BY <1>2, <1>4, <1>6 DEF CheckInLock
<1>7. ASSUME NEW w \in Workers, CheckOutRead(w) \/ GeofenceExitRead(w) \/ GeofenceReturnRead(w)
      PROVE  view'[u] = view[u] \/ view'[u].usable \subseteq Approved
  <2>1. PICK v : Remember(w, v) /\ v.usable = {}
    <3>1. PICK s \in SessionIds :
            Remember(w, Found(s)) \/ Remember(w, [NoView EXCEPT !.sess = s, !.status = "WORKING"])
      BY <1>7 DEF CheckOutRead, GeofenceExitRead, GeofenceReturnRead, LiveOf
    <3>2. Found(s).usable = {} /\ [NoView EXCEPT !.sess = s, !.status = "WORKING"].usable = {}
      BY DEF Found, NoView
    <3> QED
      BY <3>1, <3>2
  <2> QED
    BY <1>2, <2>1
<1>8. ASSUME NEW w \in Workers,
             \/ CheckInCreate(w) \/ CheckOutCommit(w) \/ GeofenceExitCommit(w)
             \/ GeofenceReturnCommit(w) \/ Abort(w)
      PROVE  Finish(w)
  BY <1>8, Zenon DEF CheckInCreate, CheckOutCommit, GeofenceExitCommit, GeofenceReturnCommit, Abort
<1>9. ASSUME NEW k \in Sweepers, SweepStep(k) PROVE UNCHANGED view
  BY <1>9, Zenon DEF SweepStep, SweepReadPaused, SweepReadActive, SweepClose, SweepSkip
<1>10. Tick \/ UNCHANGED vars => UNCHANGED view
  BY DEF Tick, vars
<1>11. ASSUME NEW w \in Workers, Request(w)
       PROVE  view'[u] = view[u] \/ view'[u].usable = {} \/ view'[u].usable \subseteq Approved
  BY <1>3, <1>5, <1>6, <1>7, <1>8, <1>11, Zenon DEF Request
<1> QED
  BY <1>9, <1>10, <1>11, Zenon DEF Next

LEMMA ViewRowsKept == ASSUME Inv, NEW w \in Workers, CheckInCreate(w) PROVE UsableStand'
<1>1. /\ \A u \in Workers : view'[u] = IF u = w THEN NoView ELSE view[u]
      /\ NoView.rows = 0 /\ nRows \in Nat /\ nRows' = nRows + 1
      /\ \A u \in Workers : view[u].rows \in Nat /\ view[u].rows <= nRows
  BY DEF Inv, TypeOK, View, RowsInOrder, CheckInCreate, Finish, NoView
<1> QED
  BY <1>1 DEF UsableStand

LEMMA CheckInUsesOnce ==
    ASSUME Inv, ExceptionInv, NEW w \in Workers, CheckInCreate(w)
    PROVE  ExceptionUsedOnce' /\ NotYetReopened'
<1>0. Opened(w, nRows + 1)
  BY CheckInOpens
<1>1. nRows + 1 \in SessionIds
  BY <1>0 DEF Opened
<1> PICK n \in SessionIds : n = nRows + 1
  BY <1>1
<1>2. /\ session[n].status = "NONE" /\ session'[n].status = "WORKING"
      /\ \A r \in SessionIds \ {n} : /\ session'[r].reopen = session[r].reopen
                                     /\ session'[r].status = "NONE" => session[r].status = "NONE"
  BY <1>0 DEF Opened, SameIdentity
<1>3. PICK x \in Exceptions \cup {None, 0} :
        /\ session'[n] = NewRow(call[w].emp, call[w].at, x)
        /\ exc' = UsedUp(x)
        /\ x \in Exceptions => IF SnapshotReads THEN x \in view[w].usable ELSE exc[x] = "APPROVED"
  BY CheckInWrites
<1>4. x \in Exceptions => exc[x] = "APPROVED"
  <2>1. CASE SnapshotReads
    BY <1>0, <1>3, <2>1 DEF Opened, ExceptionInv, UsableStand, Approved
  <2>2. CASE ~ SnapshotReads
    BY <1>3, <2>2
  <2> QED
    BY <2>1, <2>2
<1>5. session'[n].reopen = x /\ session[n].reopen = None /\ None \notin Exceptions
  <2>1. NewRow(call[w].emp, call[w].at, x).reopen = x
    BY DEF NewRow, NoRow
  <2> QED
    BY <1>2, <1>3, <2>1, ExceptionAssumption DEF ExceptionInv, NotYetReopened
<1>6. ASSUME NEW y \in Exceptions
      PROVE  LET opened == {s \in SessionIds : session'[s].reopen = y}
             IN  /\ \A s, r \in opened : s = r
                 /\ (opened # {}) <=> (exc'[y] = "USED")
  <2> DEFINE opened == {s \in SessionIds : session[s].reopen = y}
             after  == {s \in SessionIds : session'[s].reopen = y}
  <2>1. (\A s, r \in opened : s = r) /\ ((opened # {}) <=> (exc[y] = "USED"))
    BY DEF ExceptionInv, ExceptionUsedOnce
  <2>2. exc \in [Exceptions -> {"PENDING", "APPROVED", "REJECTED", "USED"}]
    BY DEF Inv, TypeOK
  <2>3. CASE x = y
    <3>1. opened = {}
      BY <1>4, <2>1, <2>3
    <3>2. after = {n}
      BY <1>2, <1>5, <2>3, <3>1
    <3>3. exc'[y] = "USED"
      BY <1>3, <2>2, <2>3 DEF UsedUp
    <3> QED
      BY <3>2, <3>3
  <2>4. CASE x # y
    <3>1. after = opened
      BY <1>2, <1>5, <2>4
    <3>2. exc'[y] = exc[y]
      BY <1>3, <2>2, <2>4 DEF UsedUp
    <3> QED
      BY <2>1, <3>1, <3>2
  <2> QED
    BY <2>3, <2>4
<1>7. ExceptionUsedOnce'
  BY <1>6 DEF ExceptionUsedOnce
<1>8. NotYetReopened'
  BY <1>2 DEF ExceptionInv, NotYetReopened
<1> QED
  BY <1>7, <1>8

LEMMA NextKeepsExceptions == ASSUME Inv, ExceptionInv, [Next]_vars PROVE ExceptionInv'
<1>1. ASSUME UNCHANGED <<nRows, exc>> PROVE UsableStand'
  <2>1. Approved' = Approved
    BY <1>1 DEF Approved
  <2> QED
    BY <1>1, <2>1, ViewAfter DEF ExceptionInv, UsableStand
<1>2. ASSUME UNCHANGED exc,
             \A s \in SessionIds : /\ session'[s].reopen = session[s].reopen
                                   /\ session'[s].status = "NONE" => session[s].status = "NONE"
      PROVE  ExceptionUsedOnce' /\ NotYetReopened'
  BY <1>2 DEF ExceptionInv, ExceptionUsedOnce, NotYetReopened
<1>3. ASSUME NEW s \in SessionIds, NEW from, NEW to, NEW n, Changes(s, from, to, n),
             to # "NONE", UNCHANGED exc
      PROVE  ExceptionUsedOnce' /\ NotYetReopened'
  BY <1>2, <1>3 DEF Changes, Grows, SameIdentity
<1>4. CASE UNCHANGED <<session, nRows, events, exc>>
  BY <1>1, <1>2, <1>4 DEF ExceptionInv
<1>5. ASSUME NEW w \in Workers, CheckInCreate(w) PROVE ExceptionInv'
  BY <1>5, CheckInUsesOnce, ViewRowsKept DEF ExceptionInv
<1>6. ASSUME NEW k \in Sweepers, NEW s \in SessionIds, SweepClose(k, s) PROVE ExceptionInv'
  <2>1. Changes(s, LiveStatus, "CHECKED_OUT", 0) /\ UNCHANGED <<nRows, exc>>
    BY <1>6, SweepCloseWrites DEF SweepClose
  <2>2. ExceptionUsedOnce' /\ NotYetReopened'
    BY <1>3, <2>1
  <2> QED
    BY <1>1, <2>1, <2>2 DEF ExceptionInv
<1>7. ASSUME NEW s \in SessionIds, UNCHANGED <<nRows, exc>>,
             \/ Changes(s, LiveStatus, "CHECKED_OUT", 0)
             \/ Changes(s, {"WORKING"}, "PAUSED", 1)
             \/ Changes(s, {"PAUSED"}, "WORKING", 0)
      PROVE  ExceptionInv'
  <2>1. ExceptionUsedOnce' /\ NotYetReopened'
    BY <1>3, <1>7
  <2> QED
    BY <1>1, <1>7, <2>1 DEF ExceptionInv
<1> QED
  BY <1>4, <1>5, <1>6, <1>7, StepWrites

LEMMA InitExceptions == ASSUME Init PROVE ExceptionInv
<1>1. /\ \A s \in SessionIds : session[s].reopen = None
      /\ \A x \in Exceptions : exc[x] # "USED"
      /\ \A w \in Workers : view[w].usable = {}
      /\ None \notin Exceptions
  BY ExceptionAssumption DEF Init, NoRow, NoView
<1> QED
  BY <1>1 DEF ExceptionInv, ExceptionUsedOnce, NotYetReopened, UsableStand

(* An approved re-check-in exception opens one session at most and is USED  *)
(* exactly when it has, though the check-in reads it in one statement and   *)
(* uses it up in another - at either isolation level.                       *)
THEOREM ExceptionsUsedOnce == Spec => []ExceptionUsedOnce
<1>1. Init => ExceptionInv
  BY InitExceptions
<1>2. Inv /\ ExceptionInv /\ [Next]_vars => ExceptionInv'
  BY NextKeepsExceptions
<1> QED
  BY <1>1, <1>2, InvAlways, PTL DEF Spec, ExceptionInv

-----------------------------------------------------------------------------
(* A grace timeout closes at its deadline *)

TimedOut(row, now) ==
    row.reason = "GEOFENCE_TIMEOUT" =>
        /\ row.outAt <= now
        /\ \E i \in DOMAIN row.pauses :
             LET d == row.pauses[i].deadline
             IN  d <= now /\ row.outAt \in {d, getMidnightCutoffForSession(row.inAt)}

(* What makes it inductive: what a sweep has read may be stale, but the     *)
(* deadline it read of a paused session is that of one of the session's     *)
(* pauses for good, and it only keeps sessions that were due at its "now".  *)
ItemStands(k, s) ==
    LET item == sweep[k].item[s]
    IN  item.status # "NONE" =>
          /\ item.target <= sweep[k].now
          /\ session[s].status # "NONE"
          /\ item.status = "PAUSED" =>
               /\ item.target \in {item.deadline, getMidnightCutoffForSession(session[s].inAt)}
               /\ \E i \in DOMAIN session[s].pauses : session[s].pauses[i].deadline = item.deadline

ItemsStand == \A k \in Sweepers : /\ sweep[k].now <= clock
                                  /\ \A s \in SessionIds : ItemStands(k, s)

TimeoutInv == TimeoutAtDeadline /\ ItemsStand

LEMMA TimedOutRows == TimeoutAtDeadline <=> \A s \in SessionIds : TimedOut(session[s], clock)
BY DEF TimeoutAtDeadline, TimedOut

LEMMA GrowsPauses ==
    ASSUME NEW new \in Row, NEW old \in Row, NEW n \in Nat, Grows(new, old, n)
    PROVE  /\ new.inAt = old.inAt
           /\ \A j \in DOMAIN old.pauses : /\ j \in DOMAIN new.pauses
                                           /\ new.pauses[j].deadline = old.pauses[j].deadline
<1>1. /\ Len(old.pauses) \in Nat /\ DOMAIN old.pauses = 1 .. Len(old.pauses)
      /\ DOMAIN new.pauses = 1 .. Len(new.pauses)
  BY LenProperties DEF Row
<1> QED
  BY <1>1 DEF Grows, SameIdentity

LEMMA TimedOutKept ==
    ASSUME NEW new \in Row, NEW old \in Row, NEW n \in Nat, Grows(new, old, n),
           SameEnd(new, old), NEW now \in Nat, NEW later \in Nat, now <= later,
           TimedOut(old, now)
    PROVE  TimedOut(new, later)
<1> SUFFICES ASSUME new.reason = "GEOFENCE_TIMEOUT"
             PROVE  /\ new.outAt <= later
                    /\ \E i \in DOMAIN new.pauses :
                         LET d == new.pauses[i].deadline
                         IN  d <= later /\ new.outAt \in {d, getMidnightCutoffForSession(new.inAt)}
  BY DEF TimedOut
<1>1. /\ new.outAt = old.outAt /\ old.outAt <= now
      /\ old.outAt \in Int
  <2>1. old.outAt \in Instants \cup {None}
    BY DEF Row
  <2> DEFINE out == old.outAt
  <2>2. out \in Int
    <3>1. out \in Instants \cup {None} /\ Instants \subseteq Nat
      BY <2>1, TimesAreInstants
    <3> HIDE DEF out
    <3> QED
      BY <3>1 DEF None
  <2> QED
    BY <2>2 DEF TimedOut, SameEnd
<1>2. PICK i \in DOMAIN old.pauses :
        LET d == old.pauses[i].deadline
        IN  d <= now /\ old.outAt \in {d, getMidnightCutoffForSession(old.inAt)}
  BY DEF TimedOut, SameEnd
<1>3. old.pauses[i] \in Pause
  BY LenProperties, ElementOfSeq DEF Row
<1>4. old.pauses[i].deadline \in Nat
  BY <1>3 DEF Pause
<1>5. i \in DOMAIN new.pauses /\ new.pauses[i].deadline = old.pauses[i].deadline
      /\ new.inAt = old.inAt
  BY GrowsPauses
<1> QED
  BY <1>1, <1>2, <1>4, <1>5

LEMMA ClockRuns == ASSUME Inv, [Next]_vars PROVE clock' \in Nat /\ clock \in Nat /\ clock <= clock'
<1>1. clock \in Nat
  BY DEF Inv, TypeOK, Times
<1>2. clock' = clock \/ clock' = clock + 1
  <2>1. UNCHANGED vars \/ Tick => clock' = clock \/ clock' = clock + 1
    BY DEF vars, Tick
  <2>2. ASSUME NEW w \in Workers, Request(w) PROVE UNCHANGED clock
    BY <2>2, Zenon DEF Request, CheckInBegin, CheckInLock, CheckInCreate, CheckOutRead, CheckOutCommit,
          GeofenceExitRead, GeofenceExitCommit, GeofenceReturnRead, GeofenceReturnCommit, Abort
  <2>3. ASSUME NEW k \in Sweepers, SweepStep(k) PROVE UNCHANGED clock
    BY <2>3, Zenon DEF SweepStep, SweepReadPaused, SweepReadActive, SweepClose, SweepSkip
  <2> QED
    BY <2>1, <2>2, <2>3 DEF Next
<1> QED
  BY <1>1, <1>2

(* A row, once inserted, keeps its check-in time and its pauses' deadlines. *)
LEMMA RowsGrow ==
    ASSUME Inv, [Next]_vars, NEW s \in SessionIds, session[s].status # "NONE"
    PROVE  /\ session'[s].status # "NONE" /\ session'[s].inAt = session[s].inAt
           /\ \A j \in DOMAIN session[s].pauses :
                /\ j \in DOMAIN session'[s].pauses
                /\ session'[s].pauses[j].deadline = session[s].pauses[j].deadline
<1>1. session[s] \in Row /\ session'[s] \in Row
  BY NextInv DEF Inv, TypeOK
<1>2. session'[s] = session[s] \/ \E n \in Nat : Grows(session'[s], session[s], n)
  <2>1. ASSUME NEW r \in SessionIds, NEW from, NEW to, NEW n \in Nat, Changes(r, from, to, n)
        PROVE  session'[s] = session[s] \/ Grows(session'[s], session[s], n)
    BY <2>1 DEF Changes
  <2>2. ASSUME NEW w \in Workers, CheckInCreate(w)
        PROVE  session'[s] = session[s] \/ Grows(session'[s], session[s], 0)
    <3>1. CASE s = view[w].sess
      BY <2>2, <3>1, CheckInWrites DEF SessionIds
    <3>2. CASE s # view[w].sess
      BY <2>2, <3>2, CheckInOpens DEF Opened
    <3> QED
      BY <3>1, <3>2
  <2>3. ASSUME NEW k \in Sweepers, NEW r \in SessionIds, SweepClose(k, r)
        PROVE  session'[s] = session[s] \/ Grows(session'[s], session[s], 0)
    BY <2>1, <2>3, SweepCloseWrites
  <2> QED
    BY <2>1, <2>2, <2>3, StepWrites
<1>3. session'[s].status # "NONE"
  <2>1. Inv'
    BY NextInv
  <2>2. s <= nRows /\ nRows \in Nat /\ s \in Nat
    BY DEF Inv, RowsInOrder, TypeOK, SessionIds
  <2>3. nRows' \in Nat /\ nRows <= nRows'
    <3>1. nRows' = nRows \/ nRows' = nRows + 1
      BY StepWrites DEF CheckInCreate, SweepClose
    <3> QED
      BY <2>2, <3>1
  <2> QED
    BY <2>1, <2>2, <2>3 DEF Inv, RowsInOrder
<1> QED
  BY <1>1, <1>2, <1>3, GrowsPauses

LEMMA ItemKept ==
    ASSUME Inv, [Next]_vars, NEW k \in Sweepers, NEW s \in SessionIds, ItemStands(k, s),
           \/ sweep'[k].item[s] = NoItem
           \/ sweep'[k].item[s] = sweep[k].item[s] /\ sweep'[k].now = sweep[k].now
    PROVE  ItemStands(k, s)'
<1>1. CASE sweep'[k].item[s] = NoItem
  BY <1>1 DEF ItemStands, NoItem
<1>2. ASSUME sweep'[k].item[s] = sweep[k].item[s], sweep'[k].now = sweep[k].now,
             sweep[k].item[s].status # "NONE"
      PROVE  ItemStands(k, s)'
  <2>1. session[s].status # "NONE"
    BY <1>2 DEF ItemStands
  <2>2. /\ session'[s].status # "NONE" /\ session'[s].inAt = session[s].inAt
        /\ \A j \in DOMAIN session[s].pauses :
             /\ j \in DOMAIN session'[s].pauses
             /\ session'[s].pauses[j].deadline = session[s].pauses[j].deadline
    BY <2>1, RowsGrow
  <2> QED
    BY <1>2, <2>2 DEF ItemStands
<1>3. CASE sweep'[k].item[s] = sweep[k].item[s] /\ sweep[k].item[s].status = "NONE"
  BY <1>3 DEF ItemStands
<1> QED
  BY <1>1, <1>2, <1>3

(* What a sweep reads of a live session stands when it reads it.            *)
LEMMA PausedPause ==
    ASSUME Inv, NEW s \in SessionIds, session[s].status = "PAUSED"
    PROVE  \E i \in DOMAIN session[s].pauses : session[s].pauses[i].deadline = session[s].deadline
BY DEF Inv, PauseMatchesStatus, OneStory, OpenPauses

LEMMA ItemRead ==
    ASSUME Inv, NEW s \in SessionIds, IsLive(s), NEW now, NEW target, target <= now,
           session[s].status = "PAUSED" =>
             target \in {session[s].deadline, getMidnightCutoffForSession(session[s].inAt)}
    PROVE  LET item == ItemOf(s, target)
           IN  /\ item.target <= now
               /\ session[s].status # "NONE"
               /\ item.status = "PAUSED" =>
                    /\ item.target \in {item.deadline, getMidnightCutoffForSession(session[s].inAt)}
                    /\ \E i \in DOMAIN session[s].pauses :
                         session[s].pauses[i].deadline = item.deadline
BY PausedPause DEF ItemOf, IsLive, LiveStatus

LEMMA ReadPausedStands ==
    ASSUME Inv, NEW k \in Sweepers, SweepReadPaused(k)
    PROVE  sweep'[k].now <= clock' /\ \A s \in SessionIds : ItemStands(k, s)'
<1>1. PICK B \in SUBSET {s \in SessionIds : session[s].status = "PAUSED" /\ session[s].deadline <= clock} :
        sweep' = [sweep EXCEPT ![k] =
            [pc |-> "half", now |-> clock,
             item |-> [s \in SessionIds |->
                         IF s \in B THEN ItemOf(s, session[s].deadline) ELSE NoItem]]]
  BY DEF SweepReadPaused, Batches
<1>2. UNCHANGED <<clock, session>> /\ clock \in Nat /\ sweep \in [Sweepers -> Progress]
  BY DEF SweepReadPaused, Inv, TypeOK, Times
<1>3. /\ sweep'[k].now = clock
      /\ \A s \in SessionIds :
           sweep'[k].item[s] = IF s \in B THEN ItemOf(s, session[s].deadline) ELSE NoItem
  BY <1>1, <1>2
<1>4. ASSUME NEW s \in SessionIds PROVE ItemStands(k, s)'
  <2>1. CASE s \notin B
    BY <1>3, <2>1 DEF ItemStands, NoItem
  <2>2. CASE s \in B
    <3>1. IsLive(s) /\ session[s].deadline <= clock
      BY <1>1, <2>2 DEF IsLive, LiveStatus
    <3>2. LET item == ItemOf(s, session[s].deadline)
          IN  /\ item.target <= clock
              /\ session[s].status # "NONE"
              /\ item.status = "PAUSED" =>
                   /\ item.target \in {item.deadline, getMidnightCutoffForSession(session[s].inAt)}
                   /\ \E i \in DOMAIN session[s].pauses :
                        session[s].pauses[i].deadline = item.deadline
      BY <3>1, ItemRead
    <3>3. sweep'[k].item[s] = ItemOf(s, session[s].deadline)
      BY <1>3, <2>2
    <3> QED
      BY <1>2, <1>3, <3>2, <3>3 DEF ItemStands
  <2> QED
    BY <2>1, <2>2
<1> QED
  BY <1>2, <1>3, <1>4

LEMMA WorkingItems ==
    ASSUME NEW now, NEW item, NEW s \in SessionIds
    PROVE  \/ Working(now, item).item[s] = item[s] /\ Working(now, item).now = now
           \/ Working(now, item).item[s] = NoItem /\ Working(now, item).now = 0
BY DEF Working, Resting

LEMMA WorkingNow ==
    ASSUME NEW now, NEW item
    PROVE  Working(now, item).now = now \/ Working(now, item).now = 0
BY DEF Working, Resting

LEMMA ReadActiveStands ==
    ASSUME Inv, ItemsStand, NEW k \in Sweepers, SweepReadActive(k)
    PROVE  sweep'[k].now <= clock' /\ \A s \in SessionIds : ItemStands(k, s)'
<1> DEFINE cutoff(s) == getMidnightCutoffForSession(session[s].inAt)
           now       == sweep[k].now
<1>1. PICK D \in SUBSET {s \in SessionIds : IsLive(s) /\ cutoff(s) <= now} :
        sweep' = [sweep EXCEPT ![k] =
            Working(now, [s \in SessionIds |->
                        IF s \in D THEN ItemOf(s, cutoff(s)) ELSE sweep[k].item[s]])]
  <2>1. PICK B \in SUBSET {s \in SessionIds : IsLive(s)} :
          LET due == {s \in B : /\ now >= cutoff(s)
                                /\ sweep[k].item[s].status # "NONE" => cutoff(s) < sweep[k].item[s].target}
          IN  sweep' = [sweep EXCEPT ![k] =
                 Working(now, [s \in SessionIds |->
                                 IF s \in due THEN ItemOf(s, cutoff(s)) ELSE sweep[k].item[s]])]
    BY DEF SweepReadActive, Batches
  <2> DEFINE due == {s \in B : /\ now >= cutoff(s)
                               /\ sweep[k].item[s].status # "NONE" => cutoff(s) < sweep[k].item[s].target}
  <2>2. due \in SUBSET {s \in SessionIds : IsLive(s) /\ cutoff(s) <= now}
    <3>1. ASSUME NEW s \in SessionIds, now >= cutoff(s) PROVE cutoff(s) <= now
      <4>1. session[s].inAt \in Nat /\ now \in Nat
        BY TimesAreInstants DEF Inv, TypeOK, Row, Progress
      <4>2. cutoff(s) \in Nat
        BY <4>1, MidnightFollows
      <4> HIDE DEF cutoff, now
      <4> QED
        BY <3>1, <4>1, <4>2
    <3> HIDE DEF cutoff, now
    <3> QED
      BY <3>1
  <2> QED
    BY <2>1, <2>2
<1>2. /\ UNCHANGED <<clock, session>> /\ clock \in Nat /\ sweep \in [Sweepers -> Progress]
      /\ now \in Nat /\ now <= clock
  BY TimesAreInstants DEF SweepReadActive, Inv, TypeOK, Times, Progress, ItemsStand
<1> DEFINE item == [s \in SessionIds |-> IF s \in D THEN ItemOf(s, cutoff(s)) ELSE sweep[k].item[s]]
<1>3. sweep'[k] = Working(now, item)
  BY <1>1, <1>2
<1>4. sweep'[k].now <= clock'
  BY <1>2, <1>3, WorkingNow
<1>5. ASSUME NEW s \in SessionIds PROVE ItemStands(k, s)'
  <2>1. \/ sweep'[k].item[s] = item[s] /\ sweep'[k].now = now
        \/ sweep'[k].item[s] = NoItem
    BY <1>3, WorkingItems
  <2>2. CASE sweep'[k].item[s] = NoItem
    BY <2>2 DEF ItemStands, NoItem
  <2>3. CASE sweep'[k].item[s] = item[s] /\ sweep'[k].now = now /\ s \in D
    <3>1. IsLive(s) /\ cutoff(s) <= now /\ sweep'[k].item[s] = ItemOf(s, cutoff(s))
      BY <1>1, <2>3
    <3>2. LET it == ItemOf(s, cutoff(s))
          IN  /\ it.target <= now
              /\ session[s].status # "NONE"
              /\ it.status = "PAUSED" =>
                   /\ it.target \in {it.deadline, getMidnightCutoffForSession(session[s].inAt)}
                   /\ \E i \in DOMAIN session[s].pauses :
                        session[s].pauses[i].deadline = it.deadline
      BY <3>1, ItemRead
    <3> HIDE DEF cutoff, now, item
    <3> QED
      BY <1>2, <2>3, <3>1, <3>2 DEF ItemStands
  <2>4. CASE sweep'[k].item[s] = item[s] /\ sweep'[k].now = now /\ s \notin D
    <3>1. sweep'[k].item[s] = sweep[k].item[s] /\ sweep'[k].now = sweep[k].now
      BY <2>4
    <3>2. ItemStands(k, s)
      BY DEF ItemsStand
    <3> QED
      BY <1>2, <3>1, <3>2 DEF ItemStands
  <2> QED
    BY <2>1, <2>2, <2>3, <2>4
<1> QED
  BY <1>4, <1>5

LEMMA WithoutItemStands ==
    ASSUME Inv, ItemsStand, [Next]_vars, NEW k \in Sweepers, NEW r \in SessionIds,
           sweep' = [sweep EXCEPT ![k] = WithoutItem(@, r)]
    PROVE  sweep'[k].now <= clock' /\ \A s \in SessionIds : ItemStands(k, s)'
<1> DEFINE items == [sweep[k].item EXCEPT ![r] = NoItem]
<1>1. sweep \in [Sweepers -> Progress] /\ sweep[k].item \in [SessionIds -> Item]
      /\ sweep[k].now \in Nat /\ sweep[k].now <= clock
  BY TimesAreInstants DEF Inv, TypeOK, Progress, ItemsStand
<1>2. sweep'[k] = Working(sweep[k].now, items)
  BY <1>1 DEF WithoutItem
<1>3. \A s \in SessionIds : items[s] = NoItem \/ items[s] = sweep[k].item[s]
  BY <1>1
<1> HIDE DEF items
<1>4. sweep'[k].now <= clock'
  BY <1>1, <1>2, WorkingNow, ClockRuns
<1>5. ASSUME NEW s \in SessionIds PROVE ItemStands(k, s)'
  <2>1. \/ sweep'[k].item[s] = NoItem
        \/ sweep'[k].item[s] = sweep[k].item[s] /\ sweep'[k].now = sweep[k].now
    BY <1>2, <1>3, WorkingItems
  <2> QED
    BY <2>1, ItemKept DEF ItemsStand
<1> QED
  BY <1>4, <1>5

LEMMA NextKeepsItems == ASSUME Inv, ItemsStand, [Next]_vars PROVE ItemsStand'
<1>1. ASSUME NEW k \in Sweepers, sweep'[k] = sweep[k]
      PROVE  sweep'[k].now <= clock' /\ \A s \in SessionIds : ItemStands(k, s)'
  <2>1. sweep'[k].now <= clock'
    <3>1. sweep[k].now \in Nat /\ sweep[k].now <= clock
      BY TimesAreInstants DEF Inv, TypeOK, Progress, ItemsStand
    <3> QED
      BY <1>1, <3>1, ClockRuns
  <2>2. \A s \in SessionIds : ItemStands(k, s)'
    BY <1>1, ItemKept DEF ItemsStand
  <2> QED
    BY <2>1, <2>2
<1>2. CASE UNCHANGED sweep
  BY <1>1, <1>2 DEF ItemsStand
<1>3. ASSUME NEW k \in Sweepers, SweepStep(k) PROVE ItemsStand'
  <2>1. \A j \in Sweepers \ {k} : sweep'[j] = sweep[j]
    BY <1>3 DEF SweepStep, SweepReadPaused, SweepReadActive, SweepClose, SweepSkip, Inv, TypeOK
  <2>2. sweep'[k].now <= clock' /\ \A s \in SessionIds : ItemStands(k, s)'
    <3>1. ASSUME NEW s \in SessionIds, SweepClose(k, s) \/ SweepSkip(k, s)
          PROVE  sweep' = [sweep EXCEPT ![k] = WithoutItem(@, s)]
      BY <3>1 DEF SweepClose, SweepSkip
    <3> QED
      BY <1>3, <3>1, ReadPausedStands, ReadActiveStands, WithoutItemStands DEF SweepStep
  <2> QED
    BY <1>1, <2>1, <2>2 DEF ItemsStand
<1>4. ASSUME NEW w \in Workers, Request(w) PROVE UNCHANGED sweep
  BY <1>4, Zenon DEF Request, CheckInBegin, CheckInLock, CheckInCreate, CheckOutRead, CheckOutCommit,
        GeofenceExitRead, GeofenceExitCommit, GeofenceReturnRead, GeofenceReturnCommit, Abort
<1>5. Tick \/ UNCHANGED vars => UNCHANGED sweep
  BY DEF Tick, vars
<1> QED
  BY <1>2, <1>3, <1>4, <1>5, Zenon DEF Next

(* The sweep closes for a timeout only with a deadline that has passed.     *)
LEMMA SweepTimesOut ==
    ASSUME Inv, ItemsStand, [Next]_vars, NEW k \in Sweepers, NEW s \in SessionIds, SweepClose(k, s)
    PROVE  TimedOut(session'[s], clock')
<1> DEFINE item == sweep[k].item[s]
           now  == sweep[k].now
           new  == session'[s]
<1>1. /\ new.reason = CloseReason(item, now) /\ new.outAt = MinOf(item.target, now)
  BY SweepCloseWrites
<1>2. /\ item \in Item /\ now \in Nat /\ item.target \in Nat
      /\ item.status # "NONE" /\ ItemStands(k, s) /\ now <= clock /\ session[s].status # "NONE"
  BY TimesAreInstants, ZenonT(60) DEF SweepClose, Inv, TypeOK, Progress, Item, ItemsStand, ItemStands
<1>3. clock \in Nat /\ clock' \in Nat /\ clock <= clock'
  BY ClockRuns
<1>4. /\ new.inAt = session[s].inAt
      /\ \A j \in DOMAIN session[s].pauses :
           /\ j \in DOMAIN new.pauses
           /\ new.pauses[j].deadline = session[s].pauses[j].deadline
  BY <1>2, RowsGrow
<1>5. item.target <= now
  BY <1>2 DEF ItemStands
<1>6. CASE item.status = "PAUSED" /\ item.deadline <= now
  <2>1. item.target \in {item.deadline, getMidnightCutoffForSession(session[s].inAt)}
    BY <1>2, <1>6 DEF ItemStands
  <2>2. PICK i \in DOMAIN session[s].pauses : session[s].pauses[i].deadline = item.deadline
    BY <1>2, <1>6 DEF ItemStands
  <2>3. item.deadline \in Int
    BY <1>2, TimesAreInstants DEF Item, None
  <2>4. new.outAt = item.target
    BY <1>1, <1>2, <1>5 DEF MinOf
  <2> HIDE DEF item, now, new
  <2>5. new.outAt <= clock'
    BY <1>2, <1>3, <1>5, <2>4
  <2>6. item.deadline <= clock'
    BY <1>2, <1>3, <1>6, <2>3
  <2>7. i \in DOMAIN new.pauses /\ new.pauses[i].deadline = item.deadline
    BY <1>4, <2>2
  <2>8. new.outAt \in {item.deadline, getMidnightCutoffForSession(new.inAt)}
    BY <1>4, <2>1, <2>4
  <2>9. TimedOut(new, clock')
    BY <2>5, <2>6, <2>7, <2>8 DEF TimedOut
  <2> QED
    BY <2>9 DEF new
<1>7. CASE ~ (item.status = "PAUSED" /\ item.deadline <= now)
  BY <1>1, <1>7 DEF CloseReason, TimedOut
<1> QED
  BY <1>6, <1>7

LEMMA NextKeepsTimeouts == ASSUME Inv, TimeoutInv, [Next]_vars PROVE TimeoutInv'
<1>1. /\ clock \in Nat /\ clock' \in Nat /\ clock <= clock'
      /\ session \in [SessionIds -> Row] /\ session' \in [SessionIds -> Row]
  BY ClockRuns, NextInv DEF Inv, TypeOK
<1>2. \A r \in SessionIds : TimedOut(session[r], clock)
  BY TimedOutRows DEF TimeoutInv
<1>3. ASSUME NEW r \in SessionIds, NEW n \in Nat,
             Grows(session'[r], session[r], n), SameEnd(session'[r], session[r])
      PROVE  TimedOut(session'[r], clock')
  BY <1>1, <1>2, <1>3, TimedOutKept
<1>4. ASSUME NEW r \in SessionIds, session'[r] = session[r]
      PROVE  TimedOut(session'[r], clock')
  <2>1. Len(session[r].pauses) \in Nat
    BY <1>1, LenPauses
  <2>2. Grows(session'[r], session[r], 0) /\ SameEnd(session'[r], session[r])
    BY <1>4, <2>1 DEF Grows, SameIdentity, SameEnd
  <2> QED
    BY <1>3, <2>2
<1>5. ASSUME NEW r \in SessionIds, session'[r].reason # "GEOFENCE_TIMEOUT"
      PROVE  TimedOut(session'[r], clock')
  BY <1>5 DEF TimedOut
<1>6. \A r \in SessionIds : TimedOut(session'[r], clock')
  <2>1. CASE UNCHANGED session
    BY <1>4, <2>1
  <2>2. ASSUME NEW s \in SessionIds, NEW from, NEW to, NEW n \in Nat, Changes(s, from, to, n),
               TimedOut(session'[s], clock')
        PROVE  \A r \in SessionIds : TimedOut(session'[r], clock')
    BY <1>4, <2>2 DEF Changes
  <2>3. ASSUME NEW w \in Workers, CheckInCreate(w)
        PROVE  \A r \in SessionIds : TimedOut(session'[r], clock')
    <3>1. session'[nRows + 1].reason = ""
      <4>1. \A i, t, x : NewRow(i, t, x).reason = ""
        BY DEF NewRow, NoRow
      <4>2. PICK x : session'[nRows + 1] = NewRow(call[w].emp, call[w].at, x)
        BY <2>3, CheckInWrites
      <4> QED
        BY <4>1, <4>2, ZenonT(60)
    <3>2. \A r \in SessionIds : r = view[w].sess => session'[r].reason = "SYSTEM_ACTION"
      BY <2>3, CheckInWrites DEF SessionIds
    <3>3. \A r \in SessionIds : r = nRows + 1 \/ r = view[w].sess \/ session'[r] = session[r]
      BY <2>3, CheckInOpens DEF Opened
    <3> QED
      BY <1>4, <1>5, <3>1, <3>2, <3>3
  <2>4. ASSUME NEW k \in Sweepers, NEW s \in SessionIds, SweepClose(k, s)
        PROVE  \A r \in SessionIds : TimedOut(session'[r], clock')
    BY <2>2, <2>4, SweepCloseWrites, SweepTimesOut DEF TimeoutInv
  <2>5. ASSUME NEW s \in SessionIds,
               \/ Changes(s, LiveStatus, "CHECKED_OUT", 0) /\ session'[s].reason = "USER_CHECKOUT"
               \/ Changes(s, {"WORKING"}, "PAUSED", 1) /\ SameEnd(session'[s], session[s])
               \/ Changes(s, {"PAUSED"}, "WORKING", 0) /\ SameEnd(session'[s], session[s])
        PROVE  \A r \in SessionIds : TimedOut(session'[r], clock')
    <3>1. TimedOut(session'[s], clock')
      BY <1>3, <1>5, <2>5 DEF Changes
    <3> QED
      BY <2>2, <2>5, <3>1
  <2> QED
    BY <2>1, <2>3, <2>4, <2>5, StepWrites
<1>7. TimeoutAtDeadline'
  BY <1>6 DEF TimeoutAtDeadline, TimedOut
<1> QED
  BY <1>7, NextKeepsItems DEF TimeoutInv

LEMMA InitTimeouts == ASSUME Init PROVE TimeoutInv
<1>1. /\ \A s \in SessionIds : session[s].reason = ""
      /\ \A k \in Sweepers : /\ sweep[k].now = 0
                             /\ \A s \in SessionIds : sweep[k].item[s].status = "NONE"
      /\ clock = 0
  BY DEF Init, NoRow, Resting, NoItem
<1>2. TimeoutAtDeadline
  BY <1>1 DEF TimeoutAtDeadline
<1>3. ASSUME NEW k \in Sweepers PROVE sweep[k].now <= clock
  <2>1. sweep[k].now = 0 /\ clock = 0
    BY <1>1
  <2>2. 0 <= 0
    OBVIOUS
  <2> QED
    BY <2>1, <2>2
<1>4. ItemsStand
  BY <1>1, <1>3 DEF ItemsStand, ItemStands
<1> QED
  BY <1>2, <1>4 DEF TimeoutInv

(* A session closed for a grace timeout was away long enough, although the  *)
(* sweep works on what it read earlier: one of its pauses had a deadline    *)
(* that has passed, and it is closed as of that deadline or of the midnight *)
(* that came first.                                                         *)
THEOREM TimeoutsAreDue == Spec => []TimeoutAtDeadline
<1>1. Init => TimeoutInv
  BY InitTimeouts
<1>2. Inv /\ TimeoutInv /\ [Next]_vars => TimeoutInv'
  BY NextKeepsTimeouts
<1> QED
  BY <1>1, <1>2, InvAlways, PTL DEF Spec, TimeoutInv

=============================================================================
