------------------------- MODULE AttendanceSession -------------------------
(***************************************************************************)
(* The attendance service: the tables attendance_sessions (with its        *)
(* pauses), attendance_events and attendance_exceptions, the four handlers *)
(* a client calls (check-in, check-out, geofence exit, geofence return),   *)
(* online or replayed from an offline queue, and the auto-checkout sweep.  *)
(*                                                                         *)
(* A handler is modelled at the grain at which other requests can run      *)
(* between its statements: what it reads before its transaction is one     *)
(* step, the transaction's writes are another, and a check-in, whose       *)
(* transaction reads before it writes, has the steps begin, lock, create.  *)
(* A call that is refused changes no table; it just ends.                  *)
(***************************************************************************)
EXTENDS WorkingTime

CONSTANTS
    Workers,             \* requests in flight at once
    Sweepers,            \* auto-checkout sweeps in flight at once
    Ids,                 \* values the employeeId of a request can have
    Aliases,             \* id -> every id of the same person
    ResolverMayFail,     \* may resolveEmployeeIds() fall back to the raw id?
    SnapshotReads,       \* TRUE: REPEATABLE READ; FALSE: READ COMMITTED
    Exceptions,          \* RECHECK_IN rows of attendance_exceptions
    ExceptionOf,         \* exception -> [emp, date, from, until]
    AllowPausedCheckout, \* policy.allowManualCheckoutWhilePaused
    Grace,               \* policy.gracePeriodMinutes, in ticks
    BatchSize,           \* autoCheckout.batchSize
    OfflineLag,          \* how far before "now" an event time may lie
    ClientEventIds,      \* the clientEventIds the clients make up
    NoEvent,             \* stands for the clientEventId of an idle worker
    MaxSessions, MaxTime \* bounds of the instance

SessionIds == 1 .. MaxSessions
Times      == 0 .. MaxTime
Instants   == 0 .. MaxTime + Day      \* a local midnight may lie past MaxTime

ASSUME ParameterAssumption ==
    /\ MaxSessions \in Nat \ {0} /\ MaxTime \in Nat
    /\ Grace \in Nat /\ OfflineLag \in Nat /\ BatchSize \in Nat \ {0}
    /\ ResolverMayFail \in BOOLEAN /\ SnapshotReads \in BOOLEAN
    /\ AllowPausedCheckout \in BOOLEAN

ASSUME IdentityAssumption ==
    /\ Ids # {}
    /\ Aliases \in [Ids -> SUBSET Ids]
    /\ \A i \in Ids : i \in Aliases[i]
    /\ \A i, j \in Ids : j \in Aliases[i] => Aliases[j] = Aliases[i]

ASSUME EventAssumption == NoEvent \notin ClientEventIds

ASSUME ExceptionAssumption ==
    /\ None \notin Exceptions /\ 0 \notin Exceptions
    /\ \A x \in Exceptions : ExceptionOf[x].emp \in Ids

VARIABLES
    clock,      \* the server's clock
    session,    \* attendance_sessions, with each row's attendance_pauses
    nRows,      \* attendanceSession.count()
    events,     \* attendance_events
    exc,        \* status of each exception
    call,       \* per worker: the request it is serving
    view,       \* per worker: what it has read for that request
    sweep       \* per sweeper: its progress

vars == <<clock, session, nRows, events, exc, call, view, sweep>>

-----------------------------------------------------------------------------
(* The tables *)

LiveStatus == {"WORKING", "PAUSED"}

Pause == [start : Times, end : Instants \cup {None}, deadline : Nat,
          why : {"", "RETURNED", "AUTO_CHECKOUT"}]

Row == [status   : {"NONE", "WORKING", "PAUSED", "CHECKED_OUT"},
        emp      : Ids,
        date     : Nat,
        inAt     : Times,
        outAt    : Instants \cup {None},
        reason   : {"", "USER_CHECKOUT", "GEOFENCE_TIMEOUT", "SYSTEM_ACTION"},
        total    : Nat,
        pauseAt  : Times \cup {None},
        deadline : Nat \cup {None},
        reopen   : Exceptions \cup {None, 0},
        pauses   : Seq(Pause)]

(* A session's id is its row number, "ATT-<count + 1>"; the rows not yet    *)
(* inserted are NoRow.                                                      *)
NoRow == [status |-> "NONE", emp |-> CHOOSE i \in Ids : TRUE, date |-> 0, inAt |-> 0,
          outAt |-> None, reason |-> "", total |-> 0, pauseAt |-> None, deadline |-> None,
          reopen |-> None, pauses |-> <<>>]

EventType == {"CHECK_IN", "CHECK_OUT", "GEOFENCE_EXIT", "GEOFENCE_RETURN", "AUTO_CHECKOUT"}

ClientEvent(c) == <<"client", c>>
AutoEvent(s)   == <<"auto-checkout", s>>

Event == [id   : ({"client"} \X ClientEventIds) \cup ({"auto-checkout"} \X SessionIds),
          sess : SessionIds,
          type : EventType]

Logged(id)      == \E e \in events : e.id = id
Log(id, s, typ) == events \cup {[id |-> id, sess |-> s, type |-> typ]}

Rows      == {s \in SessionIds : session[s].status # "NONE"}
IsLive(s) == session[s].status \in LiveStatus
LiveOf(ids) == {s \in SessionIds : IsLive(s) /\ session[s].emp \in ids}

(* pauses.find((p) => p.endedAt === null), or 0 when there is none.  Only   *)
(* the pauses read from a live session are searched, and those have one     *)
(* open pause at most (PauseMatchesStatus).                                 *)
OpenPause(pauses) ==
    IF \E i \in DOMAIN pauses : pauses[i].end = None
    THEN CHOOSE i \in DOMAIN pauses : pauses[i].end = None
    ELSE 0

(* attendancePause.updateMany({ where: { id, endedAt: null }, ... }) *)
EndPause(row, i, at, why) ==
    IF i # 0 /\ row.pauses[i].end = None
    THEN [row EXCEPT !.pauses[i] = [@ EXCEPT !.end = at, !.why = why]]
    ELSE row

(* The columns every closing write sets. *)
Closed(row, at, reason, total) ==
    [row EXCEPT !.status = "CHECKED_OUT", !.outAt = at, !.reason = reason, !.total = total,
                !.pauseAt = None, !.deadline = None]

-----------------------------------------------------------------------------
(* The requests in flight *)

Op == {"CHECK_IN", "CHECK_OUT", "GEOFENCE_EXIT", "GEOFENCE_RETURN"}

Call == [pc : {"idle", "begun", "locked", "ready"}, op : Op, emp : Ids,
         ev : ClientEventIds \cup {NoEvent}, at : Times]

NoCall == [pc |-> "idle", op |-> "CHECK_IN", emp |-> CHOOSE i \in Ids : TRUE,
           ev |-> NoEvent, at |-> 0]

(* What a handler keeps of the session it found (sess = 0: none found), and *)
(* what a check-in's transaction sees of the other tables.                  *)
View == [sess : SessionIds \cup {0}, status : {"NONE"} \cup LiveStatus, pauses : Seq(Pause),
         rows : 0 .. MaxSessions, done : BOOLEAN, usable : SUBSET Exceptions]

NoView == [sess |-> 0, status |-> "NONE", pauses |-> <<>>, rows |-> 0, done |-> FALSE,
           usable |-> {}]

Found(s) == [NoView EXCEPT !.sess = s, !.status = session[s].status,
                           !.pauses = session[s].pauses]

(* Mutant of Resolved: only the id of the request is searched for.          *)
ResolvedRawOnly(i) == {{i}}

(* resolveEmployeeIds(): the person's ids, or the raw id when the employee  *)
(* service does not answer.                                                 *)
Resolved(i) == {Aliases[i]} \cup IF ResolverMayFail THEN {{i}} ELSE {}

(* The event time of a request: "now" when its handler started, or the      *)
(* moment an offline event was captured.                                    *)
EventTimes == (clock - OfflineLag .. clock) \cap Nat

(* A handler starts with findIdempotentReplay(): a logged clientEventId is  *)
(* answered from the log and the handler ends there.                        *)
Start(w, pc, op, i, c, t) ==
    /\ call[w].pc = "idle"
    /\ ~ Logged(ClientEvent(c))
    /\ call' = [call EXCEPT ![w] = [pc |-> pc, op |-> op, emp |-> i, ev |-> c, at |-> t]]

Remember(w, v) == view' = [view EXCEPT ![w] = v]

Finish(w) == /\ call' = [call EXCEPT ![w] = NoCall]
             /\ view' = [view EXCEPT ![w] = NoView]

(* The insert into attendance_events that ends every transaction: the       *)
(* unique index on clientEventId rolls the whole transaction back.          *)
Record(w, s) ==
    /\ ~ Logged(ClientEvent(call[w].ev))
    /\ events' = Log(ClientEvent(call[w].ev), s, call[w].op)

(* Any failure after the handler started - a refusal, a conflict, a         *)
(* constraint violation, a deadlock victim, a crash - rolls its transaction *)
(* back: the tables keep their values and the row locks are released.       *)
Abort(w) ==
    /\ call[w].pc # "idle"
    /\ Finish(w)
    /\ UNCHANGED <<clock, session, nRows, events, exc, sweep>>

-----------------------------------------------------------------------------
(* Check-in *)

StaleFor(s, t) == session[s].date < toDateOnly(t)

(* attendanceSession.findFirst over the resolved ids; a live session of the *)
(* same calendar day or a later one refuses the check-in.                   *)
ActiveFor(i, t, v) ==
    \E ids \in Resolved(i) :
        \/ LiveOf(ids) = {} /\ v = NoView
        \/ \E s \in LiveOf(ids) : StaleFor(s, t) /\ v = Found(s)

CompletedOn(i, d) ==
    \E s \in SessionIds : /\ session[s].status = "CHECKED_OUT"
                          /\ session[s].emp = i /\ session[s].date = d

UsableExceptions(i, t) ==
    {x \in Exceptions : /\ exc[x] = "APPROVED"
                        /\ ExceptionOf[x].emp = i /\ ExceptionOf[x].date = toDateOnly(t)
                        /\ ExceptionOf[x].from <= t /\ t <= ExceptionOf[x].until}

(* Mutant of WithReads: the rows are numbered one too far.                  *)
WithReadsOffByOne(v, i, t) ==
    [v EXCEPT !.rows = MinOf(nRows + 1, MaxSessions),
              !.done = CompletedOn(i, toDateOnly(t)), !.usable = UsableExceptions(i, t)]

(* What the transaction reads of the tables besides the active session.     *)
WithReads(v, i, t) ==
    [v EXCEPT !.rows = nRows, !.done = CompletedOn(i, toDateOnly(t)),
              !.usable = UsableExceptions(i, t)]

(* The transaction opens with the lock row's upsert.  Its first read fixes  *)
(* the snapshot a REPEATABLE READ transaction keeps to its end, before the  *)
(* row lock is waited for.                                                  *)
CheckInBegin(w) ==
    /\ \E i \in Ids, c \in ClientEventIds, t \in EventTimes :
        /\ Start(w, "begun", "CHECK_IN", i, c, t)
        /\ IF SnapshotReads
           THEN \E v \in {NoView} \cup {Found(s) : s \in Rows} :
                    ActiveFor(i, t, v) /\ Remember(w, WithReads(v, i, t))
           ELSE Remember(w, NoView)
    /\ UNCHANGED <<clock, session, nRows, events, exc, sweep>>

(* SELECT ... FOR UPDATE on the row keyed by the employeeId of the request; *)
(* under READ COMMITTED the active session is searched for after it.        *)
CheckInLock(w) ==
    /\ call[w].pc = "begun"
    /\ \A u \in Workers : ~ (call[u].pc = "locked" /\ call[u].emp = call[w].emp)
    /\ call' = [call EXCEPT ![w].pc = "locked"]
    /\ IF SnapshotReads
       THEN UNCHANGED view
       ELSE \E v \in {NoView} \cup {Found(s) : s \in Rows} :
                ActiveFor(call[w].emp, call[w].at, v) /\ Remember(w, v)
    /\ UNCHANGED <<clock, session, nRows, events, exc, sweep>>

(* The stale session is closed by its id alone, whatever its status has     *)
(* become since it was read, as of the local midnight after its check-in.   *)
ClosedStale(row, pauses) ==
    LET cutoff == getMidnightCutoffForSession(row.inAt)
    IN  EndPause(Closed(row, cutoff, "SYSTEM_ACTION", TotalAtClose(row.inAt, cutoff, pauses)),
                 OpenPause(pauses), cutoff, "AUTO_CHECKOUT")

(* Mutant of CloseStale: the new session is opened beside the stale one.    *)
KeepStale(v) == session

CloseStale(v) == [session EXCEPT ![v.sess] = ClosedStale(session[v.sess], v.pauses)]

NewRow(i, t, x) ==
    [NoRow EXCEPT !.status = "WORKING", !.emp = i, !.date = toDateOnly(t), !.inAt = t,
                  !.reopen = x]

(* Mutant of UsedUp: the exception is left APPROVED.                        *)
NotUsedUp(x) == exc

UsedUp(x) == IF x \in Exceptions THEN [exc EXCEPT ![x] = "USED"] ELSE exc

(* The rest of the transaction: close the stale session, find out whether   *)
(* the day has a completed session and an approved exception to use up,     *)
(* number the new session, insert it and its event.  The primary key        *)
(* refuses a number another check-in has taken.                             *)
CheckInCreate(w) ==
    LET i == call[w].emp
        t == call[w].at
        v == IF SnapshotReads THEN view[w] ELSE WithReads(view[w], i, t)
        n == v.rows + 1
    IN  /\ call[w].pc = "locked"
        /\ n \in SessionIds /\ session[n].status = "NONE"
        /\ \E x \in IF ~ v.done THEN {None} ELSE IF v.usable = {} THEN {0} ELSE v.usable :
            /\ session' = [(IF v.sess = 0 THEN session ELSE CloseStale(v))
                             EXCEPT ![n] = NewRow(i, t, x)]
            /\ exc' = UsedUp(x)
        /\ nRows' = nRows + 1
        /\ Record(w, n)
        /\ Finish(w)
        /\ UNCHANGED <<clock, sweep>>

-----------------------------------------------------------------------------
(* Check-out *)

(* The newest live session; a paused one is refused unless the policy       *)
(* allows it.                                                               *)
CheckOutRead(w) ==
    /\ \E i \in Ids, c \in ClientEventIds, t \in EventTimes :
        /\ Start(w, "ready", "CHECK_OUT", i, c, t)
        /\ \E ids \in Resolved(i) : \E s \in LiveOf(ids) :
            /\ \A r \in LiveOf(ids) : session[r].inAt <= session[s].inAt
            /\ session[s].status = "PAUSED" => AllowPausedCheckout
            /\ Remember(w, Found(s))
    /\ UNCHANGED <<clock, session, nRows, events, exc, sweep>>

(* Mutant of CheckOutCommit: the row is updated by its id alone.            *)
CheckOutBlindly(w) ==
    LET v == view[w]
        t == call[w].at
    IN  /\ call[w].pc = "ready" /\ call[w].op = "CHECK_OUT"
        /\ session' = [session EXCEPT ![v.sess] =
             Closed(@, t, "USER_CHECKOUT", TotalAtClose(@.inAt, t, v.pauses))]
        /\ Record(w, v.sess)
        /\ Finish(w)
        /\ UNCHANGED <<clock, nRows, exc, sweep>>

(* updateMany({ where: { id, status: active.status } }), with the total     *)
(* computed from the pauses that were read before the transaction.          *)
CheckOutCommit(w) ==
    LET v == view[w]
        t == call[w].at
    IN  /\ call[w].pc = "ready" /\ call[w].op = "CHECK_OUT"
        /\ session[v.sess].status = v.status
        /\ session' = [session EXCEPT ![v.sess] =
             EndPause(Closed(@, t, "USER_CHECKOUT", TotalAtClose(@.inAt, t, v.pauses)),
                      IF v.status = "PAUSED" THEN OpenPause(v.pauses) ELSE 0, t, "RETURNED")]
        /\ Record(w, v.sess)
        /\ Finish(w)
        /\ UNCHANGED <<clock, nRows, exc, sweep>>

-----------------------------------------------------------------------------
(* Geofence exit and return.  Where the phone is, the geofence service      *)
(* decides; either answer is possible, and the wrong one refuses the call.  *)

GeofenceExitRead(w) ==
    /\ \E i \in Ids, c \in ClientEventIds, t \in EventTimes :
        /\ Start(w, "ready", "GEOFENCE_EXIT", i, c, t)
        /\ \E ids \in Resolved(i) : \E s \in LiveOf(ids) :
            /\ session[s].status = "WORKING"
            /\ Remember(w, [NoView EXCEPT !.sess = s, !.status = "WORKING"])
    /\ UNCHANGED <<clock, session, nRows, events, exc, sweep>>

Paused(row, t) ==
    [row EXCEPT !.status = "PAUSED", !.pauseAt = t, !.deadline = t + Grace,
                !.pauses = Append(@, [start |-> t, end |-> None, deadline |-> t + Grace,
                                      why |-> ""])]

(* Mutant of GeofenceExitCommit: the status is not compared again.          *)
GeofenceExitBlindly(w) ==
    LET s == view[w].sess
    IN  /\ call[w].pc = "ready" /\ call[w].op = "GEOFENCE_EXIT"
        /\ OpenPause(session[s].pauses) = 0
        /\ session' = [session EXCEPT ![s] = Paused(@, call[w].at)]
        /\ Record(w, s)
        /\ Finish(w)
        /\ UNCHANGED <<clock, nRows, exc, sweep>>

GeofenceExitCommit(w) ==
    LET s == view[w].sess
        t == call[w].at
    IN  /\ call[w].pc = "ready" /\ call[w].op = "GEOFENCE_EXIT"
        /\ OpenPause(session[s].pauses) = 0
        /\ session[s].status = "WORKING"
        /\ session' = [session EXCEPT ![s] = Paused(@, t)]
        /\ Record(w, s)
        /\ Finish(w)
        /\ UNCHANGED <<clock, nRows, exc, sweep>>

(* The grace deadline is not looked at: a late return resumes the session   *)
(* as long as no sweep has closed it.                                       *)
GeofenceReturnRead(w) ==
    /\ \E i \in Ids, c \in ClientEventIds, t \in EventTimes :
        /\ Start(w, "ready", "GEOFENCE_RETURN", i, c, t)
        /\ \E ids \in Resolved(i) : \E s \in LiveOf(ids) :
            /\ session[s].status = "PAUSED"
            /\ OpenPause(session[s].pauses) # 0
            /\ Remember(w, Found(s))
    /\ UNCHANGED <<clock, session, nRows, events, exc, sweep>>

(* Mutant of Resumed: the pause columns are not cleared.                    *)
ResumedStillPaused(row) == [row EXCEPT !.status = "WORKING"]

Resumed(row) == [row EXCEPT !.status = "WORKING", !.pauseAt = None, !.deadline = None]

(* Mutant of GeofenceReturnCommit: only the pause is compared again.        *)
GeofenceReturnBlindly(w) ==
    LET v == view[w]
        i == OpenPause(v.pauses)
    IN  /\ call[w].pc = "ready" /\ call[w].op = "GEOFENCE_RETURN"
        /\ session[v.sess].pauses[i].end = None
        /\ session' = [session EXCEPT ![v.sess] =
                         Resumed(EndPause(@, i, call[w].at, "RETURNED"))]
        /\ Record(w, v.sess)
        /\ Finish(w)
        /\ UNCHANGED <<clock, nRows, exc, sweep>>

GeofenceReturnCommit(w) ==
    LET v == view[w]
        i == OpenPause(v.pauses)
        t == call[w].at
    IN  /\ call[w].pc = "ready" /\ call[w].op = "GEOFENCE_RETURN"
        /\ session[v.sess].pauses[i].end = None
        /\ session[v.sess].status = "PAUSED"
        /\ session' = [session EXCEPT ![v.sess] = Resumed(EndPause(@, i, t, "RETURNED"))]
        /\ Record(w, v.sess)
        /\ Finish(w)
        /\ UNCHANGED <<clock, nRows, exc, sweep>>

-----------------------------------------------------------------------------
(* The auto-checkout sweep: two reads at one "now", then one transaction    *)
(* per session found.  A sweep may still run when the next one starts.      *)

Item == [status : {"NONE"} \cup LiveStatus, pauses : Seq(Pause), deadline : Nat \cup {None},
         target : Nat]

NoItem == [status |-> "NONE", pauses |-> <<>>, deadline |-> None, target |-> 0]

ItemOf(s, target) == [status |-> session[s].status, pauses |-> session[s].pauses,
                      deadline |-> session[s].deadline, target |-> target]

Progress == [pc : {"idle", "half", "work"}, now : Times, item : [SessionIds -> Item]]

Resting == [pc |-> "idle", now |-> 0, item |-> [s \in SessionIds |-> NoItem]]

(* findMany({ take: batchSize }) without an order: any batch of that size.  *)
Batches(S) == {B \in SUBSET S : Cardinality(B) <= BatchSize
                                /\ (B # S => Cardinality(B) = BatchSize)}

Working(now, item) ==
    IF \E s \in SessionIds : item[s].status # "NONE"
    THEN [pc |-> "work", now |-> now, item |-> item] ELSE Resting

(* Mutant of SweepReadPaused: the deadline is compared the wrong way.       *)
SweepReadUnexpired(k) ==
    /\ sweep[k].pc = "idle"
    /\ \E B \in Batches({s \in SessionIds : /\ session[s].status = "PAUSED"
                                            /\ session[s].deadline > clock}) :
         sweep' = [sweep EXCEPT ![k] =
            [pc |-> "half", now |-> clock,
             item |-> [s \in SessionIds |->
                         IF s \in B THEN ItemOf(s, session[s].deadline) ELSE NoItem]]]
    /\ UNCHANGED <<clock, session, nRows, events, exc, call, view>>

SweepReadPaused(k) ==
    /\ sweep[k].pc = "idle"
    /\ \E B \in Batches({s \in SessionIds : /\ session[s].status = "PAUSED"
                                            /\ session[s].deadline <= clock}) :
         sweep' = [sweep EXCEPT ![k] =
            [pc |-> "half", now |-> clock,
             item |-> [s \in SessionIds |->
                         IF s \in B THEN ItemOf(s, session[s].deadline) ELSE NoItem]]]
    /\ UNCHANGED <<clock, session, nRows, events, exc, call, view>>

(* Mutant of SweepReadActive: only the current day's sessions are looked at.*)
SweepReadToday(k) ==
    LET now       == sweep[k].now
        cutoff(s) == getMidnightCutoffForSession(session[s].inAt)
        today     == {s \in SessionIds : IsLive(s) /\ session[s].date = toDateOnly(now)}
    IN  /\ sweep[k].pc = "half"
        /\ \E B \in Batches(today) :
             sweep' = [sweep EXCEPT ![k] =
                Working(now, [s \in SessionIds |->
                                IF s \in B /\ now >= cutoff(s)
                                THEN ItemOf(s, cutoff(s)) ELSE sweep[k].item[s]])]
        /\ UNCHANGED <<clock, session, nRows, events, exc, call, view>>

SweepReadActive(k) ==
    LET now       == sweep[k].now
        item      == sweep[k].item
        cutoff(s) == getMidnightCutoffForSession(session[s].inAt)
    IN  /\ sweep[k].pc = "half"
        /\ \E B \in Batches({s \in SessionIds : IsLive(s)}) :
             LET due == {s \in B : /\ now >= cutoff(s)
                                   /\ item[s].status # "NONE" => cutoff(s) < item[s].target}
             IN  sweep' = [sweep EXCEPT ![k] =
                    Working(now, [s \in SessionIds |->
                                    IF s \in due THEN ItemOf(s, cutoff(s)) ELSE item[s]])]
        /\ UNCHANGED <<clock, session, nRows, events, exc, call, view>>

WithoutItem(p, s) == Working(p.now, [p.item EXCEPT ![s] = NoItem])

(* Mutant of CloseReason: any paused session counts as timed out.           *)
PausedIsTimeout(item, now) == IF item.status = "PAUSED" THEN "GEOFENCE_TIMEOUT"
                              ELSE "SYSTEM_ACTION"

CloseReason(item, now) == IF item.status = "PAUSED" /\ item.deadline <= now
                          THEN "GEOFENCE_TIMEOUT" ELSE "SYSTEM_ACTION"

(* Mutant of SweepClose: a session closed meanwhile is closed again.        *)
SweepCloseBlindly(k, s) ==
    LET item == sweep[k].item[s]
        at   == MinOf(item.target, sweep[k].now)
    IN  /\ sweep[k].pc = "work" /\ item.status # "NONE"
        /\ session' = [session EXCEPT ![s] =
             EndPause(Closed(@, at, CloseReason(item, sweep[k].now),
                             TotalAtClose(@.inAt, at, item.pauses)),
                      OpenPause(item.pauses), at, "AUTO_CHECKOUT")]
        /\ events' = Log(AutoEvent(s), s, "AUTO_CHECKOUT")
        /\ sweep' = [sweep EXCEPT ![k] = WithoutItem(@, s)]
        /\ UNCHANGED <<clock, nRows, exc, call, view>>

(* autoCheckoutOne() on what was read; only the status is checked again.    *)
SweepClose(k, s) ==
    LET item   == sweep[k].item[s]
        at     == MinOf(item.target, sweep[k].now)
        reason == CloseReason(item, sweep[k].now)
    IN  /\ sweep[k].pc = "work" /\ item.status # "NONE"
        /\ IsLive(s)
        /\ session' = [session EXCEPT ![s] =
             EndPause(Closed(@, at, reason, TotalAtClose(@.inAt, at, item.pauses)),
                      OpenPause(item.pauses), at, "AUTO_CHECKOUT")]
        /\ events' = IF Logged(AutoEvent(s)) THEN events
                     ELSE Log(AutoEvent(s), s, "AUTO_CHECKOUT")
        /\ sweep' = [sweep EXCEPT ![k] = WithoutItem(@, s)]
        /\ UNCHANGED <<clock, nRows, exc, call, view>>

(* No row was updated, or the transaction failed and the error was caught,  *)
(* or the process died before this session: the sweep goes on without it.   *)
SweepSkip(k, s) ==
    /\ sweep[k].pc = "work" /\ sweep[k].item[s].status # "NONE"
    /\ sweep' = [sweep EXCEPT ![k] = WithoutItem(@, s)]
    /\ UNCHANGED <<clock, session, nRows, events, exc, call, view>>

-----------------------------------------------------------------------------
Tick == /\ clock < MaxTime
        /\ clock' = clock + 1
        /\ UNCHANGED <<session, nRows, events, exc, call, view, sweep>>

Init == /\ clock = 0
        /\ session = [s \in SessionIds |-> NoRow]
        /\ nRows = 0
        /\ events = {}
        /\ exc \in [Exceptions -> {"PENDING", "APPROVED"}]
        /\ call = [w \in Workers |-> NoCall]
        /\ view = [w \in Workers |-> NoView]
        /\ sweep = [k \in Sweepers |-> Resting]

Request(w) == \/ CheckInBegin(w) \/ CheckInLock(w) \/ CheckInCreate(w)
              \/ CheckOutRead(w) \/ CheckOutCommit(w)
              \/ GeofenceExitRead(w) \/ GeofenceExitCommit(w)
              \/ GeofenceReturnRead(w) \/ GeofenceReturnCommit(w)
              \/ Abort(w)

SweepStep(k) == \/ SweepReadPaused(k) \/ SweepReadActive(k)
                \/ \E s \in SessionIds : SweepClose(k, s) \/ SweepSkip(k, s)

Next == \/ Tick
        \/ \E w \in Workers : Request(w)
        \/ \E k \in Sweepers : SweepStep(k)

Spec == Init /\ [][Next]_vars

(* The cron starts a sweep every minute and a sweep ends; errors of the     *)
(* database are transient, so a close that stays due is not refused for     *)
(* ever; time passes.  Nothing is assumed of clients.                       *)
Fairness == /\ WF_vars(Tick)
            /\ \A k \in Sweepers : /\ WF_vars(SweepStep(k))
                                   /\ \A s \in SessionIds : SF_vars(SweepClose(k, s))

FairSpec == Spec /\ Fairness

-----------------------------------------------------------------------------
(* Invariants *)

(* Every table and every handler's memory holds rows of the declared shape; *)
(* in particular the stored total is never negative.                        *)
TypeOK ==
    /\ clock \in Times
    /\ session \in [SessionIds -> Row]
    /\ nRows \in 0 .. MaxSessions
    /\ events \in SUBSET Event
    /\ exc \in [Exceptions -> {"PENDING", "APPROVED", "REJECTED", "USED"}]
    /\ call \in [Workers -> Call]
    /\ view \in [Workers -> View]
    /\ sweep \in [Sweepers -> Progress]

(* A session's status, its pause columns and its pauses tell one story: a   *)
(* working session has no open pause, a paused one has exactly one, the     *)
(* latest, whose start and deadline the session row repeats, and a closed   *)
(* one has cleared both columns (attendance.service.ts, every transition).  *)
OpenPauses(row) == {i \in DOMAIN row.pauses : row.pauses[i].end = None}

OneStory(row) ==
    /\ row.status = "WORKING" => OpenPauses(row) = {}
    /\ row.status = "PAUSED" => LET n == Len(row.pauses)
                                IN  /\ OpenPauses(row) = {n}
                                    /\ row.pauseAt = row.pauses[n].start
                                    /\ row.deadline = row.pauses[n].deadline
    /\ row.status # "PAUSED" => row.pauseAt = None /\ row.deadline = None

PauseMatchesStatus == \A s \in SessionIds : OneStory(session[s])

(* A person never has two live sessions, under whichever of their ids the   *)
(* sessions were opened (schema.prisma, AttendanceSession).                 *)
OneActive ==
    \A s, r \in SessionIds :
        IsLive(s) /\ IsLive(r) /\ session[r].emp \in Aliases[session[s].emp] => s = r

EventsOf(s, types) == {e \in events : e.sess = s /\ e.type \in types}

(* The event log and the session table agree although they are separate     *)
(* tables written by racing transactions: one check-in event per session,   *)
(* one exit per pause, a return for every exit of a working session and for *)
(* all but the last of a paused one, and no closing event before the        *)
(* session is closed nor two after it.                                      *)
LogMatchesSessions ==
    \A s \in SessionIds :
        LET n(type) == Cardinality(EventsOf(s, {type}))
            closing == Cardinality(EventsOf(s, {"CHECK_OUT", "AUTO_CHECKOUT"}))
        IN  /\ n("CHECK_IN") = IF s \in Rows THEN 1 ELSE 0
            /\ n("GEOFENCE_EXIT") = Len(session[s].pauses)
            /\ IsLive(s) => /\ closing = 0
                            /\ n("GEOFENCE_EXIT") - n("GEOFENCE_RETURN")
                                 = IF session[s].status = "PAUSED" THEN 1 ELSE 0
            /\ closing <= 1

(* An approved re-check-in exception opens one session at most, and is      *)
(* marked USED exactly when it has opened one.                              *)
ExceptionUsedOnce ==
    \A x \in Exceptions :
        LET opened == {s \in SessionIds : session[s].reopen = x}
        IN  /\ \A s, r \in opened : s = r
            /\ (opened # {}) <=> (exc[x] = "USED")

(* A session closed for a grace timeout left the office long enough: one of *)
(* its pauses had a deadline that has passed, and the check-out time is     *)
(* that deadline or the midnight that came first.                           *)
TimeoutAtDeadline ==
    \A s \in SessionIds :
        session[s].reason = "GEOFENCE_TIMEOUT" =>
            /\ session[s].outAt <= clock
            /\ \E i \in DOMAIN session[s].pauses :
                 LET d == session[s].pauses[i].deadline
                 IN  /\ d <= clock
                     /\ session[s].outAt \in {d, getMidnightCutoffForSession(session[s].inAt)}

(* What makes TypeOK and PauseMatchesStatus inductive: the rows in use are  *)
(* the first nRows and no transaction has counted more, a handler that has  *)
(* read has an existing session to work on, and a return's pause exists.    *)
RowsInOrder ==
    /\ \A s \in SessionIds : session[s].status # "NONE" <=> s <= nRows
    /\ \A w \in Workers : view[w].rows <= nRows

ReadBeforeWrite ==
    \A w \in Workers :
        /\ call[w].pc # "idle" => call[w].ev \in ClientEventIds
        /\ view[w].sess # 0 => session[view[w].sess].status # "NONE"
        /\ call[w].pc = "ready" =>
             /\ view[w].sess # 0
             /\ call[w].op = "GEOFENCE_RETURN" =>
                  OpenPause(view[w].pauses) \in 1 .. Len(session[view[w].sess].pauses)

Inv == TypeOK /\ PauseMatchesStatus /\ RowsInOrder /\ ReadBeforeWrite

(* What makes OneActive inductive.  A check-in past its lock has seen every *)
(* live session of its person - under REPEATABLE READ as long as its number *)
(* for the new row is still free - and no two check-ins hold the lock row   *)
(* of one employeeId.  The lock and the read agree on who a person is under *)
(* LockCoversPerson only.                                                   *)
LockCoversPerson == ~ ResolverMayFail /\ (SnapshotReads \/ \A i \in Ids : Aliases[i] = {i})

HasSearched(w) == call[w].pc = "locked" \/ (SnapshotReads /\ call[w].pc = "begun")

Sees(w) ==
    LET ids == Aliases[call[w].emp]
    IN  HasSearched(w) =>
          /\ (SnapshotReads => view[w].rows = nRows) => LiveOf(ids) \subseteq {view[w].sess}
          /\ view[w].sess # 0 => session[view[w].sess].emp \in ids

OneLockHolder ==
    \A w, u \in Workers :
        call[w].pc = "locked" /\ call[u].pc = "locked" /\ call[w].emp = call[u].emp => w = u

OneActiveInv == OneActive /\ OneLockHolder /\ \A w \in Workers : Sees(w)

-----------------------------------------------------------------------------
(* Action properties *)

(* CHECKED_OUT is terminal: no handler, sweep or replay moves a session out *)
(* of it, and no session's identity - owner, date, check-in time, reopening *)
(* exception - ever changes after its insert.                               *)
ClosedIsFinal ==
    [][\A s \in Rows :
         /\ session[s].status = "CHECKED_OUT" => session'[s].status = "CHECKED_OUT"
         /\ \A col \in {"emp", "date", "inAt", "reopen"} : session'[s][col] = session[s][col]]_vars

(* No event is logged against a session that was already closed, however    *)
(* stale the read that chose the session was.                               *)
EventsOnlyOnOpenSessions ==
    [][\A e \in events' \ events : session[e.sess].status # "CHECKED_OUT"]_vars

-----------------------------------------------------------------------------
(* Liveness, under FairSpec *)

(* A session still live at the midnight after its check-in is closed in the *)
(* end, and a pause whose grace deadline has passed ends.                   *)
MidnightCloses ==
    \A s \in SessionIds :
        (IsLive(s) /\ clock >= getMidnightCutoffForSession(session[s].inAt)) ~> ~ IsLive(s)

GraceTimeoutEnds ==
    \A s \in SessionIds :
        (session[s].status = "PAUSED" /\ session[s].deadline <= clock)
            ~> (session[s].status # "PAUSED")

-----------------------------------------------------------------------------
(* Refinement: a person is the set of their ids.                            *)

Lifecycle == INSTANCE AttendanceLifecycle WITH
    Sessions <- SessionIds,
    Persons  <- {Aliases[i] : i \in Ids},
    Nobody   <- {},
    status   <- [s \in SessionIds |-> session[s].status],
    owner    <- [s \in SessionIds |->
                    IF session[s].status = "NONE" THEN {} ELSE Aliases[session[s].emp]]

(* Every step of the handlers and the sweep is a step of the documented     *)
(* state diagram, or changes nothing it shows: a check-in leaves the person *)
(* one live session, and only moves the diagram has are ever made.          *)
ImplementsLifecycle == Lifecycle!Spec

-----------------------------------------------------------------------------
(* Statements of the service's documentation that the code does not keep.   *)

(* README.md section 3.F: the stored total is the check-out time minus the  *)
(* check-in time minus the session's pauses, never below zero.              *)
TotalIsDerived ==
    \A s \in SessionIds :
        session[s].status = "CHECKED_OUT" =>
            session[s].total = TotalAtClose(session[s].inAt, session[s].outAt, session[s].pauses)

(* README.md section 3.A: once checked out, the session is immutable.       *)
ClosedIsImmutable ==
    [][\A s \in SessionIds : session[s].status = "CHECKED_OUT" => session'[s] = session[s]]_vars

(* autoCheckoutOne(): when a geofence return raced ahead of the sweep, the  *)
(* sweep skips the session, so a working session never gets a timeout.      *)
ReturnBeatsSweep ==
    [][\A s \in SessionIds :
         session[s].status = "WORKING" /\ session'[s].status # "WORKING"
             => session'[s].reason # "GEOFENCE_TIMEOUT"]_vars

(* checkIn(): the session a check-in closes is stale, from an earlier day,  *)
(* so the midnight that closes it has passed.                               *)
NoFutureClose == \A s \in SessionIds : session[s].outAt <= clock
=============================================================================
