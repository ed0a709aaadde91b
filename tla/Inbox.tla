-------------------------------- MODULE Inbox --------------------------------
(***************************************************************************)
(* The notification-service's inboxes and the browser of one user: the     *)
(* bell's badge, the list it shows, the live stream and the requests under *)
(* way, which are answered in any order or fail.  A notification for a     *)
(* group is one row that many people see; what each has read or dismissed  *)
(* is kept per user, while a direct one also carries a mark of its own.    *)
(*                                                                         *)
(* note[n]    the notification, NoNote before it is sent, or Gone          *)
(* reads      the read marks, dismissed the dismissals: <<n, user>>        *)
(* badge      unreadCount of Me's browser                                  *)
(* shown[n]   Me's list: "absent", "unread" or "read"                      *)
(* stream     notifications on their way to Me's browser                   *)
(* req[q]     a request of Me's browser                                    *)
(* asked      history: the notifications Me has asked to be marked read    *)
(***************************************************************************)
EXTENDS Naturals, FiniteSets

CONSTANTS Users, Me,
          Notes,     \* bound: notifications ever sent
          Reqs       \* bound: requests under way at once

ASSUME MeAssumption == Me \in Users

VARIABLES note, reads, dismissed, badge, shown, stream, req, asked

server == <<note, reads, dismissed>>
vars == <<server, badge, shown, stream, req, asked>>

NoNote == [to |-> {}, group |-> FALSE, isRead |-> FALSE, is |-> "unsent"]
Gone == [NoNote EXCEPT !.is = "gone"]
Nothing == [n \in Notes |-> "absent"]
NoReq == [kind |-> "none", pc |-> "none", notes |-> {}, list |-> Nothing]

Init ==
    /\ note = [n \in Notes |-> NoNote]
    /\ reads = {} /\ dismissed = {}
    /\ badge = 0 /\ shown = Nothing /\ stream = {}
    /\ req = [q \in Reqs |-> NoReq]
    /\ asked = {}

-----------------------------------------------------------------------------
(***************************************************************************)
(* The service                                                             *)
(***************************************************************************)

InboxOf(u) == {n \in Notes : u \in note[n].to /\ <<n, u>> \notin dismissed}
IsRead(n, u) == note[n].isRead \/ <<n, u>> \in reads
Unread(u) == {n \in InboxOf(u) : ~IsRead(n, u)}

\* findAll, as user u sees it.
ListOf(u) == [n \in Notes |-> IF n \notin InboxOf(u) THEN "absent"
                              ELSE IF IsRead(n, u) THEN "read" ELSE "unread"]

\* create.  Who is connected gets it live.  The id is free, or the row is
\* refused by the database and nothing is sent.
Create(n) ==
    /\ note[n] = NoNote
    /\ \E to \in SUBSET Users \ {{}}, group \in BOOLEAN :
          /\ note' = [note EXCEPT ![n] = [to |-> to, group |-> group,
                                          isRead |-> FALSE, is |-> "sent"]]
          /\ stream' \in {stream} \cup (IF Me \in to THEN {stream \cup {n}} ELSE {})
    /\ UNCHANGED <<reads, dismissed, badge, shown, req, asked>>

\* Mutant: the mark of the row is set whoever it is for.
RowMarkAlways(n) == [note[n] EXCEPT !.isRead = TRUE]

\* The row of a direct notification is marked, that of a group's is not.
RowMark(n) == IF note[n].group THEN note[n] ELSE [note[n] EXCEPT !.isRead = TRUE]

\* What marking n for user u does.  That the user's read cannot be recorded
\* is only logged.
Mark(n, u) ==
    /\ reads' \in {reads, reads \cup {<<n, u>>}}
    /\ note' = [note EXCEPT ![n] = RowMark(n)]
    /\ UNCHANGED dismissed

\* remove, for user u: a dismissal.  Where it cannot be recorded a direct
\* notification is deleted, and of a group's the answer is the same.
Dismiss(n, u) ==
    \/ dismissed' = dismissed \cup {<<n, u>>} /\ UNCHANGED <<note, reads>>
    \/ /\ ~note[n].group
       /\ note' = [note EXCEPT ![n] = Gone]
       /\ reads' = {r \in reads : r[1] # n}
       /\ dismissed' = {d \in dismissed : d[1] # n}
    \/ note[n].group /\ UNCHANGED server

\* Somebody else reads or dismisses a notification.
Others(u, n) ==
    /\ u # Me /\ n \in InboxOf(u)
    /\ Mark(n, u) \/ Dismiss(n, u)
    /\ UNCHANGED <<badge, shown, stream, req, asked>>

-----------------------------------------------------------------------------
(***************************************************************************)
(* Me's browser                                                            *)
(***************************************************************************)

StreamArrives(n) ==
    /\ n \in stream
    /\ stream' = stream \ {n}
    /\ badge' = badge + 1
    /\ shown' = [shown EXCEPT ![n] = "unread"]
    /\ UNCHANGED <<server, req, asked>>

\* The browser sends a request, and remembers how the notification was shown.
Sends(q, kind, notes) ==
    /\ req[q] = NoReq
    /\ req' = [req EXCEPT ![q] = [kind |-> kind, pc |-> "sent", notes |-> notes,
                 list |-> [n \in Notes |-> IF n \in notes THEN shown[n] ELSE "absent"]]]
    /\ UNCHANGED <<server, badge, shown, stream>>

\* refreshUnreadCount: at the start, every minute, on focus, after a
\* notification has come and after marking in the list.
Refresh(q) == Sends(q, "count", {}) /\ UNCHANGED asked

\* The bell is opened, or the page of notifications.
OpenList(q) == Sends(q, "list", {}) /\ UNCHANGED asked

MarkOne(q, n) == /\ shown[n] = "unread"
                 /\ Sends(q, "one", {n})
                 /\ asked' = asked \cup {n}

MarkAll(q) == badge > 0 /\ Sends(q, "all", {}) /\ UNCHANGED asked

Delete(q, n) == shown[n] # "absent" /\ Sends(q, "delete", {n}) /\ UNCHANGED asked

Is(q, kind, pc) == req[q].kind = kind /\ req[q].pc = pc
IsFetch(q, pc) == Is(q, "count", pc) \/ Is(q, "list", pc)
Ends(q) == req' = [req EXCEPT ![q] = NoReq]
Answered(q) == req' = [req EXCEPT ![q].pc = "answered"]

\* getUnreadCount and findAll.
FetchRead(q) ==
    /\ IsFetch(q, "sent")
    /\ req' = [req EXCEPT ![q].pc = "answered", ![q].list = ListOf(Me)]
    /\ UNCHANGED <<server, badge, shown, stream, asked>>

\* Mutant: a refresh only ever raises the badge.
RaisedTo(count) == IF count > badge THEN count ELSE badge

SetTo(count) == count

FetchAnswer(q) ==
    /\ IsFetch(q, "answered")
    /\ badge' = SetTo(Cardinality({n \in Notes : req[q].list[n] = "unread"}))
    /\ shown' = IF Is(q, "list", "answered") THEN req[q].list ELSE shown
    /\ Ends(q)
    /\ UNCHANGED <<server, stream, asked>>

\* markAsRead.  A notification that is gone is not found.
OneWrite(q) ==
    /\ Is(q, "one", "sent")
    /\ \E n \in req[q].notes : note[n] # Gone /\ Mark(n, Me)
    /\ Answered(q)
    /\ UNCHANGED <<badge, shown, stream, asked>>

\* markAllAsRead: what is unread now, then one after the other.
AllRead(q) ==
    /\ Is(q, "all", "sent")
    /\ req' = [req EXCEPT ![q].pc = "marking", ![q].notes = Unread(Me)]
    /\ asked' = asked \cup Unread(Me)
    /\ UNCHANGED <<server, badge, shown, stream>>

AllWrite(q) ==
    /\ Is(q, "all", "marking")
    /\ \/ /\ \E n \in req[q].notes :
                /\ note[n] # Gone /\ Mark(n, Me)
                /\ req' = [req EXCEPT ![q].notes = @ \ {n}]
       \/ req[q].notes = {} /\ Answered(q) /\ UNCHANGED server
    /\ UNCHANGED <<badge, shown, stream, asked>>

DeleteWrite(q) ==
    /\ Is(q, "delete", "sent")
    /\ \E n \in req[q].notes : note[n] # Gone /\ Dismiss(n, Me)
    /\ Answered(q)
    /\ UNCHANGED <<badge, shown, stream, asked>>

Less == IF badge > 0 THEN badge - 1 ELSE 0

OneAnswer(q) ==
    /\ Is(q, "one", "answered")
    /\ badge' = Less
    /\ shown' = [n \in Notes |-> IF n \in req[q].notes /\ shown[n] = "unread"
                                 THEN "read" ELSE shown[n]]
    /\ Ends(q)
    /\ UNCHANGED <<server, stream, asked>>

AllAnswer(q) ==
    /\ Is(q, "all", "answered")
    /\ badge' = 0
    /\ shown' = [n \in Notes |-> IF shown[n] = "unread" THEN "read" ELSE shown[n]]
    /\ Ends(q)
    /\ UNCHANGED <<server, stream, asked>>

\* The badge is lowered if the notification was unread when it was clicked.
DeleteAnswer(q) ==
    /\ Is(q, "delete", "answered")
    /\ badge' = IF \E n \in req[q].notes : req[q].list[n] = "unread" THEN Less ELSE badge
    /\ shown' = [n \in Notes |-> IF n \in req[q].notes THEN "absent" ELSE shown[n]]
    /\ Ends(q)
    /\ UNCHANGED <<server, stream, asked>>

\* A request fails on its way, in the service or on its way back.
Fail(q) == req[q] # NoReq /\ Ends(q) /\ UNCHANGED <<server, badge, shown, stream, asked>>

-----------------------------------------------------------------------------
Clicks(q) == OpenList(q) \/ MarkAll(q) \/ \E n \in Notes : MarkOne(q, n) \/ Delete(q, n)
Runs(q) == \/ FetchRead(q) \/ FetchAnswer(q) \/ OneWrite(q) \/ OneAnswer(q)
           \/ AllRead(q) \/ AllWrite(q) \/ AllAnswer(q)
           \/ DeleteWrite(q) \/ DeleteAnswer(q) \/ Fail(q)

Next ==
    \/ \E n \in Notes : Create(n) \/ StreamArrives(n) \/ \E u \in Users : Others(u, n)
    \/ \E q \in Reqs : Refresh(q) \/ Clicks(q) \/ Runs(q)

\* The browser's timers go off, a request is answered or times out, and the
\* network is not down for ever.  Nothing is assumed of the users, of the
\* stream or of the requests that mark and delete.
Fairness ==
    /\ SF_vars(\E q \in Reqs : Refresh(q))
    /\ SF_vars(\E q \in Reqs : FetchRead(q))
    /\ SF_vars(\E q \in Reqs : FetchAnswer(q))
    /\ \A q \in Reqs : WF_vars(Runs(q))

Spec == Init /\ [][Next]_vars /\ Fairness

-----------------------------------------------------------------------------
(***************************************************************************)
(* Properties                                                              *)
(***************************************************************************)

\* What the other members of a group do leaves Me's inbox alone: a group's
\* notification is never deleted, and is read only if Me asked for that.
GroupNotesArePersonal ==
    \A n \in Notes : note[n].group /\ IsRead(n, Me) => n \in asked

\* Answers that overtake each other, marks counted twice, a stream that loses or
\* repeats what the count had: again and again the badge is what the service
\* counts.
BadgeSettles == []<>(badge = Cardinality(Unread(Me)))
=============================================================================
