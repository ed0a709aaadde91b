----------------------------- MODULE PhoneProofs -----------------------------
(***************************************************************************)
(* Proofs about the mobile client.  First PhoneSession, for every number   *)
(* of calls, workers, accounts and sessions: the phone keeps types, a      *)
(* logout lasts, and the stored refresh token is good between refreshes.   *)
(* Then the home screen, for every number of runs and reloads at once:     *)
(* PhoneWatch has one transition in flight at most, and WatchStreak pauses *)
(* on no single doubtful verdict.                                          *)
(***************************************************************************)
EXTENDS PhoneSession, WatchStreak, FiniteSetTheorems, SequenceTheorems, TLAPS

(***************************************************************************)
(* The inductive invariants                                                *)
(***************************************************************************)

RefreshPcs == {"idle", "refreshUser", "refreshRevoke", "refreshIssue"}

\* The service is asked by one phone: requests are refreshes, accounts stay.
ServerOK ==
    /\ AuthTypeOK
    /\ \A w \in Workers : req[w].pc \in RefreshPcs
    /\ \A u \in Users : user[u].exists

\* A refresh that is not on its way has no worker and no answer, and has an
\* answer only when its worker is done.  It is sent with a token.
FlightOK ==
    /\ flight.pc # "sent" => flight.worker = NoWorker /\ flight.answer = "none"
    /\ flight.answer # "none" => flight.worker = NoWorker
    /\ flight.pc = "sent" => flight.token # 0

TypeInv == ServerOK /\ TypeOK /\ FlightOK

\* A restore waits for the refresh; a login is neither shown nor logged out
\* before it is complete.
Tasks ==
    /\ phone.task = "restore" => flight.pc # "none"
    /\ phone.task = "login" => phone.screen = "out" /\ logout.pc = "none"

\* After a logout nothing is stored, and no refresh can be sent that would
\* bring a session back.
SignedOut ==
    left /\ ~torn =>
        /\ phone.stored = 0 /\ ~phone.saved
        /\ phone.screen # "in" /\ phone.task = "none"
        /\ flight.pc \in {"none", "begun"} /\ logout.pc = "none"

LogoutInv == TypeInv /\ Tasks /\ SignedOut

\* The token of an answer is nobody's yet: not the one stored, not the one a
\* logout revokes, not one that a request of an earlier refresh will revoke.
FreshToken ==
    flight.answer = "ok" =>
        /\ flight.new \notin {0, phone.stored, logout.token}
        /\ \A w \in Workers : ~Idle(w) => req[w].sess # flight.new
        /\ torn \/ Live(flight.new)

\* What the server may still do with the stored token it does for the refresh
\* the phone waits for.
OwnToken ==
    ~torn =>
        /\ flight.pc = "sent" => flight.token = phone.stored
        /\ phone.stored # 0 => \A w \in Workers :
               ~Idle(w) /\ flight.worker # w => req[w].sess # phone.stored

\* The stored token is live until a worker takes up the refresh, and unless a
\* logout has been posted.
Untouched ==
    /\ logout.pc # "clear"
    /\ flight.pc = "sent" => flight.worker = NoWorker /\ flight.answer = "none"

StoredIsLive == ~torn /\ phone.stored # 0 /\ Untouched => Live(phone.stored)

TokenInv == LogoutInv /\ FreshToken /\ OwnToken /\ StoredIsLive

-----------------------------------------------------------------------------
(***************************************************************************)
(* Types: the server                                                       *)
(***************************************************************************)

LEMMA SessionFacts ==
    ASSUME AuthTypeOK
    PROVE  /\ Len(sess) \in Nat /\ DOMAIN sess = 1 .. Len(sess)
           /\ \A s \in DOMAIN sess : sess[s] \in Session
BY LenProperties, ElementOfSeq DEF AuthTypeOK

LEMMA IdleRequest ==
    /\ Arrived(SomeUser) \in Request
    /\ Arrived(SomeUser).pc = "idle" /\ Arrived(SomeUser).sess = 0
BY UsersAssumption DEF Arrived, SomeUser, Request, Pcs

\* A step keeps the tables' types when it keeps those of the rows it writes.
LEMMA ServerFrame ==
    ASSUME ServerOK,
           user' \in [Users -> Account], \A u \in Users : user'[u].exists,
           made' = made, kept' \in [Users -> SUBSET Nat],
           mixed' \in [Users -> BOOLEAN],
           sess' \in Seq(Session), Len(sess') >= Len(sess),
           \A s \in DOMAIN sess : sess'[s].parent = sess[s].parent,
           \A s \in DOMAIN sess' \ DOMAIN sess : sess'[s].parent < s,
           req' \in [Workers -> Request],
           \A w \in Workers : req'[w].pc \in RefreshPcs /\ req'[w].sess <= Len(sess')
    PROVE  ServerOK'
<1>1. ASSUME NEW s \in DOMAIN sess'
      PROVE  /\ sess'[s].parent < s
             /\ sess'[s].status # "gone" => user'[sess'[s].user].exists
  <2>1. sess'[s] \in Session
    BY ElementOfSeq, LenProperties
  <2>2. user'[sess'[s].user].exists
    BY <2>1 DEF Session
  <2> QED
    BY <2>2 DEF ServerOK, AuthTypeOK
<1>2. AuthTypeOK'
  BY <1>1 DEF ServerOK, AuthTypeOK
<1> QED
  BY <1>2 DEF ServerOK

LEMMA ServerQuiet == ASSUME ServerOK, ServerIdle PROVE ServerOK'
BY DEF ServerOK, ServerIdle, AuthTypeOK

\* A request goes on, or ends, and no table is written.
LEMMA RequestType ==
    ASSUME ServerOK, NEW w \in Workers, NEW new \in Request,
           req' = [req EXCEPT ![w] = new],
           new.pc \in RefreshPcs, new.sess <= Len(sess),
           UNCHANGED <<user, sess, made, kept>>, mixed' \in [Users -> BOOLEAN]
    PROVE  ServerOK'
<1>1. Len(sess) \in Nat /\ DOMAIN sess = 1 .. Len(sess)
  BY SessionFacts DEF ServerOK
<1>2. req' \in [Workers -> Request]
  BY DEF ServerOK, AuthTypeOK
<1>3. \A v \in Workers : req'[v].pc \in RefreshPcs /\ req'[v].sess <= Len(sess')
  BY DEF ServerOK, AuthTypeOK
<1> QED
  BY <1>1, <1>2, <1>3, ServerFrame DEF ServerOK, AuthTypeOK

\* The statements of a request mark others as late, and otherwise leave them.
Marked(new, old) == new = old \/ new = [old EXCEPT !.late = TRUE]

LEMMA MarkedType ==
    ASSUME NEW old \in Request, NEW new, Marked(new, old)
    PROVE  new \in Request /\ new.pc = old.pc /\ new.sess = old.sess
BY DEF Marked, Request

LEMMA MarksType ==
    ASSUME NEW r \in [Workers -> Request], NEW new, new = [w \in Workers |-> new[w]],
           \A w \in Workers : Marked(new[w], r[w])
    PROVE  /\ new \in [Workers -> Request]
           /\ \A w \in Workers : new[w].pc = r[w].pc /\ new[w].sess = r[w].sess
<1>1. \A w \in Workers : new[w] \in Request /\ new[w].pc = r[w].pc /\ new[w].sess = r[w].sess
  BY MarkedType
<1> QED
  BY <1>1

LEMMA OvertakenType ==
    ASSUME NEW r \in [Workers -> Request], NEW u, NEW new, new = Overtaken(r, u)
    PROVE  /\ new \in [Workers -> Request]
           /\ \A w \in Workers : new[w].pc = r[w].pc /\ new[w].sess = r[w].sess
<1>1. new = [w \in Workers |-> new[w]]
  BY DEF Overtaken
<1>2. \A w \in Workers : Marked(new[w], r[w])
  BY DEF Overtaken, Marked
<1> QED
  BY <1>1, <1>2, MarksType

LEMMA BeatenType ==
    ASSUME NEW r \in [Workers -> Request], NEW s, NEW new, new = Beaten(r, s)
    PROVE  /\ new \in [Workers -> Request]
           /\ \A w \in Workers : new[w].pc = r[w].pc /\ new[w].sess = r[w].sess
<1>1. new = [w \in Workers |-> new[w]]
  BY DEF Beaten
<1>2. \A w \in Workers : Marked(new[w], r[w])
  BY DEF Beaten, Marked
<1> QED
  BY <1>1, <1>2, MarksType

\* Revoking writes the status of sessions, of live ones only.
Revoked(new, old) == new = old \/ \E st \in {"rotated", "ended"} :
                                      new = [old EXCEPT !.status = st]

LEMMA RevokedType ==
    ASSUME ServerOK, DOMAIN sess' = DOMAIN sess, sess' = [s \in DOMAIN sess |-> sess'[s]],
           \A s \in DOMAIN sess : Revoked(sess'[s], sess[s])
    PROVE  /\ sess' \in Seq(Session) /\ Len(sess') = Len(sess)
           /\ \A s \in DOMAIN sess : sess'[s].parent = sess[s].parent
<1>1. Len(sess) \in Nat /\ DOMAIN sess = 1 .. Len(sess)
  BY SessionFacts DEF ServerOK
<1>2. ASSUME NEW s \in DOMAIN sess
      PROVE  sess'[s] \in Session /\ sess'[s].parent = sess[s].parent
  <2>1. sess[s] \in Session
    BY SessionFacts DEF ServerOK
  <2> QED
    BY <2>1 DEF Revoked, Session
<1>3. sess' \in [1 .. Len(sess) -> Session]
  BY <1>1, <1>2
<1>4. sess' \in Seq(Session)
  BY <1>1, <1>3, SeqDef
<1>5. Len(sess') = Len(sess)
  BY <1>1, <1>4, LenProperties
<1> QED
  BY <1>2, <1>4, <1>5

\* No request begins: what requests have in hand they had before.
NoNewWork ==
    \A w \in Workers : ~Idle(w)' => ~Idle(w) /\ req'[w].sess = req[w].sess

\* Sessions other than t are as live as they were.
OnlyEnds(t) == \A s \in DOMAIN sess \ {t} : Live(s) => Live(s)'

LEMMA ServerBeginsType ==
    ASSUME ServerOK, NEW w \in Workers, NEW s \in Nat, s <= Len(sess), s # 0,
           RefreshRead(w, s)
    PROVE  /\ ServerOK' /\ UNCHANGED sess
           /\ ~Idle(w)' /\ req'[w].sess = s
           /\ \A v \in Workers \ {w} : req'[v] = req[v]
<1> DEFINE new == [Arrived(sess[s].user) EXCEPT !.pc = "refreshUser", !.sess = s,
                     !.pass = sess[s].pass, !.late = sess[s].late]
<1>1. sess[s] \in Session
  BY SessionFacts DEF ServerOK
<1>2. new \in Request /\ new.pc = "refreshUser" /\ new.sess = s
  BY <1>1 DEF Arrived, Request, Pcs, Session
<1>3. req' = [req EXCEPT ![w] = new] /\ UNCHANGED <<user, sess, made, kept, mixed>>
  BY DEF RefreshRead
<1> HIDE DEF new
<1>4. req'[w] = new /\ \A v \in Workers \ {w} : req'[v] = req[v]
  BY <1>3 DEF ServerOK, AuthTypeOK
<1>5. ServerOK'
  BY <1>2, <1>3, RequestType DEF ServerOK, AuthTypeOK, RefreshPcs
<1> QED
  BY <1>2, <1>3, <1>4, <1>5 DEF Idle

LEMMA RefreshUserType ==
    ASSUME ServerOK, NEW w \in Workers, RefreshUser(w)
    PROVE  ServerOK' /\ UNCHANGED sess /\ NoNewWork
<1> DEFINE new == [req[w] EXCEPT !.pc = "refreshRevoke"]
<1>1. req[w] \in Request /\ req[w].sess <= Len(sess) /\ req[w].pc = "refreshUser"
  BY DEF ServerOK, AuthTypeOK, RefreshUser, At
<1>2. new \in Request /\ new.pc = "refreshRevoke" /\ new.sess = req[w].sess
  BY <1>1 DEF Request, Pcs
<1>3. req' = [req EXCEPT ![w] = new] /\ UNCHANGED <<user, sess, made, kept, mixed>>
  BY DEF RefreshUser, ServerOK, AuthTypeOK
<1> HIDE DEF new
<1>4. ServerOK'
  BY <1>1, <1>2, <1>3, RequestType DEF ServerOK, AuthTypeOK, RefreshPcs
<1>5. NoNewWork
  BY <1>1, <1>2, <1>3 DEF NoNewWork, Idle, ServerOK, AuthTypeOK
<1> QED
  BY <1>3, <1>4, <1>5

\* One session is revoked, and refreshes it overtakes are marked.
LEMMA OneRevokedType ==
    ASSUME ServerOK, NEW t \in Nat, NEW r \in [Workers -> Request], NEW st \in {"rotated", "ended"},
           \A w \in Workers : r[w].pc \in RefreshPcs /\ r[w].sess <= Len(sess),
           \A s \in DOMAIN sess : sess'[s] = IF s = t /\ Live(s)
                                             THEN [sess[s] EXCEPT !.status = st] ELSE sess[s],
           DOMAIN sess' = DOMAIN sess, sess' = [s \in DOMAIN sess |-> sess'[s]],
           req' = Beaten(r, t), UNCHANGED <<user, made, kept, mixed>>
    PROVE  /\ ServerOK' /\ Len(sess') = Len(sess) /\ OnlyEnds(t)
           /\ \A w \in Workers : req'[w].pc = r[w].pc /\ req'[w].sess = r[w].sess
<1>1. \A s \in DOMAIN sess : Revoked(sess'[s], sess[s])
  BY DEF Revoked
<1>2. /\ sess' \in Seq(Session) /\ Len(sess') = Len(sess)
      /\ \A s \in DOMAIN sess : sess'[s].parent = sess[s].parent
  BY <1>1, RevokedType
<1>3. /\ req' \in [Workers -> Request]
      /\ \A w \in Workers : req'[w].pc = r[w].pc /\ req'[w].sess = r[w].sess
  BY BeatenType
<1>4. Len(sess) \in Nat
  BY SessionFacts DEF ServerOK
<1>5. ServerOK'
  <2>1. /\ user' \in [Users -> Account] /\ \A u \in Users : user'[u].exists
        /\ made' = made /\ kept' \in [Users -> SUBSET Nat] /\ mixed' \in [Users -> BOOLEAN]
    BY DEF ServerOK, AuthTypeOK
  <2>2. \A w \in Workers : req'[w].pc \in RefreshPcs /\ req'[w].sess <= Len(sess')
    BY <1>2, <1>3
  <2>3. Len(sess') >= Len(sess) /\ \A s \in DOMAIN sess' \ DOMAIN sess : sess'[s].parent < s
    BY <1>2, <1>4
  <2> QED
    BY <1>2, <1>3, <2>1, <2>2, <2>3, ServerFrame
<1>6. OnlyEnds(t)
  BY DEF OnlyEnds, Live
<1> QED
  BY <1>2, <1>3, <1>5, <1>6

LEMMA RefreshRevokeType ==
    ASSUME ServerOK, NEW w \in Workers, RefreshRevoke(w)
    PROVE  ServerOK' /\ Len(sess') = Len(sess) /\ OnlyEnds(req[w].sess) /\ NoNewWork
<1> DEFINE mid == [req EXCEPT ![w].pc = "refreshIssue"]
           t   == req[w].sess
<1>1. /\ req[w] \in Request /\ t \in Nat /\ t <= Len(sess) /\ req[w].pc = "refreshRevoke"
  BY DEF ServerOK, AuthTypeOK, RefreshRevoke, At, Request
<1>2. /\ mid \in [Workers -> Request]
      /\ mid[w].pc = "refreshIssue" /\ mid[w].sess = t
      /\ \A v \in Workers \ {w} : mid[v] = req[v]
  BY <1>1 DEF ServerOK, AuthTypeOK, Request, Pcs
<1>3. /\ sess' = [sess EXCEPT ![t].status = IF @ = "live" THEN "rotated" ELSE @]
      /\ req' = Beaten(mid, t) /\ UNCHANGED <<user, made, kept, mixed>>
  BY DEF RefreshRevoke
<1> HIDE DEF mid
<1>4. DOMAIN sess' = DOMAIN sess /\ sess' = [s \in DOMAIN sess |-> sess'[s]]
  BY <1>3
<1>5. ASSUME NEW s \in DOMAIN sess
      PROVE  sess'[s] = IF s = t /\ Live(s) THEN [sess[s] EXCEPT !.status = "rotated"]
                                            ELSE sess[s]
  <2>1. sess[s] \in Session
    BY SessionFacts DEF ServerOK
  <2>2. sess'[s] = IF s = t THEN [sess[s] EXCEPT !.status = IF @ = "live" THEN "rotated" ELSE @]
                            ELSE sess[s]
    BY <1>3
  <2> QED
    BY <2>1, <2>2 DEF Live, Session
<1>6. \A v \in Workers : mid[v].pc \in RefreshPcs /\ mid[v].sess <= Len(sess)
  BY <1>1, <1>2 DEF ServerOK, AuthTypeOK, RefreshPcs
<1>7. PICK r \in [Workers -> Request] : r = mid
  BY <1>2
<1>8. PICK n \in Nat : n = t
  BY <1>1
<1>9. /\ ServerOK' /\ Len(sess') = Len(sess) /\ OnlyEnds(n)
      /\ \A v \in Workers : req'[v].pc = r[v].pc /\ req'[v].sess = r[v].sess
  <2>1. \A s \in DOMAIN sess : sess'[s] = IF s = n /\ Live(s)
                                          THEN [sess[s] EXCEPT !.status = "rotated"] ELSE sess[s]
    BY <1>5, <1>8
  <2>2. req' = Beaten(r, n) /\ UNCHANGED <<user, made, kept, mixed>>
    BY <1>3, <1>7, <1>8
  <2>3. \A v \in Workers : r[v].pc \in RefreshPcs /\ r[v].sess <= Len(sess)
    BY <1>6, <1>7
  <2> QED
    BY <1>4, <2>1, <2>2, <2>3, OneRevokedType
<1>10. NoNewWork
  BY <1>1, <1>2, <1>7, <1>9 DEF NoNewWork, Idle
<1> QED
  BY <1>8, <1>9, <1>10

LEMMA LogoutSessionType ==
    ASSUME ServerOK, NEW t \in Nat, LogoutSession(t)
    PROVE  ServerOK' /\ Len(sess') = Len(sess) /\ OnlyEnds(t) /\ NoNewWork
<1>1. /\ sess' = [sess EXCEPT ![t].status = "ended"] /\ sess[t].status = "live"
      /\ req' = Beaten(req, t) /\ UNCHANGED <<user, made, kept, mixed>>
  BY DEF LogoutSession, Live
<1>2. DOMAIN sess' = DOMAIN sess /\ sess' = [s \in DOMAIN sess |-> sess'[s]]
  BY <1>1
<1>3. \A s \in DOMAIN sess :
         sess'[s] = IF s = t /\ Live(s) THEN [sess[s] EXCEPT !.status = "ended"] ELSE sess[s]
  BY <1>1 DEF Live
<1>4. PICK r \in [Workers -> Request] : r = req
  BY DEF ServerOK, AuthTypeOK
<1>5. /\ ServerOK' /\ Len(sess') = Len(sess) /\ OnlyEnds(t)
      /\ \A v \in Workers : req'[v].pc = r[v].pc /\ req'[v].sess = r[v].sess
  BY <1>1, <1>2, <1>3, <1>4, OneRevokedType, ZenonT(60) DEF ServerOK, AuthTypeOK
<1>6. NoNewWork
  BY <1>4, <1>5 DEF NoNewWork, Idle
<1> QED
  BY <1>5, <1>6

LEMMA LogoutAllType ==
    ASSUME ServerOK, NEW u \in Users, LogoutAll(u)
    PROVE  ServerOK' /\ Len(sess') = Len(sess) /\ NoNewWork
<1>1. /\ sess' = RevokedAll(u) /\ req' = Overtaken(req, u) /\ kept' = [kept EXCEPT ![u] = {}]
      /\ UNCHANGED <<user, made, mixed>>
  BY DEF LogoutAll, RevokeAll
<1>2. DOMAIN sess' = DOMAIN sess /\ sess' = [s \in DOMAIN sess |-> sess'[s]]
  BY <1>1 DEF RevokedAll
<1>3. \A s \in DOMAIN sess : Revoked(sess'[s], sess[s])
  BY <1>1 DEF RevokedAll, Revoked
<1>4. /\ sess' \in Seq(Session) /\ Len(sess') = Len(sess)
      /\ \A s \in DOMAIN sess : sess'[s].parent = sess[s].parent
  BY <1>2, <1>3, RevokedType
<1>5. /\ req' \in [Workers -> Request]
      /\ \A w \in Workers : req'[w].pc = req[w].pc /\ req'[w].sess = req[w].sess
  BY <1>1, OvertakenType DEF ServerOK, AuthTypeOK
<1>6. Len(sess) \in Nat /\ kept' \in [Users -> SUBSET Nat]
  BY <1>1, SessionFacts DEF ServerOK, AuthTypeOK
<1>7. ServerOK'
  BY <1>1, <1>2, <1>4, <1>5, <1>6, ServerFrame DEF ServerOK, AuthTypeOK
<1>8. NoNewWork
  BY <1>5 DEF NoNewWork, Idle
<1> QED
  BY <1>4, <1>7, <1>8

LEMMA SetActiveStatusType ==
    ASSUME ServerOK, NEW u \in Users, NEW b \in BOOLEAN, SetActiveStatus(u, b)
    PROVE  ServerOK' /\ UNCHANGED <<sess, req>>
<1>1. user' = [user EXCEPT ![u].active = b] /\ UNCHANGED <<sess, req, made, kept, mixed>>
  BY DEF SetActiveStatus
<1>2. user' \in [Users -> Account] /\ \A x \in Users : user'[x].exists
  <2>1. user[u] \in Account /\ user \in [Users -> Account]
    BY DEF ServerOK, AuthTypeOK
  <2>2. [user[u] EXCEPT !.active = b] \in Account /\ [user[u] EXCEPT !.active = b].exists = user[u].exists
    BY <2>1 DEF Account
  <2>3. user' = [user EXCEPT ![u] = [user[u] EXCEPT !.active = b]]
    BY <1>1
  <2> QED
    BY <2>1, <2>2, <2>3 DEF ServerOK
<1>3. Len(sess) \in Nat
  BY SessionFacts DEF ServerOK
<1> QED
  BY <1>1, <1>2, <1>3, ServerFrame DEF ServerOK, AuthTypeOK

\* A session is opened.
LEMMA AppendedType ==
    ASSUME ServerOK, NEW new \in Session, sess' = Append(sess, new),
           new.parent <= Len(sess)
    PROVE  /\ sess' \in Seq(Session) /\ Len(sess') = Len(sess) + 1
           /\ DOMAIN sess \subseteq DOMAIN sess' /\ Len(sess') \notin DOMAIN sess
           /\ \A s \in DOMAIN sess : sess'[s] = sess[s]
           /\ sess'[Len(sess')] = new
           /\ \A s \in DOMAIN sess' \ DOMAIN sess : sess'[s].parent < s
<1>1. /\ sess \in Seq(Session) /\ Len(sess) \in Nat /\ DOMAIN sess = 1 .. Len(sess)
      /\ sess' \in Seq(Session) /\ Len(sess') = Len(sess) + 1
      /\ \A i \in 1 .. Len(sess) : sess'[i] = sess[i]
      /\ sess'[Len(sess) + 1] = new
  BY SessionFacts, AppendProperties DEF ServerOK, AuthTypeOK
<1>2. DOMAIN sess' = 1 .. Len(sess) + 1
  BY <1>1, LenProperties
<1>3. new.parent \in Nat
  BY DEF Session
<1> QED
  BY <1>1, <1>2, <1>3

LEMMA RefreshIssueType ==
    ASSUME ServerOK, NEW w \in Workers, RefreshIssue(w)
    PROVE  /\ ServerOK' /\ Len(sess') = Len(sess) + 1
           /\ \A s \in DOMAIN sess : sess'[s] = sess[s]
           /\ Live(Len(sess))'
           /\ ~Idle(w) /\ Idle(w)' /\ NoNewWork
<1> DEFINE new == NewSession(w)
<1>1. req[w] \in Request /\ req[w].sess <= Len(sess) /\ req[w].pc = "refreshIssue"
  BY DEF ServerOK, AuthTypeOK, RefreshIssue, At
<1>2. new \in Session /\ new.parent = req[w].sess /\ new.status = "live"
  BY <1>1 DEF NewSession, Session, Request
<1>3. sess' = Append(sess, new) /\ UNCHANGED <<user, made, kept, mixed>> /\ req' = Finish(w)
  BY DEF RefreshIssue, Issue
<1> HIDE DEF new
<1>4. /\ sess' \in Seq(Session) /\ Len(sess') = Len(sess) + 1
      /\ DOMAIN sess \subseteq DOMAIN sess'
      /\ \A s \in DOMAIN sess : sess'[s] = sess[s]
      /\ sess'[Len(sess')] = new
      /\ \A s \in DOMAIN sess' \ DOMAIN sess : sess'[s].parent < s
  BY <1>1, <1>2, <1>3, AppendedType
<1>5. PICK n \in Nat : n = Len(sess)
  BY SessionFacts DEF ServerOK
<1>6. /\ req' = [req EXCEPT ![w] = Arrived(SomeUser)]
      /\ req' \in [Workers -> Request] /\ req'[w].pc = "idle" /\ req'[w].sess = 0
      /\ \A v \in Workers \ {w} : req'[v] = req[v]
  BY <1>3, IdleRequest DEF Finish, ServerOK, AuthTypeOK
<1>7. \A v \in Workers : req'[v].pc \in RefreshPcs /\ req'[v].sess <= n + 1
  <2>1. ASSUME NEW v \in Workers, v # w PROVE req[v].sess \in Nat /\ req[v].sess <= n
    BY <1>5 DEF ServerOK, AuthTypeOK, Request
  <2> QED
    BY <1>5, <1>6, <2>1 DEF ServerOK, RefreshPcs
<1>8. ServerOK'
  BY <1>3, <1>4, <1>5, <1>6, <1>7, ServerFrame DEF ServerOK, AuthTypeOK
<1>9. Live(Len(sess))'
  BY <1>2, <1>4 DEF Live
<1>10. NoNewWork
  BY <1>6 DEF NoNewWork, Idle
<1> QED
  BY <1>1, <1>4, <1>6, <1>8, <1>9, <1>10 DEF Idle

LEMMA AbortType ==
    ASSUME ServerOK, NEW w \in Workers, AbortRequest(w)
    PROVE  ServerOK' /\ UNCHANGED sess /\ Idle(w)' /\ NoNewWork
<1>1. /\ req' = [req EXCEPT ![w] = Arrived(SomeUser)] /\ UNCHANGED <<user, sess, made, kept>>
      /\ mixed' \in [Users -> BOOLEAN]
  BY DEF AbortRequest, Finish, ServerOK, AuthTypeOK
<1>2. Len(sess) \in Nat
  BY SessionFacts DEF ServerOK
<1>3. ServerOK'
  <2>1. Arrived(SomeUser).pc \in RefreshPcs /\ Arrived(SomeUser).sess <= Len(sess)
    BY <1>2, IdleRequest DEF RefreshPcs
  <2> QED
    BY <1>1, <2>1, IdleRequest, RequestType
<1>4. NoNewWork /\ Idle(w)'
  BY <1>1, IdleRequest DEF NoNewWork, Idle, ServerOK, AuthTypeOK
<1> QED
  BY <1>1, <1>3, <1>4

-----------------------------------------------------------------------------
(***************************************************************************)
(* Types: the phone                                                        *)
(***************************************************************************)

FlightState == [pc : {"none", "begun", "sent"}, token : Nat,
                worker : Workers \union {NoWorker},
                answer : {"none", "ok", "refused", "error"}, new : Nat]
LogoutState == [pc : {"none", "post", "waiting", "postNew", "clear"}, token : Nat]
CallState == [Calls -> {"idle", "sent", "sentExpired", "waiting", "retried"}]

Tokens == {0} \union DOMAIN sess

\* What a step writes is of its type, and tokens are the server's.
PhoneWrites ==
    /\ phone' \in PhoneState /\ flight' \in FlightState
    /\ call' \in CallState /\ logout' \in LogoutState
    /\ torn' \in BOOLEAN /\ left' \in BOOLEAN
    /\ {phone'.stored, flight'.token, flight'.new, logout'.token} \subseteq Tokens'
    /\ FlightOK'

LEMMA PhoneFacts ==
    ASSUME TypeInv
    PROVE  /\ phone \in PhoneState /\ flight \in FlightState
           /\ call \in CallState /\ logout \in LogoutState
           /\ torn \in BOOLEAN /\ left \in BOOLEAN
           /\ {phone.stored, flight.token, flight.new, logout.token} \subseteq Tokens
           /\ FlightOK /\ ServerOK
BY DEF TypeInv, TypeOK, FlightState, LogoutState, CallState, Tokens

LEMMA PhoneFrame == ASSUME ServerOK', PhoneWrites PROVE TypeInv'
BY DEF PhoneWrites, ServerOK, TypeInv, TypeOK, FlightState, LogoutState, CallState, Tokens

LEMMA NoFlightType == NoFlight \in FlightState /\ NoFlight.token = 0 /\ NoFlight.new = 0
                      /\ NoFlight.pc = "none" /\ NoFlight.worker = NoWorker
                      /\ NoFlight.answer = "none"
BY DEF NoFlight, FlightState

LEMMA ClearTokensType ==
    ASSUME phone \in PhoneState
    PROVE  /\ ClearTokens \in PhoneState /\ ClearTokens.stored = 0 /\ ~ClearTokens.saved
           /\ ClearTokens.access = "none"
           /\ ClearTokens.screen = phone.screen /\ ClearTokens.task = phone.task
BY DEF ClearTokens, PhoneState

LEMMA JoinedType ==
    ASSUME TypeInv
    PROVE  /\ Joined \in FlightState /\ Joined.pc # "none"
           /\ Joined.pc = IF flight.pc = "none" THEN "begun" ELSE flight.pc
           /\ flight.pc # "none" => Joined = flight
           /\ flight.pc = "none" => Joined.token = 0 /\ Joined.new = 0
                                    /\ Joined.worker = NoWorker /\ Joined.answer = "none"
<1>1. flight \in FlightState
  BY PhoneFacts
<1>2. [NoFlight EXCEPT !.pc = "begun"] =
        [pc |-> "begun", token |-> 0, worker |-> NoWorker, answer |-> "none", new |-> 0]
  BY DEF NoFlight
<1> QED
  BY <1>1, <1>2 DEF Joined, FlightState

\* A refresh that a caller joins, or begins.
LEMMA JoinedKeeps ==
    ASSUME TypeInv, ServerIdle, flight' = Joined
    PROVE  /\ flight' \in FlightState /\ FlightOK'
           /\ {flight'.token, flight'.new} \subseteq Tokens'
BY JoinedType, PhoneFacts DEF FlightOK, Tokens, ServerIdle

LEMMA LogoutGoesOnType ==
    ASSUME TypeInv, NEW pc \in {"postNew", "clear"}, NEW token \in Tokens
    PROVE  /\ LogoutGoesOn(pc, token) \in LogoutState
           /\ LogoutGoesOn(pc, token).token \in Tokens
           /\ LogoutGoesOn(pc, token) = logout
              \/ /\ logout.pc = "waiting"
                 /\ LogoutGoesOn(pc, token).pc = pc /\ LogoutGoesOn(pc, token).token = token
<1>1. logout \in LogoutState /\ logout.token \in Tokens
  BY PhoneFacts
<1>2. token \in Nat
  BY SessionFacts, PhoneFacts DEF Tokens, ServerOK
<1> QED
  BY <1>1, <1>2 DEF LogoutGoesOn, LogoutState

LEMMA FlightSendType == ASSUME TypeInv, FlightSend PROVE TypeInv'
<1>1. ServerOK'
  BY PhoneFacts, ServerQuiet DEF FlightSend
<1>2. phone.stored \in Nat /\ phone.stored \in Tokens /\ flight \in FlightState
  BY PhoneFacts DEF PhoneState
<1>3. flight' = [flight EXCEPT !.pc = "sent", !.token = phone.stored]
  BY DEF FlightSend
<1>4. /\ flight' \in FlightState /\ flight'.token = phone.stored /\ flight'.new = flight.new
      /\ flight'.pc = "sent" /\ flight'.worker = flight.worker /\ flight'.answer = flight.answer
  BY <1>2, <1>3 DEF FlightState
<1>5. FlightOK'
  BY <1>4, PhoneFacts DEF FlightOK, FlightSend
<1>6. Tokens' = Tokens /\ UNCHANGED <<phone, call, logout, torn, left>>
  BY DEF FlightSend, ServerIdle, Tokens
<1>7. PhoneWrites
  BY <1>2, <1>4, <1>5, <1>6, PhoneFacts DEF PhoneWrites
<1> QED
  BY <1>1, <1>7, PhoneFrame

\* The end of a refresh without an answer.
LEMMA FlightFailsType == ASSUME TypeInv, FlightFails PROVE TypeInv'
<1>1. ServerOK'
  BY PhoneFacts, ServerQuiet DEF FlightFails
<1>2. phone \in PhoneState /\ phone.stored \in Tokens
  BY PhoneFacts
<1>3. phone' \in PhoneState /\ phone'.stored = phone.stored
  BY <1>2 DEF FlightFails, PhoneState
<1>4. call' \in CallState
  BY PhoneFacts DEF FlightFails, Rejected, CallState
<1>5. 0 \in Tokens /\ Tokens' = Tokens
  BY DEF Tokens, FlightFails, ServerIdle
<1>6. logout' \in LogoutState /\ logout'.token \in Tokens
  BY <1>5, LogoutGoesOnType DEF FlightFails
<1>7. torn' \in BOOLEAN /\ left' \in BOOLEAN
  BY PhoneFacts DEF FlightFails
<1>8. FlightOK' /\ flight' \in FlightState /\ flight'.token = 0 /\ flight'.new = 0
  BY NoFlightType DEF FlightOK, FlightFails
<1>9. PhoneWrites
  BY <1>2, <1>3, <1>4, <1>5, <1>6, <1>7, <1>8 DEF PhoneWrites
<1> QED
  BY <1>1, <1>9, PhoneFrame

LEMMA FlightSucceedsType == ASSUME TypeInv, FlightSucceeds PROVE TypeInv'
<1>1. ServerOK'
  BY PhoneFacts, ServerQuiet DEF FlightSucceeds
<1>2. phone \in PhoneState /\ flight \in FlightState /\ flight.new \in Nat /\ flight.new \in Tokens
  BY PhoneFacts DEF FlightState
<1>3. 0 \in Tokens /\ Tokens' = Tokens
  BY DEF Tokens, FlightSucceeds, ServerIdle
<1>4. phone' \in PhoneState /\ phone'.stored \in Tokens
  <2>1. CASE phone' = Cleared
    BY <1>3, <2>1 DEF Cleared, PhoneState
  <2>2. CASE phone' # Cleared
    BY <1>2, <2>2 DEF FlightSucceeds, PhoneState
  <2> QED
    BY <2>1, <2>2
<1>5. call' \in CallState
  BY PhoneFacts DEF FlightSucceeds, CallState
<1>6. logout' \in LogoutState /\ logout'.token \in Tokens
  BY <1>2, LogoutGoesOnType DEF FlightSucceeds
<1>7. torn' \in BOOLEAN /\ left' \in BOOLEAN
  BY PhoneFacts DEF FlightSucceeds
<1>8. FlightOK' /\ flight' \in FlightState /\ flight'.token = 0 /\ flight'.new = 0
  BY NoFlightType DEF FlightOK, FlightSucceeds
<1>9. PhoneWrites
  BY <1>3, <1>4, <1>5, <1>6, <1>7, <1>8 DEF PhoneWrites
<1> QED
  BY <1>1, <1>9, PhoneFrame

LEMMA FlightRefusedType == ASSUME TypeInv, FlightRefused PROVE TypeInv'
<1>1. ServerOK'
  BY PhoneFacts, ServerQuiet DEF FlightRefused
<1>2. ClearTokens \in PhoneState /\ ClearTokens.stored = 0
  BY PhoneFacts, ClearTokensType
<1>3. 0 \in Tokens /\ Tokens' = Tokens
  BY DEF Tokens, FlightRefused, ServerIdle
<1>4. phone' \in PhoneState /\ phone'.stored = 0
  BY <1>2 DEF FlightRefused, PhoneState
<1>5. call' \in CallState
  BY PhoneFacts DEF FlightRefused, Rejected, CallState
<1>6. logout' \in LogoutState /\ logout'.token \in Tokens
  BY <1>3, LogoutGoesOnType DEF FlightRefused
<1>7. torn' \in BOOLEAN /\ left' \in BOOLEAN
  BY PhoneFacts DEF FlightRefused
<1>8. FlightOK' /\ flight' \in FlightState /\ flight'.token = 0 /\ flight'.new = 0
  BY NoFlightType DEF FlightOK, FlightRefused
<1>9. PhoneWrites
  BY <1>3, <1>4, <1>5, <1>6, <1>7, <1>8 DEF PhoneWrites
<1> QED
  BY <1>1, <1>9, PhoneFrame

\* The server's answer reaches the flight it was served for.
LEMMA AnswerType ==
    ASSUME TypeInv, NEW a \in {"ok", "refused", "error"}, NEW n \in Nat,
           flight.pc = "sent"
    PROVE  /\ Answer(a, n) \in FlightState
           /\ Answer(a, n).pc = "sent" /\ Answer(a, n).token = flight.token
           /\ Answer(a, n).worker = NoWorker /\ Answer(a, n).answer = a
           /\ Answer(a, n).new = n
BY PhoneFacts DEF Answer, FlightState

\* A worker that serves a flight serves one that was sent and not answered.
LEMMA ServedIsSent ==
    ASSUME TypeInv, NEW w \in Workers, Serves(w)
    PROVE  flight.pc = "sent" /\ flight.answer = "none"
BY PhoneFacts, PhoneAssumption DEF FlightOK, Serves

\* A step of the server: the phone's variables stay, but for the flight.
LEMMA ServerStepFrame ==
    ASSUME TypeInv, ServerOK', DOMAIN sess \subseteq DOMAIN sess',
           UNCHANGED <<phone, call, logout, torn, left>>,
           \/ flight' = flight
           \/ /\ flight' \in FlightState /\ FlightOK'
              /\ {flight'.token, flight'.new} \subseteq Tokens'
    PROVE  TypeInv'
<1>1. Tokens \subseteq Tokens'
  BY DEF Tokens
<1>2. /\ flight' \in FlightState /\ FlightOK'
      /\ {flight'.token, flight'.new} \subseteq Tokens'
  BY <1>1, PhoneFacts DEF FlightOK
<1>3. PhoneWrites
  BY <1>1, <1>2, PhoneFacts DEF PhoneWrites
<1> QED
  BY <1>3, PhoneFrame

LEMMA ServerRefusesType == ASSUME TypeInv, ServerRefuses PROVE TypeInv'
<1>1. ServerOK' /\ UNCHANGED sess
  BY PhoneFacts, ServerQuiet DEF ServerRefuses, ServerIdle
<1>2. /\ flight' \in FlightState /\ flight'.token = flight.token /\ flight'.new = 0
      /\ flight'.worker = NoWorker /\ flight'.pc = "sent"
  BY AnswerType DEF ServerRefuses
<1>3. FlightOK'
  BY <1>2, PhoneFacts DEF FlightOK, ServerRefuses
<1>4. {flight'.token, flight'.new} \subseteq Tokens'
  BY <1>1, <1>2, PhoneFacts DEF Tokens
<1> QED
  BY <1>1, <1>2, <1>3, <1>4, ServerStepFrame DEF ServerRefuses

LEMMA ServerBeginsFacts ==
    ASSUME TypeInv, NEW w \in Workers, ServerBegins(w)
    PROVE  /\ ServerOK' /\ UNCHANGED sess
           /\ ~Idle(w)' /\ req'[w].sess = flight.token
           /\ \A v \in Workers \ {w} : req'[v] = req[v]
<1>1. flight.token \in Tokens /\ flight.token # 0
  BY PhoneFacts DEF FlightOK, ServerBegins
<1>2. flight.token \in Nat /\ flight.token <= Len(sess)
  BY <1>1, PhoneFacts, SessionFacts DEF Tokens, ServerOK
<1> QED
  BY <1>1, <1>2, PhoneFacts, ServerBeginsType DEF ServerBegins

LEMMA ServerBeginsTypeInv ==
    ASSUME TypeInv, NEW w \in Workers, ServerBegins(w)
    PROVE  TypeInv'
<1>1. ServerOK' /\ UNCHANGED sess
  BY ServerBeginsFacts
<1>2. flight \in FlightState
  BY PhoneFacts
<1>3. /\ flight' \in FlightState /\ flight'.token = flight.token /\ flight'.new = flight.new
      /\ flight'.pc = flight.pc /\ flight'.answer = flight.answer
  BY <1>2 DEF ServerBegins, FlightState
<1>4. FlightOK'
  BY <1>3, PhoneFacts DEF FlightOK, ServerBegins
<1>5. {flight'.token, flight'.new} \subseteq Tokens'
  BY <1>1, <1>3, PhoneFacts DEF Tokens
<1> QED
  BY <1>1, <1>3, <1>4, <1>5, ServerStepFrame DEF ServerBegins

LEMMA ServerGoesOnTypeInv ==
    ASSUME TypeInv, NEW w \in Workers, ServerGoesOn(w)
    PROVE  TypeInv'
<1>1. ServerOK' /\ Len(sess') = Len(sess)
  BY PhoneFacts, RefreshUserType, RefreshRevokeType DEF ServerGoesOn
<1>2. DOMAIN sess' = DOMAIN sess
  BY <1>1, PhoneFacts, SessionFacts DEF ServerOK
<1> QED
  BY <1>1, <1>2, ServerStepFrame DEF ServerGoesOn, phoneVars

LEMMA ServerIssuesTypeInv ==
    ASSUME TypeInv, NEW w \in Workers, ServerIssues(w)
    PROVE  TypeInv'
<1>1. ServerOK' /\ Len(sess') = Len(sess) + 1
  BY PhoneFacts, RefreshIssueType DEF ServerIssues
<1>2. PICK n \in Nat : n = Len(sess)
  BY PhoneFacts, SessionFacts DEF ServerOK
<1>3. DOMAIN sess = 1 .. n /\ DOMAIN sess' = 1 .. n + 1 /\ Len(sess') = n + 1
  BY <1>1, <1>2, PhoneFacts, SessionFacts DEF ServerOK
<1>4. DOMAIN sess \subseteq DOMAIN sess'
  BY <1>3
<1>5. CASE Serves(w)
  <2>1. flight.pc = "sent"
    BY <1>5, ServedIsSent
  <2>2. flight' = Answer("ok", n + 1)
    BY <1>3, <1>5 DEF ServerIssues
  <2>3. /\ flight' \in FlightState /\ flight'.token = flight.token /\ flight'.new = n + 1
        /\ flight'.worker = NoWorker /\ flight'.pc = "sent"
    BY <2>1, <2>2, AnswerType
  <2>4. FlightOK'
    BY <2>1, <2>3, PhoneFacts DEF FlightOK
  <2>5. {flight'.token, flight'.new} \subseteq Tokens'
    BY <1>3, <1>4, <2>3, PhoneFacts DEF Tokens
  <2> QED
    BY <1>1, <1>4, <2>3, <2>4, <2>5, ServerStepFrame DEF ServerIssues
<1>6. CASE ~Serves(w)
  BY <1>1, <1>4, <1>6, ServerStepFrame DEF ServerIssues
<1> QED
  BY <1>5, <1>6

LEMMA ServerFailsTypeInv ==
    ASSUME TypeInv, NEW w \in Workers, ServerFails(w)
    PROVE  TypeInv'
<1>1. ServerOK' /\ UNCHANGED sess
  BY PhoneFacts, AbortType DEF ServerFails
<1>2. CASE Serves(w)
  <2>1. flight.pc = "sent"
    BY <1>2, ServedIsSent
  <2>2. PICK a \in {"refused", "error"} : flight' = Answer(a, 0)
    BY <1>2 DEF ServerFails
  <2>3. /\ flight' \in FlightState /\ flight'.token = flight.token /\ flight'.new = 0
        /\ flight'.worker = NoWorker /\ flight'.pc = "sent"
    BY <2>1, <2>2, AnswerType
  <2>4. FlightOK'
    BY <2>1, <2>3, PhoneFacts DEF FlightOK
  <2>5. {flight'.token, flight'.new} \subseteq Tokens'
    BY <1>1, <2>3, PhoneFacts DEF Tokens
  <2> QED
    BY <1>1, <2>3, <2>4, <2>5, ServerStepFrame DEF ServerFails
<1>3. CASE ~Serves(w)
  BY <1>1, <1>3, ServerStepFrame DEF ServerFails
<1> QED
  BY <1>2, <1>3

LEMMA ElsewhereFacts ==
    ASSUME TypeInv, Elsewhere
    PROVE  /\ ServerOK' /\ Len(sess') = Len(sess) /\ NoNewWork
           /\ torn' \/ (UNCHANGED sess /\ torn' = torn)
<1>1. CASE LogoutAll(Owner) /\ torn' = TRUE
  <2>1. ServerOK' /\ Len(sess') = Len(sess) /\ NoNewWork
    BY <1>1, PhoneFacts, PhoneAssumption, LogoutAllType
  <2>2. torn'
    BY <1>1
  <2> QED
    BY <2>1, <2>2
<1>2. CASE SetActiveStatus(Owner, FALSE) /\ torn' = torn
  BY <1>2, PhoneFacts, PhoneAssumption, SetActiveStatusType DEF NoNewWork, Idle
<1> QED
  BY <1>1, <1>2 DEF Elsewhere

LEMMA ElsewhereTypeInv == ASSUME TypeInv, Elsewhere PROVE TypeInv'
<1>1. ServerOK' /\ Len(sess') = Len(sess)
  BY ElsewhereFacts
<1>2. Tokens' = Tokens
  BY <1>1, PhoneFacts, SessionFacts DEF ServerOK, Tokens
<1>3. torn' \in BOOLEAN /\ UNCHANGED <<phone, flight, call, logout, left>>
  BY PhoneFacts DEF Elsewhere
<1>4. PhoneWrites
  BY <1>2, <1>3, PhoneFacts DEF PhoneWrites, FlightOK
<1> QED
  BY <1>1, <1>4, PhoneFrame

\* The application's calls and the logout: no table is written, and the tokens
\* stay or are the stored one.
LEMMA QuietFrame ==
    ASSUME TypeInv, ServerIdle, phone' \in PhoneState, phone'.stored \in Tokens,
           \/ flight' = flight
           \/ flight' = Joined
           \/ flight' = NoFlight,
           call' \in CallState, logout' \in LogoutState, logout'.token \in Tokens,
           torn' \in BOOLEAN, left' \in BOOLEAN
    PROVE  TypeInv'
<1>1. ServerOK'
  BY PhoneFacts, ServerQuiet
<1>2. Tokens' = Tokens /\ 0 \in Tokens
  BY DEF ServerIdle, Tokens
<1>3. /\ flight' \in FlightState /\ FlightOK'
      /\ {flight'.token, flight'.new} \subseteq Tokens'
  <2>1. CASE flight' = flight
    BY <1>2, <2>1, PhoneFacts DEF FlightOK
  <2>2. CASE flight' = Joined
    BY <2>2, JoinedKeeps
  <2>3. CASE flight' = NoFlight
    BY <1>2, <2>3, NoFlightType DEF FlightOK
  <2> QED
    BY <2>1, <2>2, <2>3
<1>4. PhoneWrites
  BY <1>2, <1>3 DEF PhoneWrites
<1> QED
  BY <1>1, <1>4, PhoneFrame

LEMMA CallTypeInv ==
    ASSUME TypeInv, NEW c \in Calls,
           CallSend(c) \/ CallUnauthorized(c) \/ CallEnds(c)
    PROVE  TypeInv'
<1>1. call' \in CallState
  BY PhoneFacts DEF CallSend, CallUnauthorized, CallEnds, CallState
<1>2. /\ ServerIdle /\ UNCHANGED <<phone, logout, torn, left>>
      /\ flight' = flight \/ flight' = Joined
  BY DEF CallSend, CallUnauthorized, CallEnds
<1> QED
  BY <1>1, <1>2, QuietFrame, PhoneFacts

LEMMA AccessExpiresTypeInv == ASSUME TypeInv, AccessExpires PROVE TypeInv'
<1>1. call' \in CallState
  BY PhoneFacts DEF AccessExpires, CallState
<1>2. phone' \in PhoneState /\ phone'.stored = phone.stored
  BY PhoneFacts DEF AccessExpires, PhoneState
<1> QED
  BY <1>1, <1>2, QuietFrame, PhoneFacts DEF AccessExpires

\* A session is opened for the owner.
LEMMA LoginFacts ==
    ASSUME TypeInv, Login
    PROVE  /\ ServerOK' /\ Len(sess') = Len(sess) + 1
           /\ DOMAIN sess \subseteq DOMAIN sess'
           /\ Len(sess') \in DOMAIN sess' /\ Len(sess') \in Nat
           /\ \A s \in DOMAIN sess : sess'[s] = sess[s]
           /\ Live(Len(sess))'
<1> DEFINE new == [user |-> Owner, status |-> "live", parent |-> 0,
                   pass |-> user[Owner].pass, late |-> FALSE]
<1>1. new \in Session /\ new.parent = 0 /\ new.status = "live"
  BY PhoneFacts, PhoneAssumption DEF Session, ServerOK, AuthTypeOK, Account
<1>2. sess' = Append(sess, new) /\ UNCHANGED <<user, req, made, kept, mixed>>
  BY DEF Login
<1> HIDE DEF new
<1>3. PICK n \in Nat : n = Len(sess)
  BY PhoneFacts, SessionFacts DEF ServerOK
<1>4. /\ sess' \in Seq(Session) /\ Len(sess') = n + 1
      /\ DOMAIN sess \subseteq DOMAIN sess'
      /\ \A s \in DOMAIN sess : sess'[s] = sess[s]
      /\ sess'[Len(sess')] = new
      /\ \A s \in DOMAIN sess' \ DOMAIN sess : sess'[s].parent < s
  BY <1>1, <1>2, <1>3, PhoneFacts, AppendedType
<1>5. \A w \in Workers : req'[w].pc \in RefreshPcs /\ req'[w].sess <= n + 1
  BY <1>2, <1>3, PhoneFacts DEF ServerOK, AuthTypeOK, Request
<1>6. ServerOK'
  BY <1>2, <1>3, <1>4, <1>5, PhoneFacts, ServerFrame DEF ServerOK, AuthTypeOK
<1>7. Len(sess') \in DOMAIN sess'
  BY <1>3, <1>4, LenProperties
<1> QED
  BY <1>1, <1>3, <1>4, <1>6, <1>7 DEF Live

LEMMA LoginTypeInv == ASSUME TypeInv, Login PROVE TypeInv'
<1>1. /\ ServerOK' /\ DOMAIN sess \subseteq DOMAIN sess'
      /\ Len(sess') \in DOMAIN sess' /\ Len(sess') \in Nat
  BY LoginFacts
<1>2. Tokens \subseteq Tokens'
  BY <1>1 DEF Tokens
<1>3. phone' \in PhoneState /\ phone'.stored = Len(sess')
  BY <1>1, PhoneFacts DEF Login, PhoneState
<1>4. phone'.stored \in Tokens'
  BY <1>1, <1>3 DEF Tokens
<1>5. UNCHANGED <<flight, call, logout>> /\ torn' \in BOOLEAN /\ left' \in BOOLEAN
  BY DEF Login
<1>6. PhoneWrites
  BY <1>2, <1>3, <1>4, <1>5, PhoneFacts DEF PhoneWrites, FlightOK
<1> QED
  BY <1>1, <1>6, PhoneFrame

LEMMA LoginEndsTypeInv == ASSUME TypeInv, LoginShown \/ LoginBarred PROVE TypeInv'
<1>1. phone' \in PhoneState /\ phone'.stored = phone.stored
  BY PhoneFacts DEF LoginShown, LoginBarred, PhoneState
<1>2. logout' \in LogoutState /\ logout'.token \in Tokens
  BY PhoneFacts DEF LoginShown, LoginBarred, PhoneState, LogoutState
<1> QED
  BY <1>1, <1>2, QuietFrame, PhoneFacts DEF LoginShown, LoginBarred

LEMMA LogoutTypeInv ==
    ASSUME TypeInv, Logout \/ LogoutUnauthorized \/ LogoutUnheard
    PROVE  TypeInv'
<1>1. logout' \in LogoutState /\ logout'.token \in {0, phone.stored, logout.token}
  BY PhoneFacts DEF Logout, LogoutUnauthorized, LogoutUnheard, PhoneState, LogoutState, NoLogout
<1>2. 0 \in Tokens
  BY DEF Tokens
<1>3. logout'.token \in Tokens
  BY <1>1, <1>2, PhoneFacts
<1>4. /\ ServerIdle /\ UNCHANGED <<phone, call, torn, left>>
      /\ flight' = flight \/ flight' = Joined
  BY DEF Logout, LogoutUnauthorized, LogoutUnheard
<1> QED
  BY <1>1, <1>3, <1>4, QuietFrame, PhoneFacts

\* The token a posted logout revokes.
LEMMA LogoutPostedFacts ==
    ASSUME TypeInv, LogoutPosted
    PROVE  ServerOK' /\ Len(sess') = Len(sess) /\ OnlyEnds(logout.token) /\ NoNewWork
<1>1. CASE ServerIdle
  BY <1>1, PhoneFacts, ServerQuiet DEF ServerIdle, OnlyEnds, NoNewWork, Live, Idle
<1>2. CASE LogoutSession(logout.token)
  <2>1. logout.token \in Nat
    BY PhoneFacts DEF LogoutState
  <2> QED
    BY <1>2, <2>1, PhoneFacts, LogoutSessionType
<1> QED
  BY <1>1, <1>2 DEF LogoutPosted

LEMMA LogoutPostedTypeInv == ASSUME TypeInv, LogoutPosted PROVE TypeInv'
<1>1. ServerOK' /\ Len(sess') = Len(sess)
  BY LogoutPostedFacts
<1>2. Tokens' = Tokens /\ 0 \in Tokens
  BY <1>1, PhoneFacts, SessionFacts DEF ServerOK, Tokens
<1>3. UNCHANGED <<phone, flight, call, torn, left>>
  BY DEF LogoutPosted
<1>4. logout' \in LogoutState /\ logout'.token = 0
  BY DEF LogoutPosted, NoLogout, LogoutState
<1>5. PhoneWrites
  BY <1>2, <1>3, <1>4, PhoneFacts DEF PhoneWrites, FlightOK
<1> QED
  BY <1>1, <1>5, PhoneFrame

LEMMA LogoutClearTypeInv == ASSUME TypeInv, LogoutClear PROVE TypeInv'
<1>1. 0 \in Tokens
  BY DEF Tokens
<1>2. phone' \in PhoneState /\ phone'.stored = 0
  BY PhoneFacts, ClearTokensType DEF LogoutClear, PhoneState
<1>3. logout' \in LogoutState /\ logout'.token = 0
  BY DEF LogoutClear, NoLogout, LogoutState
<1>4. torn' \in BOOLEAN /\ left' \in BOOLEAN
  BY PhoneFacts DEF LogoutClear
<1> QED
  BY <1>1, <1>2, <1>3, <1>4, QuietFrame, PhoneFacts DEF LogoutClear

LEMMA KillTypeInv == ASSUME TypeInv, Kill PROVE TypeInv'
<1>1. 0 \in Tokens
  BY DEF Tokens
<1>2. phone' \in PhoneState /\ phone'.stored = phone.stored
  BY PhoneFacts DEF Kill, PhoneState
<1>3. logout' \in LogoutState /\ logout'.token = 0
  BY DEF Kill, NoLogout, LogoutState
<1>4. call' \in CallState /\ torn' \in BOOLEAN /\ left' \in BOOLEAN
  BY PhoneFacts DEF Kill, CallState
<1> QED
  BY <1>1, <1>2, <1>3, <1>4, QuietFrame, PhoneFacts DEF Kill

LEMMA RestoreTypeInv == ASSUME TypeInv, Restore PROVE TypeInv'
<1>1. phone' \in PhoneState /\ phone'.stored = phone.stored
  BY PhoneFacts DEF Restore, PhoneState
<1>2. flight' = flight \/ flight' = Joined
  BY DEF Restore
<1> QED
  BY <1>1, <1>2, QuietFrame, PhoneFacts DEF Restore

LEMMA InitTypeInv == ASSUME Init PROVE TypeInv
<1>1. /\ sess = <<>> /\ req = [w \in Workers |-> Arrived(SomeUser)] /\ made = 1
      /\ kept = [u \in Users |-> {}] /\ mixed = [u \in Users |-> FALSE]
  BY DEF Init, AuthInit
<1>2. user \in [Users -> Account] /\ \A u \in Users : user[u].exists
  <2>1. ASSUME NEW u \in Users PROVE user[u] \in Account /\ user[u].exists
    <3>1. PICK b \in BOOLEAN, r \in Roles :
            user[u] = [exists |-> TRUE, active |-> TRUE, pass |-> 1,
                       mustChange |-> b, roles |-> {r}]
      BY DEF Init, AuthInit
    <3> QED
      BY <3>1 DEF Account
  <2>2. user = [u \in Users |-> user[u]]
    BY DEF Init, AuthInit
  <2> QED
    BY <2>1, <2>2
<1>3. sess \in Seq(Session) /\ Len(sess) = 0 /\ DOMAIN sess = {}
  BY <1>1, EmptySeq
<1>4. \A w \in Workers : req[w] \in Request /\ req[w].pc = "idle" /\ req[w].sess = 0
  BY <1>1, IdleRequest
<1>5. req \in [Workers -> Request]
  BY <1>1, IdleRequest
<1>6. ServerOK
  BY <1>1, <1>2, <1>3, <1>4, <1>5 DEF ServerOK, AuthTypeOK, RefreshPcs
<1>7. phone \in PhoneState /\ phone.stored = 0
  BY DEF Init, Cleared, PhoneState
<1>8. flight \in FlightState /\ flight.token = 0 /\ flight.new = 0 /\ FlightOK
  BY NoFlightType DEF Init, FlightOK
<1>9. /\ call \in CallState /\ logout \in LogoutState /\ logout.token = 0
      /\ torn \in BOOLEAN /\ left \in BOOLEAN
  BY DEF Init, CallState, LogoutState, NoLogout
<1> QED
  BY <1>6, <1>7, <1>8, <1>9
     DEF TypeInv, TypeOK, ServerOK, FlightState, LogoutState, CallState

LEMMA NextTypeInv == ASSUME TypeInv, [Next]_vars PROVE TypeInv'
<1>1. CASE FlightStep
  <2>1. FlightFails => TypeInv'
    BY FlightFailsType
  <2> QED
    BY <1>1, <2>1, FlightSendType, FlightSucceedsType, FlightRefusedType
       DEF FlightStep, FlightNoToken, FlightTimesOut
<1>2. CASE ServerRefuses \/ Elsewhere
  BY <1>2, ServerRefusesType, ElsewhereTypeInv
<1>3. CASE LogoutStep
  BY <1>3, LogoutPostedTypeInv, LogoutTypeInv, LogoutClearTypeInv DEF LogoutStep
<1>4. ASSUME NEW w \in Workers, ServerStep(w) PROVE TypeInv'
  BY <1>4, ServerBeginsTypeInv, ServerGoesOnTypeInv, ServerIssuesTypeInv,
     ServerFailsTypeInv DEF ServerStep
<1>5. ASSUME NEW c \in Calls, CallSend(c) \/ CallUnauthorized(c) \/ CallEnds(c)
      PROVE  TypeInv'
  BY <1>5, CallTypeInv
<1>6. CASE AccessExpires \/ Login \/ LoginShown \/ LoginBarred \/ Logout \/ Kill \/ Restore
  BY <1>6, AccessExpiresTypeInv, LoginTypeInv, LoginEndsTypeInv, LogoutTypeInv,
     KillTypeInv, RestoreTypeInv
<1>7. CASE UNCHANGED vars
  BY <1>7 DEF vars, TypeInv, TypeOK, ServerOK, AuthTypeOK, FlightOK
<1> QED
  BY <1>1, <1>2, <1>3, <1>4, <1>5, <1>6, <1>7 DEF Next

\* Every variable of the phone and of the service behind it keeps its type, and
\* the phone only ever stores and presents tokens the server has issued.
THEOREM TypeCorrect == Spec => []TypeOK
<1>1. TypeInv => TypeOK
  BY DEF TypeInv
<1>2. Spec => []TypeInv
  BY InitTypeInv, NextTypeInv, PTL DEF Spec
<1> QED
  BY <1>1, <1>2, PTL

-----------------------------------------------------------------------------
(***************************************************************************)
(* Logging out                                                             *)
(***************************************************************************)

LEMMA FlightTasks ==
    ASSUME LogoutInv, FlightStep
    PROVE  Tasks' /\ SignedOut'
<1>1. phone \in PhoneState /\ flight \in FlightState /\ logout \in LogoutState /\ FlightOK
  BY PhoneFacts DEF LogoutInv
<1>2. CASE FlightSend
  BY <1>1, <1>2 DEF FlightSend, LogoutInv, Tasks, SignedOut, PhoneState, FlightState
<1>3. CASE FlightFails
  <2>1. /\ phone'.task = IF phone.task = "restore" THEN "none" ELSE phone.task
        /\ phone'.screen = IF phone.task = "restore" /\ ~phone.saved THEN "out" ELSE phone.screen
        /\ phone'.stored = phone.stored /\ phone'.saved = phone.saved
    BY <1>1, <1>3 DEF FlightFails, PhoneState
  <2>2. flight'.pc = "none" /\ left' = left /\ (~torn' => ~torn)
    BY <1>3, NoFlightType DEF FlightFails
  <2>3. logout.pc = "none" => logout'.pc = "none"
    BY <1>3 DEF FlightFails, LogoutGoesOn
  <2>4. Tasks'
    BY <1>1, <2>1, <2>2, <2>3 DEF LogoutInv, Tasks, PhoneState
  <2>5. SignedOut'
    BY <1>1, <2>1, <2>2, <2>3 DEF LogoutInv, SignedOut, PhoneState
  <2> QED
    BY <2>4, <2>5
<1>4. CASE FlightSucceeds
  <2>2. flight.pc = "sent"
    BY <1>1, <1>4 DEF FlightSucceeds, FlightOK
  <2>3. ~(left /\ ~torn)
    BY <2>2 DEF LogoutInv, SignedOut
  <2>4. SignedOut'
    BY <1>4, <2>3 DEF FlightSucceeds, SignedOut
  <2>5. CASE phone' = Cleared
    <3>1. phone'.task = "none"
      BY <2>5 DEF Cleared
    <3> QED
      BY <2>4, <3>1 DEF Tasks
  <2>6. CASE phone' # Cleared
    <3>1. /\ phone'.task = IF phone.task = "restore" THEN "none" ELSE phone.task
          /\ phone'.screen = IF phone.task = "restore" THEN "in" ELSE phone.screen
      BY <1>1, <1>4, <2>6 DEF FlightSucceeds, PhoneState
    <3>2. logout.pc = "none" => logout'.pc = "none"
      BY <1>4 DEF FlightSucceeds, LogoutGoesOn
    <3> QED
      BY <2>4, <3>1, <3>2 DEF Tasks, LogoutInv
  <2> QED
    BY <2>5, <2>6
<1>5. CASE FlightRefused
  <2>1. flight.pc = "sent"
    BY <1>1, <1>5 DEF FlightRefused, FlightOK
  <2>2. ~(left /\ ~torn)
    BY <2>1 DEF LogoutInv, SignedOut
  <2>3. SignedOut'
    BY <1>5, <2>2 DEF FlightRefused, SignedOut
  <2>4. phone'.task # "restore" /\ (phone'.task = "login" => phone.task = "login")
        /\ (phone'.screen = phone.screen \/ phone'.screen = "out")
    BY <1>1, <1>5, ClearTokensType DEF FlightRefused, PhoneState
  <2>5. logout.pc = "none" => logout'.pc = "none"
    BY <1>5 DEF FlightRefused, LogoutGoesOn
  <2> QED
    BY <2>3, <2>4, <2>5 DEF Tasks, LogoutInv
<1> QED
  BY <1>2, <1>3, <1>4, <1>5 DEF FlightStep, FlightNoToken, FlightTimesOut

\* The server's steps do not reach what the phone shows.
LEMMA ServerTasks ==
    ASSUME LogoutInv, UNCHANGED <<phone, logout, left>>,
           torn' = torn \/ torn',
           flight'.pc = flight.pc
    PROVE  Tasks' /\ SignedOut'
BY DEF LogoutInv, Tasks, SignedOut

LEMMA ServerStepTasks ==
    ASSUME LogoutInv,
           ServerRefuses \/ Elsewhere \/ \E w \in Workers : ServerStep(w)
    PROVE  Tasks' /\ SignedOut'
<1>1. CASE ServerRefuses
  <2>1. flight'.pc = flight.pc
    BY <1>1, AnswerType DEF ServerRefuses, LogoutInv
  <2> QED
    BY <1>1, <2>1, ServerTasks DEF ServerRefuses
<1>2. CASE Elsewhere
  BY <1>2, ServerTasks DEF Elsewhere
<1>3. ASSUME NEW w \in Workers, ServerStep(w)
      PROVE  Tasks' /\ SignedOut'
  <2>1. UNCHANGED <<phone, logout, torn, left>>
    BY <1>3 DEF ServerStep, ServerBegins, ServerGoesOn, ServerIssues, ServerFails, phoneVars
  <2>2. flight'.pc = flight.pc
    <3>1. flight \in FlightState
      BY PhoneFacts DEF LogoutInv
    <3>2. CASE ServerBegins(w)
      BY <3>1, <3>2 DEF ServerBegins, FlightState
    <3>3. CASE ServerGoesOn(w)
      BY <3>3 DEF ServerGoesOn, phoneVars
    <3>4. CASE ServerIssues(w)
      BY <3>1, <3>4 DEF ServerIssues, Answer, FlightState
    <3>5. CASE ServerFails(w)
      BY <3>1, <3>5 DEF ServerFails, Answer, FlightState
    <3> QED
      BY <1>3, <3>2, <3>3, <3>4, <3>5 DEF ServerStep
  <2> QED
    BY <2>1, <2>2, ServerTasks
<1> QED
  BY <1>1, <1>2, <1>3

LEMMA PhoneStepTasks ==
    ASSUME LogoutInv,
           \/ \E c \in Calls : CallSend(c) \/ CallUnauthorized(c) \/ CallEnds(c)
           \/ AccessExpires \/ Kill \/ Restore
    PROVE  Tasks' /\ SignedOut'
<1>1. /\ phone \in PhoneState /\ flight \in FlightState /\ logout \in LogoutState /\ FlightOK
      /\ Joined.pc = IF flight.pc = "none" THEN "begun" ELSE flight.pc
  BY PhoneFacts, JoinedType DEF LogoutInv
<1>2. ASSUME NEW c \in Calls, CallSend(c) \/ CallUnauthorized(c) \/ CallEnds(c)
      PROVE  Tasks' /\ SignedOut'
  <2>1. /\ UNCHANGED <<phone, logout, torn, left>>
        /\ flight' = flight \/ flight' = Joined
    BY <1>2 DEF CallSend, CallUnauthorized, CallEnds
  <2> QED
    BY <1>1, <2>1 DEF LogoutInv, Tasks, SignedOut
<1>3. CASE AccessExpires
  <2>1. /\ phone'.task = phone.task /\ phone'.screen = phone.screen
        /\ phone'.stored = phone.stored /\ phone'.saved = phone.saved
        /\ UNCHANGED <<flight, logout, torn, left>>
    BY <1>1, <1>3 DEF AccessExpires, PhoneState
  <2> QED
    BY <1>1, <2>1 DEF LogoutInv, Tasks, SignedOut, PhoneState
<1>4. CASE Kill
  <2>1. /\ phone'.task = "none" /\ phone'.screen = "loading"
        /\ phone'.stored = phone.stored /\ phone'.saved = phone.saved
    BY <1>1, <1>4 DEF Kill, PhoneState
  <2>2. flight'.pc = "none" /\ logout'.pc = "none" /\ left' = left /\ (~torn' => ~torn)
    BY <1>4, NoFlightType DEF Kill, NoLogout
  <2> QED
    BY <1>1, <2>1, <2>2 DEF LogoutInv, Tasks, SignedOut, PhoneState
<1>5. CASE Restore
  <2>1. CASE phone.stored = 0
    <3>1. /\ phone'.task = "none" /\ phone'.screen = "out"
          /\ phone'.stored = phone.stored /\ phone'.saved = phone.saved
          /\ UNCHANGED <<flight, logout, torn, left>>
      BY <1>1, <1>5, <2>1 DEF Restore, PhoneState
    <3> QED
      BY <1>1, <3>1 DEF LogoutInv, Tasks, SignedOut, PhoneState
  <2>2. CASE phone.stored # 0
    <3>1. /\ phone'.task = "restore" /\ flight' = Joined
          /\ UNCHANGED <<logout, torn, left>>
      BY <1>1, <1>5, <2>2 DEF Restore, PhoneState
    <3>2. ~(left /\ ~torn)
      BY <2>2 DEF LogoutInv, SignedOut
    <3> QED
      BY <1>1, <3>1, <3>2 DEF Tasks, SignedOut
  <2> QED
    BY <2>1, <2>2
<1> QED
  BY <1>2, <1>3, <1>4, <1>5

LEMMA LogTasks ==
    ASSUME LogoutInv,
           Login \/ LoginShown \/ LoginBarred \/ Logout \/ LogoutStep
    PROVE  Tasks' /\ SignedOut'
<1>1. /\ phone \in PhoneState /\ flight \in FlightState /\ logout \in LogoutState /\ FlightOK
      /\ Joined.pc = IF flight.pc = "none" THEN "begun" ELSE flight.pc
  BY PhoneFacts, JoinedType DEF LogoutInv
<1>2. CASE Login
  <2>1. phone'.task = "login" /\ phone'.screen = "out" /\ logout'.pc = "none" /\ ~left'
    BY <1>1, <1>2 DEF Login, PhoneState
  <2> QED
    BY <2>1 DEF Tasks, SignedOut
<1>3. CASE LoginShown \/ LoginBarred
  <2>1. phone.task = "login" /\ phone'.task = "none" /\ left' = left /\ torn' = torn
    BY <1>1, <1>3 DEF LoginShown, LoginBarred, PhoneState
  <2> QED
    BY <2>1 DEF Tasks, SignedOut, LogoutInv
<1>4. CASE Logout
  <2>1. phone.screen = "in" /\ UNCHANGED <<phone, flight, torn, left>>
    BY <1>4 DEF Logout
  <2> QED
    BY <2>1 DEF Tasks, SignedOut, LogoutInv
<1>5. CASE LogoutPosted \/ LogoutUnauthorized \/ LogoutUnheard
  <2>1. /\ logout.pc # "none" /\ UNCHANGED <<phone, torn, left>>
        /\ flight' = flight \/ flight' = Joined
    BY <1>5 DEF LogoutPosted, LogoutUnauthorized, LogoutUnheard
  <2> QED
    BY <1>1, <2>1 DEF Tasks, SignedOut, LogoutInv
<1>6. CASE LogoutClear
  <2>1. /\ phone'.stored = 0 /\ ~phone'.saved /\ phone'.screen = "out"
        /\ phone'.task = phone.task
    BY <1>1, <1>6, ClearTokensType DEF LogoutClear, PhoneState
  <2>2. /\ logout.pc = "clear" /\ logout'.pc = "none" /\ flight' = flight
        /\ ~torn' => flight.pc = "none"
    BY <1>6 DEF LogoutClear, NoLogout
  <2>3. phone.task # "login" /\ (phone.task = "restore" => flight.pc # "none")
    BY <2>2 DEF LogoutInv, Tasks
  <2>4. phone.task \in {"none", "restore", "login"}
    BY <1>1 DEF PhoneState
  <2> QED
    BY <2>1, <2>2, <2>3, <2>4 DEF Tasks, SignedOut
<1> QED
  BY <1>2, <1>3, <1>4, <1>5, <1>6 DEF LogoutStep

LEMMA InitLogout == ASSUME Init PROVE LogoutInv
<1>1. TypeInv
  BY InitTypeInv
<1>2. Tasks /\ SignedOut
  BY DEF Init, Tasks, SignedOut, Cleared
<1> QED
  BY <1>1, <1>2 DEF LogoutInv

LEMMA NextLogout == ASSUME LogoutInv, [Next]_vars PROVE LogoutInv'
<1>1. TypeInv'
  BY NextTypeInv DEF LogoutInv
<1>2. Tasks' /\ SignedOut'
  <2>1. CASE UNCHANGED vars
    BY <2>1 DEF vars, LogoutInv, Tasks, SignedOut
  <2>2. CASE Next
    BY <2>2, FlightTasks, ServerStepTasks, PhoneStepTasks, LogTasks DEF Next
  <2> QED
    BY <2>1, <2>2
<1> QED
  BY <1>1, <1>2 DEF LogoutInv

\* After a logout nothing brings the user back before the next login, neither
\* calls that still wait, nor the end of the app and its start, unless a
\* refresh was under way when the phone was cleared.
THEOREM LoggedOutStaysOut == Spec => []LogoutLasts
<1>1. LogoutInv => LogoutLasts
  BY DEF LogoutInv, SignedOut, LogoutLasts
<1>2. Spec => []LogoutInv
  BY InitLogout, NextLogout, PTL DEF Spec
<1> QED
  BY <1>1, <1>2, PTL

-----------------------------------------------------------------------------
(***************************************************************************)
(* The stored token                                                        *)
(***************************************************************************)

Kept == FreshToken /\ OwnToken /\ StoredIsLive

LEMMA TokenFacts ==
    ASSUME TokenInv
    PROVE  /\ TypeInv /\ FlightOK /\ ServerOK
           /\ phone \in PhoneState /\ flight \in FlightState /\ logout \in LogoutState
           /\ {phone.stored, flight.token, flight.new, logout.token} \subseteq Tokens
           /\ FreshToken /\ OwnToken /\ StoredIsLive
BY PhoneFacts DEF TokenInv, LogoutInv

\* Tokens are numbers below the next session's.
LEMMA TokensAreOld ==
    ASSUME TokenInv
    PROVE  /\ Len(sess) \in Nat /\ Tokens = 0 .. Len(sess)
           /\ \A w \in Workers : req[w].sess \in 0 .. Len(sess)
<1>1. Len(sess) \in Nat /\ DOMAIN sess = 1 .. Len(sess)
  BY TokenFacts, SessionFacts DEF ServerOK
<1>2. ASSUME NEW w \in Workers PROVE req[w].sess \in 0 .. Len(sess)
  <2>1. req[w] \in Request /\ req[w].sess <= Len(sess)
    BY TokenFacts DEF ServerOK, AuthTypeOK
  <2> QED
    BY <1>1, <2>1 DEF Request
<1> QED
  BY <1>1, <1>2 DEF Tokens

\* A step that writes no table and stores no token, and that a logout may wait
\* for or give up on.
LEMMA QuietToken ==
    ASSUME TokenInv, ServerIdle, phone'.stored = phone.stored, torn' = torn,
           flight' = flight \/ flight' = Joined,
           logout'.token \in {0, phone.stored, logout.token},
           logout.pc = "clear" => logout'.pc = "clear"
    PROVE  Kept'
<1>1. /\ FlightOK /\ FreshToken /\ OwnToken /\ StoredIsLive /\ flight \in FlightState
      /\ UNCHANGED <<sess, req>>
  BY TokenFacts DEF ServerIdle
<1>2. CASE flight' = flight
  BY <1>1, <1>2 DEF Kept, FreshToken, OwnToken, StoredIsLive, Untouched, Live, Idle
<1>3. CASE flight' # flight
  <2>1. /\ flight.pc = "none" /\ flight'.pc = "begun" /\ flight'.answer = "none"
        /\ flight'.worker = NoWorker /\ flight.worker = NoWorker
    BY <1>1, <1>3, TokenFacts, JoinedType DEF FlightOK
  <2> QED
    BY <1>1, <2>1 DEF Kept, FreshToken, OwnToken, StoredIsLive, Untouched, Live, Idle
<1> QED
  BY <1>2, <1>3

LEMMA FlightSendToken == ASSUME TokenInv, FlightSend PROVE Kept'
<1>1. /\ FlightOK /\ FreshToken /\ OwnToken /\ StoredIsLive /\ flight \in FlightState
      /\ UNCHANGED <<sess, req, phone, logout, torn>>
  BY TokenFacts DEF FlightSend, ServerIdle
<1>2. /\ flight'.pc = "sent" /\ flight'.token = phone.stored
      /\ flight'.worker = NoWorker /\ flight'.answer = "none"
      /\ flight.pc = "begun" /\ flight.worker = NoWorker
  BY <1>1 DEF FlightSend, FlightOK, FlightState
<1> QED
  BY <1>1, <1>2 DEF Kept, FreshToken, OwnToken, StoredIsLive, Untouched, Live, Idle

\* A refresh that ends without an answer leaves the token as it was, or torn.
LEMMA NotUsedUp ==
    ASSUME TokenInv, ~torn, ~UsedUp
    PROVE  /\ flight.worker = NoWorker
           /\ phone.stored # 0 /\ logout.pc # "clear" => Live(phone.stored)
<1>1. FlightOK /\ OwnToken /\ StoredIsLive
  BY TokenFacts
<1>2. CASE flight.pc = "sent"
  BY <1>1, <1>2 DEF UsedUp, OwnToken
<1>3. CASE flight.pc # "sent"
  BY <1>1, <1>3 DEF FlightOK, StoredIsLive, Untouched
<1> QED
  BY <1>2, <1>3

LEMMA FlightGivenUp ==
    ASSUME TokenInv, ServerIdle, flight' = NoFlight, phone'.stored = phone.stored,
           ~torn' => ~torn /\ ~UsedUp,
           ~torn' /\ logout'.pc # "clear" => logout.pc # "clear"
    PROVE  Kept'
<1>1. UNCHANGED <<sess, req>> /\ OwnToken
  BY TokenFacts DEF ServerIdle
<1>2. flight'.pc = "none" /\ flight'.answer = "none" /\ flight'.worker = NoWorker
  BY NoFlightType
<1>3. ~torn' => flight.worker = NoWorker
  BY NotUsedUp
<1>4. FreshToken'
  BY <1>2 DEF FreshToken
<1>5. OwnToken'
  BY <1>1, <1>2, <1>3 DEF OwnToken, Idle
<1>6. StoredIsLive'
  BY <1>1, NotUsedUp DEF StoredIsLive, Untouched, Live
<1> QED
  BY <1>4, <1>5, <1>6 DEF Kept

LEMMA FlightFailsToken == ASSUME TokenInv, FlightFails PROVE Kept'
<1>1. phone'.stored = phone.stored
  BY TokenFacts DEF FlightFails, PhoneState
<1>2. ~torn' => ~torn /\ ~UsedUp
  BY DEF FlightFails
<1>3. logout'.pc # "clear" => logout.pc # "clear"
  BY DEF FlightFails, LogoutGoesOn
<1> QED
  BY <1>1, <1>2, <1>3, FlightGivenUp DEF FlightFails

LEMMA FlightSucceedsToken == ASSUME TokenInv, FlightSucceeds PROVE Kept'
<1>1. UNCHANGED <<sess, req, torn>> /\ FreshToken /\ phone \in PhoneState
  BY TokenFacts DEF FlightSucceeds, ServerIdle
<1>2. flight'.pc = "none" /\ flight'.answer = "none" /\ flight'.worker = NoWorker
  BY NoFlightType DEF FlightSucceeds
<1>3. phone'.stored \in {0, flight.new}
  <2>1. CASE phone' = Cleared
    BY <2>1 DEF Cleared
  <2>2. CASE phone' # Cleared
    BY <1>1, <2>2 DEF FlightSucceeds, PhoneState
  <2> QED
    BY <2>1, <2>2
<1>4. /\ \A w \in Workers : ~Idle(w) => req[w].sess # flight.new
      /\ torn \/ Live(flight.new)
  BY <1>1 DEF FreshToken, FlightSucceeds
<1>5. FreshToken'
  BY <1>2 DEF FreshToken
<1>6. OwnToken'
  BY <1>1, <1>2, <1>3, <1>4 DEF OwnToken, Idle
<1>7. StoredIsLive'
  BY <1>1, <1>3, <1>4 DEF StoredIsLive, Live
<1> QED
  BY <1>5, <1>6, <1>7 DEF Kept

LEMMA FlightRefusedToken == ASSUME TokenInv, FlightRefused PROVE Kept'
<1>1. flight'.pc = "none" /\ flight'.answer = "none"
  BY NoFlightType DEF FlightRefused
<1>2. phone'.stored = 0
  BY TokenFacts, ClearTokensType DEF FlightRefused, PhoneState
<1> QED
  BY <1>1, <1>2 DEF Kept, FreshToken, OwnToken, StoredIsLive

LEMMA ServerRefusesToken == ASSUME TokenInv, ServerRefuses PROVE Kept'
<1>1. /\ UNCHANGED <<sess, req, phone, logout, torn>> /\ OwnToken /\ TypeInv
  BY TokenFacts DEF ServerRefuses, ServerIdle
<1>2. /\ flight'.pc = "sent" /\ flight'.token = flight.token /\ flight.pc = "sent"
      /\ flight'.worker = NoWorker /\ flight'.answer = "refused" /\ flight.worker = NoWorker
  BY <1>1, AnswerType DEF ServerRefuses
<1> QED
  BY <1>1, <1>2 DEF Kept, FreshToken, OwnToken, StoredIsLive, Untouched, Idle

LEMMA ServerBeginsToken ==
    ASSUME TokenInv, NEW w \in Workers, ServerBegins(w)
    PROVE  Kept'
<1>1. /\ UNCHANGED sess /\ \A v \in Workers \ {w} : req'[v] = req[v]
      /\ UNCHANGED <<phone, logout, torn>> /\ OwnToken /\ flight \in FlightState
  BY TokenFacts, ServerBeginsFacts DEF ServerBegins
<1>2. /\ flight'.pc = "sent" /\ flight'.token = flight.token /\ flight.pc = "sent"
      /\ flight'.worker = w /\ flight'.answer = "none" /\ flight.worker = NoWorker
  BY <1>1 DEF ServerBegins, FlightState
<1>3. w # NoWorker /\ \A v \in Workers : v # NoWorker
  BY PhoneAssumption
<1>4. OwnToken'
  BY <1>1, <1>2, <1>3 DEF OwnToken, Idle
<1> QED
  BY <1>2, <1>3, <1>4 DEF Kept, FreshToken, StoredIsLive, Untouched

\* The server ends a session, at most one, that no answer is about, and not the
\* stored one unless it must be taken as revoked or is about to go; no request
\* begins and the flight stays.
LEMMA SessionEnds ==
    ASSUME TokenInv, NoNewWork, NEW t, OnlyEnds(t),
           UNCHANGED <<phone, flight, torn>>,
           logout'.token \in {0, logout.token},
           logout.pc = "clear" => logout'.pc = "clear",
           flight.answer = "ok" => t # flight.new,
           ~torn /\ phone.stored # 0 /\ Untouched' => t # phone.stored
    PROVE  Kept'
<1>1. /\ FreshToken /\ OwnToken /\ StoredIsLive
      /\ flight.new \in {0} \union DOMAIN sess /\ phone.stored \in {0} \union DOMAIN sess
  BY TokenFacts DEF Tokens
<1>2. flight.answer = "ok" /\ Live(flight.new) => Live(flight.new)'
  BY <1>1 DEF FreshToken, OnlyEnds, Live
<1>3. FreshToken'
  BY <1>1, <1>2 DEF FreshToken, NoNewWork
<1>4. OwnToken'
  BY <1>1 DEF OwnToken, NoNewWork
<1>5. StoredIsLive'
  <2> SUFFICES ASSUME ~torn, phone.stored # 0, Untouched'
               PROVE  Live(phone.stored)'
    BY DEF StoredIsLive
  <2>1. Untouched
    BY DEF Untouched
  <2>2. Live(phone.stored) /\ phone.stored # t
    BY <1>1, <2>1 DEF StoredIsLive
  <2>3. sess'[phone.stored].status = "live"
    BY <1>1, <2>2 DEF OnlyEnds, Live
  <2> QED
    BY <2>3 DEF Live
<1> QED
  BY <1>3, <1>4, <1>5 DEF Kept

LEMMA ServerGoesOnToken ==
    ASSUME TokenInv, NEW w \in Workers, ServerGoesOn(w)
    PROVE  Kept'
<1>1. UNCHANGED <<phone, flight, torn, logout>> /\ ServerOK /\ FreshToken /\ OwnToken /\ FlightOK
  BY TokenFacts DEF ServerGoesOn, phoneVars
<1>2. NoNewWork /\ OnlyEnds(req[w].sess)
  <2>1. CASE RefreshUser(w)
    BY <1>1, <2>1, RefreshUserType DEF OnlyEnds, Live
  <2>2. CASE RefreshRevoke(w)
    BY <1>1, <2>2, RefreshRevokeType
  <2> QED
    BY <2>1, <2>2 DEF ServerGoesOn
<1>3. ~Idle(w)
  BY DEF ServerGoesOn, RefreshUser, RefreshRevoke, At, Idle
<1>4. flight.answer = "ok" => req[w].sess # flight.new
  BY <1>1, <1>3 DEF FreshToken
<1>5. ~torn /\ phone.stored # 0 /\ Untouched' => req[w].sess # phone.stored
  <2> SUFFICES ASSUME ~torn, phone.stored # 0, Untouched'
               PROVE  req[w].sess # phone.stored
    OBVIOUS
  <2>1. flight.worker = NoWorker
    BY <1>1 DEF Untouched, FlightOK
  <2>2. flight.worker # w
    BY <2>1, PhoneAssumption
  <2> QED
    BY <1>1, <1>3, <2>2 DEF OwnToken
<1> QED
  BY <1>1, <1>2, <1>4, <1>5, SessionEnds

\* A session is opened: its token is new.
LEMMA ServerIssuesToken ==
    ASSUME TokenInv, NEW w \in Workers, ServerIssues(w)
    PROVE  Kept'
<1>1. PICK n \in Nat : n = Len(sess)
  BY TokensAreOld
<1>2. /\ Len(sess') = n + 1 /\ \A s \in DOMAIN sess : sess'[s] = sess[s]
      /\ ~Idle(w) /\ Idle(w)' /\ NoNewWork
  BY <1>1, TokenFacts, RefreshIssueType DEF ServerIssues
<1>3. sess'[n + 1].status = "live"
  <2>1. sess' = Append(sess, NewSession(w)) /\ sess \in Seq(Session)
    BY TokenFacts DEF ServerIssues, RefreshIssue, Issue, ServerOK, AuthTypeOK
  <2>2. req[w] \in Request
    BY TokenFacts DEF ServerOK, AuthTypeOK
  <2>3. NewSession(w) \in Session /\ NewSession(w).status = "live"
    BY <2>2 DEF NewSession, Session, Request
  <2>4. sess'[Len(sess) + 1] = NewSession(w)
    BY <2>1, <2>3, AppendProperties
  <2> QED
    BY <1>1, <2>3, <2>4
<1>4. /\ Tokens = 0 .. n /\ \A v \in Workers : req[v].sess \in 0 .. n
  BY <1>1, TokensAreOld
<1>5. UNCHANGED <<phone, logout, torn>>
  BY DEF ServerIssues
<1>6. CASE Serves(w)
  <2>1. flight.pc = "sent" /\ flight.worker = w
    BY <1>6, TokenFacts, ServedIsSent DEF Serves
  <2>2. flight' = Answer("ok", n + 1)
    BY <1>2, <1>6 DEF ServerIssues
  <2>3. /\ flight'.token = flight.token /\ flight'.new = n + 1 /\ flight'.pc = "sent"
        /\ flight'.worker = NoWorker /\ flight'.answer = "ok"
    BY <2>1, <2>2, TokenFacts, AnswerType
  <2>4. flight'.new \notin {0, phone.stored, logout.token}
    BY <1>4, <2>3, TokenFacts
  <2>5. \A v \in Workers : ~Idle(v)' => req'[v].sess # n + 1
    BY <1>2, <1>4 DEF NoNewWork
  <2>6. FreshToken'
    BY <1>3, <1>5, <2>3, <2>4, <2>5 DEF FreshToken, Live
  <2>7. \A v \in Workers : ~Idle(v)' => ~Idle(v) /\ flight.worker # v
                                        /\ req'[v].sess = req[v].sess
    BY <1>2, <2>1 DEF NoNewWork
  <2>8. OwnToken'
    BY <1>5, <2>1, <2>3, <2>7, TokenFacts DEF OwnToken
  <2>9. StoredIsLive'
    BY <2>3 DEF StoredIsLive, Untouched
  <2> QED
    BY <2>6, <2>8, <2>9 DEF Kept
<1>7. CASE ~Serves(w)
  <2>1. flight' = flight
    BY <1>7 DEF ServerIssues
  <2>2. PICK t \in Nat : t = n + 1
    OBVIOUS
  <2>3. OnlyEnds(t)
    BY <1>2 DEF OnlyEnds, Live
  <2>4. t # flight.new /\ t # phone.stored
    BY <1>4, <2>2, TokenFacts
  <2> QED
    BY <1>2, <1>5, <2>1, <2>3, <2>4, SessionEnds
<1> QED
  BY <1>6, <1>7

LEMMA ServerFailsToken ==
    ASSUME TokenInv, NEW w \in Workers, ServerFails(w)
    PROVE  Kept'
<1>1. UNCHANGED <<sess, phone, logout, torn>> /\ Idle(w)' /\ NoNewWork
  BY TokenFacts, AbortType DEF ServerFails
<1>2. CASE Serves(w)
  <2>1. flight.pc = "sent" /\ flight.worker = w
    BY <1>2, TokenFacts, ServedIsSent DEF Serves
  <2>2. PICK a \in {"refused", "error"} : flight' = Answer(a, 0)
    BY <1>2 DEF ServerFails
  <2>3. /\ flight'.token = flight.token /\ flight'.pc = "sent"
        /\ flight'.worker = NoWorker /\ flight'.answer \notin {"ok", "none"}
    BY <2>1, <2>2, TokenFacts, AnswerType
  <2>4. \A v \in Workers : ~Idle(v)' => ~Idle(v) /\ flight.worker # v
                                        /\ req'[v].sess = req[v].sess
    BY <1>1, <2>1 DEF NoNewWork
  <2>5. OwnToken'
    BY <1>1, <2>1, <2>3, <2>4, TokenFacts DEF OwnToken
  <2> QED
    BY <2>3, <2>5 DEF Kept, FreshToken, StoredIsLive, Untouched
<1>3. CASE ~Serves(w)
  <2>1. flight' = flight
    BY <1>3 DEF ServerFails
  <2> QED
    BY <1>1, <2>1, TokenFacts
       DEF Kept, FreshToken, OwnToken, StoredIsLive, Untouched, Live, NoNewWork
<1> QED
  BY <1>2, <1>3

LEMMA ElsewhereToken == ASSUME TokenInv, Elsewhere PROVE Kept'
<1>1. /\ NoNewWork /\ UNCHANGED <<phone, flight, logout>>
      /\ torn' \/ (UNCHANGED sess /\ torn' = torn)
  BY TokenFacts, ElsewhereFacts DEF Elsewhere
<1>2. FreshToken'
  BY <1>1, TokenFacts DEF FreshToken, NoNewWork, Live
<1>3. CASE torn'
  BY <1>2, <1>3 DEF Kept, OwnToken, StoredIsLive
<1>4. CASE UNCHANGED sess /\ torn' = torn
  BY <1>1, <1>2, <1>4, TokenFacts
     DEF Kept, OwnToken, StoredIsLive, Untouched, Live, NoNewWork
<1> QED
  BY <1>1, <1>3, <1>4

LEMMA LoginToken == ASSUME TokenInv, Login PROVE Kept'
<1>1. PICK n \in Nat : n = Len(sess)
  BY TokensAreOld
<1>2. /\ Len(sess') = n + 1 /\ \A s \in DOMAIN sess : sess'[s] = sess[s]
      /\ UNCHANGED <<req, flight, logout>> /\ torn' = (flight.pc # "none")
  BY <1>1, TokenFacts, LoginFacts DEF Login
<1>3. sess'[n + 1].status = "live"
  <2> DEFINE new == [user |-> Owner, status |-> "live", parent |-> 0,
                     pass |-> user[Owner].pass, late |-> FALSE]
  <2>1. new \in Session /\ new.status = "live"
    BY TokenFacts, PhoneAssumption DEF Session, ServerOK, AuthTypeOK, Account
  <2>2. sess' = Append(sess, new) /\ sess \in Seq(Session)
    BY TokenFacts DEF Login, ServerOK, AuthTypeOK
  <2> HIDE DEF new
  <2>3. sess'[Len(sess) + 1] = new
    BY <2>1, <2>2, AppendProperties
  <2> QED
    BY <1>1, <2>1, <2>3
<1>4. /\ Tokens = 0 .. n /\ \A v \in Workers : req[v].sess \in 0 .. n
  BY <1>1, TokensAreOld
<1>5. phone'.stored = n + 1
  BY <1>2, TokenFacts DEF Login, PhoneState
<1>6. flight.answer = "ok" => flight.pc = "sent" /\ flight.new \in DOMAIN sess
  BY TokenFacts DEF FlightOK, FreshToken, Tokens
<1>7. FreshToken'
  <2> SUFFICES ASSUME flight.answer = "ok"
               PROVE  /\ flight.new \notin {0, n + 1, logout.token}
                      /\ \A w \in Workers : ~Idle(w) => req[w].sess # flight.new
                      /\ torn' \/ Live(flight.new)'
    BY <1>2, <1>5 DEF FreshToken, Idle
  <2>1. /\ flight.new \notin {0, logout.token} /\ flight.new \in 0 .. n
        /\ \A w \in Workers : ~Idle(w) => req[w].sess # flight.new
    BY <1>4, TokenFacts DEF FreshToken
  <2>2. torn'
    BY <1>2, <1>6
  <2> QED
    BY <2>1, <2>2
<1>8. OwnToken'
  <2> SUFFICES ASSUME ~torn'
               PROVE  /\ flight'.pc = "sent" => flight'.token = phone'.stored
                      /\ \A w \in Workers : req'[w].sess # phone'.stored
    BY DEF OwnToken
  <2>1. flight.pc = "none"
    BY <1>2
  <2>2. \A w \in Workers : req[w].sess # n + 1
    BY <1>4
  <2> QED
    BY <1>2, <1>5, <2>1, <2>2
<1>9. StoredIsLive'
  BY <1>3, <1>5 DEF StoredIsLive, Live
<1> QED
  BY <1>7, <1>8, <1>9 DEF Kept

LEMMA LogoutPostedToken == ASSUME TokenInv, LogoutPosted PROVE Kept'
<1>1. PICK t \in Nat : t = logout.token
  BY TokenFacts DEF LogoutState
<1>2. NoNewWork /\ OnlyEnds(t)
  BY <1>1, TokenFacts, LogoutPostedFacts
<1>3. logout'.pc = "clear" /\ logout'.token = 0 /\ UNCHANGED <<phone, flight, torn>>
  BY DEF LogoutPosted, NoLogout
<1>4. flight.answer = "ok" => t # flight.new
  BY <1>1, TokenFacts DEF FreshToken
<1> QED
  BY <1>2, <1>3, <1>4, SessionEnds DEF Untouched

LEMMA LogoutClearToken == ASSUME TokenInv, LogoutClear PROVE Kept'
<1>1. /\ UNCHANGED <<sess, req, flight>> /\ FreshToken
      /\ logout'.token = 0 /\ (torn => torn')
  BY TokenFacts DEF LogoutClear, NoLogout, ServerIdle
<1>2. phone'.stored = 0
  BY TokenFacts, ClearTokensType DEF LogoutClear, PhoneState
<1>3. FreshToken'
  BY <1>1, <1>2 DEF FreshToken, Live, Idle
<1>4. ~torn' => flight'.pc # "sent"
  BY DEF LogoutClear
<1> QED
  BY <1>2, <1>3, <1>4 DEF Kept, OwnToken, StoredIsLive

LEMMA KillToken == ASSUME TokenInv, Kill PROVE Kept'
<1>1. phone'.stored = phone.stored
  BY TokenFacts DEF Kill, PhoneState
<1>2. ~torn' => ~torn /\ ~UsedUp /\ logout.pc = "none"
  BY DEF Kill
<1> QED
  BY <1>1, <1>2, FlightGivenUp DEF Kill

\* The calls, the moves of the screen, and the steps of a logout that only
\* change what it waits for.
LEMMA OthersToken ==
    ASSUME TokenInv,
           \/ \E c \in Calls : CallSend(c) \/ CallUnauthorized(c) \/ CallEnds(c)
           \/ AccessExpires \/ LoginShown \/ LoginBarred \/ Logout
           \/ LogoutUnauthorized \/ LogoutUnheard \/ Restore
    PROVE  Kept'
<1>1. phone \in PhoneState /\ logout \in LogoutState /\ Tasks
  BY TokenFacts DEF TokenInv, LogoutInv
<1>2. CASE \E c \in Calls : CallSend(c) \/ CallUnauthorized(c) \/ CallEnds(c)
  BY <1>2, QuietToken DEF CallSend, CallUnauthorized, CallEnds
<1>3. CASE AccessExpires \/ LoginShown \/ Restore
  <2>1. phone'.stored = phone.stored
    BY <1>1, <1>3 DEF AccessExpires, LoginShown, Restore, PhoneState
  <2>2. /\ ServerIdle /\ UNCHANGED <<logout, torn>>
        /\ flight' = flight \/ flight' = Joined
    BY <1>3 DEF AccessExpires, LoginShown, Restore
  <2> QED
    BY <2>1, <2>2, QuietToken
<1>4. CASE LoginBarred
  <2>1. /\ phone'.stored = phone.stored /\ logout'.token = phone.stored
        /\ logout.pc # "clear"
    BY <1>1, <1>4 DEF LoginBarred, PhoneState, Tasks
  <2> QED
    BY <1>4, <2>1, QuietToken DEF LoginBarred
<1>5. CASE Logout
  <2>1. logout'.token \in {0, phone.stored} /\ logout.pc # "clear"
    BY <1>5 DEF Logout, NoLogout
  <2> QED
    BY <1>5, <2>1, QuietToken DEF Logout
<1>6. CASE LogoutUnauthorized \/ LogoutUnheard
  <2>1. logout'.token \in {0, logout.token} /\ logout.pc # "clear"
    BY <1>1, <1>6 DEF LogoutUnauthorized, LogoutUnheard, NoLogout, LogoutState
  <2>2. /\ ServerIdle /\ UNCHANGED <<phone, torn>>
        /\ flight' = flight \/ flight' = Joined
    BY <1>6 DEF LogoutUnauthorized, LogoutUnheard
  <2> QED
    BY <2>1, <2>2, QuietToken
<1> QED
  BY <1>2, <1>3, <1>4, <1>5, <1>6

LEMMA InitToken == ASSUME Init PROVE TokenInv
<1>1. LogoutInv
  BY InitLogout
<1>2. flight.answer = "none" /\ flight.pc = "none" /\ phone.stored = 0
  BY NoFlightType DEF Init, Cleared
<1> QED
  BY <1>1, <1>2 DEF TokenInv, FreshToken, OwnToken, StoredIsLive

LEMMA NextToken == ASSUME TokenInv, [Next]_vars PROVE TokenInv'
<1>1. LogoutInv'
  BY NextLogout DEF TokenInv
<1>2. CASE UNCHANGED vars
  BY <1>1, <1>2
     DEF vars, TokenInv, FreshToken, OwnToken, StoredIsLive, Untouched, Live, Idle
<1>3. ASSUME Next PROVE Kept'
  <2>1. CASE FlightStep
    BY <2>1, FlightSendToken, FlightFailsToken, FlightSucceedsToken, FlightRefusedToken
       DEF FlightStep, FlightNoToken, FlightTimesOut
  <2>2. CASE ServerRefuses \/ Elsewhere \/ Kill \/ Login
    BY <2>2, ServerRefusesToken, ElsewhereToken, KillToken, LoginToken
  <2>3. ASSUME NEW w \in Workers, ServerStep(w) PROVE Kept'
    BY <2>3, ServerBeginsToken, ServerGoesOnToken, ServerIssuesToken, ServerFailsToken
       DEF ServerStep
  <2>4. CASE LogoutStep
    BY <2>4, LogoutPostedToken, LogoutClearToken, OthersToken DEF LogoutStep
  <2>5. CASE \/ \E c \in Calls : CallSend(c) \/ CallUnauthorized(c) \/ CallEnds(c)
             \/ AccessExpires \/ LoginShown \/ LoginBarred \/ Logout \/ Restore
    BY <2>5, OthersToken
  <2> QED
    BY <1>3, <2>1, <2>2, <2>3, <2>4, <2>5 DEF Next
<1> QED
  BY <1>1, <1>2, <1>3 DEF TokenInv, Kept

\* The refresh that all calls share uses the stored token up for the phone
\* only: whatever the server does for a refresh the phone has given up, whose
\* answer was lost, or that a logout overtook, it does to a token that is no
\* longer the stored one, or the history says torn.
THEOREM StoredTokenStaysGood == Spec => []StoredTokenIsGood
<1>1. TokenInv => StoredTokenIsGood
  BY DEF TokenInv, StoredIsLive, Untouched, StoredTokenIsGood
<1>2. Spec => []TokenInv
  BY InitToken, NextToken, PTL DEF Spec
<1> QED
  BY <1>1, <1>2, PTL


-----------------------------------------------------------------------------
(***************************************************************************)
(* PhoneWatch                                                              *)
(***************************************************************************)

\* Runs with a request in flight: at most one, and isTransitioning says so.
InFlight ==
    /\ isTransitioning => \E k \in Checks : Moving(k)
    /\ \A k \in Checks : Moving(k) =>
         isTransitioning /\ \A j \in Checks : Moving(j) => j = k

Inv == WatchTypeOK /\ InFlight

LEMMA ReloadType ==
    ASSUME NEW l \in [Loads -> {"none", "sent", "empty", "WORKING", "PAUSED"}]
    PROVE  Reload(l) \in [Loads -> {"none", "sent", "empty", "WORKING", "PAUSED"}]
BY DEF Reload

LEMMA NoCheckRuns ==
    /\ NoCheck \in Run /\ NoCheck.pc = "idle"
    /\ \A pc \in {"exit", "return"} :
         [NoCheck EXCEPT !.pc = pc] \in Run /\ [NoCheck EXCEPT !.pc = pc].pc = pc
BY DEF NoCheck, Run, Places

CheckPcs == {"idle", "start", "ask", "prompt", "locate", "judge",
        "exit", "return", "exitOk", "returnOk"}

LEMMA GoesRuns ==
    ASSUME Inv, NEW k \in Checks, NEW pc \in CheckPcs
    PROVE  Goes(k, pc) \in [Checks -> Run]
BY DEF Goes, CheckPcs, Inv, WatchTypeOK, Run

LEMMA EndRuns ==
    ASSUME Inv, NEW k \in Checks
    PROVE  [check EXCEPT ![k] = NoCheck] \in [Checks -> Run]
BY NoCheckRuns DEF Inv, WatchTypeOK

LEMMA InitInv == WatchInit => Inv
<1> SUFFICES ASSUME WatchInit PROVE Inv
  OBVIOUS
<1>1. WatchTypeOK
  <2>1. check \in [Checks -> Run]
    BY NoCheckRuns DEF WatchInit
  <2>2. load \in [Loads -> {"none", "sent", "empty", "WORKING", "PAUSED"}]
    BY DEF WatchInit
  <2>3. place \in Places /\ gps \in BOOLEAN /\ srv \in Screens /\ activeSession \in Screens
    BY DEF WatchInit, Places, Screens
  <2>4. isVerifying \in BOOLEAN /\ isTransitioning \in BOOLEAN /\ isPrompting \in BOOLEAN
    BY Zenon DEF WatchInit
  <2>5. outsideCount \in 0..1
    BY DEF WatchInit
  <2> QED
    BY <2>1, <2>2, <2>3, <2>4, <2>5, Zenon DEF WatchInit, WatchTypeOK
<1>2. InFlight
  BY NoCheckRuns DEF WatchInit, InFlight, Moving
<1> QED
  BY <1>1, <1>2 DEF Inv

LEMMA BeginInv ==
    ASSUME Inv, NEW k \in Checks, Begin(k)
    PROVE  Inv'
<1> USE DEF Begin, CheckAt, env, Goes
<1>1. WatchTypeOK'
  BY DEF Inv, WatchTypeOK, Run, Places, Screens
<1>2. InFlight'
  BY DEF Inv, InFlight, Moving, WatchTypeOK, Run
<1> QED
  BY <1>1, <1>2 DEF Inv

LEMMA StartOffInv ==
    ASSUME Inv, NEW k \in Checks, StartOff(k)
    PROVE  Inv'
<1> USE DEF StartOff, CheckAt, env
<1>1. WatchTypeOK'
  <2>1. check' \in [Checks -> Run]
    <3>1. CASE check' = Goes(k, "ask")
      BY <3>1, GoesRuns DEF CheckPcs
    <3>2. CASE check' = [check EXCEPT ![k].pc = "exit", ![k].off = TRUE]
      <4>1. check' = [check EXCEPT ![k] = [check[k] EXCEPT !.pc = "exit", !.off = TRUE]]
        BY <3>2 DEF Inv, WatchTypeOK, Run
      <4>2. [check[k] EXCEPT !.pc = "exit", !.off = TRUE] \in Run
        BY DEF Inv, WatchTypeOK, Run
      <4> QED
        BY <4>1, <4>2 DEF Inv, WatchTypeOK
    <3> QED
      BY <3>1, <3>2
  <2> QED
    BY <2>1, ZenonT(60) DEF Inv, WatchTypeOK, Places, Screens
<1>2. InFlight'
  BY DEF Inv, InFlight, Moving, Goes, WatchTypeOK, Run
<1> QED
  BY <1>1, <1>2 DEF Inv

LEMMA StartOnInv ==
    ASSUME Inv, NEW k \in Checks, StartOn(k)
    PROVE  Inv'
<1> USE DEF StartOn, CheckAt, env, Goes, refs
<1>1. WatchTypeOK'
  BY DEF Inv, WatchTypeOK, Run, Places, Screens
<1>2. InFlight'
  BY DEF Inv, InFlight, Moving, WatchTypeOK, Run
<1> QED
  BY <1>1, <1>2 DEF Inv

LEMMA AskInv ==
    ASSUME Inv, NEW k \in Checks, Ask(k)
    PROVE  Inv'
<1> USE DEF Ask, CheckAt, env, End
<1>1. WatchTypeOK'
  <2>1. check' \in [Checks -> Run]
    BY GoesRuns, EndRuns, ZenonT(60) DEF CheckPcs
  <2> QED
    BY <2>1, ZenonT(60) DEF Inv, WatchTypeOK, Places, Screens
<1>2. InFlight'
  BY NoCheckRuns DEF Inv, InFlight, Moving, Goes, WatchTypeOK, Run
<1> QED
  BY <1>1, <1>2 DEF Inv

LEMMA PromptDeclinedInv ==
    ASSUME Inv, NEW k \in Checks, PromptDeclined(k)
    PROVE  Inv'
<1> USE DEF PromptDeclined, CheckAt, env, End
<1>1. WatchTypeOK'
  BY NoCheckRuns, ZenonT(60) DEF Inv, WatchTypeOK, Run, Places, Screens
<1>2. InFlight'
  BY NoCheckRuns DEF Inv, InFlight, Moving, WatchTypeOK, Run
<1> QED
  BY <1>1, <1>2 DEF Inv

LEMMA PromptAcceptedInv ==
    ASSUME Inv, NEW k \in Checks, PromptAccepted(k)
    PROVE  Inv'
<1> USE DEF PromptAccepted, CheckAt, env, NoCheck
<1>1. WatchTypeOK'
  BY DEF Inv, WatchTypeOK, Run, Places, Screens
<1>2. InFlight'
  BY DEF Inv, InFlight, Moving, WatchTypeOK, Run
<1> QED
  BY <1>1, <1>2 DEF Inv

LEMMA LocateInv ==
    ASSUME Inv, NEW k \in Checks, Locate(k)
    PROVE  Inv'
<1> USE DEF Locate, CheckAt, env, refs
<1>1. WatchTypeOK'
  <2>1. check' \in [Checks -> Run]
    BY ZenonT(60) DEF Inv, WatchTypeOK, Run
  <2> QED
    BY <2>1 DEF Inv, WatchTypeOK, Places, Screens
<1>2. InFlight'
  BY DEF Inv, InFlight, Moving, WatchTypeOK, Run
<1> QED
  BY <1>1, <1>2 DEF Inv

LEMMA CheckFailsInv ==
    ASSUME Inv, NEW k \in Checks, CheckFails(k)
    PROVE  Inv'
<1> USE DEF CheckFails, CheckAt, env, End
<1>1. WatchTypeOK'
  <2>1. check' \in [Checks -> Run]
    BY EndRuns
  <2> QED
    BY <2>1, ZenonT(60) DEF Inv, WatchTypeOK, Places, Screens
<1>2. InFlight'
  BY NoCheckRuns DEF Inv, InFlight, Moving, WatchTypeOK, Run
<1> QED
  BY <1>1, <1>2 DEF Inv

LEMMA JudgeInv ==
    ASSUME Inv, NEW k \in Checks, Judge(k)
    PROVE  Inv'
<1> USE DEF Judge, JudgeOutside, JudgeInside, JudgeNothing, Verdict, CheckAt, env,
            Transition, End, Movable, Enough, IsFar
<1>1. WatchTypeOK'
  <2>1. check' \in [Checks -> Run]
    <3>1. CASE check' = [check EXCEPT ![k] = NoCheck]
      BY <3>1, EndRuns
    <3>2. ASSUME NEW pc \in {"exit", "return"},
                 check' = [check EXCEPT ![k] = [NoCheck EXCEPT !.pc = pc]]
          PROVE  check' \in [Checks -> Run]
      BY <3>2, NoCheckRuns DEF Inv, WatchTypeOK
    <3> QED
      BY <3>1, <3>2
  <2>2. outsideCount' \in 0..1
    BY DEF Inv, WatchTypeOK
  <2>3. (isVerifying \in BOOLEAN /\ isTransitioning \in BOOLEAN)'
    BY Zenon DEF Inv, WatchTypeOK
  <2>4. geofenceResult' \in {"inside", "other"}
    BY DEF Inv, WatchTypeOK
  <2> QED
    BY <2>1, <2>2, <2>3, <2>4, Zenon DEF Inv, WatchTypeOK
<1>2. InFlight'
  BY NoCheckRuns DEF Inv, InFlight, Moving, WatchTypeOK, Run
<1> QED
  BY <1>1, <1>2 DEF Inv

LEMMA ExitServedInv ==
    ASSUME Inv, NEW k \in Checks, ExitServed(k)
    PROVE  Inv'
<1> USE DEF ExitServed, CheckAt, env, Goes, refs
<1>1. WatchTypeOK'
  BY DEF Inv, WatchTypeOK, Run, Places, Screens
<1>2. InFlight'
  BY DEF Inv, InFlight, Moving, WatchTypeOK, Run
<1> QED
  BY <1>1, <1>2 DEF Inv

LEMMA ReturnServedInv ==
    ASSUME Inv, NEW k \in Checks, ReturnServed(k)
    PROVE  Inv'
<1> USE DEF ReturnServed, CheckAt, env, Goes, refs
<1>1. WatchTypeOK'
  BY DEF Inv, WatchTypeOK, Run, Places, Screens
<1>2. InFlight'
  BY DEF Inv, InFlight, Moving, WatchTypeOK, Run
<1> QED
  BY <1>1, <1>2 DEF Inv

LEMMA AnsweredInv ==
    ASSUME Inv, NEW k \in Checks, Answered(k)
    PROVE  Inv'
<1> USE DEF Answered, CheckAt, env, Show, Done, End
<1>1. WatchTypeOK'
  <2>1. check' \in [Checks -> Run]
    BY GoesRuns, EndRuns, ZenonT(60) DEF CheckPcs
  <2>2. load' \in [Loads -> {"none", "sent", "empty", "WORKING", "PAUSED"}]
    BY ReloadType DEF Inv, WatchTypeOK
  <2>3. activeSession' \in Screens /\ outsideCount' \in 0..1
    BY DEF Inv, WatchTypeOK, Screens
  <2>4. (isVerifying \in BOOLEAN /\ isTransitioning \in BOOLEAN)'
    BY Zenon DEF Inv, WatchTypeOK
  <2> QED
    BY <2>1, <2>2, <2>3, <2>4, Zenon DEF Inv, WatchTypeOK
<1>2. InFlight'
  BY NoCheckRuns DEF Inv, InFlight, Moving, Goes, WatchTypeOK, Run
<1> QED
  BY <1>1, <1>2 DEF Inv

LEMMA CallFailsInv ==
    ASSUME Inv, NEW k \in Checks, CallFails(k)
    PROVE  Inv'
<1> USE DEF CallFails, CheckAt, env, Done, End
<1>1. WatchTypeOK'
  <2>1. check' \in [Checks -> Run]
    BY GoesRuns, EndRuns, ZenonT(60) DEF CheckPcs
  <2> QED
    BY <2>1, ZenonT(60) DEF Inv, WatchTypeOK, Places, Screens
<1>2. InFlight'
  BY NoCheckRuns DEF Inv, InFlight, Moving, Goes, WatchTypeOK, Run
<1> QED
  BY <1>1, <1>2 DEF Inv

LEMMA LoadServedInv ==
    ASSUME Inv, NEW j \in Loads, LoadServed(j)
    PROVE  Inv'
<1> USE DEF LoadServed, CheckAt, env, refs
<1>1. WatchTypeOK'
  BY DEF Inv, WatchTypeOK, Run, Places, Screens
<1>2. InFlight'
  BY DEF Inv, InFlight, Moving, WatchTypeOK, Run
<1> QED
  BY <1>1, <1>2 DEF Inv

LEMMA LoadAnsweredInv ==
    ASSUME Inv, NEW j \in Loads, LoadAnswered(j)
    PROVE  Inv'
<1> USE DEF LoadAnswered, CheckAt, env, Show
<1>1. WatchTypeOK'
  BY DEF Inv, WatchTypeOK, Run, Places, Screens
<1>2. InFlight'
  BY DEF Inv, InFlight, Moving, WatchTypeOK, Run
<1> QED
  BY <1>1, <1>2 DEF Inv

LEMMA LoadFailsInv ==
    ASSUME Inv, NEW j \in Loads, LoadFails(j)
    PROVE  Inv'
<1> USE DEF LoadFails, CheckAt, env, refs
<1>1. WatchTypeOK'
  BY DEF Inv, WatchTypeOK, Run, Places, Screens
<1>2. InFlight'
  BY DEF Inv, InFlight, Moving, WatchTypeOK, Run
<1> QED
  BY <1>1, <1>2 DEF Inv

LEMMA HandleRefreshInv ==
    ASSUME Inv, HandleRefresh
    PROVE  Inv'
<1> USE DEF HandleRefresh, CheckAt, env, refs
<1>1. WatchTypeOK'
  BY ReloadType DEF Inv, WatchTypeOK, Run, Places, Screens
<1>2. InFlight'
  BY DEF Inv, InFlight, Moving, WatchTypeOK, Run
<1> QED
  BY <1>1, <1>2 DEF Inv

LEMMA GraceCountdownInv ==
    ASSUME Inv, GraceCountdown
    PROVE  Inv'
<1> USE DEF GraceCountdown, CheckAt, env, refs
<1>1. WatchTypeOK'
  BY ReloadType DEF Inv, WatchTypeOK, Run, Places, Screens
<1>2. InFlight'
  BY DEF Inv, InFlight, Moving, WatchTypeOK, Run
<1> QED
  BY <1>1, <1>2 DEF Inv

LEMMA CheckInInv ==
    ASSUME Inv, CheckIn
    PROVE  Inv'
<1> USE DEF CheckIn, CheckAt, env, refs
<1>1. WatchTypeOK'
  BY DEF Inv, WatchTypeOK, Run, Places, Screens
<1>2. InFlight'
  BY DEF Inv, InFlight, Moving, WatchTypeOK, Run
<1> QED
  BY <1>1, <1>2 DEF Inv

LEMMA CheckOutInv ==
    ASSUME Inv, CheckOut
    PROVE  Inv'
<1> USE DEF CheckOut, CheckAt, env, refs
<1>1. WatchTypeOK'
  BY DEF Inv, WatchTypeOK, Run, Places, Screens
<1>2. InFlight'
  BY DEF Inv, InFlight, Moving, WatchTypeOK, Run
<1> QED
  BY <1>1, <1>2 DEF Inv

LEMMA ButtonServedInv ==
    ASSUME Inv, ButtonServed
    PROVE  Inv'
<1> USE DEF ButtonServed, CheckAt, env, refs
<1>1. WatchTypeOK'
  BY DEF Inv, WatchTypeOK, Run, Places, Screens
<1>2. InFlight'
  BY DEF Inv, InFlight, Moving, WatchTypeOK, Run
<1> QED
  BY <1>1, <1>2 DEF Inv

LEMMA ButtonAnsweredInv ==
    ASSUME Inv, ButtonAnswered
    PROVE  Inv'
<1> USE DEF ButtonAnswered, CheckAt, env, Show
<1>1. WatchTypeOK'
  BY ReloadType DEF Inv, WatchTypeOK, Run, Places, Screens
<1>2. InFlight'
  BY DEF Inv, InFlight, Moving, WatchTypeOK, Run
<1> QED
  BY <1>1, <1>2 DEF Inv

LEMMA ButtonFailsInv ==
    ASSUME Inv, ButtonFails
    PROVE  Inv'
<1> USE DEF ButtonFails, CheckAt, env, refs
<1>1. WatchTypeOK'
  BY DEF Inv, WatchTypeOK, Run, Places, Screens
<1>2. InFlight'
  BY DEF Inv, InFlight, Moving, WatchTypeOK, Run
<1> QED
  BY <1>1, <1>2 DEF Inv

LEMMA SignOutInv ==
    ASSUME Inv, SignOut
    PROVE  Inv'
<1> USE DEF SignOut, CheckAt, env, Restart
<1>1. WatchTypeOK'
  <2>1. check' \in [Checks -> Run]
    BY NoCheckRuns
  <2>2. load' \in [Loads -> {"none", "sent", "empty", "WORKING", "PAUSED"}]
    OBVIOUS
  <2>3. (place \in Places /\ gps \in BOOLEAN /\ srv \in Screens /\ activeSession \in Screens)'
    BY DEF Inv, WatchTypeOK, Places, Screens
  <2>4. (isVerifying \in BOOLEAN /\ isTransitioning \in BOOLEAN /\ isPrompting \in BOOLEAN)'
    BY Zenon
  <2>5. outsideCount' \in 0..1
    OBVIOUS
  <2>6. geofenceResult' \in {"inside", "other"}
        /\ button' \in {"none", "in", "inOk", "out", "outOk"}
    OBVIOUS
  <2> QED
    BY <2>1, <2>2, <2>3, <2>4, <2>5, <2>6, Zenon DEF WatchTypeOK
<1>2. InFlight'
  BY NoCheckRuns DEF Inv, InFlight, Moving, WatchTypeOK, Run
<1> QED
  BY <1>1, <1>2 DEF Inv

LEMMA MoveInv ==
    ASSUME Inv, Move
    PROVE  Inv'
<1> USE DEF Move, CheckAt, env, refs
<1>1. WatchTypeOK'
  BY DEF Inv, WatchTypeOK, Run, Places, Screens
<1>2. InFlight'
  BY DEF Inv, InFlight, Moving, WatchTypeOK, Run
<1> QED
  BY <1>1, <1>2 DEF Inv

LEMMA SwitchLocationInv ==
    ASSUME Inv, SwitchLocation
    PROVE  Inv'
<1> USE DEF SwitchLocation, CheckAt, env, refs
<1>1. WatchTypeOK'
  BY DEF Inv, WatchTypeOK, Run, Places, Screens
<1>2. InFlight'
  BY DEF Inv, InFlight, Moving, WatchTypeOK, Run
<1> QED
  BY <1>1, <1>2 DEF Inv

LEMMA AutoCheckOutInv ==
    ASSUME Inv, AutoCheckOut
    PROVE  Inv'
<1> USE DEF AutoCheckOut, CheckAt, env, refs
<1>1. WatchTypeOK'
  BY DEF Inv, WatchTypeOK, Run, Places, Screens
<1>2. InFlight'
  BY DEF Inv, InFlight, Moving, WatchTypeOK, Run
<1> QED
  BY <1>1, <1>2 DEF Inv

LEMMA NextInv == Inv /\ [WatchNext]_watchVars => Inv'
<1> SUFFICES ASSUME Inv, [WatchNext]_watchVars PROVE Inv'
  OBVIOUS
<1>1. ASSUME NEW k \in Checks, CheckStep(k) PROVE Inv'
  BY <1>1, BeginInv, StartOffInv, StartOnInv, AskInv, PromptDeclinedInv,
     PromptAcceptedInv, LocateInv, CheckFailsInv, JudgeInv, ExitServedInv,
     ReturnServedInv, AnsweredInv, CallFailsInv DEF CheckStep
<1>2. ASSUME NEW j \in Loads, LoadServed(j) \/ LoadAnswered(j) \/ LoadFails(j)
      PROVE  Inv'
  BY <1>2, LoadServedInv, LoadAnsweredInv, LoadFailsInv
<1>3. CASE \/ HandleRefresh \/ GraceCountdown
           \/ CheckIn \/ CheckOut \/ ButtonServed \/ ButtonAnswered \/ ButtonFails
           \/ SignOut
           \/ Move \/ SwitchLocation \/ AutoCheckOut
  BY <1>3, HandleRefreshInv, GraceCountdownInv, CheckInInv, CheckOutInv,
     ButtonServedInv, ButtonAnsweredInv, ButtonFailsInv, SignOutInv, MoveInv,
     SwitchLocationInv, AutoCheckOutInv
<1>4. CASE UNCHANGED watchVars
  BY <1>4 DEF watchVars, Inv, WatchTypeOK, InFlight, Moving
<1> QED
  BY <1>1, <1>2, <1>3, <1>4 DEF WatchNext

-----------------------------------------------------------------------------
(***************************************************************************)
(* Theorems                                                                *)
(***************************************************************************)

LEMMA InvAlways == WatchSpec => []Inv
BY InitInv, NextInv, PTL DEF WatchSpec

\* The refs and the runs keep their types, and the count stays below two.
THEOREM WatchTypeCorrect == WatchSpec => []WatchTypeOK
BY InvAlways, PTL DEF Inv

\* However many runs of checkLocationAndGeofence overlap after prompts, at most
\* one has a pause or a resumption in flight, and isTransitioning is set exactly
\* then.
THEOREM TransitionsAreSingle == WatchSpec => []OneTransition
<1>1. Inv => OneTransition
  <2> SUFFICES ASSUME Inv PROVE OneTransition
    OBVIOUS
  <2> DEFINE moving == {k \in Checks : Moving(k)}
  <2>1. CASE isTransitioning
    <3>1. PICK k \in Checks : moving = {k}
      BY <2>1 DEF Inv, InFlight
    <3> HIDE DEF moving
    <3>2. Cardinality(moving) = 1
      BY <3>1, FS_Singleton
    <3> QED
      BY <2>1, <3>2 DEF OneTransition, moving
  <2>2. CASE ~isTransitioning
    <3>1. moving = {}
      BY <2>2 DEF Inv, InFlight
    <3> HIDE DEF moving
    <3>2. Cardinality(moving) = 0
      BY <3>1, FS_EmptySet
    <3> QED
      BY <2>2, <3>2 DEF OneTransition, moving
  <2> QED
    BY <2>1, <2>2
<1> QED
  BY <1>1, InvAlways, PTL
-----------------------------------------------------------------------------
(***************************************************************************)
(* The count of outside verdicts                                           *)
(***************************************************************************)

\* outsideCount counts for a session that is shown working, and never more
\* outside verdicts than there have been since the last inside one.
CountStands ==
    /\ streak \in 0..2
    /\ activeSession # "WORKING" => outsideCount = 0
    /\ outsideCount <= streak

StreakInv == Inv /\ CountStands

\* Where no verdict counts, the count stays or starts afresh, and it starts
\* afresh with every session shown that is not working.
Fresh == outsideCount' = 0 \/ (outsideCount' = outsideCount /\ activeSession' = activeSession)

Resets ==
    /\ outsideCount' \in {0, outsideCount}
    /\ activeSession' # "WORKING" => Fresh

\* Every step but an outside verdict that counts resets or keeps the count.
LEMMA OthersReset ==
    ASSUME Inv, WatchNext
    PROVE  Resets \/ \E k \in Checks : JudgeOutside(k)
<1>1. \A s : Show(s) => Resets
  BY DEF Show, Resets, Fresh
<1>2. UNCHANGED <<activeSession, outsideCount>> => Resets
  BY DEF Resets, Fresh
<1>3. outsideCount' = 0 => Resets
  BY DEF Resets, Fresh
<1>4. ASSUME NEW k \in Checks, CheckStep(k)
      PROVE  Resets \/ JudgeOutside(k)
  <2>1. CASE \/ Begin(k) \/ StartOff(k) \/ StartOn(k) \/ Ask(k) \/ PromptDeclined(k)
             \/ PromptAccepted(k) \/ Locate(k) \/ CheckFails(k)
    BY <1>2, <2>1 DEF Begin, StartOff, StartOn, Ask, PromptDeclined, PromptAccepted,
         Locate, CheckFails, refs
  <2>2. CASE ExitServed(k) \/ ReturnServed(k) \/ CallFails(k)
    BY <1>2, <2>2 DEF ExitServed, ReturnServed, CallFails, refs
  <2>3. CASE Answered(k)
    BY <1>1, <2>3 DEF Answered
  <2>4. CASE JudgeInside(k)
    BY <1>3, <2>4 DEF JudgeInside, Transition
  <2>5. CASE JudgeNothing(k)
    BY <1>2, <2>5 DEF JudgeNothing, Verdict
  <2> QED
    BY <1>4, <2>1, <2>2, <2>3, <2>4, <2>5 DEF CheckStep, Judge
<1>5. ASSUME NEW j \in Loads, LoadServed(j) \/ LoadAnswered(j) \/ LoadFails(j)
      PROVE  Resets
  BY <1>1, <1>2, <1>5 DEF LoadServed, LoadAnswered, LoadFails, refs
<1>6. CASE HandleRefresh \/ GraceCountdown \/ CheckIn \/ CheckOut \/ ButtonServed \/ ButtonFails
  BY <1>2, <1>6 DEF HandleRefresh, GraceCountdown, CheckIn, CheckOut, ButtonServed,
       ButtonFails, refs
<1>7. CASE ButtonAnswered
  BY <1>1, <1>7 DEF ButtonAnswered
<1>8. CASE SignOut
  BY <1>3, <1>8 DEF SignOut, Restart
<1>9. CASE Move \/ SwitchLocation \/ AutoCheckOut
  BY <1>2, <1>9 DEF Move, SwitchLocation, AutoCheckOut, refs
<1> QED
  BY <1>4, <1>5, <1>6, <1>7, <1>8, <1>9 DEF WatchNext

\* An inside verdict that is not passed over for a session shown working
\* resets the count: the case in which the history is reset, too.
LEMMA InsideResets ==
    ASSUME Inv, NEW k \in Checks, Judge(k), check[k].pos = "inside",
           ~isTransitioning, activeSession' = "WORKING"
    PROVE  outsideCount' = 0
<1>1. activeSession = "WORKING"
  BY DEF Judge, JudgeInside, JudgeOutside, JudgeNothing, Verdict
<1>2. JudgeInside(k)
  BY <1>1 DEF Judge, JudgeOutside, JudgeNothing, Movable
<1> QED
  BY <1>2 DEF JudgeInside, Transition

LEMMA OutsideCounts ==
    ASSUME StreakInv, NEW k \in Checks, JudgeOutside(k), Counted
    PROVE  /\ activeSession = "WORKING" /\ activeSession' = "WORKING"
           /\ streak' = IF streak = 2 THEN 2 ELSE streak + 1
           /\ outsideCount' = IF Enough(k) THEN 0 ELSE outsideCount + 1
<1>1. activeSession = "WORKING" /\ activeSession' = "WORKING" /\ check[k].pos # "inside"
  BY DEF JudgeOutside, Verdict
<1>2. outsideCount' = IF Enough(k) THEN 0 ELSE outsideCount + 1
  BY DEF JudgeOutside, Transition
<1>3. Judge(k)
  BY DEF Judge
<1> QED
  BY <1>1, <1>2, <1>3 DEF Counted

LEMMA StreakKept ==
    ASSUME StreakInv, [StreakNext]_<<watchVars, streak>>
    PROVE  StreakInv'
<1>1. Inv'
  BY NextInv DEF StreakInv, StreakNext, watchVars
<1>2. outsideCount \in 0..1 /\ outsideCount' \in 0..1 /\ CountStands
  BY <1>1 DEF StreakInv, Inv, WatchTypeOK
<1>3. CASE UNCHANGED <<watchVars, streak>>
  BY <1>1, <1>3 DEF watchVars, StreakInv, CountStands
<1>4. CASE StreakNext
  <2>1. WatchNext /\ Counted
    BY <1>4 DEF StreakNext
  <2>2. CASE \E k \in Checks : JudgeOutside(k)
    <3>1. PICK k \in Checks : JudgeOutside(k)
      BY <2>2
    <3>2. /\ activeSession' = "WORKING"
          /\ streak' = IF streak = 2 THEN 2 ELSE streak + 1
          /\ outsideCount' = IF Enough(k) THEN 0 ELSE outsideCount + 1
      BY <2>1, <3>1, OutsideCounts
    <3> QED
      BY <1>1, <1>2, <3>2 DEF StreakInv, CountStands
  <2>3. CASE Resets
    <3>1. streak' \in 0..2 /\ (streak' = 0 \/ streak' >= streak)
      BY <1>2, <2>1 DEF Counted, CountStands
    <3>2. activeSession' # "WORKING" => outsideCount' = 0
      BY <1>2, <2>3 DEF Resets, Fresh, CountStands
    <3>3. outsideCount' <= streak'
      <4>1. CASE streak' >= streak
        BY <1>2, <2>3, <3>1, <4>1 DEF Resets, CountStands
      <4>2. CASE activeSession' # "WORKING"
        BY <1>2, <3>1, <3>2, <4>2
      <4>3. CASE activeSession' = "WORKING" /\ ~(streak' >= streak)
        <5>1. PICK k \in Checks : Judge(k) /\ ~isTransitioning
          BY <1>2, <2>1, <4>3 DEF Counted, CountStands
        <5>2. check[k].pos = "inside"
          BY <1>2, <2>1, <4>3, <5>1 DEF Counted, CountStands
        <5>3. outsideCount' = 0
          BY <4>3, <5>1, <5>2, InsideResets DEF StreakInv
        <5> QED
          BY <3>1, <5>3
      <4> QED
        BY <4>1, <4>2, <4>3
    <3> QED
      BY <1>1, <3>1, <3>2, <3>3 DEF StreakInv, CountStands
  <2> QED
    BY <2>1, <2>2, <2>3, OthersReset DEF StreakInv
<1> QED
  BY <1>3, <1>4

LEMMA StreakAlways == StreakSpec => []StreakInv
<1>1. StreakInit => StreakInv
  <2> SUFFICES ASSUME StreakInit PROVE StreakInv
    OBVIOUS
  <2>1. WatchInit /\ streak = 0
    BY DEF StreakInit
  <2>2. outsideCount = 0
    BY <2>1 DEF WatchInit
  <2> QED
    BY <2>1, <2>2, InitInv DEF StreakInv, CountStands
<1> QED
  BY <1>1, StreakKept, PTL DEF StreakSpec
\* A run that a verdict sends to report an exit has just judged outside.
LEMMA OnlyVerdictsExit ==
    ASSUME Inv, WatchNext, NEW k \in Checks, check[k].pc = "judge", check'[k].pc = "exit"
    PROVE  JudgeOutside(k) /\ Enough(k)
<1>1. check \in [Checks -> Run]
  BY DEF Inv, WatchTypeOK
<1>2. check' # check
  OBVIOUS
<1>3. NoCheck.pc = "idle"
  BY NoCheckRuns
<1>4. PICK m \in Checks : CheckStep(m)
  <2>1. ~SignOut
    BY <1>3 DEF SignOut, Restart
  <2>2. ~(HandleRefresh \/ GraceCountdown \/ CheckIn \/ CheckOut \/ ButtonServed
            \/ ButtonAnswered \/ ButtonFails \/ Move \/ SwitchLocation \/ AutoCheckOut)
    BY <1>2 DEF HandleRefresh, GraceCountdown, CheckIn, CheckOut, ButtonServed,
         ButtonAnswered, ButtonFails, Move, SwitchLocation, AutoCheckOut
  <2>3. \A j \in Loads : ~(LoadServed(j) \/ LoadAnswered(j) \/ LoadFails(j))
    BY <1>2 DEF LoadServed, LoadAnswered, LoadFails
  <2> QED
    BY <2>1, <2>2, <2>3 DEF WatchNext
<1>5. m = k
  <2>1. \A run : check' = [check EXCEPT ![m] = run] => m = k
    BY <1>1
  <2>2. \A pc : check' = Goes(m, pc) => m = k
    BY <1>1 DEF Goes
  <2>3. check' = [check EXCEPT ![m].pc = "exit", ![m].off = TRUE] => m = k
    BY <1>1
  <2>4. check' = [check EXCEPT ![m].pc = "judge", ![m].pos = place] => m = k
    BY <1>1
  <2>5. CASE \/ Begin(m) \/ StartOff(m) \/ StartOn(m) \/ Ask(m) \/ PromptDeclined(m)
             \/ PromptAccepted(m) \/ Locate(m) \/ CheckFails(m)
    BY <2>1, <2>2, <2>3, <2>4, <2>5 DEF Begin, StartOff, StartOn, Ask, PromptDeclined,
         PromptAccepted, Locate, CheckFails, End
  <2>6. CASE Judge(m)
    BY <2>1, <2>6 DEF Judge, JudgeOutside, JudgeInside, JudgeNothing, Transition, End
  <2>7. CASE ExitServed(m) \/ ReturnServed(m) \/ Answered(m) \/ CallFails(m)
    BY <2>1, <2>2, <2>7 DEF ExitServed, ReturnServed, Answered, CallFails, Done, End
  <2> QED
    BY <1>4, <2>5, <2>6, <2>7 DEF CheckStep
<1>6. Judge(k)
  <2>1. ~CheckAt(k, "idle") /\ ~CheckAt(k, "start") /\ ~CheckAt(k, "ask") /\ ~CheckAt(k, "prompt") /\ ~CheckAt(k, "exit")
        /\ ~CheckAt(k, "locate") /\ ~CheckAt(k, "return") /\ check[k].pc \notin {"exit", "return", "exitOk", "returnOk"}
    BY DEF CheckAt
  <2> QED
    BY <1>4, <1>5, <2>1 DEF CheckStep, Begin, StartOff, StartOn, Ask, PromptDeclined,
         PromptAccepted, Locate, CheckFails, ExitServed, ReturnServed, Answered, CallFails
<1>7. check' # [check EXCEPT ![k] = NoCheck]
  BY <1>1, <1>3
<1>8. \A pc \in {"return"} : check' # [check EXCEPT ![k] = [NoCheck EXCEPT !.pc = pc]]
  BY <1>1, NoCheckRuns
<1>9. ~JudgeInside(k) /\ ~JudgeNothing(k)
  BY <1>7, <1>8 DEF JudgeInside, JudgeNothing, Transition, End
<1>10. JudgeOutside(k)
  BY <1>6, <1>9 DEF Judge
<1> QED
  BY <1>7, <1>10 DEF JudgeOutside, End

\* However many runs judge at once and whatever prompts, reloads and buttons come
\* between: a verdict just outside the boundary never makes the screen report an
\* exit unless another one has come before it since work was shown to begin and
\* with no inside verdict between.
THEOREM DriftNeverPauses == StreakSpec => DriftIsTolerated
<1>1. ASSUME StreakInv, [StreakNext]_<<watchVars, streak>>, NEW k \in Checks,
             check[k].pc = "judge", check'[k].pc = "exit", ~IsFar(k)
      PROVE  streak' = 2
  <2>1. WatchNext /\ Counted
    BY <1>1 DEF StreakNext, watchVars
  <2>2. JudgeOutside(k) /\ Enough(k)
    BY <1>1, <2>1, OnlyVerdictsExit DEF StreakInv
  <2>3. streak' = IF streak = 2 THEN 2 ELSE streak + 1
    BY <1>1, <2>1, <2>2, OutsideCounts
  <2>4. outsideCount \in 0..1 /\ CountStands
    BY <1>1 DEF StreakInv, Inv, WatchTypeOK
  <2>5. outsideCount >= 1
    BY <1>1, <2>2, <2>4 DEF Enough
  <2> QED
    BY <2>3, <2>4, <2>5 DEF CountStands
<1>2. StreakInv /\ [StreakNext]_<<watchVars, streak>>
        => [\A k \in Checks : check[k].pc = "judge" /\ check'[k].pc = "exit" /\ ~IsFar(k)
              => streak' = 2]_<<watchVars, streak>>
  BY <1>1
<1> QED
  BY <1>2, StreakAlways, PTL DEF StreakSpec, DriftIsTolerated
=============================================================================
