----------------------- MODULE EmployeeAccountsProofs -----------------------
(***************************************************************************)
(* Proofs about the accounts as both services write them, for every number *)
(* of accounts, requests in flight, sessions and passwords.                *)
(*                                                                         *)
(* A fact about the auth-service's own steps is a lemma about AuthNext;    *)
(* the theorems are about EmployeeAccounts, whose steps are those and the  *)
(* employee-service's, and so hold of AuthSpec too.                        *)
(***************************************************************************)
EXTENDS EmployeeAccounts, FiniteSetTheorems, SequenceTheorems, TLAPS

-----------------------------------------------------------------------------
(***************************************************************************)
(* The inductive invariant                                                 *)
(***************************************************************************)

Refreshing == {"refreshUser", "refreshRevoke", "refreshIssue"}
SigningIn == {"login"} \union Refreshing
Replacement == {"rolesCreate", "syncRole"}
WithRole == {"rolesDelete", "sync", "syncUpdate", "syncInsert"} \union Replacement
WithoutRow == {"idle", "sync", "syncInsert", "link", "status", "failing"}

\* A request's references are good as long as its next statement does not
\* fail: its account is there, the session it refreshes is that account's,
\* and it brings one role.  A session and its parent are one account's.
GoodRequest(r) ==
    /\ r.pc \notin WithoutRow => user[r.user].exists
    /\ r.pc \in Refreshing => r.sess \in DOMAIN sess /\ sess[r.sess].user = r.user
    /\ r.pc = "login" => r.sess = 0
    /\ r.pc \in WithRole => \E role \in Roles : r.roles = {role}

References ==
    /\ \A w \in Workers : GoodRequest(req[w])
    /\ \A s \in DOMAIN sess :
         sess[s].parent # 0 => sess[sess[s].parent].user = sess[s].user

TypeInv == TypeOK /\ References

\* The password a request or a session stands for is the account's, or one
\* replaced since the sessions were last revoked.
Known(pass, u) == pass = user[u].pass \/ pass \in kept[u]

PasswordsKnown ==
    \A w \in Workers :
        req[w].pc \in SigningIn /\ ~req[w].late => Known(req[w].pass, req[w].user)

\* A session that has not been revoked has not been exchanged; one that has
\* is exchanged, or about to be, by one prompt refresh.
PromptChild(t, s) == sess[t].parent = s /\ ~sess[t].late
Exchanging(w, s) ==
    req[w].sess = s /\ ~req[w].late /\ req[w].pc = "refreshIssue"
SawItLive(w, s) ==
    req[w].sess = s /\ ~req[w].late /\ req[w].pc \in {"refreshUser", "refreshRevoke"}

ExchangedOnce(s) ==
    /\ Live(s) =>
         /\ \A t \in DOMAIN sess : ~PromptChild(t, s)
         /\ \A w \in Workers : ~Exchanging(w, s)
    /\ ~Live(s) => \A w \in Workers : ~SawItLive(w, s)
    /\ \A t1, t2 \in DOMAIN sess :
         PromptChild(t1, s) /\ PromptChild(t2, s) => t1 = t2
    /\ \A w1, w2 \in Workers :
         Exchanging(w1, s) /\ Exchanging(w2, s) => w1 = w2
    /\ \A t \in DOMAIN sess, w \in Workers :
         ~(PromptChild(t, s) /\ Exchanging(w, s))

OneExchange == \A s \in DOMAIN sess : ~sess[s].late => ExchangedOnce(s)

\* An account's roles were deleted by whoever is about to insert one; when
\* nobody is, there is one role.
InsertsRole(w, u) == req[w].user = u /\ req[w].pc \in Replacement

DeletedRoles(w, u) == req[w].user = u /\ req[w].pc = "rolesCreate"

OneRoleOrReplaced(u) ==
    /\ \A w \in Workers : DeletedRoles(w, u) =>
         /\ user[u].roles = {}
         /\ \A v \in Workers : DeletedRoles(v, u) => v = w
    /\ (\A w \in Workers : ~InsertsRole(w, u)) => \E r \in Roles : user[u].roles = {r}

RolesWhole == \A u \in Users : user[u].exists /\ ~mixed[u] => OneRoleOrReplaced(u)

\* The account of an employee who has left is closed, or about to be.
Left(u) == emp[u].exists /\ emp[u].status = "TERMINATED" /\ ~loose[u]
SetsStatus(w, u) == req[w].user = u /\ req[w].pc = "status"

LeaversClosed ==
    \A u \in Users : Left(u) =>
        /\ \A w \in Workers : SetsStatus(w, u) => ~req[w].active
        /\ (\A w \in Workers : ~SetsStatus(w, u)) => ~CanSignIn(u)

-----------------------------------------------------------------------------
(***************************************************************************)
(* Types                                                                   *)
(***************************************************************************)

LEMMA ArrivedType == ASSUME NEW u \in Users PROVE Arrived(u) \in Request
BY DEF Arrived, Request, Pcs

LEMMA SomeUserType == SomeUser \in Users
BY UsersAssumption DEF SomeUser

LEMMA SessionFacts ==
    ASSUME AuthTypeOK
    PROVE  /\ Len(sess) \in Nat /\ DOMAIN sess = 1 .. Len(sess)
           /\ \A s \in DOMAIN sess : sess[s] \in Session
BY LenProperties, ElementOfSeq DEF AuthTypeOK

\* A step leaves a request alone, marks it late or makes it a good one.
Marked(new, old) == new = old \/ new = [old EXCEPT !.late = TRUE]

RequestsKept ==
    /\ req' \in [Workers -> Request]
    /\ \A v \in Workers : \/ Marked(req'[v], req[v])
                          \/ req'[v].sess <= Len(sess') /\ GoodRequest(req[v])'

\* The tables keep their types, their accounts and their references; rows of
\* sessions are only added.
TablesKept ==
    /\ user' \in [Users -> Account]
    /\ \A u \in Users : user[u].exists => user'[u].exists
    /\ made' \in Nat
    /\ kept' \in [Users -> SUBSET Nat]
    /\ mixed' \in [Users -> BOOLEAN]
    /\ sess' \in Seq(Session)
    /\ Len(sess') >= Len(sess)
    /\ \A s \in DOMAIN sess :
         /\ sess'[s].user = sess[s].user
         /\ sess'[s].parent = sess[s].parent
         /\ sess'[s].status # "gone" => sess[s].status # "gone"
    /\ \A s \in DOMAIN sess' \ DOMAIN sess :
         /\ sess'[s].parent < s
         /\ user'[sess'[s].user].exists
         /\ sess'[s].parent # 0 => sess'[sess'[s].parent].user = sess'[s].user

LEMMA MarkedGood ==
    ASSUME AuthTypeOK, TablesKept, NEW old \in Request, NEW new, Marked(new, old),
           old.sess <= Len(sess), GoodRequest(old)
    PROVE  /\ new \in Request /\ new.sess <= Len(sess')
           /\ new.pc = old.pc /\ new.user = old.user /\ new.sess = old.sess
           /\ new.pass = old.pass /\ new.roles = old.roles /\ new.active = old.active
           /\ old.late => new.late
           /\ new.pc \notin WithoutRow => user'[new.user].exists
           /\ new.pc \in Refreshing => new.sess \in DOMAIN sess' /\ sess'[new.sess].user = new.user
           /\ new.pc = "login" => new.sess = 0
           /\ new.pc \in WithRole => \E role \in Roles : new.roles = {role}
<1>1. /\ Len(sess) \in Nat /\ Len(sess') \in Nat /\ Len(sess) <= Len(sess')
      /\ DOMAIN sess = 1 .. Len(sess) /\ DOMAIN sess' = 1 .. Len(sess')
  BY LenProperties DEF AuthTypeOK, TablesKept
<1>2. /\ new \in Request
      /\ new.pc = old.pc /\ new.user = old.user /\ new.sess = old.sess
      /\ new.pass = old.pass /\ new.roles = old.roles /\ new.active = old.active
      /\ old.late => new.late
  BY DEF Marked, Request
<1>3. old.user \in Users /\ old.sess \in Nat
  BY DEF Request
<1> QED
  BY <1>1, <1>2, <1>3 DEF GoodRequest, TablesKept

LEMMA StepType ==
    ASSUME AuthTypeOK, References, TablesKept, RequestsKept
    PROVE  AuthTypeOK' /\ References'
<1>1. /\ Len(sess) \in Nat /\ Len(sess') \in Nat /\ Len(sess) <= Len(sess')
      /\ DOMAIN sess = 1 .. Len(sess) /\ DOMAIN sess' = 1 .. Len(sess')
  BY LenProperties DEF AuthTypeOK, TablesKept
<1>2. ASSUME NEW v \in Workers PROVE req'[v].sess <= Len(sess') /\ GoodRequest(req[v])'
  <2>1. CASE req'[v].sess <= Len(sess') /\ GoodRequest(req[v])'
    BY <2>1
  <2>2. CASE Marked(req'[v], req[v])
    <3>1. req[v] \in Request /\ req[v].sess <= Len(sess) /\ GoodRequest(req[v])
      BY DEF AuthTypeOK, References
    <3> QED
      BY <2>2, <3>1, MarkedGood DEF GoodRequest
  <2> QED
    BY <2>1, <2>2 DEF RequestsKept
<1>3. ASSUME NEW s \in DOMAIN sess'
      PROVE  /\ sess'[s].parent < s
             /\ sess'[s].status # "gone" => user'[sess'[s].user].exists
             /\ sess'[s].parent # 0 => sess'[sess'[s].parent].user = sess'[s].user
  <2>1. CASE s \in DOMAIN sess
    <3>1. sess[s].parent < s /\ sess[s].user \in Users /\ sess[s].parent \in Nat
      BY <2>1, SessionFacts DEF AuthTypeOK, Session
    <3>2. sess[s].parent # 0 => sess[s].parent \in DOMAIN sess
      BY <1>1, <2>1, <3>1
    <3> QED
      BY <2>1, <3>1, <3>2 DEF AuthTypeOK, References, TablesKept
  <2>2. CASE s \notin DOMAIN sess
    BY <1>3, <2>2 DEF TablesKept
  <2> QED
    BY <2>1, <2>2
<1>4. AuthTypeOK'
  BY <1>2, <1>3 DEF AuthTypeOK, TablesKept, RequestsKept
<1> QED
  BY <1>2, <1>3, <1>4 DEF References

\* A handler's statement that writes no table.
LEMMA TablesSame ==
    ASSUME AuthTypeOK, UNCHANGED <<user, sess, made, kept>>, mixed' \in [Users -> BOOLEAN]
    PROVE  TablesKept
BY SessionFacts DEF AuthTypeOK, TablesKept

\* A request that starts, or ends, and one that goes on.
LEMMA Begins ==
    ASSUME AuthTypeOK, References, TablesKept, NEW w \in Workers, NEW new \in Request,
           req' = [req EXCEPT ![w] = new], new.sess <= Len(sess'),
           new.pc \notin WithoutRow => user'[new.user].exists,
           new.pc \in Refreshing => new.sess \in DOMAIN sess' /\ sess'[new.sess].user = new.user,
           new.pc = "login" => new.sess = 0,
           new.pc \in WithRole => \E role \in Roles : new.roles = {role}
    PROVE  AuthTypeOK' /\ References'
<1>1. RequestsKept
  BY DEF AuthTypeOK, RequestsKept, Marked, GoodRequest
<1> QED
  BY <1>1, StepType

LEMMA Finishes ==
    ASSUME AuthTypeOK, References, TablesKept, NEW w \in Workers, req' = Finish(w)
    PROVE  AuthTypeOK' /\ References'
<1>1. Arrived(SomeUser) \in Request
  BY ArrivedType, SomeUserType
<1>2. /\ Arrived(SomeUser).sess = 0
      /\ Arrived(SomeUser).pc \in WithoutRow \ (Refreshing \union WithRole \union {"login"})
  BY DEF Arrived, WithoutRow, Refreshing, WithRole, Replacement
<1>3. 0 <= Len(sess')
  BY LenProperties DEF TablesKept
<1> QED
  BY <1>1, <1>2, <1>3, Begins DEF Finish

LEMMA GoesOn ==
    ASSUME AuthTypeOK, References, TablesKept, NEW w \in Workers, NEW pc \in Pcs,
           req' = [req EXCEPT ![w].pc = pc],
           pc \notin WithoutRow => user'[req[w].user].exists,
           pc \in Refreshing => req[w].pc \in Refreshing,
           pc # "login",
           pc \in WithRole => req[w].pc \in WithRole
    PROVE  AuthTypeOK' /\ References'
<1>1. /\ req[w] \in Request /\ req[w].sess \in Nat /\ req[w].sess <= Len(sess) /\ GoodRequest(req[w])
      /\ req[w].user \in Users
  BY DEF AuthTypeOK, References, Request
<1>2. /\ Len(sess) \in Nat /\ Len(sess') \in Nat /\ Len(sess) <= Len(sess')
      /\ DOMAIN sess = 1 .. Len(sess) /\ DOMAIN sess' = 1 .. Len(sess')
  BY LenProperties DEF AuthTypeOK, TablesKept
<1> DEFINE new == [req[w] EXCEPT !.pc = pc]
<1>3. /\ new \in Request /\ new.pc = pc /\ new.user = req[w].user /\ new.sess = req[w].sess
      /\ new.roles = req[w].roles
  BY <1>1 DEF Request
<1>4. req' = [req EXCEPT ![w] = new]
  BY DEF AuthTypeOK
<1> HIDE DEF new
<1>5. new.pc \in Refreshing => new.sess \in DOMAIN sess' /\ sess'[new.sess].user = new.user
  BY <1>1, <1>2, <1>3 DEF GoodRequest, TablesKept
<1>6. new.pc \in WithRole => \E role \in Roles : new.roles = {role}
  BY <1>1, <1>3 DEF GoodRequest
<1>7. new.sess <= Len(sess') /\ new.pc # "login"
  BY <1>1, <1>2, <1>3
<1>8. new.pc \notin WithoutRow => user'[new.user].exists
  BY <1>3
<1> QED
  BY <1>3, <1>4, <1>5, <1>6, <1>7, <1>8, Begins

\* Statements that only revoke sessions.
StatusOnly ==
    /\ sess' \in Seq(Session) /\ Len(sess') = Len(sess)
    /\ \A s \in DOMAIN sess :
         /\ sess'[s].user = sess[s].user /\ sess'[s].parent = sess[s].parent
         /\ sess'[s].pass = sess[s].pass /\ sess'[s].late = sess[s].late
         /\ \/ sess'[s].status = sess[s].status
            \/ Live(s) /\ sess'[s].status \in {"rotated", "ended"}

LEMMA StatusWritten ==
    ASSUME AuthTypeOK, DOMAIN sess' = DOMAIN sess,
           \A s \in DOMAIN sess :
             \/ sess'[s] = sess[s]
             \/ \E st \in {"rotated", "ended"} :
                  Live(s) /\ sess'[s] = [sess[s] EXCEPT !.status = st],
           sess' = [s \in DOMAIN sess |-> sess'[s]]
    PROVE  StatusOnly
<1>1. Len(sess) \in Nat /\ DOMAIN sess = 1 .. Len(sess)
  BY SessionFacts
<1>2. ASSUME NEW s \in DOMAIN sess
      PROVE  /\ sess'[s] \in Session
             /\ sess'[s].user = sess[s].user /\ sess'[s].parent = sess[s].parent
             /\ sess'[s].pass = sess[s].pass /\ sess'[s].late = sess[s].late
             /\ \/ sess'[s].status = sess[s].status
                \/ Live(s) /\ sess'[s].status \in {"rotated", "ended"}
  <2>1. sess[s] \in Session
    BY SessionFacts
  <2> QED
    BY <2>1 DEF Session
<1>3. sess' \in [1 .. Len(sess) -> Session]
  BY <1>1, <1>2
<1>4. sess' \in Seq(Session)
  BY <1>1, <1>3, SeqDef
<1>5. Len(sess') = Len(sess)
  BY <1>1, <1>4, LenProperties
<1> QED
  BY <1>2, <1>4, <1>5 DEF StatusOnly

LEMMA AllRevoked ==
    ASSUME AuthTypeOK, NEW u \in Users, sess' = RevokedAll(u)
    PROVE  StatusOnly /\ \A s \in DOMAIN sess : sess[s].user = u => ~Live(s)'
<1> DEFINE n == [s \in DOMAIN sess |->
                   IF sess[s].user = u /\ Live(s)
                   THEN [sess[s] EXCEPT !.status = "ended"] ELSE sess[s]]
<1>1. sess' = n
  BY DEF RevokedAll
<1>2. sess' = [s \in DOMAIN sess |-> sess'[s]]
  BY <1>1
<1>3. \A s \in DOMAIN sess :
         sess'[s] = IF sess[s].user = u /\ Live(s)
                    THEN [sess[s] EXCEPT !.status = "ended"] ELSE sess[s]
  BY <1>1
<1>4. DOMAIN sess' = DOMAIN sess
  BY <1>1
<1> HIDE DEF n
<1>5. StatusOnly
  BY <1>2, <1>3, <1>4, StatusWritten
<1>6. ASSUME NEW s \in DOMAIN sess, sess[s].user = u PROVE sess'[s].status # "live"
  <2>1. sess[s] \in Session
    BY SessionFacts
  <2> QED
    BY <1>3, <1>6, <2>1 DEF Live, Session
<1> QED
  BY <1>5, <1>6 DEF Live

LEMMA OneRevoked ==
    ASSUME AuthTypeOK, NEW s \in DOMAIN sess, NEW st \in {"rotated", "ended"},
           sess' = [sess EXCEPT ![s].status = IF @ = "live" THEN st ELSE @]
    PROVE  StatusOnly /\ ~Live(s)' /\ \A r \in DOMAIN sess \ {s} : sess'[r] = sess[r]
<1>1. sess[s] \in Session /\ sess \in Seq(Session)
  BY SessionFacts DEF AuthTypeOK
<1>2. /\ sess'[s] = [sess[s] EXCEPT !.status = IF @ = "live" THEN st ELSE @]
      /\ \A r \in DOMAIN sess \ {s} : sess'[r] = sess[r]
      /\ DOMAIN sess' = DOMAIN sess
      /\ sess' = [r \in DOMAIN sess |-> sess'[r]]
  OBVIOUS
<1>3. IF Live(s) THEN sess'[s] = [sess[s] EXCEPT !.status = st] ELSE sess'[s] = sess[s]
  BY <1>1, <1>2 DEF Live, Session
<1>4. StatusOnly
  BY <1>2, <1>3, StatusWritten
<1>5. sess'[s].status # "live"
  BY <1>1, <1>3 DEF Live, Session
<1> QED
  BY <1>2, <1>4, <1>5 DEF Live

LEMMA RevokingKeeps ==
    ASSUME AuthTypeOK, StatusOnly, UNCHANGED <<user, made, mixed>>,
           kept' \in [Users -> SUBSET Nat]
    PROVE  TablesKept
<1>1. DOMAIN sess' = DOMAIN sess /\ Len(sess') \in Nat
  BY SessionFacts, LenProperties DEF StatusOnly
<1> QED
  BY <1>1, SMTT(30) DEF AuthTypeOK, TablesKept, StatusOnly, Live

LEMMA OvertakenMarks ==
    ASSUME NEW r \in [Workers -> Request], NEW u, NEW new, new = Overtaken(r, u)
    PROVE  /\ new \in [Workers -> Request]
           /\ \A w \in Workers :
                /\ Marked(new[w], r[w])
                /\ r[w].user = u /\ r[w].pc \in SigningIn => new[w].late
<1>1. \A w \in Workers : new[w] = IF r[w].user = u /\ r[w].pc \in SigningIn
                                 THEN [r[w] EXCEPT !.late = TRUE] ELSE r[w]
  BY DEF Overtaken, SigningIn, Refreshing
<1>2. ASSUME NEW w \in Workers
      PROVE  /\ new[w] \in Request /\ Marked(new[w], r[w])
             /\ r[w].user = u /\ r[w].pc \in SigningIn => new[w].late
  BY <1>1 DEF Request, Marked
<1>3. new = [w \in Workers |-> new[w]]
  BY DEF Overtaken
<1> QED
  BY <1>2, <1>3

LEMMA BeatenMarks ==
    ASSUME NEW r \in [Workers -> Request], NEW s, NEW new, new = Beaten(r, s)
    PROVE  /\ new \in [Workers -> Request]
           /\ \A w \in Workers :
                /\ Marked(new[w], r[w])
                /\ IF r[w].sess = s /\ r[w].pc \in {"refreshUser", "refreshRevoke"}
                   THEN new[w].late ELSE new[w] = r[w]
<1>1. \A w \in Workers : new[w] = IF r[w].sess = s /\ r[w].pc \in {"refreshUser", "refreshRevoke"}
                                 THEN [r[w] EXCEPT !.late = TRUE] ELSE r[w]
  BY DEF Beaten
<1>2. ASSUME NEW w \in Workers
      PROVE  /\ new[w] \in Request /\ Marked(new[w], r[w])
             /\ IF r[w].sess = s /\ r[w].pc \in {"refreshUser", "refreshRevoke"}
                THEN new[w].late ELSE new[w] = r[w]
  BY <1>1 DEF Request, Marked
<1>3. new = [w \in Workers |-> new[w]]
  BY DEF Beaten
<1> QED
  BY <1>2, <1>3

LEMMA SignInType ==
    ASSUME AuthTypeOK, References, NEW w \in Workers, SignIn(w)
    PROVE  AuthTypeOK' /\ References'
<1> USE DEF Pcs, WithoutRow, Refreshing, WithRole, Replacement
<1>1. ASSUME NEW u \in Users, LoginRead(w, u) PROVE AuthTypeOK' /\ References'
  <2> DEFINE new == [Arrived(u) EXCEPT !.pc = "login", !.pass = user[u].pass]
  <2>1. TablesKept
    BY <1>1, TablesSame DEF LoginRead, AuthTypeOK
  <2>2. user[u].pass \in Nat
    BY DEF AuthTypeOK, Account
  <2>3. new \in Request /\ new.pc = "login" /\ new.sess = 0 /\ new.user = u
    BY <2>2 DEF Arrived, Request
  <2>4. req' = [req EXCEPT ![w] = new] /\ user'[u].exists /\ 0 <= Len(sess')
    BY <1>1, SessionFacts DEF LoginRead, Signed
  <2> HIDE DEF new
  <2> QED
    BY <2>1, <2>3, <2>4, Begins
<1>2. ASSUME At(w, "login") \/ At(w, "refreshIssue"), Issue(w)
      PROVE AuthTypeOK' /\ References'
  <2> DEFINE new == NewSession(w)
  <2>1. req[w] \in Request /\ GoodRequest(req[w]) /\ req[w].sess <= Len(sess)
    BY DEF AuthTypeOK, References
  <2>2. /\ user[req[w].user].exists
        /\ req[w].sess # 0 => req[w].sess \in DOMAIN sess /\ sess[req[w].sess].user = req[w].user
    BY <1>2, <2>1 DEF At, GoodRequest
  <2>3. new \in Session /\ new.user = req[w].user /\ new.parent = req[w].sess
    BY <2>1 DEF NewSession, Session, Request
  <2>4. sess' = Append(sess, new) /\ UNCHANGED <<user, made, kept, mixed>> /\ req' = Finish(w)
    BY <1>2 DEF Issue
  <2> HIDE DEF new
  <2>5. /\ sess \in Seq(Session) /\ Len(sess) \in Nat /\ DOMAIN sess = 1 .. Len(sess)
        /\ sess' \in Seq(Session) /\ Len(sess') = Len(sess) + 1
        /\ \A i \in 1 .. Len(sess) : sess'[i] = sess[i]
        /\ sess'[Len(sess) + 1] = new
    BY <2>3, <2>4, SessionFacts, AppendProperties DEF AuthTypeOK
  <2>6. DOMAIN sess' = 1 .. Len(sess) + 1
    BY <2>5, LenProperties
  <2>7. req[w].sess \in Nat
    BY <2>1 DEF Request
  <2>8. TablesKept
    BY <2>1, <2>2, <2>3, <2>4, <2>5, <2>6, <2>7 DEF AuthTypeOK, TablesKept
  <2> QED
    BY <2>4, <2>8, Finishes
<1>3. ASSUME NEW s \in DOMAIN sess, RefreshRead(w, s) PROVE AuthTypeOK' /\ References'
  <2> DEFINE new == [Arrived(sess[s].user) EXCEPT !.pc = "refreshUser", !.sess = s,
                       !.pass = sess[s].pass, !.late = sess[s].late]
  <2>1. TablesKept
    BY <1>3, TablesSame DEF RefreshRead, AuthTypeOK
  <2>2. s \in Nat /\ s <= Len(sess) /\ sess[s] \in Session /\ user[sess[s].user].exists
    BY <1>3, SessionFacts DEF AuthTypeOK, RefreshRead, Live
  <2>3. new \in Request /\ new.pc = "refreshUser" /\ new.sess = s /\ new.user = sess[s].user
    BY <2>2 DEF Arrived, Request, Session
  <2>4. req' = [req EXCEPT ![w] = new] /\ UNCHANGED <<user, sess>>
    BY <1>3 DEF RefreshRead
  <2> HIDE DEF new
  <2> QED
    BY <2>1, <2>2, <2>3, <2>4, Begins
<1>4. ASSUME RefreshUser(w) PROVE AuthTypeOK' /\ References'
  <2>1. TablesKept
    BY <1>4, TablesSame DEF RefreshUser, AuthTypeOK
  <2> QED
    BY <1>4, <2>1, GoesOn DEF RefreshUser, At, Signed
<1>5. ASSUME RefreshRevoke(w) PROVE AuthTypeOK' /\ References'
  <2> DEFINE mid == [req EXCEPT ![w].pc = "refreshIssue"]
             s   == req[w].sess
  <2>1. /\ req[w] \in Request /\ GoodRequest(req[w]) /\ req[w].pc = "refreshRevoke"
        /\ user[req[w].user].exists /\ s \in DOMAIN sess /\ sess[s].user = req[w].user
    BY <1>5 DEF AuthTypeOK, References, RefreshRevoke, At, GoodRequest
  <2>2. StatusOnly /\ UNCHANGED <<user, made, kept, mixed>>
    BY <1>5, <2>1, OneRevoked DEF RefreshRevoke
  <2>3. TablesKept
    BY <2>2, RevokingKeeps DEF AuthTypeOK
  <2>4. mid \in [Workers -> Request] /\ req' = Beaten(mid, s)
    BY <1>5, <2>1 DEF AuthTypeOK, RefreshRevoke, Request
  <2>5. /\ req' \in [Workers -> Request]
        /\ \A v \in Workers : Marked(req'[v], mid[v])
    BY <2>4, BeatenMarks
  <2>6. \A v \in Workers \ {w} : Marked(req'[v], req[v])
    BY <2>5 DEF AuthTypeOK
  <2>7. req'[w].sess <= Len(sess') /\ GoodRequest(req[w])'
    <3>1. /\ mid[w] \in Request /\ mid[w].sess = s /\ mid[w].user = req[w].user
          /\ mid[w].pc = "refreshIssue" /\ mid[w].sess <= Len(sess)
      BY <2>1 DEF AuthTypeOK, Request
    <3>2. GoodRequest(mid[w])
      BY <2>1, <3>1 DEF GoodRequest
    <3> HIDE DEF mid
    <3> QED
      BY <2>3, <2>5, <3>1, <3>2, MarkedGood DEF GoodRequest
  <2> QED
    BY <2>3, <2>5, <2>6, <2>7, StepType DEF RequestsKept
<1> QED
  BY <1>1, <1>2, <1>3, <1>4, <1>5 DEF SignIn, LoginIssue, RefreshIssue

\* A write of the password keeps the tables.
LEMMA PasswordSet ==
    ASSUME AuthTypeOK, NEW u \in Users, NEW must \in BOOLEAN, NEW act \in BOOLEAN,
           SetPassword(u, must, act), UNCHANGED <<sess, mixed>>
    PROVE  /\ TablesKept
           /\ \A v \in Users \ {u} : user'[v] = user[v] /\ kept'[v] = kept[v]
           /\ user'[u].exists = user[u].exists /\ user'[u].active = act
           /\ user'[u].roles = user[u].roles
           /\ kept'[u] = kept[u] \union {user[u].pass}
<1>1. /\ user' = [user EXCEPT ![u] = [@ EXCEPT !.pass = made + 1, !.mustChange = must, !.active = act]]
      /\ kept' = [kept EXCEPT ![u] = @ \union {user[u].pass}] /\ made' = made + 1
  BY DEF SetPassword, AuthTypeOK
<1>2. user[u] \in Account /\ user[u].pass \in Nat /\ made \in Nat
  BY DEF AuthTypeOK, Account
<1> DEFINE n   == made + 1
           row == [user[u] EXCEPT !.pass = n, !.mustChange = must, !.active = act]
<1>3. n \in Nat /\ user' = [user EXCEPT ![u] = row]
  BY <1>1, <1>2
<1> HIDE DEF n
<1>4. row \in Account /\ row.exists = user[u].exists /\ row.active = act /\ row.roles = user[u].roles
  BY <1>2, <1>3 DEF Account
<1> HIDE DEF row
<1>6. /\ user' \in [Users -> Account] /\ user'[u] = row
      /\ \A v \in Users \ {u} : user'[v] = user[v]
  BY <1>3, <1>4 DEF AuthTypeOK
<1>5. kept' \in [Users -> SUBSET Nat]
  BY <1>1, <1>2 DEF AuthTypeOK
<1>7. TablesKept
  BY <1>1, <1>2, <1>4, <1>5, <1>6, SessionFacts DEF AuthTypeOK, TablesKept
<1> QED
  BY <1>1, <1>4, <1>6, <1>7 DEF AuthTypeOK

LEMMA RevokeAllKeeps ==
    ASSUME AuthTypeOK, References, NEW u \in Users, NEW r, RevokeAll(u, r),
           UNCHANGED <<user, made, mixed>>,
           r = req \/ \E w \in Workers : r = Finish(w)
    PROVE  /\ AuthTypeOK' /\ References'
           /\ StatusOnly /\ \A s \in DOMAIN sess : sess[s].user = u => ~Live(s)'
<1>1. StatusOnly /\ \A s \in DOMAIN sess : sess[s].user = u => ~Live(s)'
  BY AllRevoked DEF RevokeAll
<1>2. TablesKept
  BY <1>1, RevokingKeeps DEF RevokeAll, AuthTypeOK
<1>3. r \in [Workers -> Request]
  BY ArrivedType, SomeUserType DEF AuthTypeOK, Finish
<1>4. /\ req' \in [Workers -> Request]
      /\ \A w \in Workers : Marked(req'[w], r[w])
  BY <1>3, OvertakenMarks DEF RevokeAll
<1>5. ASSUME NEW v \in Workers
      PROVE  \/ Marked(req'[v], req[v])
             \/ req'[v].sess <= Len(sess') /\ GoodRequest(req[v])'
  <2>1. CASE r[v] = req[v]
    BY <1>4, <2>1
  <2>2. CASE r[v] # req[v]
    <3>1. r[v] = Arrived(SomeUser)
      BY <2>2 DEF Finish, AuthTypeOK
    <3>2. /\ r[v] \in Request /\ r[v].sess = 0 /\ r[v].sess <= Len(sess) /\ GoodRequest(r[v])
      <4>1. r[v].pc = "idle" /\ r[v].sess = 0
        BY <3>1 DEF Arrived
      <4> QED
        BY <1>3, <4>1, SessionFacts DEF GoodRequest, WithoutRow, Refreshing, WithRole, Replacement
    <3> QED
      BY <1>2, <1>4, <3>2, MarkedGood DEF GoodRequest
  <2> QED
    BY <2>1, <2>2
<1> QED
  BY <1>1, <1>2, <1>4, <1>5, StepType DEF RequestsKept

LEMMA PasswordType ==
    ASSUME AuthTypeOK, References, NEW w \in Workers, Password(w)
    PROVE  AuthTypeOK' /\ References'
<1> USE DEF Pcs, WithoutRow, Refreshing, WithRole, Replacement
<1>1. ASSUME NEW u \in Users, NEW pc \in {"change", "initial", "reset"}, user[u].exists,
             req' = [req EXCEPT ![w] = [Arrived(u) EXCEPT !.pc = pc]],
             UNCHANGED <<user, sess, made, kept, mixed>>
      PROVE  AuthTypeOK' /\ References'
  <2> DEFINE new == [Arrived(u) EXCEPT !.pc = pc]
  <2>1. TablesKept
    BY <1>1, TablesSame DEF AuthTypeOK
  <2>2. new \in Request /\ new.pc = pc /\ new.sess = 0 /\ new.user = u
    BY DEF Arrived, Request
  <2>3. req' = [req EXCEPT ![w] = new] /\ user'[u].exists /\ 0 <= Len(sess')
    BY <1>1, SessionFacts
  <2> HIDE DEF new
  <2> QED
    BY <1>1, <2>1, <2>2, <2>3, Begins
<1>2. ASSUME NEW u \in Users,
             ChangePasswordRead(w, u) \/ SetInitialPasswordRead(w, u) \/ AdminResetRead(w, u)
      PROVE  AuthTypeOK' /\ References'
  BY <1>1, <1>2 DEF ChangePasswordRead, SetInitialPasswordRead, AdminResetRead, Signed
<1>3. req[w].user \in Users /\ user[req[w].user].active \in BOOLEAN /\ GoodRequest(req[w])
  BY DEF AuthTypeOK, Request, Account, References
<1>4. CASE ChangePasswordWrite(w)
  <2>1. TablesKept
    BY <1>3, <1>4, PasswordSet DEF ChangePasswordWrite
  <2>2. user'[req[w].user].exists
    BY <1>3, <1>4, <2>1 DEF ChangePasswordWrite, At, GoodRequest, TablesKept
  <2> QED
    BY <1>4, <2>1, <2>2, GoesOn DEF ChangePasswordWrite
<1>5. CASE AdminResetWrite(w)
  <2>1. TablesKept
    BY <1>3, <1>5, PasswordSet DEF AdminResetWrite
  <2>2. user'[req[w].user].exists
    BY <1>3, <1>5, <2>1 DEF AdminResetWrite, At, GoodRequest, TablesKept
  <2> QED
    BY <1>5, <2>1, <2>2, GoesOn DEF AdminResetWrite
<1>6. CASE SetInitialPasswordWrite(w)
  <2>1. TablesKept
    BY <1>3, <1>6, PasswordSet DEF SetInitialPasswordWrite
  <2> QED
    BY <1>6, <2>1, Finishes DEF SetInitialPasswordWrite
<1>7. CASE ChangePasswordRevoke(w) \/ AdminResetRevoke(w)
  BY <1>3, <1>7, RevokeAllKeeps DEF ChangePasswordRevoke, AdminResetRevoke
<1> QED
  BY <1>2, <1>4, <1>5, <1>6, <1>7 DEF Password

LEMMA AccountsKept ==
    ASSUME AuthTypeOK, UNCHANGED sess, user' \in [Users -> Account],
           \A u \in Users : user[u].exists => user'[u].exists,
           made' \in Nat, kept' \in [Users -> SUBSET Nat], mixed' \in [Users -> BOOLEAN]
    PROVE  TablesKept
BY SessionFacts DEF AuthTypeOK, TablesKept

LEMMA UpdateUserReadType ==
    ASSUME AuthTypeOK, References, NEW w \in Workers, NEW u \in Users, NEW r \in Roles,
           UpdateUserRead(w, u, r)
    PROVE  AuthTypeOK' /\ References'
<1> DEFINE new == [Arrived(u) EXCEPT !.pc = "rolesDelete", !.roles = {r}]
<1>1. TablesKept
  BY TablesSame DEF UpdateUserRead, AuthTypeOK
<1>2. new \in Request /\ new.pc = "rolesDelete" /\ new.sess = 0 /\ new.user = u /\ new.roles = {r}
  BY DEF Arrived, Request, Pcs
<1>3. req' = [req EXCEPT ![w] = new] /\ user'[u].exists /\ 0 <= Len(sess')
  BY SessionFacts DEF UpdateUserRead
<1> HIDE DEF new
<1> QED
  BY <1>1, <1>2, <1>3, Begins DEF WithoutRow, Refreshing, WithRole, Replacement

LEMMA RoleUpdateType ==
    ASSUME AuthTypeOK, References, NEW w \in Workers, RoleUpdate(w)
    PROVE  AuthTypeOK' /\ References'
<1> DEFINE u == req[w].user
<1>1. req[w] \in Request /\ u \in Users /\ user[u] \in Account /\ GoodRequest(req[w])
  BY DEF AuthTypeOK, Request, References
<1>2. CASE UpdateUserDelete(w)
  <2>1. user' \in [Users -> Account] /\ \A x \in Users : user'[x].exists = user[x].exists
    BY <1>1, <1>2 DEF UpdateUserDelete, AuthTypeOK, Account
  <2>2. mixed' \in [Users -> BOOLEAN]
    BY <1>1, <1>2, Zenon DEF UpdateUserDelete, AuthTypeOK, Replacing
  <2>3. TablesKept
    BY <1>2, <2>1, <2>2, AccountsKept DEF UpdateUserDelete, AuthTypeOK
  <2>4. /\ req' = [req EXCEPT ![w].pc = "rolesCreate"] /\ req[w].pc = "rolesDelete"
        /\ user'[u].exists
    BY <1>1, <1>2, <2>1 DEF UpdateUserDelete, At, GoodRequest, WithoutRow
  <2> QED
    BY <2>3, <2>4, GoesOn DEF Pcs, WithoutRow, Refreshing, WithRole, Replacement
<1>3. CASE UpdateUserCreate(w)
  <2>1. req[w].roles \subseteq Roles
    BY <1>1 DEF Request
  <2>2. user' \in [Users -> Account] /\ \A x \in Users : user'[x].exists = user[x].exists
    BY <1>1, <1>3, <2>1 DEF UpdateUserCreate, AuthTypeOK, Account
  <2>3. TablesKept
    BY <1>3, <2>2, AccountsKept DEF UpdateUserCreate, AuthTypeOK
  <2> QED
    BY <1>3, <2>3, Finishes DEF UpdateUserCreate
<1> QED
  BY <1>2, <1>3, UpdateUserReadType DEF RoleUpdate

LEMMA AbortType ==
    ASSUME AuthTypeOK, References, NEW w \in Workers, AbortRequest(w)
    PROVE  AuthTypeOK' /\ References'
<1>1. mixed' \in [Users -> BOOLEAN]
  BY DEF AbortRequest, AuthTypeOK
<1>2. TablesKept
  BY <1>1, TablesSame DEF AbortRequest
<1> QED
  BY <1>2, Finishes DEF AbortRequest

LEMMA DeleteUserType ==
    ASSUME AuthTypeOK, References, NEW u \in Users, DeleteUser(u)
    PROVE  AuthTypeOK' /\ References'
<1>1. /\ user' \in [Users -> Account] /\ made' \in Nat
      /\ kept' \in [Users -> SUBSET Nat] /\ mixed' \in [Users -> BOOLEAN]
      /\ \A x \in Users \ {u} : user'[x] = user[x]
  <2>1. NoAccount \in Account
    BY DEF NoAccount, Account
  <2> QED
    BY <2>1 DEF DeleteUser, AuthTypeOK
<1>2. /\ Len(sess) \in Nat /\ DOMAIN sess = 1 .. Len(sess)
      /\ \A s \in DOMAIN sess : sess[s] \in Session
  BY SessionFacts
<1>3. /\ DOMAIN sess' = DOMAIN sess
      /\ \A s \in DOMAIN sess : sess'[s] = IF sess[s].user = u THEN GoneSession(u) ELSE sess[s]
  BY DEF DeleteUser
<1>4. GoneSession(u) \in Session /\ GoneSession(u).user = u /\ GoneSession(u).status = "gone"
      /\ GoneSession(u).parent = 0
  BY DEF GoneSession, Session
<1>5. sess' \in Seq(Session) /\ Len(sess') = Len(sess)
  <2>1. sess' \in [1 .. Len(sess) -> Session]
    BY <1>2, <1>3, <1>4 DEF DeleteUser
  <2>2. sess' \in Seq(Session)
    BY <1>2, <2>1, SeqDef
  <2> QED
    BY <1>2, <1>3, <2>2, LenProperties
<1>6. ASSUME NEW s \in DOMAIN sess'
      PROVE  /\ sess'[s].user = sess[s].user
             /\ sess'[s].parent < s
             /\ sess'[s].status # "gone" => user'[sess'[s].user].exists
             /\ sess'[s].parent # 0 => sess'[sess'[s].parent].user = sess'[s].user
  <2>1. CASE sess[s].user = u
    BY <1>2, <1>3, <1>4, <2>1
  <2>2. CASE sess[s].user # u
    <3>1. /\ sess'[s] = sess[s] /\ sess[s].user \in Users \ {u} /\ sess[s].parent \in Nat
          /\ sess[s].parent < s
      BY <1>2, <1>3, <2>2 DEF AuthTypeOK, Session
    <3>2. sess[s].parent # 0 => sess[s].parent \in DOMAIN sess /\ sess[sess[s].parent].user = sess[s].user
      BY <1>2, <1>3, <3>1 DEF References
    <3>3. sess[s].parent # 0 => sess'[sess[s].parent] = sess[sess[s].parent]
      BY <1>3, <3>1, <3>2
    <3> QED
      BY <1>1, <1>3, <3>1, <3>2, <3>3 DEF AuthTypeOK
  <2> QED
    BY <2>1, <2>2
<1>7. /\ DOMAIN req' = Workers /\ req' = [w \in Workers |-> req'[w]]
      /\ \A w \in Workers :
           req'[w] = IF req[w].user # u \/ req[w].pc \in {"idle", "sync", "syncInsert", "link", "status"}
                     THEN req[w]
                     ELSE [Arrived(u) EXCEPT !.pc =
                             IF req[w].pc \in {"syncUpdate", "syncRole"} THEN "link" ELSE "failing"]
  BY DEF DeleteUser, Orphaned
<1>8. ASSUME NEW w \in Workers
      PROVE  req'[w] \in Request /\ req'[w].sess <= Len(sess') /\ GoodRequest(req[w])'
  <2>1. req[w] \in Request /\ req[w].user \in Users /\ req[w].sess <= Len(sess) /\ GoodRequest(req[w])
    BY DEF AuthTypeOK, References, Request
  <2>2. CASE req[w].user # u
    <3>1. req'[w] = req[w] /\ user'[req[w].user] = user[req[w].user]
      BY <1>1, <1>7, <2>1, <2>2
    <3> QED
      BY <1>3, <1>5, <1>6, <2>1, <3>1 DEF GoodRequest
  <2>3. CASE req[w].user = u /\ req[w].pc \in {"idle", "sync", "syncInsert", "link", "status"}
    <3>1. req'[w] = req[w]
      BY <1>7, <2>3
    <3> QED
      BY <1>5, <2>1, <2>3, <3>1 DEF GoodRequest, WithoutRow, Refreshing, WithRole, Replacement
  <2>4. CASE req[w].user = u /\ req[w].pc \notin {"idle", "sync", "syncInsert", "link", "status"}
    <3>1. PICK pc \in {"link", "failing"} : req'[w] = [Arrived(u) EXCEPT !.pc = pc]
      BY <1>7, <2>4
    <3>2. Arrived(u) \in Request /\ Arrived(u).sess = 0 /\ pc \in Pcs
      BY ArrivedType DEF Arrived, Pcs
    <3>3. req'[w] \in Request /\ req'[w].pc \in {"link", "failing"} /\ req'[w].sess = 0
      BY <3>1, <3>2 DEF Request
    <3> QED
      BY <1>2, <1>5, <3>3 DEF GoodRequest, WithoutRow, Refreshing, WithRole, Replacement
  <2> QED
    BY <2>2, <2>3, <2>4
<1>9. req' \in [Workers -> Request]
  BY <1>7, <1>8
<1> QED
  BY <1>1, <1>5, <1>6, <1>8, <1>9 DEF AuthTypeOK, References

LEMMA AdministrationType ==
    ASSUME AuthTypeOK, References, Administration
    PROVE  AuthTypeOK' /\ References'
<1>1. ASSUME NEW s \in DOMAIN sess, LogoutSession(s) PROVE AuthTypeOK' /\ References'
  <2>1. sess' = [sess EXCEPT ![s].status = IF @ = "live" THEN "ended" ELSE @]
    BY <1>1 DEF LogoutSession, Live
  <2>2. StatusOnly
    BY <2>1, OneRevoked
  <2>3. TablesKept
    BY <1>1, <2>2, RevokingKeeps DEF LogoutSession, AuthTypeOK
  <2>4. RequestsKept
    BY <1>1, BeatenMarks DEF LogoutSession, AuthTypeOK, RequestsKept
  <2> QED
    BY <2>3, <2>4, StepType
<1>2. ASSUME NEW u \in Users, LogoutAll(u) PROVE AuthTypeOK' /\ References'
  BY <1>2, RevokeAllKeeps DEF LogoutAll
<1>3. ASSUME NEW u \in Users, DeleteUser(u) PROVE AuthTypeOK' /\ References'
  BY <1>3, DeleteUserType
<1>4. ASSUME UNCHANGED req, TablesKept PROVE AuthTypeOK' /\ References'
  BY <1>4, StepType DEF RequestsKept, Marked, AuthTypeOK
<1>5. ASSUME NEW u \in Users, NEW b \in BOOLEAN, SetActiveStatus(u, b)
      PROVE  AuthTypeOK' /\ References'
  <2>1. user' \in [Users -> Account] /\ \A x \in Users : user'[x].exists = user[x].exists
    BY <1>5 DEF SetActiveStatus, AuthTypeOK, Account
  <2> QED
    BY <1>4, <1>5, <2>1, AccountsKept DEF SetActiveStatus, AuthTypeOK
<1>6. ASSUME NEW u \in Users, NEW r \in Roles, CreateUser(u, r)
      PROVE  AuthTypeOK' /\ References'
  <2>1. made' \in Nat /\ made' = made + 1
    BY <1>6 DEF CreateUser, AuthTypeOK
  <2>2. [exists |-> TRUE, active |-> TRUE, pass |-> made + 1, mustChange |-> FALSE, roles |-> {r}]
           \in Account
    BY <2>1 DEF Account
  <2>3. user' \in [Users -> Account] /\ \A x \in Users : user[x].exists => user'[x].exists
    BY <1>6, <2>2 DEF CreateUser, AuthTypeOK
  <2> QED
    BY <1>4, <1>6, <2>1, <2>3, AccountsKept DEF CreateUser, AuthTypeOK
<1> QED
  BY <1>1, <1>2, <1>3, <1>5, <1>6 DEF Administration

LEMMA AuthNextType ==
    ASSUME AuthTypeOK, References, AuthNext
    PROVE  AuthTypeOK' /\ References'
BY SignInType, PasswordType, RoleUpdateType, AbortType, AdministrationType DEF AuthNext

\* The employee-service's own steps.
EmployeeNext ==
    \/ \E w \in Workers : Provisioning(w) \/ StatusAndRole(w)
    \/ \E u \in Users : GetEmployeeMe(u) \/ DeleteEmployee(u)
    \/ \E u \in Users, st \in Statuses : UpdateEmployee(u, st)

LEMMA EmployeeBegins ==
    ASSUME AuthTypeOK, References, NEW w \in Workers, NEW new \in Request,
           req' = [req EXCEPT ![w] = new], UNCHANGED <<user, sess, made, kept, mixed>>,
           new.sess = 0, new.pc \in {"sync", "status"},
           new.pc = "sync" => \E r \in Roles : new.roles = {r}
    PROVE  AuthTypeOK' /\ References'
<1>1. TablesKept
  BY TablesSame DEF AuthTypeOK
<1>2. 0 <= Len(sess')
  BY SessionFacts
<1> QED
  BY <1>1, <1>2, Begins DEF WithoutRow, Refreshing, WithRole, Replacement

LEMMA ProvisioningType ==
    ASSUME AuthTypeOK, References, NEW w \in Workers, Provisioning(w)
    PROVE  AuthTypeOK' /\ References'
<1> DEFINE u == req[w].user
<1>1. /\ req[w] \in Request /\ u \in Users /\ user[u] \in Account /\ GoodRequest(req[w])
      /\ \A x \in Users : user[x] \in Account
  BY DEF AuthTypeOK, Request, References
<1>2. ASSUME NEW x \in Users, NEW r \in Roles, Goes(w, x, "sync", {r}),
             UNCHANGED <<user, sess, made, kept, mixed>>
      PROVE  AuthTypeOK' /\ References'
  <2> DEFINE new == [Arrived(x) EXCEPT !.pc = "sync", !.roles = {r}]
  <2>1. new \in Request /\ new.pc = "sync" /\ new.sess = 0 /\ new.roles = {r}
    BY DEF Arrived, Request, Pcs
  <2>2. req' = [req EXCEPT ![w] = new]
    BY <1>2 DEF Goes
  <2> HIDE DEF new
  <2> QED
    BY <1>2, <2>1, <2>2, EmployeeBegins
<1>3. ASSUME NEW x \in Users, NEW st \in Statuses, NEW r \in Roles, CreateEmployee(w, x, st, r)
      PROVE  AuthTypeOK' /\ References'
  BY <1>2, <1>3 DEF CreateEmployee
<1>4. ASSUME NEW x \in Users, ResendCredentials(w, x) PROVE AuthTypeOK' /\ References'
  <2>1. user[x].roles \subseteq Roles
    BY <1>1 DEF Account
  <2>2. \E r \in Roles : Goes(w, x, "sync", {r})
    BY <1>4, <2>1, Zenon DEF ResendCredentials
  <2> QED
    BY <1>2, <1>4, <2>2 DEF ResendCredentials
<1>5. CASE Sync(w)
  <2>1. TablesKept
    BY <1>5, TablesSame DEF Sync, AuthTypeOK
  <2>2. PICK pc \in {"syncUpdate", "syncInsert"} :
           req' = [req EXCEPT ![w].pc = pc] /\ (pc = "syncUpdate" => user'[u].exists)
    BY <1>5 DEF Sync
  <2>3. req[w].pc = "sync"
    BY <1>5 DEF Sync, At
  <2> QED
    BY <2>1, <2>2, <2>3, GoesOn DEF Pcs, WithoutRow, Refreshing, WithRole, Replacement
<1>6. CASE SyncUpdate(w)
  <2>1. TablesKept /\ user'[u].exists = user[u].exists
    BY <1>1, <1>6, PasswordSet DEF SyncUpdate
  <2>2. req[w].pc = "syncUpdate" /\ user[u].exists
    BY <1>1, <1>6 DEF SyncUpdate, At, GoodRequest, WithoutRow
  <2> QED
    BY <1>6, <2>1, <2>2, GoesOn DEF SyncUpdate, Pcs, WithoutRow, Refreshing, WithRole, Replacement
<1>7. CASE SyncInsert(w)
  <2>1. made' \in Nat /\ made' = made + 1
    BY <1>7 DEF SyncInsert, AuthTypeOK
  <2>2. [exists |-> TRUE, active |-> TRUE, pass |-> made + 1, mustChange |-> TRUE, roles |-> {}]
           \in Account
    BY <2>1 DEF Account
  <2>3. /\ user' \in [Users -> Account] /\ user'[u].exists
        /\ \A x \in Users : user[x].exists => user'[x].exists
    BY <1>1, <1>7, <2>2 DEF SyncInsert, AuthTypeOK
  <2>4. TablesKept
    BY <1>7, <2>1, <2>3, AccountsKept DEF SyncInsert, AuthTypeOK
  <2>5. req[w].pc = "syncInsert"
    BY <1>7 DEF SyncInsert, At
  <2> QED
    BY <1>7, <2>3, <2>4, <2>5, GoesOn DEF SyncInsert, Pcs, WithoutRow, Refreshing, WithRole, Replacement
<1>8. CASE SyncRole(w)
  <2> DEFINE new == [req[w] EXCEPT !.pc = "link", !.roles = {}]
  <2>1. req[w].roles \subseteq Roles /\ user[u].roles \subseteq Roles
    BY <1>1 DEF Request, Account
  <2>2. user' \in [Users -> Account] /\ \A x \in Users : user'[x].exists = user[x].exists
    BY <1>1, <1>8, <2>1 DEF SyncRole, AuthTypeOK, Account
  <2>3. mixed' \in [Users -> BOOLEAN]
    BY <1>1, <1>8, Zenon DEF SyncRole, AuthTypeOK, Replacing
  <2>4. TablesKept
    BY <1>8, <2>2, <2>3, AccountsKept DEF SyncRole, AuthTypeOK
  <2>5. new \in Request /\ new.pc = "link" /\ new.sess = req[w].sess
    BY <1>1 DEF Request, Pcs
  <2>6. req' = [req EXCEPT ![w] = new] /\ new.sess <= Len(sess')
    BY <1>8, <2>5 DEF SyncRole, AuthTypeOK
  <2> HIDE DEF new
  <2> QED
    BY <2>4, <2>5, <2>6, Begins DEF WithoutRow, Refreshing, WithRole, Replacement
<1>9. CASE Link(w)
  <2>1. TablesKept
    BY <1>9, TablesSame DEF Link, AuthTypeOK
  <2> QED
    BY <1>9, <2>1, Finishes DEF Link
<1> QED
  BY <1>3, <1>4, <1>5, <1>6, <1>7, <1>8, <1>9 DEF Provisioning

LEMMA StatusAndRoleType ==
    ASSUME AuthTypeOK, References, NEW w \in Workers, StatusAndRole(w)
    PROVE  AuthTypeOK' /\ References'
<1>1. ASSUME NEW u \in Users, NEW st \in Statuses, UpdateEmployeeStatus(w, u, st)
      PROVE  AuthTypeOK' /\ References'
  <2> DEFINE act == (st = "ACTIVE")
             new == [Arrived(u) EXCEPT !.pc = "status", !.active = act]
  <2>1. act \in BOOLEAN /\ req' = [req EXCEPT ![w] = new]
    BY <1>1 DEF UpdateEmployeeStatus
  <2> HIDE DEF act
  <2>2. new \in Request /\ new.pc = "status" /\ new.sess = 0
    BY <2>1 DEF Arrived, Request, Pcs
  <2> HIDE DEF new
  <2> QED
    BY <1>1, <2>1, <2>2, EmployeeBegins DEF UpdateEmployeeStatus
<1>2. CASE SyncStatus(w)
  <2>1. req[w] \in Request /\ req[w].user \in Users /\ req[w].active \in BOOLEAN
    BY DEF AuthTypeOK, Request
  <2>2. user' \in [Users -> Account] /\ \A x \in Users : user'[x].exists = user[x].exists
    <3> DEFINE u == req[w].user
               b == IF user[u].exists THEN req[w].active ELSE user[u].active
               row == [user[u] EXCEPT !.active = b]
    <3>1. user[u] \in Account /\ b \in BOOLEAN
      BY <2>1 DEF AuthTypeOK, Account
    <3>2. user' = [user EXCEPT ![u] = row]
      BY <1>2 DEF SyncStatus
    <3> HIDE DEF b
    <3>3. row \in Account /\ row.exists = user[u].exists
      BY <3>1 DEF Account
    <3> HIDE DEF row
    <3> QED
      BY <2>1, <3>2, <3>3 DEF AuthTypeOK
  <2>3. TablesKept
    BY <1>2, <2>2, AccountsKept DEF SyncStatus, AuthTypeOK
  <2> QED
    BY <1>2, <2>3, Finishes DEF SyncStatus
<1> QED
  BY <1>1, <1>2, UpdateUserReadType DEF StatusAndRole, UpdateEmployeeRole

LEMMA EmployeeNextType ==
    ASSUME AuthTypeOK, References, EmployeeNext
    PROVE  AuthTypeOK' /\ References'
<1>1. ASSUME UNCHANGED <<user, sess, req, made, kept, mixed>> PROVE AuthTypeOK' /\ References'
  BY <1>1 DEF AuthTypeOK, References, GoodRequest
<1> QED
  BY <1>1, ProvisioningType, StatusAndRoleType
     DEF EmployeeNext, GetEmployeeMe, DeleteEmployee, UpdateEmployee

LEMMA EmployeesType ==
    ASSUME TypeInv, [Next]_vars
    PROVE  emp' \in [Users -> Employee] /\ loose' \in [Users -> BOOLEAN]
<1>1. /\ emp \in [Users -> Employee] /\ loose \in [Users -> BOOLEAN]
      /\ \A w \in Workers : req[w].user \in Users
  BY DEF TypeInv, TypeOK, AuthTypeOK, Request
<1>2. ASSUME NEW w \in Workers, NEW u \in Users, NEW st \in Statuses, NEW r \in Roles,
             CreateEmployee(w, u, st, r)
      PROVE  emp' \in [Users -> Employee] /\ loose' \in [Users -> BOOLEAN]
  <2>1. [exists |-> TRUE, status |-> st, linked |-> FALSE] \in Employee
    BY DEF Employee
  <2> QED
    BY <1>1, <1>2, <2>1 DEF CreateEmployee
<1>3. ASSUME NEW w \in Workers, SyncUpdate(w) \/ SyncInsert(w)
      PROVE  emp' \in [Users -> Employee] /\ loose' \in [Users -> BOOLEAN]
  BY <1>1, <1>3 DEF SyncUpdate, SyncInsert, Activated
<1>4. ASSUME NEW w \in Workers, Link(w)
      PROVE  emp' \in [Users -> Employee] /\ loose' \in [Users -> BOOLEAN]
  BY <1>1, <1>4 DEF Link, Employee
<1>5. ASSUME NEW w \in Workers, NEW u \in Users, NEW st \in Statuses,
             UpdateEmployeeStatus(w, u, st)
      PROVE  emp' \in [Users -> Employee] /\ loose' \in [Users -> BOOLEAN]
  <2>1. emp' \in [Users -> Employee]
    BY <1>1, <1>5 DEF UpdateEmployeeStatus, Employee
  <2>2. StatusPending(u) \in BOOLEAN
    BY DEF StatusPending
  <2>3. loose' = [loose EXCEPT ![u] = StatusPending(u)]
    BY <1>5 DEF UpdateEmployeeStatus
  <2> QED
    BY <1>1, <2>1, <2>2, <2>3
<1>6. ASSUME NEW u \in Users, NEW st \in Statuses, UpdateEmployee(u, st)
      PROVE  emp' \in [Users -> Employee] /\ loose' \in [Users -> BOOLEAN]
  BY <1>1, <1>6 DEF UpdateEmployee, Employee
<1>7. ASSUME NEW u \in Users, GetEmployeeMe(u)
      PROVE  emp' \in [Users -> Employee] /\ loose' \in [Users -> BOOLEAN]
  BY <1>1, <1>7 DEF GetEmployeeMe, Employee
<1>8. ASSUME NEW u \in Users, DeleteEmployee(u)
      PROVE  emp' \in [Users -> Employee] /\ loose' \in [Users -> BOOLEAN]
  BY <1>1, <1>8 DEF DeleteEmployee, NoEmployee, Employee, Statuses
<1>9. CASE AuthStep
  BY <1>1, <1>9 DEF AuthStep
<1>10. CASE UNCHANGED <<emp, loose>>
  BY <1>1, <1>10
<1>11. ASSUME NEW w \in Workers, Provisioning(w)
       PROVE  emp' \in [Users -> Employee] /\ loose' \in [Users -> BOOLEAN]
  BY <1>2, <1>3, <1>4, <1>10, <1>11, Zenon DEF Provisioning, ResendCredentials, Sync, SyncRole
<1>12. ASSUME NEW w \in Workers, StatusAndRole(w)
       PROVE  emp' \in [Users -> Employee] /\ loose' \in [Users -> BOOLEAN]
  BY <1>5, <1>10, <1>12, Zenon DEF StatusAndRole, SyncStatus, UpdateEmployeeRole
<1> QED
  BY <1>6, <1>7, <1>8, <1>9, <1>10, <1>11, <1>12, Zenon DEF Next, vars

LEMMA InitType == ASSUME Init PROVE TypeInv
<1>1. Arrived(SomeUser) \in Request /\ Arrived(SomeUser).sess = 0 /\ Arrived(SomeUser).pc = "idle"
  BY ArrivedType, SomeUserType DEF Arrived
<1>2. sess \in Seq(Session) /\ Len(sess) = 0 /\ DOMAIN sess = {}
  BY EmptySeq DEF Init, AuthInit
<1>3. user \in [Users -> Account]
  <2> DEFINE S == {[exists |-> TRUE, active |-> TRUE, pass |-> 1, mustChange |-> b, roles |-> {r}] :
                     b \in BOOLEAN, r \in Roles}
  <2>1. ASSUME NEW b \in BOOLEAN, NEW r \in Roles
        PROVE  [exists |-> TRUE, active |-> TRUE, pass |-> 1, mustChange |-> b, roles |-> {r}] \in Account
    BY DEF Account
  <2>2. S \subseteq Account
    BY <2>1
  <2>3. user \in [Users -> S]
    BY DEF Init, AuthInit
  <2> HIDE DEF S
  <2> QED
    BY <2>2, <2>3
<1>4. req \in [Workers -> Request] /\ \A w \in Workers : req[w] = Arrived(SomeUser)
  BY <1>1 DEF Init, AuthInit
<1>5. AuthTypeOK
  BY <1>1, <1>2, <1>3, <1>4 DEF Init, AuthInit, AuthTypeOK
<1>6. References
  BY <1>1, <1>2, <1>4 DEF References, GoodRequest, WithoutRow, Refreshing, WithRole, Replacement
<1>7. emp \in [Users -> Employee] /\ loose \in [Users -> BOOLEAN]
  BY DEF Init, Employee, Statuses
<1> QED
  BY <1>5, <1>6, <1>7 DEF TypeInv, TypeOK

LEMMA NextType == ASSUME TypeInv, [Next]_vars PROVE TypeInv'
<1>1. AuthTypeOK /\ References
  BY DEF TypeInv, TypeOK
<1>2. CASE UNCHANGED vars
  BY <1>1, <1>2 DEF vars, AuthTypeOK, References, GoodRequest, TypeInv, TypeOK
<1>3. CASE EmployeeNext
  BY <1>1, <1>3, EmployeeNextType, EmployeesType DEF TypeInv, TypeOK
<1>4. CASE AuthNext
  BY <1>1, <1>4, AuthNextType, EmployeesType DEF TypeInv, TypeOK
<1> QED
  BY <1>2, <1>3, <1>4 DEF Next, EmployeeNext, AuthStep

\* Both services' tables keep their types and their references - a session
\* its account, a request the account and the session it works on - in
\* whatever order the statements of their handlers are executed.
THEOREM TypeCorrect == Spec => []TypeInv
<1>1. Init => TypeInv
  BY InitType
<1>2. TypeInv /\ [Next]_vars => TypeInv'
  BY NextType
<1> QED
  BY <1>1, <1>2, PTL DEF Spec

-----------------------------------------------------------------------------
(***************************************************************************)
(* Steps that no session and no request on its way to one notices          *)
(***************************************************************************)

KnownKept(u) == kept[u] \union {user[u].pass} \subseteq kept'[u] \union {user'[u].pass}

QuietRequests ==
    \A w \in Workers : req'[w].pc \in SigningIn => Marked(req'[w], req[w])

QuietStep ==
    /\ UNCHANGED sess
    /\ QuietRequests
    /\ \A u \in Users : user[u].exists => KnownKept(u)

LEMMA QuietWrite ==
    ASSUME AuthTypeOK, NEW w \in Workers, NEW new, req' = [req EXCEPT ![w] = new],
           new.pc \notin SigningIn
    PROVE  QuietRequests
BY DEF AuthTypeOK, QuietRequests, Marked

LEMMA QuietGoesOn ==
    ASSUME AuthTypeOK, NEW w \in Workers, NEW pc \in Pcs, req' = [req EXCEPT ![w].pc = pc],
           pc \notin SigningIn
    PROVE  QuietRequests
BY DEF AuthTypeOK, Request, QuietRequests, Marked

LEMMA QuietFinish ==
    ASSUME AuthTypeOK, NEW w \in Workers, req' = Finish(w)
    PROVE  QuietRequests
BY QuietWrite DEF Finish, Arrived, SigningIn, Refreshing

LEMMA QuietPassword ==
    ASSUME AuthTypeOK, NEW u \in Users, NEW must \in BOOLEAN, NEW act \in BOOLEAN,
           SetPassword(u, must, act)
    PROVE  \A v \in Users : KnownKept(v)
<1>1. kept' = [kept EXCEPT ![u] = @ \union {user[u].pass}]
      /\ \A v \in Users \ {u} : user'[v] = user[v]
  BY DEF SetPassword, AuthTypeOK
<1> QED
  BY <1>1 DEF AuthTypeOK, KnownKept

LEMMA PassSame ==
    ASSUME UNCHANGED kept, NEW u, user'[u].pass = user[u].pass
    PROVE  KnownKept(u)
BY DEF KnownKept

LEMMA QuietHandlers ==
    ASSUME AuthTypeOK, References, NEW w \in Workers,
           \/ RoleUpdate(w) \/ AbortRequest(w)
           \/ \E u \in Users : ChangePasswordRead(w, u) \/ SetInitialPasswordRead(w, u)
                                \/ AdminResetRead(w, u)
           \/ ChangePasswordWrite(w) \/ SetInitialPasswordWrite(w) \/ AdminResetWrite(w)
    PROVE  QuietStep
<1> USE DEF Pcs, SigningIn, Refreshing
<1>1. req[w].user \in Users /\ user[req[w].user].active \in BOOLEAN
  BY DEF AuthTypeOK, Request, Account
<1>2. ASSUME NEW u \in Users, NEW r \in Roles, UpdateUserRead(w, u, r) PROVE QuietStep
  BY <1>2, QuietWrite, PassSame DEF UpdateUserRead, Arrived, QuietStep
<1>3. CASE UpdateUserDelete(w)
  <2>1. \A u \in Users : user'[u].pass = user[u].pass
    BY <1>1, <1>3 DEF UpdateUserDelete, AuthTypeOK, Account
  <2> QED
    <3>1. QuietRequests
      BY <1>3, QuietGoesOn DEF UpdateUserDelete
    <3> QED
      BY <1>3, <2>1, <3>1, PassSame DEF UpdateUserDelete, QuietStep
<1>4. CASE UpdateUserCreate(w)
  <2>1. \A u \in Users : user'[u].pass = user[u].pass
    BY <1>1, <1>4 DEF UpdateUserCreate, AuthTypeOK, Account
  <2> QED
    BY <1>4, <2>1, QuietFinish, PassSame DEF UpdateUserCreate, QuietStep
<1>5. CASE AbortRequest(w)
  BY <1>5, QuietFinish, PassSame DEF AbortRequest, QuietStep
<1>6. ASSUME NEW u \in Users,
             ChangePasswordRead(w, u) \/ SetInitialPasswordRead(w, u) \/ AdminResetRead(w, u)
      PROVE  QuietStep
  <2>1. \E pc \in {"change", "initial", "reset"} :
           req' = [req EXCEPT ![w] = [Arrived(u) EXCEPT !.pc = pc]]
    BY <1>6 DEF ChangePasswordRead, SetInitialPasswordRead, AdminResetRead
  <2>2. QuietRequests
    BY <2>1, QuietWrite DEF Arrived
  <2> QED
    BY <1>6, <2>2, PassSame DEF ChangePasswordRead, SetInitialPasswordRead, AdminResetRead, QuietStep
<1>7. CASE ChangePasswordWrite(w)
  <2>1. QuietRequests
    BY <1>7, QuietGoesOn DEF ChangePasswordWrite
  <2>2. \A u \in Users : KnownKept(u)
    BY <1>1, <1>7, QuietPassword DEF ChangePasswordWrite
  <2> QED
    BY <1>7, <2>1, <2>2 DEF ChangePasswordWrite, QuietStep
<1>8. CASE SetInitialPasswordWrite(w)
  BY <1>1, <1>8, QuietPassword, QuietFinish DEF SetInitialPasswordWrite, QuietStep
<1>9. CASE AdminResetWrite(w)
  <2>1. QuietRequests
    BY <1>9, QuietGoesOn DEF AdminResetWrite
  <2>2. \A u \in Users : KnownKept(u)
    BY <1>1, <1>9, QuietPassword DEF AdminResetWrite
  <2> QED
    BY <1>9, <2>1, <2>2 DEF AdminResetWrite, QuietStep
<1> QED
  BY <1>2, <1>3, <1>4, <1>5, <1>6, <1>7, <1>8, <1>9 DEF RoleUpdate

LEMMA QuietAdministration ==
    ASSUME AuthTypeOK,
           \/ \E u \in Users, b \in BOOLEAN : SetActiveStatus(u, b)
           \/ \E u \in Users, r \in Roles : CreateUser(u, r)
    PROVE  QuietStep
<1>1. UNCHANGED <<sess, req>>
  BY DEF SetActiveStatus, CreateUser
<1>2. QuietRequests
  BY <1>1 DEF QuietRequests, Marked
<1>3. ASSUME NEW u \in Users, NEW b \in BOOLEAN, SetActiveStatus(u, b) PROVE QuietStep
  <2>1. \A v \in Users : user'[v].pass = user[v].pass
    BY <1>3 DEF SetActiveStatus, AuthTypeOK, Account
  <2> QED
    BY <1>1, <1>2, <1>3, <2>1, PassSame DEF SetActiveStatus, QuietStep
<1>4. ASSUME NEW u \in Users, NEW r \in Roles, CreateUser(u, r) PROVE QuietStep
  <2>1. \A v \in Users : user[v].exists => user'[v].pass = user[v].pass
    BY <1>4 DEF CreateUser, AuthTypeOK
  <2> QED
    BY <1>1, <1>2, <1>4, <2>1, PassSame DEF CreateUser, QuietStep
<1> QED
  BY <1>3, <1>4

LEMMA QuietEmployees ==
    ASSUME AuthTypeOK, References, EmployeeNext
    PROVE  QuietStep
<1> USE DEF Pcs, SigningIn, Refreshing
<1>1. ASSUME NEW w \in Workers, Provisioning(w) PROVE QuietStep
  <2>1. req[w].user \in Users
    BY DEF AuthTypeOK, Request
  <2>2. ASSUME NEW u, NEW r, Goes(w, u, "sync", r) PROVE QuietRequests
    BY <2>2, QuietWrite DEF Goes, Arrived
  <2>3. CASE (\E u \in Users, st \in Statuses, r \in Roles : CreateEmployee(w, u, st, r))
             \/ \E u \in Users : ResendCredentials(w, u)
    BY <2>2, <2>3, PassSame DEF CreateEmployee, ResendCredentials, QuietStep
  <2>4. CASE Sync(w)
    <3>1. \E pc \in {"syncUpdate", "syncInsert"} : req' = [req EXCEPT ![w].pc = pc]
      BY <2>4 DEF Sync
    <3> QED
      BY <2>4, <3>1, QuietGoesOn, PassSame DEF Sync, QuietStep
  <2>5. CASE SyncUpdate(w)
    <3>1. QuietRequests
      BY <2>5, QuietGoesOn DEF SyncUpdate
    <3>2. \A u \in Users : KnownKept(u)
      BY <2>1, <2>5, QuietPassword DEF SyncUpdate
    <3> QED
      BY <2>5, <3>1, <3>2 DEF SyncUpdate, QuietStep
  <2>6. CASE SyncInsert(w)
    <3>1. \A v \in Users : user[v].exists => user'[v].pass = user[v].pass
      BY <2>1, <2>6 DEF SyncInsert, AuthTypeOK
    <3>2. QuietRequests
      BY <2>6, QuietGoesOn DEF SyncInsert
    <3> QED
      BY <2>6, <3>1, <3>2, PassSame DEF SyncInsert, QuietStep
  <2>7. CASE SyncRole(w)
    <3> DEFINE new == [req[w] EXCEPT !.pc = "link", !.roles = {}]
    <3>1. new.pc = "link" /\ req' = [req EXCEPT ![w] = new]
      BY <2>7 DEF SyncRole, AuthTypeOK, Request
    <3>2. \A v \in Users : user'[v].pass = user[v].pass
      BY <2>1, <2>7 DEF SyncRole, AuthTypeOK, Account
    <3> HIDE DEF new
    <3> QED
      BY <2>7, <3>1, <3>2, QuietWrite, PassSame DEF SyncRole, QuietStep
  <2>8. CASE Link(w)
    BY <2>8, QuietFinish, PassSame DEF Link, QuietStep
  <2> QED
    BY <1>1, <2>3, <2>4, <2>5, <2>6, <2>7, <2>8 DEF Provisioning
<1>2. ASSUME NEW w \in Workers, StatusAndRole(w) PROVE QuietStep
  <2>1. ASSUME NEW u \in Users, NEW st \in Statuses, UpdateEmployeeStatus(w, u, st) PROVE QuietStep
    <3> DEFINE new == [Arrived(u) EXCEPT !.pc = "status", !.active = (st = "ACTIVE")]
    <3>1. new.pc = "status" /\ req' = [req EXCEPT ![w] = new]
      BY <2>1 DEF UpdateEmployeeStatus, Arrived
    <3> HIDE DEF new
    <3>2. QuietRequests
      BY <3>1, QuietWrite
    <3> QED
      BY <2>1, <3>2, PassSame DEF UpdateEmployeeStatus, QuietStep
  <2>2. CASE SyncStatus(w)
    <3>1. \A v \in Users : user'[v].pass = user[v].pass
      BY <2>2 DEF SyncStatus, AuthTypeOK, Account, Request
    <3> QED
      BY <2>2, <3>1, QuietFinish, PassSame DEF SyncStatus, QuietStep
  <2>3. ASSUME NEW u \in Users, NEW r \in Roles, UpdateEmployeeRole(w, u, r) PROVE QuietStep
    BY <2>3, QuietHandlers DEF UpdateEmployeeRole, RoleUpdate
  <2> QED
    BY <1>2, <2>1, <2>2, <2>3 DEF StatusAndRole
<1>3. ASSUME UNCHANGED <<user, sess, req, kept>> PROVE QuietStep
  BY <1>3, PassSame DEF QuietStep, QuietRequests, Marked
<1> QED
  BY <1>1, <1>2, <1>3 DEF EmployeeNext, GetEmployeeMe, DeleteEmployee, UpdateEmployee

-----------------------------------------------------------------------------
(***************************************************************************)
(* Passwords                                                               *)
(***************************************************************************)

PasswordInv == PasswordsKnown /\ RevokedPasswordIsOut

\* What each session and request after a step must show: its password is
\* known, or it was there before and the account's passwords still are.
SessionInherits(s) ==
    /\ s \in DOMAIN sess /\ Live(s) /\ ~sess[s].late
    /\ sess'[s].user = sess[s].user /\ sess'[s].pass = sess[s].pass
    /\ KnownKept(sess[s].user)

RequestInherits(w) ==
    /\ req[w].pc \in SigningIn /\ ~req[w].late
    /\ req'[w].user = req[w].user /\ req'[w].pass = req[w].pass
    /\ KnownKept(req[w].user)

LEMMA PasswordFrame ==
    ASSUME PasswordInv,
           \A s \in DOMAIN sess' : Live(s)' /\ ~sess'[s].late =>
              SessionInherits(s) \/ Known(sess[s].pass, sess[s].user)',
           \A w \in Workers : req'[w].pc \in SigningIn /\ ~req'[w].late =>
              RequestInherits(w) \/ Known(req[w].pass, req[w].user)'
    PROVE  PasswordInv'
<1>1. ASSUME NEW p, NEW u, Known(p, u), KnownKept(u)
      PROVE  p = user'[u].pass \/ p \in kept'[u]
  BY <1>1 DEF Known, KnownKept
<1>2. ASSUME NEW s \in DOMAIN sess', Live(s)', ~sess'[s].late
      PROVE  sess'[s].pass = user'[sess'[s].user].pass \/ sess'[s].pass \in kept'[sess'[s].user]
  <2>1. CASE SessionInherits(s)
    BY <1>1, <2>1 DEF PasswordInv, RevokedPasswordIsOut, SessionInherits, Known
  <2> QED
    BY <1>2, <2>1 DEF Known
<1>3. ASSUME NEW w \in Workers, req'[w].pc \in SigningIn, ~req'[w].late
      PROVE  Known(req[w].pass, req[w].user)'
  <2>1. CASE RequestInherits(w)
    BY <1>1, <2>1 DEF PasswordInv, PasswordsKnown, RequestInherits, Known
  <2> QED
    BY <1>3, <2>1
<1>4. PasswordsKnown'
  BY <1>3 DEF PasswordsKnown
<1>5. RevokedPasswordIsOut'
  BY <1>2 DEF RevokedPasswordIsOut
<1> QED
  BY <1>4, <1>5 DEF PasswordInv

LEMMA PasswordsSame ==
    ASSUME UNCHANGED <<user, kept>>
    PROVE  \A u : KnownKept(u)
BY DEF KnownKept

LEMMA PasswordQuiet ==
    ASSUME AuthTypeOK, References, PasswordInv, QuietStep
    PROVE  PasswordInv'
<1>1. ASSUME NEW s \in DOMAIN sess', Live(s)', ~sess'[s].late PROVE SessionInherits(s)
  <2>1. s \in DOMAIN sess /\ sess' = sess /\ Live(s) /\ ~sess[s].late
    BY <1>1 DEF QuietStep, Live
  <2>2. user[sess[s].user].exists /\ sess[s].user \in Users
    BY <2>1, SessionFacts DEF AuthTypeOK, Live, Session
  <2> QED
    BY <2>1, <2>2 DEF QuietStep, SessionInherits
<1>2. ASSUME NEW w \in Workers, req'[w].pc \in SigningIn, ~req'[w].late PROVE RequestInherits(w)
  <2>1. Marked(req'[w], req[w]) /\ req[w] \in Request /\ GoodRequest(req[w])
    BY <1>2 DEF QuietStep, QuietRequests, AuthTypeOK, References
  <2>2. /\ req[w].pc \in SigningIn /\ ~req[w].late /\ req[w].user \in Users
        /\ req'[w].user = req[w].user /\ req'[w].pass = req[w].pass
    BY <1>2, <2>1 DEF Marked, Request
  <2>3. user[req[w].user].exists
    BY <2>1, <2>2 DEF GoodRequest, SigningIn, Refreshing, WithoutRow
  <2> QED
    BY <2>2, <2>3 DEF QuietStep, RequestInherits
<1> QED
  BY <1>1, <1>2, PasswordFrame

\* Sessions keep their passwords when only their status is written.
LEMMA StatusInherits ==
    ASSUME AuthTypeOK, StatusOnly, NEW s \in DOMAIN sess', Live(s)', ~sess'[s].late,
           s \in DOMAIN sess => KnownKept(sess[s].user)
    PROVE  SessionInherits(s)
<1>1. DOMAIN sess' = DOMAIN sess
  BY SessionFacts, LenProperties DEF StatusOnly
<1> QED
  BY <1>1 DEF StatusOnly, Live, SessionInherits

LEMMA MarkInherits ==
    ASSUME NEW old \in Request, NEW new, Marked(new, old), ~new.late
    PROVE  new = old
BY DEF Marked, Request

LEMMA MarkFields ==
    ASSUME NEW old \in Request, NEW new, Marked(new, old)
    PROVE  /\ new.pc = old.pc /\ new.user = old.user /\ new.sess = old.sess
           /\ new.active = old.active
BY DEF Marked, Request

LEMMA PasswordSignIn ==
    ASSUME AuthTypeOK, References, PasswordInv, NEW w \in Workers, SignIn(w)
    PROVE  PasswordInv'
<1> USE DEF SigningIn, Refreshing
<1>1. /\ req \in [Workers -> Request] /\ req[w] \in Request
      /\ \A s \in DOMAIN sess : sess[s] \in Session
  BY SessionFacts DEF AuthTypeOK
<1>2. ASSUME UNCHANGED <<user, kept, sess>>, NEW new \in Request, req' = [req EXCEPT ![w] = new],
             ~new.late => Known(new.pass, new.user)
      PROVE  PasswordInv'
  <2>1. \A u : KnownKept(u)
    BY <1>2, PasswordsSame
  <2>2. ASSUME NEW s \in DOMAIN sess', Live(s)', ~sess'[s].late PROVE SessionInherits(s)
    BY <1>2, <2>1, <2>2 DEF Live, SessionInherits
  <2>3. ASSUME NEW v \in Workers, req'[v].pc \in SigningIn, ~req'[v].late
        PROVE  RequestInherits(v) \/ Known(req[v].pass, req[v].user)'
    <3>1. CASE v = w
      <4>1. req'[v] = new
        BY <1>1, <1>2, <3>1
      <4> QED
        BY <1>2, <2>3, <4>1 DEF Known
    <3>2. CASE v # w
      <4>1. req'[v] = req[v]
        BY <1>1, <1>2, <3>2
      <4> QED
        BY <2>1, <2>3, <4>1 DEF RequestInherits
    <3> QED
      BY <3>1, <3>2
  <2> QED
    BY <2>2, <2>3, PasswordFrame
<1>3. ASSUME NEW u \in Users, LoginRead(w, u) PROVE PasswordInv'
  <2> DEFINE new == [Arrived(u) EXCEPT !.pc = "login", !.pass = user[u].pass]
  <2>1. user[u].pass \in Nat
    BY DEF AuthTypeOK, Account
  <2>2. new \in Request /\ new.pass = user[u].pass /\ new.user = u
    BY <2>1 DEF Arrived, Request, Pcs
  <2>3. req' = [req EXCEPT ![w] = new] /\ UNCHANGED <<user, kept, sess>>
    BY <1>3 DEF LoginRead
  <2> HIDE DEF new
  <2> QED
    BY <1>2, <2>2, <2>3 DEF Known
<1>4. ASSUME NEW s \in DOMAIN sess, RefreshRead(w, s) PROVE PasswordInv'
  <2> DEFINE new == [Arrived(sess[s].user) EXCEPT !.pc = "refreshUser", !.sess = s,
                       !.pass = sess[s].pass, !.late = sess[s].late]
  <2>1. s \in Nat /\ sess[s] \in Session /\ Live(s)
    BY <1>4, SessionFacts DEF RefreshRead
  <2>2. /\ new \in Request /\ new.pass = sess[s].pass /\ new.user = sess[s].user
        /\ new.late = sess[s].late
    BY <2>1 DEF Arrived, Request, Pcs, Session
  <2>3. req' = [req EXCEPT ![w] = new] /\ UNCHANGED <<user, kept, sess>>
    BY <1>4 DEF RefreshRead
  <2>4. ~new.late => Known(new.pass, new.user)
    BY <2>1, <2>2 DEF PasswordInv, RevokedPasswordIsOut, Known
  <2> HIDE DEF new
  <2> QED
    BY <1>2, <2>2, <2>3, <2>4
<1>5. ASSUME RefreshUser(w) PROVE PasswordInv'
  <2> DEFINE new == [req[w] EXCEPT !.pc = "refreshRevoke"]
  <2>1. /\ new \in Request /\ new.pass = req[w].pass /\ new.user = req[w].user
        /\ new.late = req[w].late
    BY <1>1 DEF Request, Pcs
  <2>2. req' = [req EXCEPT ![w] = new] /\ UNCHANGED <<user, kept, sess>>
    BY <1>1, <1>5 DEF RefreshUser
  <2>3. ~new.late => Known(new.pass, new.user)
    BY <1>5, <2>1 DEF RefreshUser, At, PasswordInv, PasswordsKnown
  <2> HIDE DEF new
  <2> QED
    BY <1>2, <2>1, <2>2, <2>3
<1>6. ASSUME RefreshRevoke(w) PROVE PasswordInv'
  <2> DEFINE mid == [req EXCEPT ![w].pc = "refreshIssue"]
             s   == req[w].sess
  <2>1. /\ req[w].pc = "refreshRevoke" /\ s \in DOMAIN sess
        /\ mid \in [Workers -> Request] /\ req' = Beaten(mid, s)
    BY <1>1, <1>6 DEF References, RefreshRevoke, At, GoodRequest, Request, Pcs
  <2>2. StatusOnly /\ \A u : KnownKept(u)
    BY <1>6, <2>1, OneRevoked, PasswordsSame DEF RefreshRevoke
  <2>3. ASSUME NEW v \in Workers, req'[v].pc \in SigningIn, ~req'[v].late
        PROVE  RequestInherits(v)
    <3>1. mid[v] \in Request /\ Marked(req'[v], mid[v])
      BY <2>1, BeatenMarks
    <3>2. req'[v] = mid[v]
      BY <2>3, <3>1, MarkInherits
    <3>3. /\ mid[v].user = req[v].user /\ mid[v].pass = req[v].pass /\ mid[v].late = req[v].late
          /\ v # w => mid[v] = req[v]
      BY <1>1 DEF Request
    <3>4. req[v].pc \in SigningIn
      BY <2>1, <2>3, <3>2, <3>3
    <3> QED
      BY <2>2, <2>3, <3>2, <3>3, <3>4 DEF RequestInherits
  <2> QED
    BY <2>2, <2>3, StatusInherits, PasswordFrame
<1>7. ASSUME At(w, "login") \/ At(w, "refreshIssue"), Issue(w) PROVE PasswordInv'
  <2>1. /\ sess' = Append(sess, NewSession(w)) /\ UNCHANGED <<user, kept>> /\ req' = Finish(w)
        /\ \A u : KnownKept(u)
    BY <1>7, PasswordsSame DEF Issue
  <2>2. NewSession(w) \in Session
    BY <1>1 DEF NewSession, Session, Request
  <2>3. /\ Len(sess) \in Nat /\ DOMAIN sess = 1 .. Len(sess) /\ DOMAIN sess' = 1 .. Len(sess) + 1
        /\ \A i \in 1 .. Len(sess) : sess'[i] = sess[i]
        /\ sess'[Len(sess) + 1] = NewSession(w)
    <3>1. /\ sess \in Seq(Session) /\ Len(sess) \in Nat /\ DOMAIN sess = 1 .. Len(sess)
          /\ sess' \in Seq(Session) /\ Len(sess') = Len(sess) + 1
          /\ \A i \in 1 .. Len(sess) : sess'[i] = sess[i]
          /\ sess'[Len(sess) + 1] = NewSession(w)
      BY <2>1, <2>2, SessionFacts, AppendProperties DEF AuthTypeOK
    <3> QED
      BY <3>1, LenProperties
  <2>4. ASSUME NEW s \in DOMAIN sess', Live(s)', ~sess'[s].late
        PROVE  SessionInherits(s) \/ Known(sess[s].pass, sess[s].user)'
    <3>1. CASE s \in DOMAIN sess
      BY <2>1, <2>3, <2>4, <3>1 DEF SessionInherits, Live
    <3>2. CASE s \notin DOMAIN sess
      <4>1. sess'[s] = NewSession(w)
        BY <2>3, <3>2
      <4>2. sess'[s].user = req[w].user /\ sess'[s].pass = req[w].pass /\ ~req[w].late
        BY <2>4, <4>1 DEF NewSession
      <4>3. Known(req[w].pass, req[w].user)
        BY <1>7, <4>2 DEF At, PasswordInv, PasswordsKnown
      <4> QED
        BY <2>1, <4>2, <4>3 DEF Known
    <3> QED
      BY <3>1, <3>2
  <2>5. ASSUME NEW v \in Workers, req'[v].pc \in SigningIn, ~req'[v].late
        PROVE  RequestInherits(v)
    <3>1. v # w /\ req'[v] = req[v]
      BY <1>1, <2>1, <2>5 DEF Finish, Arrived
    <3> QED
      BY <2>1, <2>5, <3>1 DEF RequestInherits
  <2> QED
    BY <2>4, <2>5, PasswordFrame
<1> QED
  BY <1>3, <1>4, <1>5, <1>6, <1>7 DEF SignIn, LoginIssue, RefreshIssue

LEMMA PasswordRevoke ==
    ASSUME AuthTypeOK, References, PasswordInv, NEW u \in Users, NEW r, RevokeAll(u, r),
           UNCHANGED <<user, made, mixed>>, r = req \/ \E w \in Workers : r = Finish(w)
    PROVE  PasswordInv'
<1>1. StatusOnly /\ \A s \in DOMAIN sess : sess[s].user = u => ~Live(s)'
  BY RevokeAllKeeps
<1>2. \A v \in Users \ {u} : KnownKept(v)
  BY DEF RevokeAll, AuthTypeOK, KnownKept
<1>3. DOMAIN sess' = DOMAIN sess /\ \A s \in DOMAIN sess : sess[s].user \in Users
  BY <1>1, SessionFacts, LenProperties DEF StatusOnly, Session
<1>4. ASSUME NEW s \in DOMAIN sess', Live(s)', ~sess'[s].late PROVE SessionInherits(s)
  BY <1>1, <1>2, <1>3, <1>4, StatusInherits
<1>5. ASSUME NEW v \in Workers, req'[v].pc \in SigningIn, ~req'[v].late
      PROVE  RequestInherits(v)
  <2>1. r \in [Workers -> Request]
    BY ArrivedType, SomeUserType DEF AuthTypeOK, Finish
  <2>2. /\ Marked(req'[v], r[v])
        /\ r[v].user = u /\ r[v].pc \in SigningIn => req'[v].late
    BY <2>1, OvertakenMarks DEF RevokeAll
  <2>3. req'[v] = r[v]
    BY <1>5, <2>1, <2>2, MarkInherits
  <2>4. r[v] = req[v]
    BY <1>5, <2>3 DEF Finish, Arrived, SigningIn, Refreshing, AuthTypeOK
  <2>5. req[v].user \in Users \ {u}
    BY <1>5, <2>2, <2>3, <2>4 DEF AuthTypeOK, Request
  <2> QED
    BY <1>2, <1>5, <2>3, <2>4, <2>5 DEF RequestInherits
<1> QED
  BY <1>4, <1>5, PasswordFrame

LEMMA PasswordDelete ==
    ASSUME AuthTypeOK, References, PasswordInv, NEW u \in Users, DeleteUser(u)
    PROVE  PasswordInv'
<1>1. \A v \in Users \ {u} : KnownKept(v)
  BY DEF DeleteUser, AuthTypeOK, KnownKept
<1>2. ASSUME NEW s \in DOMAIN sess', Live(s)', ~sess'[s].late PROVE SessionInherits(s)
  <2>1. s \in DOMAIN sess /\ sess'[s] = IF sess[s].user = u THEN GoneSession(u) ELSE sess[s]
    BY DEF DeleteUser
  <2>2. sess[s].user # u /\ sess'[s] = sess[s]
    BY <1>2, <2>1 DEF GoneSession, Live
  <2>3. sess[s].user \in Users \ {u}
    BY <2>1, <2>2, SessionFacts DEF Session
  <2> QED
    BY <1>1, <1>2, <2>1, <2>2, <2>3 DEF SessionInherits, Live
<1>3. ASSUME NEW w \in Workers, req'[w].pc \in SigningIn, ~req'[w].late PROVE RequestInherits(w)
  <2>1. req'[w] = IF req[w].user # u \/ req[w].pc \in {"idle", "sync", "syncInsert", "link", "status"}
                  THEN req[w]
                  ELSE [Arrived(u) EXCEPT !.pc =
                          IF req[w].pc \in {"syncUpdate", "syncRole"} THEN "link" ELSE "failing"]
    BY DEF DeleteUser, Orphaned
  <2>2. req'[w] = req[w] /\ req[w].user # u
    BY <1>3, <2>1 DEF Arrived, SigningIn, Refreshing
  <2>3. req[w].user \in Users \ {u}
    BY <2>2 DEF AuthTypeOK, Request
  <2> QED
    BY <1>1, <1>3, <2>2, <2>3 DEF RequestInherits
<1> QED
  BY <1>2, <1>3, PasswordFrame

LEMMA PasswordLogout ==
    ASSUME AuthTypeOK, References, PasswordInv, NEW s \in DOMAIN sess, LogoutSession(s)
    PROVE  PasswordInv'
<1>1. sess' = [sess EXCEPT ![s].status = IF @ = "live" THEN "ended" ELSE @]
  BY DEF LogoutSession, Live
<1>2. StatusOnly /\ \A u : KnownKept(u)
  BY <1>1, OneRevoked, PasswordsSame DEF LogoutSession
<1>3. ASSUME NEW v \in Workers, req'[v].pc \in SigningIn, ~req'[v].late PROVE RequestInherits(v)
  <2>1. req[v] \in Request /\ Marked(req'[v], req[v])
    BY BeatenMarks DEF LogoutSession, AuthTypeOK
  <2>2. req'[v] = req[v]
    BY <1>3, <2>1, MarkInherits
  <2> QED
    BY <1>2, <1>3, <2>2 DEF RequestInherits
<1> QED
  BY <1>2, <1>3, StatusInherits, PasswordFrame

\* Every step is quiet, a sign-in, or a revocation.
Revocation ==
    \/ \E w \in Workers : ChangePasswordRevoke(w) \/ AdminResetRevoke(w)
    \/ \E u \in Users : LogoutAll(u)

LEMMA StepKinds ==
    ASSUME AuthTypeOK, References, AuthNext
    PROVE  \/ QuietStep
           \/ \E w \in Workers : SignIn(w)
           \/ Revocation
           \/ \E s \in DOMAIN sess : LogoutSession(s)
           \/ \E u \in Users : DeleteUser(u)
BY QuietHandlers, QuietAdministration, Zenon DEF AuthNext, Password, Administration, Revocation

LEMMA PasswordStep ==
    ASSUME AuthTypeOK, References, PasswordInv, AuthNext \/ EmployeeNext
    PROVE  PasswordInv'
<1>1. ASSUME Revocation PROVE PasswordInv'
  <2>1. \A w \in Workers : req[w].user \in Users
    BY DEF AuthTypeOK, Request
  <2> QED
    BY <1>1, <2>1, PasswordRevoke
       DEF Revocation, ChangePasswordRevoke, AdminResetRevoke, LogoutAll
<1> QED
  BY <1>1, StepKinds, QuietEmployees, PasswordQuiet, PasswordSignIn, PasswordLogout, PasswordDelete

-----------------------------------------------------------------------------
(***************************************************************************)
(* Exchanges                                                               *)
(***************************************************************************)

\* A step after which there are no more children, exchanges and refreshes of
\* s than before, unless s is live.
ExchangesKept(s) ==
    /\ ~sess'[s].late => ~sess[s].late
    /\ Live(s)' => Live(s)
    /\ \A t \in DOMAIN sess' : PromptChild(t, s)' => t \in DOMAIN sess /\ PromptChild(t, s)
    /\ \A w \in Workers : Exchanging(w, s)' => Exchanging(w, s)
    /\ \A w \in Workers : SawItLive(w, s)' => Live(s)' \/ (~Live(s) /\ SawItLive(w, s))

LEMMA ExchangeFrame ==
    ASSUME NEW s, ExchangesKept(s), ~sess[s].late => ExchangedOnce(s)
    PROVE  ~sess'[s].late => ExchangedOnce(s)'
<1> SUFFICES ASSUME ~sess'[s].late PROVE ExchangedOnce(s)'
  OBVIOUS
<1>1. ExchangedOnce(s)
  BY DEF ExchangesKept
<1>2. \A t \in DOMAIN sess' : PromptChild(t, s)' => t \in DOMAIN sess /\ PromptChild(t, s)
  BY DEF ExchangesKept
<1>3. \A w \in Workers : Exchanging(w, s)' => Exchanging(w, s)
  BY DEF ExchangesKept
<1> DEFINE child(t)  == PromptChild(t, s)
           child2(t) == PromptChild(t, s)'
           exch(w)   == Exchanging(w, s)
           exch2(w)  == Exchanging(w, s)'
           saw2(w)   == SawItLive(w, s)'
<1>4. Live(s)' => /\ \A t \in DOMAIN sess' : ~child2(t)
                  /\ \A w \in Workers : ~exch2(w)
  BY <1>1, <1>2, <1>3 DEF ExchangedOnce, ExchangesKept
<1>5. ~Live(s)' => \A w \in Workers : ~saw2(w)
  BY <1>1 DEF ExchangedOnce, ExchangesKept
<1>6. \A t1, t2 \in DOMAIN sess' : child2(t1) /\ child2(t2) => t1 = t2
  BY <1>1, <1>2 DEF ExchangedOnce
<1>7. \A w1, w2 \in Workers : exch2(w1) /\ exch2(w2) => w1 = w2
  BY <1>1, <1>3 DEF ExchangedOnce
<1>8. \A t \in DOMAIN sess', w \in Workers : ~(child2(t) /\ exch2(w))
  BY <1>1, <1>2, <1>3 DEF ExchangedOnce
<1> QED
  BY <1>4, <1>5, <1>6, <1>7, <1>8 DEF ExchangedOnce

\* Steps that add no session.
LEMMA ExchangeKept ==
    ASSUME OneExchange, DOMAIN sess' = DOMAIN sess, \A s \in DOMAIN sess : ExchangesKept(s)
    PROVE  OneExchange'
<1>1. ASSUME NEW s \in DOMAIN sess PROVE ~sess'[s].late => ExchangedOnce(s)'
  BY ExchangeFrame DEF OneExchange
<1> QED
  BY <1>1 DEF OneExchange

\* In one that leaves the sessions alone, only the refreshes can change.
LEMMA SessionsAlone ==
    ASSUME UNCHANGED sess, NEW s,
           \A w \in Workers : Exchanging(w, s)' => Exchanging(w, s),
           \A w \in Workers : SawItLive(w, s)' => Live(s) \/ SawItLive(w, s)
    PROVE  ExchangesKept(s)
<1>1. (Live(s)' <=> Live(s)) /\ (~sess'[s].late => ~sess[s].late)
  BY DEF Live
<1>2. \A t \in DOMAIN sess' : PromptChild(t, s)' => t \in DOMAIN sess /\ PromptChild(t, s)
  BY DEF PromptChild
<1> QED
  BY <1>1, <1>2 DEF ExchangesKept

LEMMA ExchangeQuiet ==
    ASSUME AuthTypeOK, OneExchange, UNCHANGED sess, QuietRequests
    PROVE  OneExchange'
<1>1. ASSUME NEW s \in DOMAIN sess PROVE ExchangesKept(s)
  <2>1. ASSUME NEW w \in Workers, ~req'[w].late, req'[w].pc \in SigningIn
        PROVE  req'[w] = req[w]
    BY <2>1, MarkInherits DEF QuietRequests, AuthTypeOK
  <2>2. ASSUME NEW w \in Workers, Exchanging(w, s)' PROVE Exchanging(w, s)
    BY <2>1, <2>2 DEF Exchanging, SigningIn, Refreshing
  <2>3. ASSUME NEW w \in Workers, SawItLive(w, s)' PROVE SawItLive(w, s)
    BY <2>1, <2>3 DEF SawItLive, SigningIn, Refreshing
  <2> QED
    BY <2>2, <2>3, SessionsAlone
<1> QED
  BY <1>1, ExchangeKept

\* A request that starts to sign in, or goes from one read to the next.
LEMMA ExchangeReads ==
    ASSUME AuthTypeOK, OneExchange, UNCHANGED sess, NEW w \in Workers, NEW new,
           req' = [req EXCEPT ![w] = new], new.pc # "refreshIssue",
           \A s \in DOMAIN sess :
              new.sess = s /\ ~new.late /\ new.pc \in {"refreshUser", "refreshRevoke"}
                => Live(s) \/ SawItLive(w, s)
    PROVE  OneExchange'
<1>1. \A v \in Workers : req'[v] = IF v = w THEN new ELSE req[v]
  BY DEF AuthTypeOK
<1>2. ASSUME NEW s \in DOMAIN sess PROVE ExchangesKept(s)
  <2>1. ASSUME NEW v \in Workers, Exchanging(v, s)' PROVE Exchanging(v, s)
    BY <1>1, <2>1 DEF Exchanging
  <2>2. ASSUME NEW v \in Workers, SawItLive(v, s)' PROVE Live(s) \/ SawItLive(v, s)
    BY <1>1, <2>2 DEF SawItLive
  <2> QED
    BY <2>1, <2>2, SessionsAlone
<1> QED
  BY <1>2, ExchangeKept

\* Sessions are revoked, and whoever had seen them live is late.
LEMMA ExchangeRevoked ==
    ASSUME AuthTypeOK, OneExchange, StatusOnly,
           \A w \in Workers : req'[w].pc \in SigningIn => Marked(req'[w], req[w]),
           \A s \in DOMAIN sess, w \in Workers :
              Live(s) /\ ~Live(s)' => ~SawItLive(w, s)'
    PROVE  OneExchange'
<1>1. DOMAIN sess' = DOMAIN sess
  BY SessionFacts, LenProperties DEF StatusOnly
<1>2. ASSUME NEW s \in DOMAIN sess PROVE ExchangesKept(s)
  <2>1. ASSUME NEW w \in Workers, ~req'[w].late, req'[w].pc \in SigningIn
        PROVE  req'[w] = req[w]
    BY <2>1, MarkInherits DEF AuthTypeOK
  <2>2. ASSUME NEW w \in Workers, Exchanging(w, s)' PROVE Exchanging(w, s)
    BY <2>1, <2>2 DEF Exchanging, SigningIn, Refreshing
  <2>3. ASSUME NEW w \in Workers, SawItLive(w, s)' PROVE Live(s)' \/ (~Live(s) /\ SawItLive(w, s))
    BY <2>1, <2>3 DEF SawItLive, SigningIn, Refreshing
  <2>4. \A t \in DOMAIN sess' : PromptChild(t, s)' => t \in DOMAIN sess /\ PromptChild(t, s)
    BY <1>1 DEF StatusOnly, PromptChild
  <2>5. (~sess'[s].late => ~sess[s].late) /\ (Live(s)' => Live(s))
    BY DEF StatusOnly, Live
  <2> QED
    BY <2>2, <2>3, <2>4, <2>5 DEF ExchangesKept
<1> QED
  BY <1>1, <1>2, ExchangeKept

LEMMA ExchangeRevoke ==
    ASSUME AuthTypeOK, References, OneExchange, NEW u \in Users, NEW r, RevokeAll(u, r),
           UNCHANGED <<user, made, mixed>>, r = req \/ \E w \in Workers : r = Finish(w)
    PROVE  OneExchange'
<1>1. StatusOnly /\ \A s \in DOMAIN sess : sess'[s] = sess[s] \/ sess[s].user = u
  BY RevokeAllKeeps DEF RevokeAll, RevokedAll
<1>2. r \in [Workers -> Request]
  BY ArrivedType, SomeUserType DEF AuthTypeOK, Finish
<1>3. \A w \in Workers :
        /\ Marked(req'[w], r[w])
        /\ r[w].user = u /\ r[w].pc \in SigningIn => req'[w].late
  BY <1>2, OvertakenMarks DEF RevokeAll
<1>4. ASSUME NEW w \in Workers, req'[w].pc \in SigningIn
      PROVE  r[w] = req[w] /\ req'[w].pc = req[w].pc /\ req'[w].user = req[w].user
             /\ req'[w].sess = req[w].sess
  <2>1. r[w] \in Request /\ req'[w].pc = r[w].pc /\ req'[w].user = r[w].user /\ req'[w].sess = r[w].sess
    BY <1>2, <1>3, MarkFields
  <2>2. r[w] = req[w]
    BY <1>4, <2>1 DEF Finish, Arrived, SigningIn, Refreshing, AuthTypeOK
  <2> QED
    BY <2>1, <2>2
<1>5. ASSUME NEW s \in DOMAIN sess, NEW w \in Workers, Live(s), ~Live(s)' PROVE ~SawItLive(w, s)'
  <2>1. sess[s].user = u
    BY <1>1, <1>5 DEF Live
  <2>2. SUFFICES ASSUME req'[w].sess = s, ~req'[w].late,
                        req'[w].pc \in {"refreshUser", "refreshRevoke"}
                 PROVE  FALSE
    BY DEF SawItLive
  <2>3. r[w] = req[w] /\ req[w].sess = s /\ req[w].pc \in {"refreshUser", "refreshRevoke"}
    BY <1>4, <2>2 DEF SigningIn, Refreshing
  <2>4. req[w].user = u
    BY <2>1, <2>3 DEF References, GoodRequest, Refreshing
  <2> QED
    BY <1>3, <2>2, <2>3, <2>4 DEF SigningIn, Refreshing
<1> QED
  BY <1>1, <1>3, <1>4, <1>5, ExchangeRevoked

LEMMA ExchangeLogout ==
    ASSUME AuthTypeOK, OneExchange, NEW s \in DOMAIN sess, LogoutSession(s)
    PROVE  OneExchange'
<1>1. sess' = [sess EXCEPT ![s].status = IF @ = "live" THEN "ended" ELSE @]
  BY DEF LogoutSession, Live
<1>2. StatusOnly /\ \A r \in DOMAIN sess \ {s} : sess'[r] = sess[r]
  BY <1>1, OneRevoked
<1>3. \A w \in Workers :
        /\ Marked(req'[w], req[w])
        /\ req[w].sess = s /\ req[w].pc \in {"refreshUser", "refreshRevoke"} => req'[w].late
  BY BeatenMarks DEF LogoutSession, AuthTypeOK
<1>4. ASSUME NEW r \in DOMAIN sess, NEW w \in Workers, Live(r), ~Live(r)' PROVE ~SawItLive(w, r)'
  <2>1. r = s
    BY <1>2, <1>4 DEF Live
  <2>2. req'[w].pc = req[w].pc /\ req'[w].sess = req[w].sess
    BY <1>3, MarkFields DEF AuthTypeOK
  <2> QED
    BY <1>3, <2>1, <2>2 DEF SawItLive
<1> QED
  BY <1>2, <1>3, <1>4, ExchangeRevoked

LEMMA ExchangeDelete ==
    ASSUME AuthTypeOK, References, OneExchange, NEW u \in Users, DeleteUser(u)
    PROVE  OneExchange'
<1>1. /\ DOMAIN sess' = DOMAIN sess /\ DOMAIN sess = 1 .. Len(sess) /\ Len(sess) \in Nat
      /\ \A s \in DOMAIN sess : sess'[s] = IF sess[s].user = u THEN GoneSession(u) ELSE sess[s]
  BY SessionFacts DEF DeleteUser
<1>2. \A w \in Workers : req'[w].pc \in Refreshing => req'[w] = req[w] /\ req[w].user # u
  <2>1. ASSUME NEW w \in Workers, req'[w].pc \in Refreshing PROVE req'[w] = req[w] /\ req[w].user # u
    <3>1. req'[w] = IF req[w].user # u \/ req[w].pc \in {"idle", "sync", "syncInsert", "link", "status"}
                    THEN req[w]
                    ELSE [Arrived(u) EXCEPT !.pc =
                            IF req[w].pc \in {"syncUpdate", "syncRole"} THEN "link" ELSE "failing"]
      BY DEF DeleteUser, Orphaned
    <3> QED
      BY <2>1, <3>1 DEF Arrived, Refreshing
  <2> QED
    BY <2>1
<1>3. ASSUME NEW s \in DOMAIN sess, sess[s].user = u
      PROVE  /\ \A t \in DOMAIN sess : ~PromptChild(t, s)'
             /\ \A w \in Workers : ~Exchanging(w, s)' /\ ~SawItLive(w, s)'
  <2>1. ASSUME NEW t \in DOMAIN sess, sess'[t].parent = s PROVE FALSE
    <3>1. s # 0
      BY <1>1
    <3>2. CASE sess[t].user = u
      BY <1>1, <2>1, <3>1, <3>2 DEF GoneSession
    <3>3. CASE sess[t].user # u
      BY <1>1, <1>3, <2>1, <3>1, <3>3 DEF References
    <3> QED
      BY <3>2, <3>3
  <2>2. ASSUME NEW w \in Workers, req'[w].sess = s, req'[w].pc \in Refreshing PROVE FALSE
    BY <1>2, <1>3, <2>2 DEF References, GoodRequest
  <2> QED
    BY <2>1, <2>2 DEF PromptChild, Exchanging, SawItLive, Refreshing
<1>4. ASSUME NEW s \in DOMAIN sess, sess[s].user = u PROVE ~sess'[s].late => ExchangedOnce(s)'
  BY <1>1, <1>3, <1>4 DEF ExchangedOnce
<1>5. ASSUME NEW s \in DOMAIN sess, sess[s].user # u PROVE ExchangesKept(s)
  <2>1. sess'[s] = sess[s]
    BY <1>1, <1>5
  <2>2. ASSUME NEW t \in DOMAIN sess', PromptChild(t, s)' PROVE PromptChild(t, s)
    <3>1. t \in DOMAIN sess /\ sess'[t].parent = s /\ ~sess'[t].late /\ s # 0
      BY <1>1, <2>2 DEF PromptChild
    <3>2. sess'[t] = sess[t]
      BY <1>1, <3>1 DEF GoneSession
    <3> QED
      BY <3>1, <3>2 DEF PromptChild
  <2>3. \A w \in Workers : /\ Exchanging(w, s)' => Exchanging(w, s)
                           /\ SawItLive(w, s)' => SawItLive(w, s)
    BY <1>2 DEF Exchanging, SawItLive, Refreshing
  <2> QED
    BY <1>1, <2>1, <2>2, <2>3 DEF ExchangesKept, Live
<1>6. ASSUME NEW s \in DOMAIN sess PROVE ~sess'[s].late => ExchangedOnce(s)'
  BY <1>4, <1>5, <1>6, ExchangeFrame DEF OneExchange
<1> QED
  BY <1>1, <1>6 DEF OneExchange

\* The update of refresh: whoever finds the session live is the one that
\* exchanges it, and all others that have seen it live are late.
LEMMA ExchangeTaken ==
    ASSUME AuthTypeOK, References, OneExchange, NEW w \in Workers, RefreshRevoke(w)
    PROVE  OneExchange'
<1> PICK s0 : s0 = req[w].sess
  OBVIOUS
<1> DEFINE mid == [req EXCEPT ![w].pc = "refreshIssue"]
<1>1. /\ req \in [Workers -> Request] /\ req[w] \in Request /\ req[w].pc = "refreshRevoke"
      /\ s0 \in DOMAIN sess
  BY DEF AuthTypeOK, References, RefreshRevoke, At, GoodRequest, Refreshing
<1>2. /\ mid \in [Workers -> Request] /\ req' = Beaten(mid, s0)
      /\ mid[w].pc = "refreshIssue" /\ mid[w].sess = s0 /\ mid[w].late = req[w].late
      /\ \A v \in Workers \ {w} : mid[v] = req[v]
  BY <1>1 DEF RefreshRevoke, Request, Pcs
<1> HIDE DEF mid
<1>3. /\ sess' = [sess EXCEPT ![s0].status = IF @ = "live" THEN "rotated" ELSE @]
      /\ StatusOnly /\ ~Live(s0)' /\ \A s \in DOMAIN sess \ {s0} : sess'[s] = sess[s]
  BY <1>1, OneRevoked DEF RefreshRevoke
<1>4. DOMAIN sess' = DOMAIN sess
  BY <1>3
<1>5. \A v \in Workers :
        IF mid[v].sess = s0 /\ mid[v].pc \in {"refreshUser", "refreshRevoke"}
        THEN req'[v].late ELSE req'[v] = mid[v]
  BY <1>2, BeatenMarks
<1>6. \A v \in Workers : mid[v] \in Request /\ Marked(req'[v], mid[v])
  BY <1>2, BeatenMarks
<1>7. req'[w] = mid[w]
  BY <1>2, <1>5
<1>8. ASSUME NEW v \in Workers, ~req'[v].late, v # w PROVE req'[v] = req[v]
  BY <1>2, <1>6, <1>8, MarkInherits
<1>9. ASSUME NEW v \in Workers PROVE ~SawItLive(v, s0)'
  <2>1. req'[v].pc = mid[v].pc /\ req'[v].sess = mid[v].sess
    BY <1>6, MarkFields
  <2> QED
    BY <1>5, <2>1 DEF SawItLive
<1>10. \A t \in DOMAIN sess, s \in DOMAIN sess : PromptChild(t, s)' => PromptChild(t, s)
  BY <1>3 DEF StatusOnly, PromptChild
<1>11. ASSUME NEW s \in DOMAIN sess, s # s0 PROVE ExchangesKept(s)
  <2>1. sess'[s] = sess[s]
    BY <1>3, <1>11
  <2>2. ASSUME NEW v \in Workers, Exchanging(v, s)' PROVE Exchanging(v, s)
    BY <1>2, <1>7, <1>8, <1>11, <2>2 DEF Exchanging
  <2>3. ASSUME NEW v \in Workers, SawItLive(v, s)' PROVE SawItLive(v, s)
    BY <1>2, <1>7, <1>8, <1>11, <2>3 DEF SawItLive
  <2> QED
    BY <1>4, <1>10, <2>1, <2>2, <2>3 DEF ExchangesKept, Live
<1>12. ASSUME ~sess'[s0].late PROVE ExchangedOnce(s0)'
  <2>1. ~sess[s0].late /\ ExchangedOnce(s0)
    <3>1. sess'[s0].late = sess[s0].late
      BY <1>1, <1>3 DEF StatusOnly
    <3> QED
      BY <1>1, <1>12, <3>1 DEF OneExchange
  <2>2. CASE Live(s0)
    <3>1. \A v \in Workers : Exchanging(v, s0)' => v = w
      BY <1>8, <2>1, <2>2 DEF Exchanging, ExchangedOnce
    <3>2. \A t \in DOMAIN sess' : ~PromptChild(t, s0)'
      BY <1>1, <1>4, <1>10, <2>1, <2>2 DEF ExchangedOnce
    <3> QED
      BY <1>3, <1>9, <3>1, <3>2 DEF ExchangedOnce
  <2>3. CASE ~Live(s0)
    <3>1. req[w].late
      BY <1>1, <2>1, <2>3 DEF ExchangedOnce, SawItLive
    <3>2. ASSUME NEW v \in Workers, Exchanging(v, s0)' PROVE Exchanging(v, s0)
      BY <1>2, <1>7, <1>8, <3>1, <3>2 DEF Exchanging
    <3>3. (~sess'[s0].late => ~sess[s0].late) /\ (Live(s0)' => Live(s0))
      BY <1>3, <2>1
    <3>4. ExchangesKept(s0)
      BY <1>1, <1>4, <1>9, <1>10, <3>2, <3>3 DEF ExchangesKept
    <3> QED
      BY <1>12, <2>1, <3>4, ExchangeFrame
  <2> QED
    BY <2>2, <2>3
<1>13. ASSUME NEW s \in DOMAIN sess PROVE ~sess'[s].late => ExchangedOnce(s)'
  BY <1>11, <1>12, ExchangeFrame DEF OneExchange
<1> QED
  BY <1>4, <1>13 DEF OneExchange

LEMMA ExchangeIssued ==
    ASSUME AuthTypeOK, References, OneExchange, NEW w \in Workers,
           At(w, "login") \/ At(w, "refreshIssue"), Issue(w)
    PROVE  OneExchange'
<1> PICK n : n = Len(sess) + 1
  OBVIOUS
<1>1. /\ req \in [Workers -> Request] /\ req[w] \in Request /\ GoodRequest(req[w])
      /\ \A v \in Workers : req[v].sess \in Nat /\ req[v].sess <= Len(sess)
      /\ sess' = Append(sess, NewSession(w)) /\ req' = Finish(w)
  BY DEF AuthTypeOK, References, Request, Issue
<1>2. /\ NewSession(w) \in Session
      /\ NewSession(w).parent = req[w].sess /\ NewSession(w).late = req[w].late
  BY <1>1 DEF NewSession, Session, Request
<1>3. /\ Len(sess) \in Nat /\ DOMAIN sess = 1 .. Len(sess) /\ DOMAIN sess' = 1 .. n
      /\ \A s \in 1 .. Len(sess) : sess'[s] = sess[s]
      /\ sess'[n] = NewSession(w)
  <2>1. /\ sess \in Seq(Session) /\ Len(sess) \in Nat /\ DOMAIN sess = 1 .. Len(sess)
        /\ sess' \in Seq(Session) /\ Len(sess') = Len(sess) + 1
        /\ \A i \in 1 .. Len(sess) : sess'[i] = sess[i]
        /\ sess'[Len(sess) + 1] = NewSession(w)
    BY <1>1, <1>2, SessionFacts, AppendProperties DEF AuthTypeOK
  <2> QED
    BY <2>1, LenProperties
<1>4. /\ req'[w].pc = "idle" /\ \A v \in Workers \ {w} : req'[v] = req[v]
  BY <1>1 DEF Finish, Arrived
<1>5. \A v \in Workers, s \in DOMAIN sess' :
         /\ Exchanging(v, s)' => v # w /\ Exchanging(v, s)
         /\ SawItLive(v, s)' => v # w /\ SawItLive(v, s)
  BY <1>4 DEF Exchanging, SawItLive
<1>6. ExchangedOnce(n)'
  <2>1. ASSUME NEW t \in DOMAIN sess' PROVE sess'[t].parent # n
    <3>1. CASE t \in DOMAIN sess
      <4>1. sess[t].parent < t /\ sess[t].parent \in Nat /\ sess'[t] = sess[t]
        BY <1>3, <3>1, SessionFacts DEF AuthTypeOK, Session
      <4> QED
        BY <1>3, <3>1, <4>1
    <3>2. CASE t = n
      BY <1>1, <1>2, <1>3, <3>2
    <3> QED
      BY <1>3, <3>1, <3>2
  <2>2. \A v \in Workers : ~Exchanging(v, n)' /\ ~SawItLive(v, n)'
    BY <1>1, <1>3, <1>5 DEF Exchanging, SawItLive
  <2> QED
    BY <2>1, <2>2 DEF ExchangedOnce, PromptChild
<1>7. ASSUME NEW s \in DOMAIN sess, ~sess'[s].late PROVE ExchangedOnce(s)'
  <2>1. sess'[s] = sess[s] /\ ExchangedOnce(s) /\ s # n /\ s \in DOMAIN sess' /\ s # 0
    BY <1>3, <1>7 DEF OneExchange
  <2>2. Live(s)' <=> Live(s)
    BY <2>1 DEF Live
  <2>3. \A t \in DOMAIN sess' : PromptChild(t, s)' =>
           \/ t \in DOMAIN sess /\ PromptChild(t, s)
           \/ t = n /\ req[w].sess = s /\ ~req[w].late
    BY <1>2, <1>3 DEF PromptChild
  <2>4. CASE req[w].sess = s /\ ~req[w].late
    <3>1. Exchanging(w, s)
      BY <1>1, <2>1, <2>4 DEF At, Exchanging, GoodRequest
    <3>2. \A t \in DOMAIN sess' : PromptChild(t, s)' => t = n
      BY <2>1, <2>3, <3>1 DEF ExchangedOnce
    <3>3. \A v \in Workers : ~Exchanging(v, s)'
      BY <1>5, <2>1, <3>1 DEF ExchangedOnce
    <3>4. ~Live(s)' /\ \A v \in Workers : ~SawItLive(v, s)'
      BY <1>5, <2>1, <2>2, <3>1 DEF ExchangedOnce
    <3> QED
      BY <3>2, <3>3, <3>4 DEF ExchangedOnce
  <2>5. CASE ~(req[w].sess = s /\ ~req[w].late)
    <3>1. ExchangesKept(s)
      <4>1. \A t \in DOMAIN sess' : PromptChild(t, s)' => t \in DOMAIN sess /\ PromptChild(t, s)
        BY <2>3, <2>5
      <4>2. \A v \in Workers : SawItLive(v, s)' => Live(s)' \/ (~Live(s) /\ SawItLive(v, s))
        BY <1>5, <2>1, <2>2
      <4> QED
        BY <1>5, <2>1, <2>2, <4>1, <4>2 DEF ExchangesKept
    <3> QED
      BY <1>7, <2>1, <3>1, ExchangeFrame
  <2> QED
    BY <2>4, <2>5
<1> QED
  BY <1>3, <1>6, <1>7 DEF OneExchange

LEMMA ExchangeSignIn ==
    ASSUME AuthTypeOK, References, OneExchange, NEW w \in Workers, SignIn(w)
    PROVE  OneExchange'
<1>1. ASSUME NEW u \in Users, LoginRead(w, u) PROVE OneExchange'
  <2> DEFINE new == [Arrived(u) EXCEPT !.pc = "login", !.pass = user[u].pass]
  <2>1. new.pc = "login" /\ req' = [req EXCEPT ![w] = new] /\ UNCHANGED sess
    BY <1>1 DEF LoginRead, Arrived
  <2> HIDE DEF new
  <2> QED
    BY <2>1, ExchangeReads
<1>2. ASSUME NEW s \in DOMAIN sess, RefreshRead(w, s) PROVE OneExchange'
  <2> DEFINE new == [Arrived(sess[s].user) EXCEPT !.pc = "refreshUser", !.sess = s,
                       !.pass = sess[s].pass, !.late = sess[s].late]
  <2>1. /\ new.pc = "refreshUser" /\ new.sess = s
        /\ req' = [req EXCEPT ![w] = new] /\ UNCHANGED sess /\ Live(s)
    BY <1>2 DEF RefreshRead, Arrived
  <2> HIDE DEF new
  <2> QED
    BY <2>1, ExchangeReads
<1>3. ASSUME RefreshUser(w) PROVE OneExchange'
  <2> DEFINE new == [req[w] EXCEPT !.pc = "refreshRevoke"]
  <2>1. /\ new.pc = "refreshRevoke" /\ new.sess = req[w].sess /\ new.late = req[w].late
        /\ req' = [req EXCEPT ![w] = new] /\ UNCHANGED sess /\ req[w].pc = "refreshUser"
    BY <1>3 DEF RefreshUser, At, AuthTypeOK, Request
  <2>2. \A s : new.sess = s /\ ~new.late => SawItLive(w, s)
    BY <2>1 DEF SawItLive
  <2> HIDE DEF new
  <2> QED
    BY <2>1, <2>2, ExchangeReads
<1> QED
  BY <1>1, <1>2, <1>3, ExchangeTaken, ExchangeIssued DEF SignIn, LoginIssue, RefreshIssue

LEMMA ExchangeStep ==
    ASSUME AuthTypeOK, References, OneExchange, AuthNext \/ EmployeeNext
    PROVE  OneExchange'
<1>1. ASSUME Revocation PROVE OneExchange'
  <2>1. \A w \in Workers : req[w].user \in Users
    BY DEF AuthTypeOK, Request
  <2> QED
    BY <1>1, <2>1, ExchangeRevoke
       DEF Revocation, ChangePasswordRevoke, AdminResetRevoke, LogoutAll
<1>2. ASSUME QuietStep PROVE OneExchange'
  BY <1>2, ExchangeQuiet DEF QuietStep
<1> QED
  BY <1>1, <1>2, StepKinds, QuietEmployees, ExchangeSignIn, ExchangeLogout, ExchangeDelete

-----------------------------------------------------------------------------
(***************************************************************************)
(* Roles and status updates                                                *)
(***************************************************************************)

\* Requests that insert roles or set a status go on as they were, and no
\* other request becomes one of them.
Unmoved(w) == /\ req'[w].pc = req[w].pc /\ req'[w].user = req[w].user
              /\ req'[w].active => req[w].active

Writing == {"rolesCreate", "syncRole", "status"}

WritersKept ==
    \A w \in Workers : Unmoved(w) \/ (req[w].pc \notin Writing /\ req'[w].pc \notin Writing)

LEMMA WritersMarked ==
    ASSUME AuthTypeOK, \A w \in Workers : Marked(req'[w], req[w])
    PROVE  WritersKept
<1>1. ASSUME NEW w \in Workers PROVE Unmoved(w)
  BY ZenonT(60) DEF Marked, AuthTypeOK, Request, Unmoved
<1> QED
  BY <1>1 DEF WritersKept

LEMMA WriterWritten ==
    ASSUME AuthTypeOK, NEW w \in Workers, NEW new, req' = [req EXCEPT ![w] = new],
           new.pc \notin Writing, req[w].pc \notin Writing
    PROVE  WritersKept
<1>1. ASSUME NEW v \in Workers, v # w PROVE Unmoved(v)
  BY <1>1 DEF AuthTypeOK, Unmoved
<1>2. req'[w].pc \notin Writing
  BY DEF AuthTypeOK
<1> QED
  BY <1>1, <1>2 DEF WritersKept

LEMMA WriterGoesOn ==
    ASSUME AuthTypeOK, NEW w \in Workers, NEW pc \in Pcs, req' = [req EXCEPT ![w].pc = pc],
           pc \notin Writing, req[w].pc \notin Writing
    PROVE  WritersKept
<1> DEFINE new == [req[w] EXCEPT !.pc = pc]
<1>1. new.pc = pc /\ req' = [req EXCEPT ![w] = new]
  BY DEF AuthTypeOK, Request
<1> HIDE DEF new
<1> QED
  BY <1>1, WriterWritten

LEMMA WriterFinishes ==
    ASSUME AuthTypeOK, NEW w \in Workers, req' = Finish(w), req[w].pc \notin Writing
    PROVE  WritersKept
BY WriterWritten DEF Finish, Arrived, Writing

LEMMA WritersOvertaken ==
    ASSUME AuthTypeOK, NEW u \in Users, NEW r, RevokeAll(u, r),
           r = req \/ \E w \in Workers : r = Finish(w) /\ req[w].pc \notin Writing
    PROVE  WritersKept
<1>1. r \in [Workers -> Request]
  BY ArrivedType, SomeUserType DEF AuthTypeOK, Finish
<1>2. \A v \in Workers : Marked(req'[v], r[v])
  BY <1>1, OvertakenMarks DEF RevokeAll
<1>3. ASSUME NEW v \in Workers
      PROVE  r[v] = req[v] \/ (r[v].pc = "idle" /\ req[v].pc \notin Writing)
  BY DEF Finish, Arrived, AuthTypeOK
<1>4. ASSUME NEW v \in Workers
      PROVE  Unmoved(v) \/ (req[v].pc \notin Writing /\ req'[v].pc \notin Writing)
  <2>1. CASE r[v] = req[v]
    BY <1>1, <1>2, <2>1, MarkFields DEF Unmoved
  <2>2. CASE r[v].pc = "idle" /\ req[v].pc \notin Writing
    BY <1>1, <1>2, <2>2, MarkFields DEF Writing
  <2> QED
    BY <1>3, <2>1, <2>2
<1> QED
  BY <1>4 DEF WritersKept

\* Steps of the auth-service that leave accounts' roles alone, and those of
\* existing accounts.
RolesAlone ==
    /\ WritersKept
    /\ UNCHANGED mixed
    /\ \A u \in Users : /\ user'[u].roles = user[u].roles
                        /\ user'[u].exists => user[u].exists

LEMMA AccountsAlone ==
    ASSUME WritersKept, UNCHANGED <<user, mixed>>
    PROVE  RolesAlone
BY DEF RolesAlone

LEMMA SignInAlone ==
    ASSUME AuthTypeOK, NEW w \in Workers, SignIn(w)
    PROVE  RolesAlone
<1> USE DEF Writing, Pcs
<1>1. UNCHANGED <<user, mixed>>
  BY DEF SignIn, LoginRead, LoginIssue, RefreshRead, RefreshUser, RefreshRevoke, RefreshIssue, Issue
<1>2. ASSUME NEW u \in Users, LoginRead(w, u) PROVE WritersKept
  <2> DEFINE new == [Arrived(u) EXCEPT !.pc = "login", !.pass = user[u].pass]
  <2>1. new.pc = "login" /\ req' = [req EXCEPT ![w] = new] /\ req[w].pc = "idle"
    BY <1>2 DEF LoginRead, Arrived, Idle
  <2> HIDE DEF new
  <2> QED
    BY <2>1, WriterWritten
<1>3. ASSUME NEW s \in DOMAIN sess, RefreshRead(w, s) PROVE WritersKept
  <2> DEFINE new == [Arrived(sess[s].user) EXCEPT !.pc = "refreshUser", !.sess = s,
                       !.pass = sess[s].pass, !.late = sess[s].late]
  <2>1. new.pc = "refreshUser" /\ req' = [req EXCEPT ![w] = new] /\ req[w].pc = "idle"
    BY <1>3 DEF RefreshRead, Arrived, Idle
  <2> HIDE DEF new
  <2> QED
    BY <2>1, WriterWritten
<1>4. ASSUME RefreshUser(w) PROVE WritersKept
  BY <1>4, WriterGoesOn DEF RefreshUser, At
<1>5. ASSUME RefreshRevoke(w) PROVE WritersKept
  <2> DEFINE mid == [req EXCEPT ![w].pc = "refreshIssue"]
  <2>1. mid \in [Workers -> Request] /\ \A v \in Workers \ {w} : mid[v] = req[v]
    BY DEF AuthTypeOK, Request
  <2>2. mid[w].pc = "refreshIssue" /\ req[w].pc = "refreshRevoke"
    BY <1>5 DEF RefreshRevoke, At, AuthTypeOK, Request
  <2>3. \A v \in Workers : Marked(req'[v], mid[v])
    BY <1>5, <2>1, BeatenMarks DEF RefreshRevoke
  <2> HIDE DEF mid
  <2>4. ASSUME NEW v \in Workers, v # w PROVE Unmoved(v)
    BY <2>1, <2>3, <2>4, MarkFields DEF Unmoved
  <2>5. req'[w].pc = "refreshIssue"
    BY <2>1, <2>2, <2>3, MarkFields
  <2> QED
    BY <2>2, <2>4, <2>5 DEF WritersKept
<1>6. ASSUME At(w, "login") \/ At(w, "refreshIssue"), Issue(w) PROVE WritersKept
  BY <1>6, WriterFinishes DEF At, Issue
<1> QED
  BY <1>1, <1>2, <1>3, <1>4, <1>5, <1>6, AccountsAlone DEF SignIn, LoginIssue, RefreshIssue

LEMMA PasswordAlone ==
    ASSUME AuthTypeOK, NEW w \in Workers, Password(w)
    PROVE  RolesAlone
<1> USE DEF Writing, Pcs
<1>1. req[w].user \in Users /\ user[req[w].user].active \in BOOLEAN
  BY DEF AuthTypeOK, Request, Account
<1>2. ASSUME NEW u \in Users, NEW must \in BOOLEAN, NEW act \in BOOLEAN,
             SetPassword(u, must, act), UNCHANGED <<sess, mixed>>, WritersKept
      PROVE  RolesAlone
  BY <1>2, PasswordSet DEF RolesAlone
<1>3. ASSUME NEW u \in Users,
             ChangePasswordRead(w, u) \/ SetInitialPasswordRead(w, u) \/ AdminResetRead(w, u)
      PROVE  RolesAlone
  <2>1. PICK pc \in {"change", "initial", "reset"} :
           req' = [req EXCEPT ![w] = [Arrived(u) EXCEPT !.pc = pc]]
    BY <1>3 DEF ChangePasswordRead, SetInitialPasswordRead, AdminResetRead
  <2> DEFINE new == [Arrived(u) EXCEPT !.pc = pc]
  <2>2. new.pc = pc /\ req' = [req EXCEPT ![w] = new] /\ req[w].pc = "idle"
    BY <1>3, <2>1 DEF ChangePasswordRead, SetInitialPasswordRead, AdminResetRead, Arrived, Idle
  <2> HIDE DEF new
  <2>3. WritersKept
    BY <2>1, <2>2, WriterWritten
  <2> QED
    BY <1>3, <2>3, AccountsAlone DEF ChangePasswordRead, SetInitialPasswordRead, AdminResetRead
<1>4. CASE ChangePasswordWrite(w)
  <2>1. WritersKept
    BY <1>4, WriterGoesOn DEF ChangePasswordWrite, At
  <2> QED
    BY <1>1, <1>2, <1>4, <2>1 DEF ChangePasswordWrite
<1>5. CASE AdminResetWrite(w)
  <2>1. WritersKept
    BY <1>5, WriterGoesOn DEF AdminResetWrite, At
  <2> QED
    BY <1>1, <1>2, <1>5, <2>1 DEF AdminResetWrite
<1>6. CASE SetInitialPasswordWrite(w)
  <2>1. WritersKept
    BY <1>6, WriterFinishes DEF SetInitialPasswordWrite, At
  <2> QED
    BY <1>1, <1>2, <1>6, <2>1 DEF SetInitialPasswordWrite
<1>7. CASE ChangePasswordRevoke(w) \/ AdminResetRevoke(w)
  <2>1. WritersKept
    BY <1>1, <1>7, WritersOvertaken DEF ChangePasswordRevoke, AdminResetRevoke, At
  <2> QED
    BY <1>7, <2>1, AccountsAlone DEF ChangePasswordRevoke, AdminResetRevoke
<1> QED
  BY <1>3, <1>4, <1>5, <1>6, <1>7 DEF Password

LEMMA AdministrationAlone ==
    ASSUME AuthTypeOK,
           \/ \E s \in DOMAIN sess : LogoutSession(s)
           \/ \E u \in Users : LogoutAll(u)
           \/ \E u \in Users, b \in BOOLEAN : SetActiveStatus(u, b)
    PROVE  RolesAlone
<1>1. ASSUME NEW s \in DOMAIN sess, LogoutSession(s) PROVE RolesAlone
  <2>1. WritersKept
    BY <1>1, BeatenMarks, WritersMarked DEF LogoutSession, AuthTypeOK
  <2> QED
    BY <1>1, <2>1, AccountsAlone DEF LogoutSession
<1>2. ASSUME NEW u \in Users, LogoutAll(u) PROVE RolesAlone
  BY <1>2, WritersOvertaken, AccountsAlone DEF LogoutAll
<1>3. ASSUME NEW u \in Users, NEW b \in BOOLEAN, SetActiveStatus(u, b) PROVE RolesAlone
  <2>1. WritersKept
    BY <1>3 DEF SetActiveStatus, WritersKept, Unmoved
  <2>2. \A v \in Users : user'[v].roles = user[v].roles /\ user'[v].exists = user[v].exists
    BY <1>3 DEF SetActiveStatus, AuthTypeOK, Account
  <2> QED
    BY <1>3, <2>1, <2>2 DEF SetActiveStatus, RolesAlone
<1> QED
  BY <1>1, <1>2, <1>3

LEMMA UpdateUserReadAlone ==
    ASSUME AuthTypeOK, NEW w \in Workers, NEW u \in Users, NEW r \in Roles, UpdateUserRead(w, u, r)
    PROVE  RolesAlone
<1> DEFINE new == [Arrived(u) EXCEPT !.pc = "rolesDelete", !.roles = {r}]
<1>1. new.pc = "rolesDelete" /\ req' = [req EXCEPT ![w] = new] /\ req[w].pc = "idle"
  BY DEF UpdateUserRead, Arrived, Idle
<1> HIDE DEF new
<1>2. WritersKept
  BY <1>1, WriterWritten DEF Writing
<1> QED
  BY <1>2, AccountsAlone DEF UpdateUserRead

-----------------------------------------------------------------------------
(***************************************************************************)
(* Roles                                                                   *)
(***************************************************************************)

RolesFrame(u) ==
    /\ user'[u].exists /\ ~mixed'[u] => user[u].exists /\ ~mixed[u]
    /\ user'[u].roles = user[u].roles
    /\ \A w \in Workers : DeletedRoles(w, u)' => DeletedRoles(w, u)
    /\ \A w \in Workers : InsertsRole(w, u) => InsertsRole(w, u)'

LEMMA RolesFramed ==
    ASSUME RolesWhole, NEW u \in Users, RolesFrame(u)
    PROVE  user'[u].exists /\ ~mixed'[u] => OneRoleOrReplaced(u)'
BY DEF RolesWhole, RolesFrame, OneRoleOrReplaced

LEMMA RolesUnmoved ==
    ASSUME RolesWhole, RolesAlone
    PROVE  RolesWhole'
<1>1. ASSUME NEW u \in Users PROVE RolesFrame(u)
  <2>1. \A w \in Workers : /\ DeletedRoles(w, u)' => DeletedRoles(w, u)
                           /\ InsertsRole(w, u) => InsertsRole(w, u)'
    BY DEF RolesAlone, WritersKept, Writing, Unmoved, DeletedRoles, InsertsRole, Replacement
  <2> QED
    BY <2>1 DEF RolesAlone, RolesFrame
<1> QED
  BY <1>1, RolesFramed DEF RolesWhole

\* A step of one request, about its own account.
LEMMA RolesOthers ==
    ASSUME AuthTypeOK, RolesWhole, NEW w \in Workers, NEW a \in Users, NEW new,
           req' = [req EXCEPT ![w] = new], req[w].user = a,
           new.user = a \/ new.pc = "idle",
           \A u \in Users \ {a} : user'[u] = user[u] /\ (mixed'[u] <=> mixed[u]),
           user'[a].exists /\ ~mixed'[a] => OneRoleOrReplaced(a)'
    PROVE  RolesWhole'
<1>1. ASSUME NEW u \in Users \ {a} PROVE RolesFrame(u)
  <2>1. \A v \in Workers : req'[v] = IF v = w THEN new ELSE req[v]
    BY DEF AuthTypeOK
  <2>2. ASSUME NEW v \in Workers, DeletedRoles(v, u)' PROVE DeletedRoles(v, u)
    BY <2>1, <2>2 DEF DeletedRoles
  <2>3. ASSUME NEW v \in Workers, InsertsRole(v, u) PROVE InsertsRole(v, u)'
    BY <2>1, <2>3 DEF InsertsRole
  <2> QED
    BY <2>2, <2>3 DEF RolesFrame
<1> QED
  BY <1>1, RolesFramed DEF RolesWhole

\* Between the two statements of updateUser the account has no role, and
\* nobody else is replacing them.
LEMMA RolesUpdate ==
    ASSUME AuthTypeOK, References, RolesWhole, NEW w \in Workers, RoleUpdate(w)
    PROVE  RolesWhole'
<1> PICK a : a = req[w].user
  OBVIOUS
<1>1. /\ req[w] \in Request /\ a \in Users /\ user[a] \in Account /\ GoodRequest(req[w])
      /\ req \in [Workers -> Request]
  BY DEF AuthTypeOK, Request, References
<1>2. CASE UpdateUserDelete(w)
  <2> DEFINE new == [req[w] EXCEPT !.pc = "rolesCreate"]
  <2>1. /\ req' = [req EXCEPT ![w] = new] /\ new.pc = "rolesCreate" /\ new.user = a
        /\ req[w].pc = "rolesDelete"
    BY <1>1, <1>2 DEF UpdateUserDelete, At, Request
  <2> HIDE DEF new
  <2>2. user'[a].roles = {} /\ \A u \in Users \ {a} : user'[u] = user[u]
    BY <1>1, <1>2 DEF UpdateUserDelete, AuthTypeOK, Account
  <2>3. /\ mixed' = [mixed EXCEPT ![a] = Replacing(a, w)]
        /\ \A u \in Users \ {a} : mixed'[u] <=> mixed[u]
    BY <1>1, <1>2 DEF UpdateUserDelete, AuthTypeOK
  <2>4. mixed'[a] <=> Replacing(a, w)
    BY <1>1, <2>3 DEF AuthTypeOK
  <2>5. ASSUME ~mixed'[a] PROVE OneRoleOrReplaced(a)'
    <3>1. \A v \in Workers \ {w} : ~(req[v].user = a /\ req[v].pc \in {"rolesCreate", "syncRole"})
      BY <2>4, <2>5 DEF Replacing
    <3>2. \A v \in Workers : DeletedRoles(v, a)' => v = w
      BY <1>1, <2>1, <3>1 DEF DeletedRoles
    <3>3. InsertsRole(w, a)'
      BY <1>1, <2>1 DEF InsertsRole, Replacement
    <3> QED
      BY <2>2, <3>2, <3>3 DEF OneRoleOrReplaced
  <2> QED
    BY <1>1, <2>1, <2>2, <2>3, <2>5, RolesOthers
<1>3. CASE UpdateUserCreate(w)
  <2>1. /\ req' = [req EXCEPT ![w] = Arrived(SomeUser)] /\ Arrived(SomeUser).pc = "idle"
        /\ req[w].pc = "rolesCreate"
    BY <1>3 DEF UpdateUserCreate, Finish, Arrived, At
  <2>2. /\ user'[a].roles = user[a].roles \union req[w].roles /\ user'[a].exists = user[a].exists
        /\ \A u \in Users \ {a} : user'[u] = user[u]
        /\ UNCHANGED mixed
    BY <1>1, <1>3 DEF UpdateUserCreate, AuthTypeOK, Account
  <2>3. PICK role \in Roles : req[w].roles = {role}
    BY <1>1, <2>1 DEF GoodRequest, WithRole, Replacement
  <2>4. ASSUME user'[a].exists, ~mixed'[a] PROVE OneRoleOrReplaced(a)'
    <3>1. OneRoleOrReplaced(a) /\ DeletedRoles(w, a)
      BY <1>1, <2>1, <2>2, <2>4 DEF RolesWhole, DeletedRoles
    <3>2. user'[a].roles = {role}
      BY <2>2, <2>3, <3>1 DEF OneRoleOrReplaced
    <3>3. \A v \in Workers : ~DeletedRoles(v, a)'
      BY <1>1, <2>1, <3>1 DEF OneRoleOrReplaced, DeletedRoles
    <3> QED
      BY <3>2, <3>3 DEF OneRoleOrReplaced
  <2> QED
    BY <1>1, <2>1, <2>2, <2>4, RolesOthers
<1> QED
  BY <1>2, <1>3, UpdateUserReadAlone, RolesUnmoved DEF RoleUpdate

LEMMA RolesAborted ==
    ASSUME AuthTypeOK, RolesWhole, NEW w \in Workers, AbortRequest(w)
    PROVE  RolesWhole'
<1>1. CASE req[w].pc \in {"rolesCreate", "syncRole"}
  <2> PICK a : a = req[w].user
    OBVIOUS
  <2>1. a \in Users /\ mixed' = [mixed EXCEPT ![a] = TRUE] /\ UNCHANGED user
    BY <1>1 DEF AbortRequest, AuthTypeOK, Request
  <2>2. req' = [req EXCEPT ![w] = Arrived(SomeUser)] /\ Arrived(SomeUser).pc = "idle"
    BY DEF AbortRequest, Finish, Arrived
  <2>3. mixed'[a] /\ \A u \in Users \ {a} : mixed'[u] <=> mixed[u]
    BY <2>1 DEF AuthTypeOK
  <2> QED
    BY <2>1, <2>2, <2>3, RolesOthers
<1>2. CASE req[w].pc \notin {"rolesCreate", "syncRole"}
  <2>1. UNCHANGED <<user, mixed>>
    BY <1>2 DEF AbortRequest
  <2>2. ASSUME NEW u \in Users PROVE RolesFrame(u)
    <3>1. req'[w].pc = "idle" /\ \A v \in Workers \ {w} : req'[v] = req[v]
      BY DEF AbortRequest, Finish, Arrived, AuthTypeOK
    <3>2. ASSUME NEW v \in Workers, DeletedRoles(v, u)' PROVE DeletedRoles(v, u)
      BY <3>1, <3>2 DEF DeletedRoles
    <3>3. ASSUME NEW v \in Workers, InsertsRole(v, u) PROVE InsertsRole(v, u)'
      BY <1>2, <3>1, <3>3 DEF InsertsRole, Replacement
    <3> QED
      BY <2>1, <3>2, <3>3 DEF RolesFrame
  <2> QED
    BY <2>2, RolesFramed DEF RolesWhole
<1> QED
  BY <1>1, <1>2

LEMMA OrphanedRequests ==
    ASSUME AuthTypeOK, NEW u \in Users, DeleteUser(u), NEW w \in Workers
    PROVE  \/ req'[w] = req[w]
           \/ /\ req[w].user = u /\ req[w].pc # "status"
              /\ req'[w].user = u /\ req'[w].pc \in {"link", "failing"}
<1>1. req'[w] = IF req[w].user # u \/ req[w].pc \in {"idle", "sync", "syncInsert", "link", "status"}
                THEN req[w]
                ELSE [Arrived(u) EXCEPT !.pc =
                        IF req[w].pc \in {"syncUpdate", "syncRole"} THEN "link" ELSE "failing"]
  BY DEF DeleteUser, Orphaned
<1> QED
  BY <1>1 DEF Arrived

LEMMA RolesDeleted ==
    ASSUME AuthTypeOK, RolesWhole, NEW a \in Users, DeleteUser(a)
    PROVE  RolesWhole'
<1>1. /\ user'[a].exists = FALSE
      /\ \A u \in Users \ {a} : user'[u] = user[u] /\ (mixed'[u] <=> mixed[u])
  BY DEF DeleteUser, NoAccount, AuthTypeOK
<1>2. ASSUME NEW u \in Users \ {a} PROVE RolesFrame(u)
  <2>1. ASSUME NEW v \in Workers, DeletedRoles(v, u)' PROVE DeletedRoles(v, u)
    BY <2>1, OrphanedRequests DEF DeletedRoles
  <2>2. ASSUME NEW v \in Workers, InsertsRole(v, u) PROVE InsertsRole(v, u)'
    BY <2>2, OrphanedRequests DEF InsertsRole
  <2> QED
    BY <1>1, <2>1, <2>2 DEF RolesFrame
<1> QED
  BY <1>1, <1>2, RolesFramed DEF RolesWhole

LEMMA RolesCreated ==
    ASSUME AuthTypeOK, References, RolesWhole, NEW a \in Users, NEW r \in Roles, CreateUser(a, r)
    PROVE  RolesWhole'
<1>1. /\ user'[a].roles = {r} /\ ~user[a].exists
      /\ \A u \in Users \ {a} : user'[u] = user[u]
      /\ UNCHANGED <<req, mixed>>
  BY DEF CreateUser, AuthTypeOK
<1>2. \A w \in Workers : ~DeletedRoles(w, a)'
  BY <1>1 DEF DeletedRoles, References, GoodRequest, WithoutRow
<1>3. OneRoleOrReplaced(a)'
  BY <1>1, <1>2 DEF OneRoleOrReplaced
<1>4. ASSUME NEW u \in Users \ {a} PROVE RolesFrame(u)
  BY <1>1 DEF RolesFrame, DeletedRoles, InsertsRole
<1> QED
  BY <1>3, <1>4, RolesFramed DEF RolesWhole

LEMMA RolesProvisioned ==
    ASSUME AuthTypeOK, References, RolesWhole, NEW w \in Workers, Provisioning(w)
    PROVE  RolesWhole'
<1> USE DEF Pcs, Writing
<1> PICK a : a = req[w].user
  OBVIOUS
<1>1. /\ req[w] \in Request /\ a \in Users /\ user[a] \in Account /\ GoodRequest(req[w])
      /\ req \in [Workers -> Request]
  BY DEF AuthTypeOK, Request, References
<1>2. ASSUME NEW x \in Users, NEW roles, Goes(w, x, "sync", roles), Idle(w),
             UNCHANGED <<user, mixed>>
      PROVE  RolesWhole'
  <2> DEFINE new == [Arrived(x) EXCEPT !.pc = "sync", !.roles = roles]
  <2>1. new.pc = "sync" /\ req' = [req EXCEPT ![w] = new] /\ req[w].pc = "idle"
    BY <1>2 DEF Goes, Idle, Arrived
  <2> HIDE DEF new
  <2> QED
    BY <1>2, <2>1, WriterWritten, AccountsAlone, RolesUnmoved
<1>3. ASSUME NEW x \in Users, NEW st \in Statuses, NEW r \in Roles, CreateEmployee(w, x, st, r)
      PROVE  RolesWhole'
  BY <1>2, <1>3 DEF CreateEmployee
<1>4. ASSUME NEW x \in Users, ResendCredentials(w, x) PROVE RolesWhole'
  BY <1>2, <1>4 DEF ResendCredentials
<1>5. CASE Sync(w)
  <2>1. PICK pc \in {"syncUpdate", "syncInsert"} : req' = [req EXCEPT ![w].pc = pc]
    BY <1>5 DEF Sync
  <2>2. WritersKept
    BY <1>5, <2>1, WriterGoesOn DEF Sync, At
  <2> QED
    BY <1>5, <2>2, AccountsAlone, RolesUnmoved DEF Sync
<1>6. ASSUME req' = [req EXCEPT ![w].pc = "syncRole"], UNCHANGED mixed,
             \A u \in Users \ {a} : user'[u] = user[u],
             \/ user'[a].exists = user[a].exists /\ user'[a].roles = user[a].roles
             \/ ~user[a].exists
      PROVE  RolesWhole'
  <2> DEFINE new == [req[w] EXCEPT !.pc = "syncRole"]
  <2>1. req' = [req EXCEPT ![w] = new] /\ new.pc = "syncRole" /\ new.user = a
    BY <1>1, <1>6 DEF Request
  <2> HIDE DEF new
  <2>2. ASSUME user'[a].exists, ~mixed'[a] PROVE OneRoleOrReplaced(a)'
    <3>1. InsertsRole(w, a)'
      BY <1>1, <2>1 DEF InsertsRole, Replacement
    <3>2. \A v \in Workers : DeletedRoles(v, a)' => DeletedRoles(v, a)
      BY <1>1, <2>1 DEF DeletedRoles
    <3>3. CASE ~user[a].exists
      <4>1. \A v \in Workers : ~DeletedRoles(v, a)
        BY <3>3 DEF DeletedRoles, References, GoodRequest, WithoutRow
      <4> QED
        BY <3>1, <3>2, <4>1 DEF OneRoleOrReplaced
    <3>4. CASE user'[a].exists = user[a].exists /\ user'[a].roles = user[a].roles
      <4>1. OneRoleOrReplaced(a)
        BY <1>1, <1>6, <2>2, <3>4 DEF RolesWhole
      <4> QED
        BY <3>1, <3>2, <3>4, <4>1 DEF OneRoleOrReplaced
    <3> QED
      BY <1>6, <3>3, <3>4
  <2> QED
    BY <1>1, <1>6, <2>1, <2>2, RolesOthers
<1>7. CASE SyncUpdate(w)
  <2>1. /\ \A u \in Users \ {a} : user'[u] = user[u]
        /\ user'[a].exists = user[a].exists /\ user'[a].roles = user[a].roles
    BY <1>1, <1>7, PasswordSet DEF SyncUpdate
  <2> QED
    BY <1>6, <1>7, <2>1 DEF SyncUpdate
<1>8. CASE SyncInsert(w)
  <2>1. ~user[a].exists /\ \A u \in Users \ {a} : user'[u] = user[u]
    BY <1>8 DEF SyncInsert, AuthTypeOK
  <2> QED
    BY <1>6, <1>8, <2>1 DEF SyncInsert
<1>9. CASE SyncRole(w)
  <2> DEFINE new == [req[w] EXCEPT !.pc = "link", !.roles = {}]
  <2>1. /\ req' = [req EXCEPT ![w] = new] /\ new.pc = "link" /\ new.user = a
        /\ req[w].pc = "syncRole"
    BY <1>1, <1>9 DEF SyncRole, Request, At
  <2> HIDE DEF new
  <2>2. PICK roles : roles = user[a].roles \union req[w].roles
    OBVIOUS
  <2>3. user' = [user EXCEPT ![a].roles = roles]
    BY <1>9, <2>2 DEF SyncRole
  <2>4. user'[a].roles = roles /\ \A u \in Users \ {a} : user'[u] = user[u]
    BY <1>1, <2>3 DEF AuthTypeOK, Account
  <2>5. PICK b : b = (mixed[a] \/ roles # req[w].roles \/ Replacing(a, w))
    OBVIOUS
  <2>6. mixed' = [mixed EXCEPT ![a] = b]
    BY <1>9, <2>2, <2>5 DEF SyncRole
  <2>7. mixed'[a] = b /\ \A u \in Users \ {a} : mixed'[u] <=> mixed[u]
    BY <1>1, <2>6 DEF AuthTypeOK
  <2>8. PICK role \in Roles : req[w].roles = {role}
    BY <1>1, <2>1 DEF GoodRequest, WithRole, Replacement
  <2>9. ASSUME ~mixed'[a] PROVE OneRoleOrReplaced(a)'
    <3>1. roles = {role} /\ ~Replacing(a, w)
      BY <2>5, <2>7, <2>8, <2>9
    <3>2. \A v \in Workers \ {w} : ~(req[v].user = a /\ req[v].pc \in {"rolesCreate", "syncRole"})
      BY <3>1 DEF Replacing
    <3>3. \A v \in Workers : ~DeletedRoles(v, a)'
      BY <1>1, <2>1, <3>2 DEF DeletedRoles
    <3> QED
      BY <2>4, <3>1, <3>3 DEF OneRoleOrReplaced
  <2> QED
    BY <1>1, <2>1, <2>4, <2>7, <2>9, RolesOthers
<1>10. CASE Link(w)
  <2>1. WritersKept
    BY <1>10, WriterFinishes DEF Link, At
  <2> QED
    BY <1>10, <2>1, AccountsAlone, RolesUnmoved DEF Link
<1> QED
  BY <1>3, <1>4, <1>5, <1>7, <1>8, <1>9, <1>10 DEF Provisioning

LEMMA RolesStatus ==
    ASSUME AuthTypeOK, RolesWhole, NEW w \in Workers, StatusAndRole(w)
    PROVE  RolesWhole'
<1>1. ASSUME NEW new, req' = [req EXCEPT ![w] = new], new.pc \notin Replacement,
             req[w].pc \notin Replacement, UNCHANGED mixed,
             \A u \in Users : user'[u].roles = user[u].roles /\ user'[u].exists = user[u].exists
      PROVE  RolesWhole'
  <2>1. ASSUME NEW u \in Users PROVE RolesFrame(u)
    <3>1. \A v \in Workers : req'[v] = IF v = w THEN new ELSE req[v]
      BY <1>1 DEF AuthTypeOK
    <3>2. ASSUME NEW v \in Workers, DeletedRoles(v, u)' PROVE DeletedRoles(v, u)
      BY <1>1, <3>1, <3>2 DEF DeletedRoles, Replacement
    <3>3. ASSUME NEW v \in Workers, InsertsRole(v, u) PROVE InsertsRole(v, u)'
      BY <1>1, <3>1, <3>3 DEF InsertsRole, Replacement
    <3> QED
      BY <1>1, <3>2, <3>3 DEF RolesFrame
  <2> QED
    BY <2>1, RolesFramed DEF RolesWhole
<1>2. ASSUME NEW u \in Users, NEW st \in Statuses, UpdateEmployeeStatus(w, u, st) PROVE RolesWhole'
  <2> DEFINE new == [Arrived(u) EXCEPT !.pc = "status", !.active = (st = "ACTIVE")]
  <2>1. /\ req' = [req EXCEPT ![w] = new] /\ new.pc = "status" /\ req[w].pc = "idle"
        /\ UNCHANGED <<user, mixed>>
    BY <1>2 DEF UpdateEmployeeStatus, Arrived, Idle
  <2> HIDE DEF new
  <2> QED
    BY <1>1, <2>1 DEF Replacement
<1>3. CASE SyncStatus(w)
  <2>1. /\ req' = [req EXCEPT ![w] = Arrived(SomeUser)] /\ Arrived(SomeUser).pc = "idle"
        /\ req[w].pc = "status" /\ UNCHANGED mixed
    BY <1>3 DEF SyncStatus, Finish, Arrived, At
  <2>2. \A u \in Users : user'[u].roles = user[u].roles /\ user'[u].exists = user[u].exists
    BY <1>3 DEF SyncStatus, AuthTypeOK, Account, Request
  <2> QED
    BY <1>1, <2>1, <2>2 DEF Replacement
<1> QED
  BY <1>2, <1>3, UpdateUserReadAlone, RolesUnmoved DEF StatusAndRole, UpdateEmployeeRole

LEMMA RolesStep ==
    ASSUME AuthTypeOK, References, RolesWhole, AuthNext \/ EmployeeNext
    PROVE  RolesWhole'
<1>1. ASSUME Administration PROVE RolesWhole'
  BY <1>1, AdministrationAlone, RolesUnmoved, RolesDeleted, RolesCreated DEF Administration
<1>2. ASSUME UNCHANGED <<user, req, mixed>> PROVE RolesWhole'
  BY <1>2 DEF RolesWhole, OneRoleOrReplaced, DeletedRoles, InsertsRole
<1>3. CASE AuthNext
  BY <1>1, <1>3, SignInAlone, PasswordAlone, RolesUnmoved, RolesUpdate, RolesAborted DEF AuthNext
<1>4. CASE EmployeeNext
  BY <1>2, <1>4, RolesProvisioned, RolesStatus
     DEF EmployeeNext, GetEmployeeMe, DeleteEmployee, UpdateEmployee
<1> QED
  BY <1>3, <1>4

-----------------------------------------------------------------------------
(***************************************************************************)
(* Employees who have left                                                 *)
(***************************************************************************)

\* Nothing has been opened for u, and the status updates of u go on.
LeaverFrame(u) ==
    Left(u)' => /\ Left(u)
                /\ \A w \in Workers : SetsStatus(w, u)' =>
                     SetsStatus(w, u) /\ (req'[w].active => req[w].active)
                /\ \A w \in Workers : SetsStatus(w, u) => SetsStatus(w, u)'
                /\ CanSignIn(u)' => CanSignIn(u)

LEMMA LeaversFramed ==
    ASSUME LeaversClosed, NEW u \in Users, LeaverFrame(u), Left(u)'
    PROVE  /\ \A w \in Workers : SetsStatus(w, u)' => ~req'[w].active
           /\ (\A w \in Workers : ~SetsStatus(w, u)') => ~CanSignIn(u)'
BY DEF LeaversClosed, LeaverFrame

LEMMA LeaversKept ==
    ASSUME LeaversClosed, \A u \in Users : LeaverFrame(u)
    PROVE  LeaversClosed'
<1>1. ASSUME NEW u \in Users, Left(u)'
      PROVE  /\ \A w \in Workers : SetsStatus(w, u)' => ~req'[w].active
             /\ (\A w \in Workers : ~SetsStatus(w, u)') => ~CanSignIn(u)'
  BY <1>1, LeaversFramed
<1> QED
  BY <1>1 DEF LeaversClosed

\* No handler of the auth-service becomes a status update.
NoNewStatus == \A w \in Workers : req'[w].pc = "status" => Unmoved(w)

LEMMA WritersNoStatus == ASSUME WritersKept PROVE NoNewStatus
BY DEF WritersKept, Writing, NoNewStatus

LEMMA NoStatusWritten ==
    ASSUME AuthTypeOK, NEW w \in Workers, NEW new, req' = [req EXCEPT ![w] = new],
           new.pc # "status"
    PROVE  NoNewStatus
<1>1. \A v \in Workers : req'[v] = IF v = w THEN new ELSE req[v]
  BY DEF AuthTypeOK
<1> QED
  BY <1>1 DEF NoNewStatus, Unmoved

LEMMA NoStatusFinish ==
    ASSUME AuthTypeOK, NEW w \in Workers, req' = Finish(w)
    PROVE  NoNewStatus
<1>1. req' = [req EXCEPT ![w] = Arrived(SomeUser)] /\ Arrived(SomeUser).pc = "idle"
  BY DEF Finish, Arrived
<1> QED
  BY <1>1, NoStatusWritten

LEMMA AuthNoStatus ==
    ASSUME AuthTypeOK, AuthNext
    PROVE  NoNewStatus
<1>1. ASSUME RolesAlone PROVE NoNewStatus
  BY <1>1, WritersNoStatus DEF RolesAlone
<1>2. ASSUME NEW w \in Workers, RoleUpdate(w) PROVE NoNewStatus
  <2>1. CASE UpdateUserDelete(w)
    <3> DEFINE new == [req[w] EXCEPT !.pc = "rolesCreate"]
    <3>1. req' = [req EXCEPT ![w] = new] /\ new.pc = "rolesCreate"
      BY <2>1 DEF UpdateUserDelete, AuthTypeOK, Request
    <3> HIDE DEF new
    <3> QED
      BY <3>1, NoStatusWritten
  <2>2. CASE UpdateUserCreate(w)
    BY <2>2, NoStatusFinish DEF UpdateUserCreate
  <2> QED
    BY <1>1, <1>2, <2>1, <2>2, UpdateUserReadAlone DEF RoleUpdate
<1>3. ASSUME NEW w \in Workers, AbortRequest(w) PROVE NoNewStatus
  BY <1>3, NoStatusFinish DEF AbortRequest
<1>4. ASSUME NEW u \in Users, DeleteUser(u) PROVE NoNewStatus
  BY <1>4, OrphanedRequests DEF NoNewStatus, Unmoved
<1>5. ASSUME NEW u \in Users, NEW r \in Roles, CreateUser(u, r) PROVE NoNewStatus
  BY <1>5 DEF CreateUser, NoNewStatus, Unmoved
<1> QED
  BY <1>1, <1>2, <1>3, <1>4, <1>5, SignInAlone, PasswordAlone, AdministrationAlone
     DEF AuthNext, Administration

\* What the auth-service opens, or cuts off, is on record.
LEMMA LeaversAuth ==
    ASSUME TypeInv, LeaversClosed, AuthStep
    PROVE  LeaversClosed'
<1>1. NoNewStatus /\ emp' = emp
  BY AuthNoStatus DEF AuthStep, TypeInv, TypeOK
<1>2. ASSUME NEW u \in Users PROVE LeaverFrame(u)
  <2>1. SUFFICES ASSUME Left(u)'
                 PROVE  /\ Left(u)
                        /\ \A w \in Workers : SetsStatus(w, u)' =>
                             SetsStatus(w, u) /\ (req'[w].active => req[w].active)
                        /\ \A w \in Workers : SetsStatus(w, u) => SetsStatus(w, u)'
                        /\ CanSignIn(u)' => CanSignIn(u)
    BY DEF LeaverFrame
  <2>2. loose'[u] <=> (\/ loose[u]
                       \/ /\ ~CanSignIn(u) /\ CanSignIn(u)'
                          /\ emp[u].status = "TERMINATED"
                       \/ \E w \in Workers : /\ req[w].user = u /\ At(w, "status")
                                             /\ req'[w] # req[w])
    BY DEF AuthStep
  <2>3. ~loose'[u] /\ emp[u].exists /\ emp[u].status = "TERMINATED"
    BY <1>1, <2>1 DEF Left
  <2>4. ASSUME NEW w \in Workers, SetsStatus(w, u) PROVE SetsStatus(w, u)'
    BY <2>2, <2>3, <2>4 DEF SetsStatus, At
  <2>5. ASSUME NEW w \in Workers, SetsStatus(w, u)'
        PROVE  SetsStatus(w, u) /\ (req'[w].active => req[w].active)
    BY <1>1, <2>5 DEF SetsStatus, NoNewStatus, Unmoved
  <2>6. CanSignIn(u)' => CanSignIn(u)
    BY <2>2, <2>3
  <2> QED
    BY <2>2, <2>3, <2>4, <2>5, <2>6 DEF Left
<1> QED
  BY <1>2, LeaversKept

\* Steps of the employee-service that open no account.
LEMMA LeaversSame ==
    ASSUME WritersKept, NEW u \in Users, Left(u)' => Left(u), CanSignIn(u)' => CanSignIn(u)
    PROVE  LeaverFrame(u)
BY DEF WritersKept, Writing, Unmoved, SetsStatus, LeaverFrame

LEMMA LeaversProvisioned ==
    ASSUME TypeInv, LeaversClosed, NEW w \in Workers, Provisioning(w)
    PROVE  LeaversClosed'
<1> USE DEF Pcs, Writing
<1> PICK a : a = req[w].user
  OBVIOUS
<1>1. /\ AuthTypeOK /\ References /\ emp \in [Users -> Employee] /\ loose \in [Users -> BOOLEAN]
      /\ a \in Users /\ req[w] \in Request /\ user[a] \in Account
  BY DEF TypeInv, TypeOK, AuthTypeOK, Request
<1>2. ASSUME NEW x \in Users, NEW roles, Goes(w, x, "sync", roles), Idle(w)
      PROVE  WritersKept
  <2> DEFINE new == [Arrived(x) EXCEPT !.pc = "sync", !.roles = roles]
  <2>1. new.pc = "sync" /\ req' = [req EXCEPT ![w] = new] /\ req[w].pc = "idle"
    BY <1>2 DEF Goes, Idle, Arrived
  <2> HIDE DEF new
  <2> QED
    BY <1>1, <2>1, WriterWritten
<1>3. ASSUME NEW x \in Users, NEW st \in Statuses, NEW r \in Roles, CreateEmployee(w, x, st, r)
      PROVE  LeaversClosed'
  <2>1. WritersKept
    BY <1>2, <1>3 DEF CreateEmployee
  <2>2. /\ emp'[x].status = st /\ (loose'[x] <=> st = "TERMINATED")
        /\ \A u \in Users \ {x} : emp'[u] = emp[u] /\ (loose'[u] <=> loose[u])
    <3> DEFINE b == (st = "TERMINATED")
    <3>1. loose' = [loose EXCEPT ![x] = b] /\ b \in BOOLEAN
      BY <1>3 DEF CreateEmployee
    <3> HIDE DEF b
    <3>2. loose'[x] = b /\ \A u \in Users \ {x} : loose'[u] <=> loose[u]
      BY <1>1, <3>1
    <3>3. emp'[x].status = st /\ \A u \in Users \ {x} : emp'[u] = emp[u]
      BY <1>1, <1>3 DEF CreateEmployee
    <3> QED
      BY <3>2, <3>3 DEF b
  <2>3. \A u \in Users : Left(u)' => Left(u)
    BY <2>2 DEF Left
  <2>4. \A u \in Users : CanSignIn(u)' => CanSignIn(u)
    BY <1>3 DEF CreateEmployee, CanSignIn
  <2> QED
    BY <2>1, <2>3, <2>4, LeaversSame, LeaversKept
<1>4. ASSUME WritersKept, UNCHANGED <<emp, loose>>, \A u \in Users : CanSignIn(u)' => CanSignIn(u)
      PROVE  LeaversClosed'
  <2>1. \A u \in Users : Left(u)' => Left(u)
    BY <1>4 DEF Left
  <2> QED
    BY <1>4, <2>1, LeaversSame, LeaversKept
<1>5. ASSUME NEW x \in Users, ResendCredentials(w, x) PROVE LeaversClosed'
  BY <1>2, <1>4, <1>5 DEF ResendCredentials, CanSignIn
<1>6. CASE Sync(w)
  <2>1. PICK pc \in {"syncUpdate", "syncInsert"} : req' = [req EXCEPT ![w].pc = pc]
    BY <1>6 DEF Sync
  <2>2. WritersKept
    BY <1>1, <1>6, <2>1, WriterGoesOn DEF Sync, At
  <2> QED
    BY <1>4, <1>6, <2>2 DEF Sync, CanSignIn
<1>7. ASSUME NEW from \in {"syncUpdate", "syncInsert"}, req[w].pc = from,
             req' = [req EXCEPT ![w].pc = "syncRole"], UNCHANGED emp, loose' = Activated(a),
             \A u \in Users \ {a} : user'[u] = user[u]
      PROVE  LeaversClosed'
  <2>1. req'[w].pc = "syncRole" /\ \A v \in Workers \ {w} : req'[v] = req[v]
    BY <1>1, <1>7 DEF AuthTypeOK, Request
  <2>2. ASSUME NEW u \in Users PROVE LeaverFrame(u)
    <3>1. \A v \in Workers : /\ SetsStatus(v, u)' => SetsStatus(v, u) /\ req'[v] = req[v]
                             /\ SetsStatus(v, u) => SetsStatus(v, u)'
      BY <1>7, <2>1 DEF SetsStatus
    <3> DEFINE b == (loose[a] \/ emp[a].status = "TERMINATED")
    <3>2. loose' = [loose EXCEPT ![a] = b] /\ b \in BOOLEAN
      BY <1>1, <1>7 DEF Activated
    <3> HIDE DEF b
    <3>3. loose'[a] = b /\ (u # a => (loose'[u] <=> loose[u]))
      BY <1>1, <3>2
    <3>4. CASE u = a
      BY <1>7, <3>3, <3>4 DEF LeaverFrame, Left, b
    <3>5. CASE u # a
      <4>1. Left(u)' => Left(u)
        BY <1>7, <3>3, <3>5 DEF Left
      <4>2. CanSignIn(u)' => CanSignIn(u)
        BY <1>7, <3>5 DEF CanSignIn
      <4> QED
        BY <3>1, <4>1, <4>2 DEF LeaverFrame
    <3> QED
      BY <3>4, <3>5
  <2> QED
    BY <2>2, LeaversKept
<1>8. CASE SyncUpdate(w)
  <2>1. \A u \in Users \ {a} : user'[u] = user[u]
    BY <1>1, <1>8, PasswordSet DEF SyncUpdate
  <2> QED
    BY <1>7, <1>8, <2>1 DEF SyncUpdate, At
<1>9. CASE SyncInsert(w)
  <2>1. \A u \in Users \ {a} : user'[u] = user[u]
    BY <1>1, <1>9 DEF SyncInsert, AuthTypeOK
  <2> QED
    BY <1>7, <1>9, <2>1 DEF SyncInsert, At
<1>10. CASE SyncRole(w)
  <2> DEFINE new == [req[w] EXCEPT !.pc = "link", !.roles = {}]
  <2>1. /\ req' = [req EXCEPT ![w] = new] /\ new.pc = "link" /\ req[w].pc = "syncRole"
        /\ UNCHANGED <<emp, loose>>
    BY <1>1, <1>10 DEF SyncRole, Request, At
  <2> HIDE DEF new
  <2>2. \A v \in Workers : req'[v] = IF v = w THEN new ELSE req[v]
    BY <1>1, <2>1 DEF AuthTypeOK
  <2>3. \A u \in Users : user'[u].exists = user[u].exists /\ user'[u].active = user[u].active
    <3>1. PICK roles : user' = [user EXCEPT ![a].roles = roles]
      BY <1>10 DEF SyncRole
    <3> QED
      BY <1>1, <3>1 DEF AuthTypeOK, Account
  <2>4. ASSUME NEW u \in Users PROVE LeaverFrame(u)
    <3>1. \A v \in Workers : /\ SetsStatus(v, u)' => SetsStatus(v, u) /\ req'[v] = req[v]
                             /\ SetsStatus(v, u) => SetsStatus(v, u)'
      BY <2>1, <2>2 DEF SetsStatus
    <3>2. (Left(u)' => Left(u)) /\ (CanSignIn(u)' => CanSignIn(u))
      BY <2>1, <2>3 DEF Left, CanSignIn
    <3> QED
      BY <3>1, <3>2 DEF LeaverFrame
  <2> QED
    BY <2>4, LeaversKept
<1>11. CASE Link(w)
  <2>1. WritersKept
    BY <1>1, <1>11, WriterFinishes DEF Link, At
  <2>2. \A u \in Users : emp'[u].exists = emp[u].exists /\ emp'[u].status = emp[u].status
    BY <1>1, <1>11 DEF Link, Employee
  <2>3. \A u \in Users : (Left(u)' => Left(u)) /\ (CanSignIn(u)' => CanSignIn(u))
    BY <1>11, <2>2 DEF Left, CanSignIn, Link
  <2> QED
    BY <2>1, <2>3, LeaversSame, LeaversKept
<1> QED
  BY <1>3, <1>5, <1>6, <1>8, <1>9, <1>10, <1>11 DEF Provisioning

LEMMA LeaversStatus ==
    ASSUME TypeInv, LeaversClosed, NEW w \in Workers, StatusAndRole(w)
    PROVE  LeaversClosed'
<1>1. /\ AuthTypeOK /\ emp \in [Users -> Employee] /\ loose \in [Users -> BOOLEAN]
      /\ req[w] \in Request
  BY DEF TypeInv, TypeOK, AuthTypeOK
<1>2. ASSUME NEW a \in Users, NEW st \in Statuses, UpdateEmployeeStatus(w, a, st)
      PROVE  LeaversClosed'
  <2> DEFINE act == (st = "ACTIVE")
             new == [Arrived(a) EXCEPT !.pc = "status", !.active = act]
  <2>1. req' = [req EXCEPT ![w] = new] /\ req[w].pc = "idle" /\ UNCHANGED user
    BY <1>2 DEF UpdateEmployeeStatus, Idle
  <2>2. new.pc = "status" /\ new.user = a /\ (new.active <=> st = "ACTIVE")
    BY DEF Arrived
  <2> HIDE DEF act, new
  <2>3. \A v \in Workers : req'[v] = IF v = w THEN new ELSE req[v]
    BY <1>1, <2>1 DEF AuthTypeOK
  <2>4. emp'[a].status = st /\ \A u \in Users \ {a} : emp'[u] = emp[u]
    BY <1>1, <1>2 DEF UpdateEmployeeStatus, Employee
  <2>5. loose' = [loose EXCEPT ![a] = StatusPending(a)]
    BY <1>2 DEF UpdateEmployeeStatus
  <2>6. (loose'[a] <=> StatusPending(a)) /\ \A u \in Users \ {a} : loose'[u] <=> loose[u]
    BY <1>1, <2>5
  <2>7. ASSUME NEW u \in Users, u # a PROVE LeaverFrame(u)
    <3>1. \A v \in Workers : /\ SetsStatus(v, u)' => SetsStatus(v, u) /\ req'[v] = req[v]
                             /\ SetsStatus(v, u) => SetsStatus(v, u)'
      BY <2>1, <2>2, <2>3, <2>7 DEF SetsStatus
    <3>2. (Left(u)' => Left(u)) /\ (CanSignIn(u)' => CanSignIn(u))
      BY <2>1, <2>4, <2>6, <2>7 DEF Left, CanSignIn
    <3> QED
      BY <3>1, <3>2 DEF LeaverFrame
  <2>8. ASSUME Left(a)'
        PROVE  /\ \A v \in Workers : SetsStatus(v, a)' => ~req'[v].active
               /\ (\A v \in Workers : ~SetsStatus(v, a)') => ~CanSignIn(a)'
    <3>1. st = "TERMINATED" /\ ~StatusPending(a)
      BY <2>4, <2>6, <2>8 DEF Left
    <3>2. ASSUME NEW v \in Workers, SetsStatus(v, a)' PROVE ~req'[v].active
      BY <2>2, <2>3, <3>1, <3>2 DEF SetsStatus, StatusPending
    <3>3. SetsStatus(w, a)'
      BY <2>2, <2>3 DEF SetsStatus
    <3> QED
      BY <3>2, <3>3
  <2>9. ASSUME NEW u \in Users, Left(u)'
        PROVE  /\ \A v \in Workers : SetsStatus(v, u)' => ~req'[v].active
               /\ (\A v \in Workers : ~SetsStatus(v, u)') => ~CanSignIn(u)'
    BY <2>7, <2>8, <2>9, LeaversFramed
  <2> QED
    BY <2>9 DEF LeaversClosed
<1>3. CASE SyncStatus(w)
  <2> PICK a : a = req[w].user
    OBVIOUS
  <2>1. /\ req' = [req EXCEPT ![w] = Arrived(SomeUser)] /\ Arrived(SomeUser).pc = "idle"
        /\ req[w].pc = "status" /\ UNCHANGED <<emp, loose>> /\ a \in Users
    BY <1>1, <1>3 DEF SyncStatus, Finish, Arrived, At, Request
  <2>2. /\ \A u \in Users \ {a} : user'[u] = user[u]
        /\ user'[a].exists => user[a].exists /\ (user'[a].active <=> req[w].active)
    <3> DEFINE b == IF user[a].exists THEN req[w].active ELSE user[a].active
    <3>1. user' = [user EXCEPT ![a].active = b] /\ user[a] \in Account
      BY <1>1, <1>3, <2>1 DEF SyncStatus, AuthTypeOK
    <3> HIDE DEF b
    <3>2. /\ \A u \in Users \ {a} : user'[u] = user[u]
          /\ user'[a].exists = user[a].exists /\ user'[a].active = b
      BY <1>1, <2>1, <3>1 DEF AuthTypeOK, Account
    <3> QED
      BY <3>2 DEF b
  <2>3. \A v \in Workers : req'[v] = IF v = w THEN Arrived(SomeUser) ELSE req[v]
    BY <1>1, <2>1 DEF AuthTypeOK
  <2>4. ASSUME NEW u \in Users, u # a PROVE LeaverFrame(u)
    <3>1. \A v \in Workers : /\ SetsStatus(v, u)' => SetsStatus(v, u) /\ req'[v] = req[v]
                             /\ SetsStatus(v, u) => SetsStatus(v, u)'
      BY <2>1, <2>3, <2>4 DEF SetsStatus
    <3>2. (Left(u)' => Left(u)) /\ (CanSignIn(u)' => CanSignIn(u))
      BY <2>1, <2>2, <2>4 DEF Left, CanSignIn
    <3> QED
      BY <3>1, <3>2 DEF LeaverFrame
  <2>5. ASSUME Left(a)'
        PROVE  /\ \A v \in Workers : SetsStatus(v, a)' => ~req'[v].active
               /\ (\A v \in Workers : ~SetsStatus(v, a)') => ~CanSignIn(a)'
    <3>1. Left(a) /\ SetsStatus(w, a)
      BY <2>1, <2>5 DEF Left, SetsStatus
    <3>2. \A v \in Workers : SetsStatus(v, a) => ~req[v].active
      BY <2>1, <3>1 DEF LeaversClosed
    <3>3. ~CanSignIn(a)'
      BY <2>2, <3>1, <3>2 DEF CanSignIn
    <3>4. \A v \in Workers : SetsStatus(v, a)' => SetsStatus(v, a) /\ req'[v] = req[v]
      BY <2>1, <2>3 DEF SetsStatus
    <3> QED
      BY <3>2, <3>3, <3>4
  <2>6. ASSUME NEW u \in Users, Left(u)'
        PROVE  /\ \A v \in Workers : SetsStatus(v, u)' => ~req'[v].active
               /\ (\A v \in Workers : ~SetsStatus(v, u)') => ~CanSignIn(u)'
    BY <2>4, <2>5, <2>6, LeaversFramed
  <2> QED
    BY <2>6 DEF LeaversClosed
<1>4. ASSUME NEW u \in Users, NEW r \in Roles, UpdateEmployeeRole(w, u, r) PROVE LeaversClosed'
  <2>1. WritersKept
    BY <1>1, <1>4, UpdateUserReadAlone DEF UpdateEmployeeRole, RolesAlone
  <2>2. \A v \in Users : (Left(v)' => Left(v)) /\ (CanSignIn(v)' => CanSignIn(v))
    BY <1>4 DEF UpdateEmployeeRole, UpdateUserRead, Left, CanSignIn
  <2> QED
    BY <2>1, <2>2, LeaversSame, LeaversKept
<1> QED
  BY <1>2, <1>3, <1>4 DEF StatusAndRole

LEMMA LeaversStep ==
    ASSUME TypeInv, LeaversClosed, [Next]_vars
    PROVE  LeaversClosed'
<1>1. emp \in [Users -> Employee] /\ loose \in [Users -> BOOLEAN]
  BY DEF TypeInv, TypeOK
<1>2. ASSUME UNCHANGED <<user, req>>, \A u \in Users : Left(u)' => Left(u) PROVE LeaversClosed'
  <2>1. WritersKept
    BY <1>2 DEF WritersKept, Unmoved
  <2>2. \A u \in Users : CanSignIn(u)' => CanSignIn(u)
    BY <1>2 DEF CanSignIn
  <2> QED
    BY <1>2, <2>1, <2>2, LeaversSame, LeaversKept
<1>3. ASSUME NEW u \in Users, GetEmployeeMe(u) PROVE LeaversClosed'
  <2>1. \A v \in Users : emp'[v].exists = emp[v].exists /\ emp'[v].status = emp[v].status
    BY <1>1, <1>3 DEF GetEmployeeMe, Employee
  <2> QED
    BY <1>2, <1>3, <2>1 DEF GetEmployeeMe, Left
<1>4. ASSUME NEW u \in Users, DeleteEmployee(u) PROVE LeaversClosed'
  <2>1. /\ ~emp'[u].exists
        /\ \A v \in Users \ {u} : emp'[v] = emp[v] /\ (loose'[v] <=> loose[v])
    BY <1>1, <1>4 DEF DeleteEmployee, NoEmployee
  <2>2. \A v \in Users : Left(v)' => Left(v)
    BY <2>1 DEF Left
  <2> QED
    BY <1>2, <1>4, <2>2 DEF DeleteEmployee
<1>5. ASSUME NEW u \in Users, NEW st \in Statuses, UpdateEmployee(u, st) PROVE LeaversClosed'
  <2>1. /\ loose'[u]
        /\ \A v \in Users \ {u} : emp'[v] = emp[v] /\ (loose'[v] <=> loose[v])
    BY <1>1, <1>5 DEF UpdateEmployee
  <2>2. \A v \in Users : Left(v)' => Left(v)
    BY <2>1 DEF Left
  <2> QED
    BY <1>2, <1>5, <2>2 DEF UpdateEmployee
<1>6. ASSUME UNCHANGED vars PROVE LeaversClosed'
  BY <1>2, <1>6 DEF vars, Left
<1> QED
  BY <1>3, <1>4, <1>5, <1>6, LeaversProvisioned, LeaversStatus, LeaversAuth DEF Next

-----------------------------------------------------------------------------
(***************************************************************************)
(* The theorems                                                            *)
(***************************************************************************)

AuthInv == AuthTypeOK /\ References /\ PasswordInv /\ OneExchange /\ RolesWhole

LEMMA AuthInvInit == ASSUME AuthInit PROVE AuthInv
<1>1. /\ DOMAIN sess = {} /\ sess \in Seq(Session) /\ Len(sess) = 0
      /\ \A w \in Workers : req[w] = Arrived(SomeUser)
  BY EmptySeq DEF AuthInit
<1>2. Arrived(SomeUser) \in Request /\ Arrived(SomeUser).sess = 0 /\ Arrived(SomeUser).pc = "idle"
  BY ArrivedType, SomeUserType DEF Arrived
<1>3. /\ user \in [Users -> Account]
      /\ \A u \in Users : \E r \in Roles : user[u].roles = {r}
  <2> DEFINE Row(b, r) == [exists |-> TRUE, active |-> TRUE, pass |-> 1,
                           mustChange |-> b, roles |-> {r}]
             S == {Row(b, r) : b \in BOOLEAN, r \in Roles}
             OneRole == {x \in Account : \E r \in Roles : x.roles = {r}}
  <2>1. ASSUME NEW b \in BOOLEAN, NEW r \in Roles PROVE Row(b, r) \in OneRole
    BY DEF Account
  <2>2. S \subseteq OneRole
    BY <2>1
  <2>3. user \in [Users -> S]
    BY DEF AuthInit
  <2> HIDE DEF S
  <2> QED
    BY <2>2, <2>3
<1>4. req \in [Workers -> Request]
  BY <1>2 DEF AuthInit
<1>5. AuthTypeOK
  BY <1>1, <1>2, <1>3, <1>4 DEF AuthInit, AuthTypeOK
<1>6. References
  BY <1>1, <1>2 DEF References, GoodRequest, WithoutRow, Refreshing, WithRole, Replacement
<1>7. PasswordInv
  BY <1>1, <1>2 DEF PasswordInv, PasswordsKnown, RevokedPasswordIsOut, SigningIn, Refreshing
<1>8. OneExchange
  BY <1>1 DEF OneExchange
<1>9. RolesWhole
  BY <1>1, <1>2, <1>3 DEF RolesWhole, OneRoleOrReplaced, DeletedRoles
<1> QED
  BY <1>5, <1>6, <1>7, <1>8, <1>9 DEF AuthInv

LEMMA AuthInvSame == ASSUME AuthInv, UNCHANGED authVars PROVE AuthInv'
<1> USE DEF authVars
<1>1. AuthTypeOK' /\ References'
  BY DEF AuthInv, AuthTypeOK, References, GoodRequest
<1>2. PasswordInv'
  BY DEF AuthInv, PasswordInv, PasswordsKnown, Known, RevokedPasswordIsOut, Live
<1>3. OneExchange'
  BY DEF AuthInv, OneExchange, ExchangedOnce, PromptChild, Exchanging, SawItLive, Live
<1>4. RolesWhole'
  BY DEF AuthInv, RolesWhole, OneRoleOrReplaced, DeletedRoles, InsertsRole
<1> QED
  BY <1>1, <1>2, <1>3, <1>4 DEF AuthInv

LEMMA AuthInvNext == ASSUME AuthInv, AuthNext \/ EmployeeNext PROVE AuthInv'
BY AuthNextType, EmployeeNextType, PasswordStep, ExchangeStep, RolesStep DEF AuthInv

LEMMA AuthInvAlways == Spec => []AuthInv
<1>1. Init => AuthInv
  BY AuthInvInit DEF Init
<1>2. ASSUME AuthInv, [Next]_vars PROVE AuthInv'
  <2>1. CASE Next
    <3>1. AuthNext \/ EmployeeNext
      BY <2>1 DEF Next, EmployeeNext, AuthStep
    <3> QED
      BY <1>2, <3>1, AuthInvNext
  <2>2. CASE UNCHANGED vars
    BY <1>2, <2>2, AuthInvSame DEF vars, authVars
  <2> QED
    BY <1>2, <2>1, <2>2
<1>3. AuthInv /\ [Next]_vars => AuthInv'
  BY <1>2
<1> QED
  BY <1>1, <1>3, PTL DEF Spec

\* The same for the auth-service on its own.
LEMMA AuthServiceInv == AuthSpec => []AuthInv
<1>1. AuthInit => AuthInv
  BY AuthInvInit
<1>2. AuthInv /\ [AuthNext]_authVars => AuthInv'
  BY AuthInvNext, AuthInvSame
<1> QED
  BY <1>1, <1>2, PTL DEF AuthSpec

LEMMA LeaversInit == ASSUME Init PROVE LeaversClosed
BY DEF Init, LeaversClosed, Left

LEMMA LeaversAlways == Spec => []LeaversClosed
<1>1. Init => LeaversClosed
  BY LeaversInit
<1>2. TypeInv /\ LeaversClosed /\ [Next]_vars => LeaversClosed'
  BY LeaversStep
<1> QED
  BY <1>1, <1>2, TypeCorrect, PTL DEF Spec

\* A session is never left open under a password that has been replaced,
\* except where the code lets it: its request was overtaken by the
\* revocation, or whoever replaced the password has not revoked the sessions.
THEOREM ReplacedPasswordsAreOut == Spec => []RevokedPasswordIsOut
<1>1. AuthInv => RevokedPasswordIsOut
  BY DEF AuthInv, PasswordInv
<1> QED
  BY <1>1, AuthInvAlways, PTL

LEMMA AtMostOneSuccessor == ASSUME AuthInv PROVE OneSuccessor
<1>1. ASSUME NEW s \in DOMAIN sess, ~sess[s].late
      PROVE  Cardinality(PromptChildren(s)) <= IF sess[s].status = "live" THEN 0 ELSE 1
  <2>1. ExchangedOnce(s)
    BY <1>1 DEF AuthInv, OneExchange
  <2>2. \A t \in PromptChildren(s) : t \in DOMAIN sess /\ PromptChild(t, s)
    BY <1>1 DEF PromptChildren, PromptChild
  <2>3. CASE PromptChildren(s) = {}
    BY <2>3, FS_EmptySet
  <2>4. CASE PromptChildren(s) # {}
    <3>1. PICK t \in PromptChildren(s) : TRUE
      BY <2>4
    <3>2. PromptChildren(s) = {t}
      BY <2>1, <2>2, <3>1 DEF ExchangedOnce
    <3>3. ~(sess[s].status = "live")
      BY <2>1, <2>2, <3>1 DEF ExchangedOnce, Live
    <3>4. Cardinality(PromptChildren(s)) = 1
      BY <3>2, FS_Singleton
    <3> QED
      BY <3>3, <3>4
  <2> QED
    BY <2>3, <2>4
<1> QED
  BY <1>1 DEF OneSuccessor

\* However refreshes and log-outs of a session interleave, at most one of
\* them exchanges its token promptly, and none while it is live.
THEOREM ExchangedAtMostOnce == Spec => []OneSuccessor
<1>1. AuthInv => OneSuccessor
  BY AtMostOneSuccessor
<1> QED
  BY <1>1, AuthInvAlways, PTL

LEMMA OneRoleEach == ASSUME AuthInv PROVE RolesReplacedWhole
<1>1. ASSUME NEW u \in Users, user[u].exists, ~mixed[u],
             \A w \in Workers :
                req[w].user = u => req[w].pc \notin {"rolesCreate", "syncRole"}
      PROVE  Cardinality(user[u].roles) = 1
  <2>1. OneRoleOrReplaced(u)
    BY <1>1 DEF AuthInv, RolesWhole
  <2>2. PICK r \in Roles : user[u].roles = {r}
    BY <1>1, <2>1 DEF OneRoleOrReplaced, InsertsRole, Replacement
  <2> QED
    BY <2>2, FS_Singleton
<1> QED
  BY <1>1 DEF RolesReplacedWhole

\* Once no replacement of an account's roles is half done, and none has been
\* overlapped or cut off, the account has exactly the role asked for.
THEOREM RolesAreReplaced == Spec => []RolesReplacedWhole
<1>1. AuthInv => RolesReplacedWhole
  BY OneRoleEach
<1> QED
  BY <1>1, AuthInvAlways, PTL

\* The account of an employee whose status was last set to TERMINATED by a
\* status update of its own stays closed until something else opens it.
THEOREM LeaversAreLockedOut == Spec => []TerminatedIsLockedOut
<1>1. LeaversClosed => TerminatedIsLockedOut
  BY DEF LeaversClosed, Left, SetsStatus, StatusPending, TerminatedIsLockedOut
<1> QED
  BY <1>1, LeaversAlways, PTL

\* What is true of the two services' accounts is true of the auth-service's
\* when nobody else writes them: passwords, exchanges and roles.
THEOREM AuthServiceAlone ==
    AuthSpec => [](AuthTypeOK /\ RevokedPasswordIsOut /\ OneSuccessor /\ RolesReplacedWhole)
<1>1. AuthInv => AuthTypeOK /\ RevokedPasswordIsOut /\ OneSuccessor /\ RolesReplacedWhole
  BY AtMostOneSuccessor, OneRoleEach DEF AuthInv, PasswordInv
<1> QED
  BY <1>1, AuthServiceInv, PTL

=============================================================================
