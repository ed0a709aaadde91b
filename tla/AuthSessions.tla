---------------------------- MODULE AuthSessions ----------------------------
(***************************************************************************)
(* The auth-service: accounts, passwords, roles and refresh-token          *)
(* sessions.  None of its handlers uses a transaction, so each is a        *)
(* sequence of single statements, and those of two requests interleave.    *)
(*                                                                         *)
(* user[u]  the row of account u in users with its user_roles; a password  *)
(*          is the number of the write that set it                         *)
(* sess[s]  row s of refresh_token_sessions; its token is s itself         *)
(* req[w]   a request in flight and what it has read                       *)
(* made     how many passwords have been set                               *)
(*                                                                         *)
(* Three components are history, read by the properties only: kept[u], the *)
(* passwords replaced since the sessions of u were last revoked; mixed[u], *)
(* whether writers of the roles of u have overlapped or stopped half-way;  *)
(* and the field late of a request, whether what it has read has been      *)
(* revoked since, which the session it creates inherits.                   *)
(***************************************************************************)
EXTENDS Naturals, Sequences, FiniteSets

CONSTANTS Users, Workers, Roles,
          MaxSessions,    \* bound on refresh_token_sessions
          MaxPasswords    \* bound on passwords set

ASSUME BoundsAssumption == MaxSessions \in Nat /\ MaxPasswords \in Nat \ {0}

\* The database is seeded with the administrator's account.
ASSUME UsersAssumption == Users # {}

VARIABLES user, sess, req, made, kept, mixed

authVars == <<user, sess, req, made, kept, mixed>>

Account == [exists : BOOLEAN, active : BOOLEAN, pass : Nat,
            mustChange : BOOLEAN, roles : SUBSET Roles]

NoAccount == [exists |-> FALSE, active |-> FALSE, pass |-> 0,
              mustChange |-> FALSE, roles |-> {}]

\* "rotated": revoked by a refresh; "ended": revoked by anything else;
\* "gone": the row went with its account.
Session == [user : Users, status : {"live", "rotated", "ended", "gone"},
            parent : Nat, pass : Nat, late : BOOLEAN]

GoneSession(u) == [user |-> u, status |-> "gone", parent |-> 0, pass |-> 0,
                   late |-> FALSE]

Pcs == {"idle", "login", "refreshUser", "refreshRevoke", "refreshIssue",
        "change", "changeRevoke", "initial", "reset", "resetRevoke",
        "rolesDelete", "rolesCreate", "failing",
        "sync", "syncUpdate", "syncInsert", "syncRole", "link", "status"}

Request == [pc : Pcs, user : Users, sess : Nat, pass : Nat, late : BOOLEAN,
            roles : SUBSET Roles, active : BOOLEAN]

\* A request that has just arrived, before its first statement.
Arrived(u) == [pc |-> "idle", user |-> u, sess |-> 0, pass |-> 0,
               late |-> FALSE, roles |-> {}, active |-> TRUE]

SomeUser == CHOOSE u \in Users : TRUE

AuthInit ==
    /\ user \in [Users -> {[exists |-> TRUE, active |-> TRUE, pass |-> 1,
                            mustChange |-> b, roles |-> {r}] :
                             b \in BOOLEAN, r \in Roles}]
    /\ sess = <<>>
    /\ req = [w \in Workers |-> Arrived(SomeUser)]
    /\ made = 1
    /\ kept = [u \in Users |-> {}]
    /\ mixed = [u \in Users |-> FALSE]

Idle(w) == req[w].pc = "idle"
At(w, pc) == req[w].pc = pc
Signed(u) == user[u].exists /\ user[u].active
Live(s) == sess[s].status = "live"

Finish(w) == [req EXCEPT ![w] = Arrived(SomeUser)]

-----------------------------------------------------------------------------
(***************************************************************************)
(* Revoking                                                                *)
(***************************************************************************)

\* Mutant: a password change revokes nothing but the newest session.
RevokedNewest(u) ==
    [s \in DOMAIN sess |->
       IF s = Len(sess) /\ sess[s].user = u /\ Live(s)
       THEN [sess[s] EXCEPT !.status = "ended"] ELSE sess[s]]

\* logoutAll and adminResetPassword revoke the rows there are when they run.
RevokedAll(u) ==
    [s \in DOMAIN sess |->
       IF sess[s].user = u /\ Live(s)
       THEN [sess[s] EXCEPT !.status = "ended"] ELSE sess[s]]

\* Requests on their way to a session for u are now late.
Overtaken(r, u) ==
    [w \in Workers |->
       IF r[w].user = u /\ r[w].pc \in {"login", "refreshUser",
                                        "refreshRevoke", "refreshIssue"}
       THEN [r[w] EXCEPT !.late = TRUE] ELSE r[w]]

RevokeAll(u, r) ==
    /\ sess' = RevokedAll(u)
    /\ req' = Overtaken(r, u)
    /\ kept' = [kept EXCEPT ![u] = {}]

\* Refreshes of s that have seen it live and not revoked it yet are now late.
Beaten(r, s) ==
    [v \in Workers |->
       IF r[v].sess = s /\ r[v].pc \in {"refreshUser", "refreshRevoke"}
       THEN [r[v] EXCEPT !.late = TRUE] ELSE r[v]]

\* A write of the password: what it was is kept until sessions are revoked.
SetPassword(u, must, act) ==
    /\ made < MaxPasswords
    /\ made' = made + 1
    /\ user' = [user EXCEPT ![u].pass = made + 1, ![u].mustChange = must,
                            ![u].active = act]
    /\ kept' = [kept EXCEPT ![u] = @ \union {user[u].pass}]

-----------------------------------------------------------------------------
(***************************************************************************)
(* login, refresh, logout                                                  *)
(***************************************************************************)

LoginRead(w, u) ==
    /\ Idle(w)
    /\ Signed(u)
    /\ req' = [req EXCEPT ![w] = [Arrived(u) EXCEPT
                 !.pc = "login", !.pass = user[u].pass]]
    /\ UNCHANGED <<user, sess, made, kept, mixed>>

NewSession(w) ==
    [user |-> req[w].user, status |-> "live", parent |-> req[w].sess,
     pass |-> req[w].pass, late |-> req[w].late]

\* issueTokenPair.
Issue(w) ==
    /\ Len(sess) < MaxSessions
    /\ sess' = Append(sess, NewSession(w))
    /\ req' = Finish(w)
    /\ UNCHANGED <<user, made, kept, mixed>>

LoginIssue(w) == At(w, "login") /\ Issue(w)

\* Mutant: revokedAt is not looked at.
RefreshReadAnyState(w, s) ==
    /\ Idle(w)
    /\ sess[s].status # "gone"
    /\ req' = [req EXCEPT ![w] = [Arrived(sess[s].user) EXCEPT
                 !.pc = "refreshUser", !.sess = s, !.pass = sess[s].pass,
                 !.late = sess[s].late]]
    /\ UNCHANGED <<user, sess, made, kept, mixed>>

RefreshRead(w, s) ==
    /\ Idle(w)
    /\ Live(s)
    /\ req' = [req EXCEPT ![w] = [Arrived(sess[s].user) EXCEPT
                 !.pc = "refreshUser", !.sess = s, !.pass = sess[s].pass,
                 !.late = sess[s].late]]
    /\ UNCHANGED <<user, sess, made, kept, mixed>>

RefreshUser(w) ==
    /\ At(w, "refreshUser")
    /\ Signed(req[w].user)
    /\ req' = [req EXCEPT ![w].pc = "refreshRevoke"]
    /\ UNCHANGED <<user, sess, made, kept, mixed>>

\* The update does not look at revokedAt again.
RefreshRevoke(w) ==
    /\ At(w, "refreshRevoke")
    /\ LET s == req[w].sess IN
         /\ sess' = [sess EXCEPT ![s].status =
                       IF @ = "live" THEN "rotated" ELSE @]
         /\ req' = Beaten([req EXCEPT ![w].pc = "refreshIssue"], s)
    /\ UNCHANGED <<user, made, kept, mixed>>

RefreshIssue(w) == At(w, "refreshIssue") /\ Issue(w)

LogoutSession(s) ==
    /\ Live(s)
    /\ Signed(sess[s].user)
    /\ sess' = [sess EXCEPT ![s].status = "ended"]
    /\ req' = Beaten(req, s)
    /\ UNCHANGED <<user, made, kept, mixed>>

LogoutAll(u) ==
    /\ Signed(u)
    /\ RevokeAll(u, req)
    /\ UNCHANGED <<user, made, mixed>>

-----------------------------------------------------------------------------
(***************************************************************************)
(* Passwords                                                               *)
(***************************************************************************)

\* changePassword: the current password is the one of the row it has read.
ChangePasswordRead(w, u) ==
    /\ Idle(w)
    /\ Signed(u)
    /\ req' = [req EXCEPT ![w] = [Arrived(u) EXCEPT !.pc = "change"]]
    /\ UNCHANGED <<user, sess, made, kept, mixed>>

ChangePasswordWrite(w) ==
    /\ At(w, "change")
    /\ SetPassword(req[w].user, FALSE, user[req[w].user].active)
    /\ req' = [req EXCEPT ![w].pc = "changeRevoke"]
    /\ UNCHANGED <<sess, mixed>>

ChangePasswordRevoke(w) ==
    /\ At(w, "changeRevoke")
    /\ RevokeAll(req[w].user, Finish(w))
    /\ UNCHANGED <<user, made, mixed>>

SetInitialPasswordRead(w, u) ==
    /\ Idle(w)
    /\ Signed(u)
    /\ user[u].mustChange
    /\ req' = [req EXCEPT ![w] = [Arrived(u) EXCEPT !.pc = "initial"]]
    /\ UNCHANGED <<user, sess, made, kept, mixed>>

SetInitialPasswordWrite(w) ==
    /\ At(w, "initial")
    /\ SetPassword(req[w].user, FALSE, user[req[w].user].active)
    /\ req' = Finish(w)
    /\ UNCHANGED <<sess, mixed>>

AdminResetRead(w, u) ==
    /\ Idle(w)
    /\ user[u].exists
    /\ req' = [req EXCEPT ![w] = [Arrived(u) EXCEPT !.pc = "reset"]]
    /\ UNCHANGED <<user, sess, made, kept, mixed>>

AdminResetWrite(w) ==
    /\ At(w, "reset")
    /\ SetPassword(req[w].user, TRUE, user[req[w].user].active)
    /\ req' = [req EXCEPT ![w].pc = "resetRevoke"]
    /\ UNCHANGED <<sess, mixed>>

AdminResetRevoke(w) ==
    /\ At(w, "resetRevoke")
    /\ RevokeAll(req[w].user, Finish(w))
    /\ UNCHANGED <<user, made, mixed>>

-----------------------------------------------------------------------------
(***************************************************************************)
(* Accounts and roles                                                      *)
(***************************************************************************)

SetActiveStatus(u, b) ==
    /\ user[u].exists
    /\ user[u].active # b
    /\ user' = [user EXCEPT ![u].active = b]
    /\ UNCHANGED <<sess, req, made, kept, mixed>>

\* Requests that hold the id of a row that has gone: their next statement
\* fails, except that raw SQL updates no row and inserts no role.
Orphaned(u) ==
    [w \in Workers |->
       IF req[w].user # u \/ req[w].pc \in {"idle", "sync", "syncInsert",
                                            "link", "status"}
       THEN req[w]
       ELSE [Arrived(u) EXCEPT !.pc =
               IF req[w].pc \in {"syncUpdate", "syncRole"}
               THEN "link" ELSE "failing"]]

\* The row goes, and by cascade its roles and its sessions.
DeleteUser(u) ==
    /\ user[u].exists
    /\ user' = [user EXCEPT ![u] = NoAccount]
    /\ sess' = [s \in DOMAIN sess |->
                  IF sess[s].user = u THEN GoneSession(u) ELSE sess[s]]
    /\ req' = Orphaned(u)
    /\ kept' = [kept EXCEPT ![u] = {}]
    /\ mixed' = [mixed EXCEPT ![u] = FALSE]
    /\ UNCHANGED made

CreateUser(u, r) ==
    /\ ~user[u].exists
    /\ made < MaxPasswords
    /\ made' = made + 1
    /\ user' = [user EXCEPT ![u] = [exists |-> TRUE, active |-> TRUE,
                                    pass |-> made + 1, mustChange |-> FALSE,
                                    roles |-> {r}]]
    /\ UNCHANGED <<sess, req, kept, mixed>>

\* Whether another request has still to insert a role.
Replacing(u, w) ==
    \E v \in Workers \ {w} : /\ req[v].user = u
                             /\ req[v].pc \in {"rolesCreate", "syncRole"}

UpdateUserRead(w, u, r) ==
    /\ Idle(w)
    /\ user[u].exists
    /\ req' = [req EXCEPT ![w] = [Arrived(u) EXCEPT !.pc = "rolesDelete",
                                                    !.roles = {r}]]
    /\ UNCHANGED <<user, sess, made, kept, mixed>>

\* Mutant: the roles that are there are not deleted first.
UpdateUserMerge(w) ==
    /\ At(w, "rolesDelete")
    /\ req' = [req EXCEPT ![w].pc = "rolesCreate"]
    /\ mixed' = [mixed EXCEPT ![req[w].user] = Replacing(req[w].user, w)]
    /\ UNCHANGED <<user, sess, made, kept>>

UpdateUserDelete(w) ==
    /\ At(w, "rolesDelete")
    /\ user' = [user EXCEPT ![req[w].user].roles = {}]
    /\ req' = [req EXCEPT ![w].pc = "rolesCreate"]
    /\ mixed' = [mixed EXCEPT ![req[w].user] = Replacing(req[w].user, w)]
    /\ UNCHANGED <<sess, made, kept>>

\* createMany fails as a whole on a pair that is there or a user that is not.
UpdateUserCreate(w) ==
    /\ At(w, "rolesCreate")
    /\ req[w].roles \cap user[req[w].user].roles = {}
    /\ user' = [user EXCEPT ![req[w].user].roles = @ \union req[w].roles]
    /\ req' = Finish(w)
    /\ UNCHANGED <<sess, made, kept, mixed>>

\* A refusal, a failing statement or a crash: what is written stays.
AbortRequest(w) ==
    /\ ~Idle(w)
    /\ req' = Finish(w)
    /\ mixed' = IF req[w].pc \in {"rolesCreate", "syncRole"}
                THEN [mixed EXCEPT ![req[w].user] = TRUE] ELSE mixed
    /\ UNCHANGED <<user, sess, made, kept>>

-----------------------------------------------------------------------------
SignIn(w) ==
    \/ \E u \in Users : LoginRead(w, u)
    \/ LoginIssue(w)
    \/ \E s \in DOMAIN sess : RefreshRead(w, s)
    \/ RefreshUser(w)
    \/ RefreshRevoke(w)
    \/ RefreshIssue(w)

Password(w) ==
    \/ \E u \in Users : \/ ChangePasswordRead(w, u)
                        \/ SetInitialPasswordRead(w, u)
                        \/ AdminResetRead(w, u)
    \/ ChangePasswordWrite(w)
    \/ ChangePasswordRevoke(w)
    \/ SetInitialPasswordWrite(w)
    \/ AdminResetWrite(w)
    \/ AdminResetRevoke(w)

RoleUpdate(w) ==
    \/ \E u \in Users, r \in Roles : UpdateUserRead(w, u, r)
    \/ UpdateUserDelete(w)
    \/ UpdateUserCreate(w)

Administration ==
    \/ \E s \in DOMAIN sess : LogoutSession(s)
    \/ \E u \in Users : LogoutAll(u) \/ DeleteUser(u)
    \/ \E u \in Users, b \in BOOLEAN : SetActiveStatus(u, b)
    \/ \E u \in Users, r \in Roles : CreateUser(u, r)

AuthNext ==
    \/ \E w \in Workers : \/ SignIn(w)
                          \/ Password(w)
                          \/ RoleUpdate(w)
                          \/ AbortRequest(w)
    \/ Administration

\* Without the handlers that only replace roles, which no other handler reads.
SessionNext ==
    \/ \E w \in Workers : SignIn(w) \/ Password(w) \/ AbortRequest(w)
    \/ Administration

SessionSpec == AuthInit /\ [][SessionNext]_authVars

AuthSpec == AuthInit /\ [][AuthNext]_authVars

-----------------------------------------------------------------------------
(***************************************************************************)
(* Properties                                                              *)
(***************************************************************************)

\* Every variable has its type, and foreign keys hold: a session belongs to
\* an account, a request and a session refer to rows that were inserted.
AuthTypeOK ==
    /\ user \in [Users -> Account]
    /\ sess \in Seq(Session)
    /\ req \in [Workers -> Request]
    /\ made \in Nat
    /\ kept \in [Users -> SUBSET Nat]
    /\ mixed \in [Users -> BOOLEAN]
    /\ \A w \in Workers : req[w].sess <= Len(sess)
    /\ \A s \in DOMAIN sess :
         /\ sess[s].parent < s
         /\ sess[s].status # "gone" => user[sess[s].user].exists

\* A session outlives the password it was opened with only where the code
\* lets it: its request was overtaken by the revocation, or the password was
\* replaced by a handler that has not revoked the sessions (the first login,
\* credentials sent again) or not yet (a change or reset before its second
\* statement).
RevokedPasswordIsOut ==
    \A s \in DOMAIN sess : Live(s) =>
        \/ sess[s].late
        \/ sess[s].pass = user[sess[s].user].pass
        \/ sess[s].pass \in kept[sess[s].user]

\* A refresh token is exchanged once; a second exchange, or one after the
\* session has been ended, takes a refresh that had seen the session live
\* before it was revoked.
PromptChildren(s) ==
    {t \in DOMAIN sess : sess[t].parent = s
                         /\ ~(sess[t].late /\ ~sess[s].late)}
OneSuccessor ==
    \A s \in DOMAIN sess :
        \/ sess[s].late
        \/ Cardinality(PromptChildren(s)) <=
             IF sess[s].status = "live" THEN 0 ELSE 1

\* Roles are replaced, not merged: once no replacement is half done and none
\* has been overlapped or cut off, a user has exactly the role asked for.
RolesReplacedWhole ==
    \A u \in Users :
        user[u].exists /\ ~mixed[u]
          /\ (\A w \in Workers :
                req[w].user = u => req[w].pc \notin {"rolesCreate", "syncRole"})
        => Cardinality(user[u].roles) = 1
=============================================================================
