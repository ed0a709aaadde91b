-------------------------- MODULE EmployeeAccounts --------------------------
(***************************************************************************)
(* The employee-service as the second writer of accounts: it creates them, *)
(* resends credentials, and copies status and role with raw statements on  *)
(* the auth-service's tables, after it has committed its own.  A failure   *)
(* there is caught and logged: the handler goes on.                        *)
(*                                                                         *)
(* emp[u]    the employee whose e-mail address is that of account u        *)
(* loose[u]  history: whether status and account were set apart by         *)
(*           something other than a status update of its own, complete     *)
(*           and not overlapped                                            *)
(***************************************************************************)
EXTENDS AuthSessions

VARIABLES emp, loose

empVars == <<emp, loose>>
vars == <<user, sess, req, made, kept, mixed, emp, loose>>

Statuses == {"ACTIVE", "TERMINATED"}

Employee == [exists : BOOLEAN, status : Statuses, linked : BOOLEAN]

NoEmployee == [exists |-> FALSE, status |-> "ACTIVE", linked |-> FALSE]

Init ==
    /\ AuthInit
    /\ emp = [u \in Users |-> [exists |-> TRUE, status |-> "ACTIVE",
                               linked |-> TRUE]]
    /\ loose = [u \in Users |-> FALSE]

CanSignIn(u) == user[u].exists /\ user[u].active

\* A request by w that goes on from pc for u.
Goes(w, u, pc, r) ==
    req' = [req EXCEPT ![w] = [Arrived(u) EXCEPT !.pc = pc, !.roles = r]]

-----------------------------------------------------------------------------
(***************************************************************************)
(* Provisioning                                                            *)
(***************************************************************************)

\* createEmployee up to the commit of its transaction.
CreateEmployee(w, u, st, r) ==
    /\ Idle(w)
    /\ ~emp[u].exists
    /\ emp' = [emp EXCEPT ![u] = [exists |-> TRUE, status |-> st,
                                  linked |-> FALSE]]
    /\ loose' = [loose EXCEPT ![u] = (st = "TERMINATED")]
    /\ Goes(w, u, "sync", {r})
    /\ UNCHANGED <<user, sess, made, kept, mixed>>

\* resendCredentials: the role is the one the account has when it is read.
ResendCredentials(w, u) ==
    /\ Idle(w)
    /\ emp[u].exists
    /\ \E r \in IF user[u].roles = {} THEN Roles ELSE user[u].roles :
         Goes(w, u, "sync", {r})
    /\ UNCHANGED <<user, sess, made, kept, mixed, emp, loose>>

\* syncCredentialsToAuthService: is there an account?
Sync(w) ==
    /\ At(w, "sync")
    /\ req' = [req EXCEPT ![w].pc =
                 IF user[req[w].user].exists THEN "syncUpdate"
                                             ELSE "syncInsert"]
    /\ UNCHANGED <<user, sess, made, kept, mixed, emp, loose>>

\* The account is activated whatever the employee's status.
Activated(u) == [loose EXCEPT ![u] = @ \/ emp[u].status = "TERMINATED"]

\* A new temporary password; sessions are not revoked.
SyncUpdate(w) ==
    /\ At(w, "syncUpdate")
    /\ SetPassword(req[w].user, TRUE, TRUE)
    /\ req' = [req EXCEPT ![w].pc = "syncRole"]
    /\ loose' = Activated(req[w].user)
    /\ UNCHANGED <<sess, mixed, emp>>

\* The insert fails on an account created in the meantime.
SyncInsert(w) ==
    /\ At(w, "syncInsert")
    /\ LET u == req[w].user IN
         /\ ~user[u].exists
         /\ made < MaxPasswords
         /\ made' = made + 1
         /\ user' = [user EXCEPT ![u] = [exists |-> TRUE, active |-> TRUE,
                                         pass |-> made + 1,
                                         mustChange |-> TRUE, roles |-> {}]]
         /\ loose' = Activated(u)
    /\ req' = [req EXCEPT ![w].pc = "syncRole"]
    /\ UNCHANGED <<sess, kept, mixed, emp>>

\* INSERT IGNORE adds to the roles there are.
SyncRole(w) ==
    /\ At(w, "syncRole")
    /\ LET u == req[w].user
           r == user[u].roles \union req[w].roles
       IN  /\ user' = [user EXCEPT ![u].roles = r]
           /\ mixed' = [mixed EXCEPT ![u] =
                          @ \/ r # req[w].roles \/ Replacing(u, w)]
    /\ req' = [req EXCEPT ![w].pc = "link", ![w].roles = {}]
    /\ UNCHANGED <<sess, made, kept, emp, loose>>

\* The account's id is written to an employee that has none.
Link(w) ==
    /\ At(w, "link")
    /\ emp[req[w].user].exists
    /\ emp' = [emp EXCEPT ![req[w].user].linked = TRUE]
    /\ req' = Finish(w)
    /\ UNCHANGED <<user, sess, made, kept, mixed, loose>>

\* getEmployeeMe, called with the account's token.
GetEmployeeMe(u) ==
    /\ CanSignIn(u)
    /\ emp[u].exists
    /\ ~emp[u].linked
    /\ emp' = [emp EXCEPT ![u].linked = TRUE]
    /\ UNCHANGED <<user, sess, req, made, kept, mixed, loose>>

-----------------------------------------------------------------------------
(***************************************************************************)
(* Status and role                                                         *)
(***************************************************************************)

\* Whether a status update of u has still to reach the account.
StatusPending(u) ==
    \E w \in Workers : req[w].user = u /\ req[w].pc = "status"

UpdateEmployeeStatus(w, u, st) ==
    /\ Idle(w)
    /\ emp[u].exists
    /\ emp' = [emp EXCEPT ![u].status = st]
    /\ req' = [req EXCEPT ![w] = [Arrived(u) EXCEPT
                 !.pc = "status", !.active = (st = "ACTIVE")]]
    /\ loose' = [loose EXCEPT ![u] = StatusPending(u)]
    /\ UNCHANGED <<user, sess, made, kept, mixed>>

\* Mutant: the account is only ever activated, as by syncCredentials.
SyncStatusActive(w) ==
    /\ At(w, "status")
    /\ user' = [user EXCEPT ![req[w].user].active = TRUE]
    /\ req' = Finish(w)
    /\ UNCHANGED <<sess, made, kept, mixed, emp, loose>>

\* Matched by id, e-mail or code: the account there is now, if any.
SyncStatus(w) ==
    /\ At(w, "status")
    /\ user' = [user EXCEPT ![req[w].user].active =
                  IF user[req[w].user].exists THEN req[w].active ELSE @]
    /\ req' = Finish(w)
    /\ UNCHANGED <<sess, made, kept, mixed, emp, loose>>

\* updateEmployee writes the status and leaves the account alone.
UpdateEmployee(u, st) ==
    /\ emp[u].exists
    /\ emp[u].status # st
    /\ emp' = [emp EXCEPT ![u].status = st]
    /\ loose' = [loose EXCEPT ![u] = TRUE]
    /\ UNCHANGED <<user, sess, req, made, kept, mixed>>

\* updateEmployeeRole replaces roles in the two statements of updateUser.
UpdateEmployeeRole(w, u, r) ==
    /\ emp[u].exists
    /\ UpdateUserRead(w, u, r)
    /\ UNCHANGED <<emp, loose>>

\* The account stays.
DeleteEmployee(u) ==
    /\ emp[u].exists
    /\ emp' = [emp EXCEPT ![u] = NoEmployee]
    /\ loose' = [loose EXCEPT ![u] = FALSE]
    /\ UNCHANGED <<user, sess, req, made, kept, mixed>>

-----------------------------------------------------------------------------
(***************************************************************************)
(* The two services together                                               *)
(***************************************************************************)

Provisioning(w) ==
    \/ \E u \in Users, st \in Statuses, r \in Roles : CreateEmployee(w, u, st, r)
    \/ \E u \in Users : ResendCredentials(w, u)
    \/ Sync(w) \/ SyncUpdate(w) \/ SyncInsert(w) \/ SyncRole(w) \/ Link(w)

StatusAndRole(w) ==
    \/ \E u \in Users, st \in Statuses : UpdateEmployeeStatus(w, u, st)
    \/ SyncStatus(w)
    \/ \E u \in Users, r \in Roles : UpdateEmployeeRole(w, u, r)

\* A step of the auth-service sets the two apart when it opens the account of
\* an employee who has left, or when a failure cuts a status update off.
AuthStep ==
    /\ AuthNext
    /\ emp' = emp
    /\ loose' = [u \in Users |->
                   \/ loose[u]
                   \/ ~CanSignIn(u) /\ CanSignIn(u)'
                        /\ emp[u].status = "TERMINATED"
                   \/ \E w \in Workers : /\ req[w].user = u /\ At(w, "status")
                                         /\ req'[w] # req[w]]

Next ==
    \/ \E w \in Workers : Provisioning(w) \/ StatusAndRole(w)
    \/ \E u \in Users : GetEmployeeMe(u) \/ DeleteEmployee(u)
    \/ \E u \in Users, st \in Statuses : UpdateEmployee(u, st)
    \/ AuthStep

Spec == Init /\ [][Next]_vars

-----------------------------------------------------------------------------
(***************************************************************************)
(* Properties                                                              *)
(***************************************************************************)

\* Both services' tables keep their types.
TypeOK ==
    /\ AuthTypeOK
    /\ emp \in [Users -> Employee]
    /\ loose \in [Users -> BOOLEAN]

\* updateEmployeeStatus closes the account of an employee it terminates, and
\* the account stays closed until something else opens it: another status
\* update, credentials sent again or the auth-service's own switch.
TerminatedIsLockedOut ==
    \A u \in Users :
        /\ emp[u].exists /\ emp[u].status = "TERMINATED"
        /\ ~loose[u] /\ ~StatusPending(u)
        => ~CanSignIn(u)
=============================================================================
