---------------------------- MODULE PhoneSession ----------------------------
(***************************************************************************)
(* The mobile client's session over the auth-service: stored tokens, the   *)
(* refresh that calls meeting an expired access token share, logout,       *)
(* restoring at the start of the app, and the app being killed.            *)
(*                                                                         *)
(* phone   stored: the refresh token in SecureStore (0: none); access: the *)
(*         access token, which is stored too; saved: whether the user is   *)
(*         stored; screen: AuthContext's status; task: its pending request *)
(* flight  the shared refresh: its token, the worker that serves it and    *)
(*         the answer on its way                                           *)
(* call    the application's requests                                      *)
(* logout  a logout in progress, and the token it revokes                  *)
(* torn    history: since the last login, the stored token may have been   *)
(*         used up or revoked without the phone's doing or knowing, or a   *)
(*         refresh has outlived a logout                                   *)
(* left    history: the user has logged out and not logged in since        *)
(***************************************************************************)
EXTENDS AuthSessions

CONSTANTS Calls, NoWorker, Owner

ASSUME PhoneAssumption == Owner \in Users /\ NoWorker \notin Workers

VARIABLES phone, flight, call, logout, torn, left

phoneVars == <<phone, flight, call, logout, torn, left>>
vars == <<user, sess, req, made, kept, mixed,
          phone, flight, call, logout, torn, left>>

NoFlight == [pc |-> "none", token |-> 0, worker |-> NoWorker,
             answer |-> "none", new |-> 0]
NoLogout == [pc |-> "none", token |-> 0]
Cleared == [stored |-> 0, access |-> "none", saved |-> FALSE,
            screen |-> "out", task |-> "none"]

Init ==
    /\ AuthInit
    /\ phone = [Cleared EXCEPT !.screen = "loading"]
    /\ flight = NoFlight
    /\ call = [c \in Calls |-> "idle"]
    /\ logout = NoLogout
    /\ torn = FALSE
    /\ left = FALSE

ServerIdle == UNCHANGED <<user, sess, req, made, kept, mixed>>

\* clearTokens: both tokens, the user and the profile.
ClearTokens == [phone EXCEPT !.stored = 0, !.access = "none", !.saved = FALSE]

-----------------------------------------------------------------------------
(***************************************************************************)
(* The shared refresh                                                      *)
(***************************************************************************)

\* Mutant: every caller begins a refresh of its own.
JoinedNever == [NoFlight EXCEPT !.pc = "begun"]

\* refreshSession: join the one in flight or begin one.
Joined == IF flight.pc = "none" THEN [NoFlight EXCEPT !.pc = "begun"]
                                ELSE flight

\* Whether the token of the flight is being, or has been, used up.
UsedUp ==
    /\ flight.pc = "sent"
    /\ ~Live(flight.token) \/ flight.worker # NoWorker

\* The callers that wait for the flight when it ends without a new token.
Rejected == [c \in Calls |-> IF call[c] = "waiting" THEN "idle" ELSE call[c]]

LogoutGoesOn(pc, token) ==
    IF logout.pc = "waiting" THEN [pc |-> pc, token |-> token] ELSE logout

FlightSend ==
    /\ flight.pc = "begun"
    /\ phone.stored # 0
    /\ flight' = [flight EXCEPT !.pc = "sent", !.token = phone.stored]
    /\ ServerIdle
    /\ UNCHANGED <<phone, call, logout, torn, left>>

\* Any end of the flight that is not an answer by the server: callers are
\* rejected; a restore keeps the session if the user is stored.
FlightFails ==
    /\ flight' = NoFlight
    /\ call' = Rejected
    /\ logout' = LogoutGoesOn("clear", 0)
    /\ phone' = [phone EXCEPT !.task = IF @ = "restore" THEN "none" ELSE @,
                              !.screen = IF phone.task = "restore" /\ ~phone.saved
                                         THEN "out" ELSE @]
    /\ torn' = (torn \/ UsedUp)
    /\ ServerIdle
    /\ UNCHANGED left

FlightNoToken == flight.pc = "begun" /\ phone.stored = 0 /\ FlightFails

\* Mutant: requests have no timeout.
FlightTimesOutNever ==
    /\ flight.pc = "sent"
    /\ flight.answer = "error"
    /\ FlightFails

\* No answer in time, or one that says nothing about the token.
FlightTimesOut == flight.pc = "sent" /\ FlightFails

\* saveTokens; a restore shows the user, whatever has happened meanwhile.
FlightSucceeds ==
    /\ flight.answer = "ok"
    /\ flight' = NoFlight
    /\ call' = [c \in Calls |-> IF call[c] = "waiting" THEN "retried" ELSE call[c]]
    /\ logout' = LogoutGoesOn("postNew", flight.new)
    /\ \/ phone' = [phone EXCEPT
                      !.stored = flight.new, !.access = "good", !.task =
                        IF @ = "restore" THEN "none" ELSE @,
                      !.saved = @ \/ phone.task = "restore",
                      !.screen = IF phone.task = "restore" THEN "in" ELSE @]
       \/ /\ phone.task = "restore"     \* not a role for the mobile app
          /\ phone' = Cleared
    /\ ServerIdle
    /\ UNCHANGED <<torn, left>>

\* 400, 401 or 403: tokens are cleared and a waiting call signs out.
FlightRefused ==
    /\ flight.answer = "refused"
    /\ flight' = NoFlight
    /\ call' = Rejected
    /\ logout' = LogoutGoesOn("clear", 0)
    /\ phone' = IF phone.task = "restore" \/ \E c \in Calls : call[c] = "waiting"
                THEN [ClearTokens EXCEPT !.screen = "out", !.task =
                        IF @ = "restore" THEN "none" ELSE @]
                ELSE ClearTokens
    /\ ServerIdle
    /\ UNCHANGED <<torn, left>>

-----------------------------------------------------------------------------
(***************************************************************************)
(* The server's side of a refresh                                          *)
(***************************************************************************)

Serves(w) == flight.worker = w

Answer(a, n) == [flight EXCEPT !.worker = NoWorker, !.answer = a, !.new = n]

ServerRefuses ==
    /\ flight.pc = "sent" /\ flight.answer = "none"
    /\ flight.worker = NoWorker
    /\ ~Live(flight.token)
    /\ flight' = Answer("refused", 0)
    /\ ServerIdle
    /\ UNCHANGED <<phone, call, logout, torn, left>>

ServerBegins(w) ==
    /\ flight.pc = "sent" /\ flight.answer = "none"
    /\ flight.worker = NoWorker
    /\ RefreshRead(w, flight.token)
    /\ flight' = [flight EXCEPT !.worker = w]
    /\ UNCHANGED <<phone, call, logout, torn, left>>

ServerGoesOn(w) ==
    /\ RefreshUser(w) \/ RefreshRevoke(w)
    /\ UNCHANGED phoneVars

ServerIssues(w) ==
    /\ RefreshIssue(w)
    /\ flight' = IF Serves(w) THEN Answer("ok", Len(sess')) ELSE flight
    /\ UNCHANGED <<phone, call, logout, torn, left>>

\* The account is not active: refused; anything else that fails: an error.
ServerFails(w) ==
    /\ AbortRequest(w)
    /\ flight' = IF ~Serves(w) THEN flight
                 ELSE IF At(w, "refreshUser") /\ ~Signed(Owner)
                      THEN Answer("refused", 0) ELSE Answer("error", 0)
    /\ UNCHANGED <<phone, call, logout, torn, left>>

\* Sessions revoked from elsewhere, the account switched off.
Elsewhere ==
    /\ \/ LogoutAll(Owner) /\ torn' = TRUE
       \/ SetActiveStatus(Owner, FALSE) /\ torn' = torn
    /\ UNCHANGED <<phone, flight, call, logout, left>>

-----------------------------------------------------------------------------
(***************************************************************************)
(* The application's calls                                                 *)
(***************************************************************************)

CallSend(c) ==
    /\ call[c] = "idle"
    /\ phone.screen = "in"
    /\ call' = [call EXCEPT ![c] =
                  IF phone.access = "good" THEN "sent" ELSE "sentExpired"]
    /\ ServerIdle
    /\ UNCHANGED <<phone, flight, logout, torn, left>>

\* A 401 on the first try joins the refresh.
CallUnauthorized(c) ==
    /\ call[c] = "sentExpired" \/ (call[c] = "sent" /\ ~Signed(Owner))
    /\ call' = [call EXCEPT ![c] = "waiting"]
    /\ flight' = Joined
    /\ ServerIdle
    /\ UNCHANGED <<phone, logout, torn, left>>

\* Any other answer, and a timeout; after a retry, a 401 as well.
CallEnds(c) ==
    /\ call[c] \in {"sent", "sentExpired", "retried"}
    /\ call' = [call EXCEPT ![c] = "idle"]
    /\ ServerIdle
    /\ UNCHANGED <<phone, flight, logout, torn, left>>

AccessExpires ==
    /\ phone.access = "good"
    /\ phone' = [phone EXCEPT !.access = "expired"]
    /\ call' = [c \in Calls |-> IF call[c] = "sent" THEN "sentExpired" ELSE call[c]]
    /\ ServerIdle
    /\ UNCHANGED <<flight, logout, torn, left>>

-----------------------------------------------------------------------------
(***************************************************************************)
(* login, logout, start and end of the app                                 *)
(***************************************************************************)

\* loginUser answered and its tokens saved; the server's two steps are
\* AuthSessions' LoginRead and LoginIssue.
Login ==
    /\ phone.screen = "out" /\ phone.task = "none" /\ logout.pc = "none"
    /\ Signed(Owner)
    /\ Len(sess) < MaxSessions
    /\ sess' = Append(sess, [user |-> Owner, status |-> "live", parent |-> 0,
                             pass |-> user[Owner].pass, late |-> FALSE])
    /\ phone' = [phone EXCEPT !.stored = Len(sess'), !.access = "good",
                              !.task = "login"]
    /\ torn' = (flight.pc # "none")
    /\ left' = FALSE
    /\ UNCHANGED <<user, req, made, kept, mixed, flight, call, logout>>

\* After the profile has been asked for, with or without success.
LoginShown ==
    /\ phone.task = "login"
    /\ phone' = [phone EXCEPT !.task = "none", !.saved = TRUE, !.screen = "in"]
    /\ ServerIdle
    /\ UNCHANGED <<flight, call, logout, torn, left>>

\* Not a role for the mobile app: what has just been opened is closed.
LoginBarred ==
    /\ phone.task = "login"
    /\ phone' = [phone EXCEPT !.task = "none"]
    /\ logout' = [pc |-> "post", token |-> phone.stored]
    /\ ServerIdle
    /\ UNCHANGED <<flight, call, torn, left>>

Logout ==
    /\ phone.screen = "in" /\ logout.pc = "none"
    /\ logout' = IF phone.stored = 0 THEN [NoLogout EXCEPT !.pc = "clear"]
                 ELSE [pc |-> "post", token |-> phone.stored]
    /\ ServerIdle
    /\ UNCHANGED <<phone, flight, call, torn, left>>

\* The server revokes the session if it is live.
LogoutPosted ==
    /\ logout.pc \in {"post", "postNew"}
    /\ phone.access = "good" /\ Signed(Owner)
    /\ IF Live(logout.token) THEN LogoutSession(logout.token) ELSE ServerIdle
    /\ logout' = [NoLogout EXCEPT !.pc = "clear"]
    /\ UNCHANGED <<phone, flight, call, torn, left>>

\* A 401 asks for a new pair, once.
LogoutUnauthorized ==
    /\ logout.pc = "post"
    /\ phone.access # "good" \/ ~Signed(Owner)
    /\ logout' = [logout EXCEPT !.pc = "waiting"]
    /\ flight' = Joined
    /\ ServerIdle
    /\ UNCHANGED <<phone, call, torn, left>>

LogoutUnheard ==
    /\ logout.pc \in {"post", "postNew"}
    /\ logout' = [NoLogout EXCEPT !.pc = "clear"]
    /\ ServerIdle
    /\ UNCHANGED <<phone, flight, call, torn, left>>

\* Mutant: the user stays in the store.
LogoutClearAccess ==
    /\ logout.pc = "clear"
    /\ phone' = [phone EXCEPT !.access = "none", !.screen = "out"]
    /\ logout' = NoLogout
    /\ torn' = (torn \/ flight.pc # "none")
    /\ left' = TRUE
    /\ ServerIdle
    /\ UNCHANGED <<flight, call>>

LogoutClear ==
    /\ logout.pc = "clear"
    /\ phone' = [ClearTokens EXCEPT !.screen = "out"]
    /\ logout' = NoLogout
    /\ torn' = (torn \/ flight.pc # "none")
    /\ left' = TRUE
    /\ ServerIdle
    /\ UNCHANGED <<flight, call>>

\* The app is closed; what is in SecureStore stays.
Kill ==
    /\ phone.screen # "loading" \/ phone.task # "none"
    /\ phone' = [phone EXCEPT !.screen = "loading", !.task = "none"]
    /\ flight' = NoFlight
    /\ call' = [c \in Calls |-> "idle"]
    /\ logout' = NoLogout
    /\ torn' = (torn \/ UsedUp \/ logout.pc # "none")
    /\ ServerIdle
    /\ UNCHANGED left

\* The stored user is shown at once, and a refresh is begun.
Restore ==
    /\ phone.screen = "loading" /\ phone.task = "none"
    /\ IF phone.stored = 0
       THEN /\ phone' = [phone EXCEPT !.screen = "out"]
            /\ UNCHANGED flight
       ELSE /\ phone' = [phone EXCEPT !.task = "restore", !.screen =
                           IF phone.saved THEN "in" ELSE @]
            /\ flight' = Joined
    /\ ServerIdle
    /\ UNCHANGED <<call, logout, torn, left>>

-----------------------------------------------------------------------------
FlightStep == \/ FlightSend \/ FlightNoToken \/ FlightTimesOut
              \/ FlightSucceeds \/ FlightRefused

ServerStep(w) == \/ ServerBegins(w) \/ ServerGoesOn(w) \/ ServerIssues(w)
                 \/ ServerFails(w)

LogoutStep == \/ LogoutPosted \/ LogoutUnauthorized \/ LogoutUnheard
              \/ LogoutClear

Next ==
    \/ FlightStep \/ ServerRefuses \/ Elsewhere \/ LogoutStep
    \/ \E w \in Workers : ServerStep(w)
    \/ \E c \in Calls : CallSend(c) \/ CallUnauthorized(c) \/ CallEnds(c)
    \/ AccessExpires
    \/ Login \/ LoginShown \/ LoginBarred \/ Logout \/ Kill \/ Restore

Spec == Init /\ [][Next]_vars

\* The runtime runs what is ready and requests time out; nothing is assumed
\* of the server or the network.
Fairness ==
    /\ WF_vars(FlightSend \/ FlightNoToken)
    /\ WF_vars(FlightTimesOut)
    /\ WF_vars(LogoutUnheard)
    /\ WF_vars(LogoutClear)
    /\ \A c \in Calls : WF_vars(CallEnds(c))

FairSpec == Spec /\ Fairness

-----------------------------------------------------------------------------
(***************************************************************************)
(* Properties                                                              *)
(***************************************************************************)

PhoneState == [stored : Nat, access : {"none", "good", "expired"},
               saved : BOOLEAN, screen : {"loading", "out", "in"},
               task : {"none", "restore", "login"}]

\* The phone only ever stores and presents tokens the server has issued.
TypeOK ==
    /\ AuthTypeOK
    /\ phone \in PhoneState
    /\ flight \in [pc : {"none", "begun", "sent"}, token : Nat,
                   worker : Workers \union {NoWorker},
                   answer : {"none", "ok", "refused", "error"}, new : Nat]
    /\ call \in [Calls -> {"idle", "sent", "sentExpired", "waiting", "retried"}]
    /\ logout \in [pc : {"none", "post", "waiting", "postNew", "clear"},
                   token : Nat]
    /\ torn \in BOOLEAN /\ left \in BOOLEAN
    /\ {phone.stored, flight.token, flight.new, logout.token}
         \subseteq {0} \union DOMAIN sess

\* However many calls meet an expired access token at once, the phone does
\* not use up its own refresh token: between refreshes the stored token is
\* live unless the server revoked it, an answer got lost or the user is
\* logging out.
StoredTokenIsGood ==
    phone.stored # 0 /\ flight.pc = "none" /\ logout.pc = "none" /\ ~torn
      => Live(phone.stored)

\* Once logged out, a user is not shown signed in before the next login,
\* also after a restart of the app - unless a refresh has outlived the logout.
LogoutLasts == left /\ ~torn => phone.screen # "in"

\* What tokenStorage.ts promises of explicit logouts, without the proviso.
LogoutAlwaysLasts == left => phone.screen # "in"

\* Every call and every logout ends, whatever becomes of the refresh it
\* waits for.
CallsEnd ==
    /\ \A c \in Calls : call[c] # "idle" ~> call[c] = "idle"
    /\ logout.pc # "none" ~> logout.pc = "none"
=============================================================================
