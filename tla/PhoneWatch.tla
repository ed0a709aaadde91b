----------------------------- MODULE PhoneWatch -----------------------------
(***************************************************************************)
(* The employee's home screen, which watches where the phone is and        *)
(* reports leaving and returning to the attendance service.  JavaScript    *)
(* runs one step at a time, but each await lets the others run: heartbeats,*)
(* location updates, reloads and the buttons.                              *)
(*                                                                         *)
(* place, gps       where the phone is; whether its location is available  *)
(* srv              the person's latest session in the service             *)
(* activeSession    the session as the screen has it                       *)
(* isVerifying, isTransitioning, isPrompting, outsideCount   the refs      *)
(* geofenceResult   the last verdict shown                                 *)
(* check[k]         a run of checkLocationAndGeofence                      *)
(* load[j]          a reload in flight, with the status it brings          *)
(* button           a check-in or check-out in flight                      *)
(***************************************************************************)
EXTENDS Naturals, FiniteSets

CONSTANTS Checks, Loads     \* bounds: runs and reloads at once

VARIABLES place, gps, srv, activeSession, isVerifying,
          isTransitioning, isPrompting, outsideCount, geofenceResult,
          check, load, button

env == <<place, gps>>
refs == <<isVerifying, isTransitioning, isPrompting, outsideCount>>
watchVars == <<place, gps, srv, activeSession, isVerifying,
          isTransitioning, isPrompting, outsideCount, geofenceResult,
          check, load, button>>

Places == {"inside", "near", "far"}     \* far: more than 100 m outside
Screens == {"none", "WORKING", "PAUSED"}

NoCheck == [pc |-> "idle", pos |-> "inside", off |-> FALSE, ask |-> TRUE]

WatchInit ==
    /\ place = "inside" /\ gps = TRUE
    /\ srv = "none"
    /\ activeSession = "none"
    /\ isVerifying = FALSE /\ isTransitioning = FALSE /\ isPrompting = FALSE
    /\ outsideCount = 0
    /\ geofenceResult = "other"
    /\ check = [k \in Checks |-> NoCheck]
    /\ load = [j \in Loads |-> "none"]
    /\ button = "none"

CheckAt(k, pc) == check[k].pc = pc
Goes(k, pc) == [check EXCEPT ![k].pc = pc]

\* loadAttendance is called; beyond the bound on reloads, no further one.
Reload(l) ==
    IF \E j \in Loads : l[j] = "none"
    THEN [l EXCEPT ![CHOOSE j \in Loads : l[j] = "none"] = "sent"] ELSE l

\* setActiveSession, with the effect that resets the count.
Show(s) ==
    /\ activeSession' = s
    /\ outsideCount' = IF s = "WORKING" THEN outsideCount ELSE 0

-----------------------------------------------------------------------------
(***************************************************************************)
(* checkLocationAndGeofence                                                *)
(***************************************************************************)

\* Mount, heartbeat, location update, return to the foreground, buttons.
Begin(k) ==
    /\ CheckAt(k, "idle")
    /\ ~isVerifying
    /\ isVerifying' = TRUE
    /\ check' = Goes(k, "start")
    /\ UNCHANGED <<env, srv, activeSession, isTransitioning, isPrompting,
                   outsideCount, geofenceResult, load, button>>

\* The monitoring of an active session calls it again and again.
Heartbeat(k) == activeSession # "none" /\ Begin(k)

\* The finally of the outer try.
End(k) ==
    /\ check' = [check EXCEPT ![k] = NoCheck]
    /\ isVerifying' = FALSE

\* Location is off: pauseOnLocationOff, then perhaps the prompt.
StartOff(k) ==
    /\ CheckAt(k, "start") /\ ~gps
    /\ IF activeSession = "WORKING" /\ ~isTransitioning
       THEN /\ isTransitioning' = TRUE
            /\ check' = [check EXCEPT ![k].pc = "exit", ![k].off = TRUE]
       ELSE /\ check' = Goes(k, "ask")
            /\ UNCHANGED isTransitioning
    /\ UNCHANGED <<env, srv, activeSession, isVerifying, isPrompting,
                   outsideCount, geofenceResult, load, button>>

StartOn(k) ==
    /\ CheckAt(k, "start") /\ gps
    /\ check' = Goes(k, "locate")
    /\ UNCHANGED <<env, srv, activeSession, refs, geofenceResult, load,
                   button>>

Ask(k) ==
    /\ CheckAt(k, "ask")
    /\ IF check[k].ask /\ ~isPrompting
       THEN /\ isPrompting' = TRUE
            /\ check' = Goes(k, "prompt")
            /\ UNCHANGED isVerifying
       ELSE End(k) /\ UNCHANGED isPrompting
    /\ UNCHANGED <<env, srv, activeSession, isTransitioning, outsideCount,
                   geofenceResult, load, button>>

PromptDeclined(k) ==
    /\ CheckAt(k, "prompt")
    /\ End(k)
    /\ isPrompting' = FALSE
    /\ UNCHANGED <<env, srv, activeSession, isTransitioning, outsideCount,
                   geofenceResult, load, button>>

\* Turned on: the function calls itself and returns that promise without
\* awaiting it, so the finally gives the lock back while the call runs.
PromptAccepted(k) ==
    /\ CheckAt(k, "prompt")
    /\ gps' = TRUE
    /\ isPrompting' = FALSE
    /\ isVerifying' = FALSE
    /\ check' = [check EXCEPT ![k] = [NoCheck EXCEPT !.pc = "start",
                                                     !.ask = FALSE]]
    /\ UNCHANGED <<place, srv, activeSession, isTransitioning, outsideCount,
                   geofenceResult, load, button>>

Locate(k) ==
    /\ CheckAt(k, "locate")
    /\ check' = [check EXCEPT ![k].pc = "judge", ![k].pos = place]
    /\ UNCHANGED <<env, srv, activeSession, refs, geofenceResult, load,
                   button>>

\* No office, no position, a mock position or no verdict.
CheckFails(k) ==
    /\ CheckAt(k, "locate")
    /\ End(k)
    /\ geofenceResult' \in {geofenceResult, "other"}
    /\ UNCHANGED <<env, srv, activeSession, isTransitioning, isPrompting,
                   outsideCount, load, button>>

\* The verdict of the geofence-service has arrived: the part up to the next
\* await.
Verdict(k) ==
    /\ CheckAt(k, "judge")
    /\ geofenceResult' = IF check[k].pos = "inside" THEN "inside" ELSE "other"
    /\ UNCHANGED <<env, srv, activeSession, isPrompting, load, button>>

Transition(k, pc) ==
    /\ outsideCount' = 0
    /\ isTransitioning' = TRUE
    /\ check' = [check EXCEPT ![k] = [NoCheck EXCEPT !.pc = pc]]
    /\ UNCHANGED isVerifying

IsFar(k) == check[k].pos = "far"

\* Mutant: the tolerance is forgotten.
EnoughAtOnce(k) == outsideCount + 1 >= 1 \/ IsFar(k)

Enough(k) == outsideCount + 1 >= 2 \/ IsFar(k)

\* Mutant: a transition in flight is not looked at.
MovableAlways == activeSession # "none"

Movable == activeSession # "none" /\ ~isTransitioning

JudgeOutside(k) ==
    /\ Verdict(k)
    /\ Movable /\ activeSession = "WORKING" /\ check[k].pos # "inside"
    /\ IF Enough(k) THEN Transition(k, "exit")
       ELSE /\ End(k)
            /\ outsideCount' = outsideCount + 1
            /\ UNCHANGED isTransitioning

JudgeInside(k) ==
    /\ Verdict(k)
    /\ Movable /\ check[k].pos = "inside"
    /\ IF activeSession = "PAUSED" THEN Transition(k, "return")
       ELSE /\ End(k)
            /\ outsideCount' = 0
            /\ UNCHANGED isTransitioning

JudgeNothing(k) ==
    /\ Verdict(k)
    /\ ~Movable \/ (activeSession = "PAUSED" /\ check[k].pos # "inside")
    /\ End(k)
    /\ UNCHANGED <<isTransitioning, outsideCount>>

Judge(k) == JudgeOutside(k) \/ JudgeInside(k) \/ JudgeNothing(k)

-----------------------------------------------------------------------------
(***************************************************************************)
(* geofence-exit and geofence-return                                       *)
(***************************************************************************)

ExitServed(k) ==
    /\ CheckAt(k, "exit") /\ srv = "WORKING"
    /\ srv' = "PAUSED"
    /\ check' = Goes(k, "exitOk")
    /\ UNCHANGED <<env, activeSession, refs, geofenceResult, load, button>>

ReturnServed(k) ==
    /\ CheckAt(k, "return") /\ srv = "PAUSED"
    /\ srv' = "WORKING"
    /\ check' = Goes(k, "returnOk")
    /\ UNCHANGED <<env, activeSession, refs, geofenceResult, load, button>>

\* Mutant: the flag is reset only when the call succeeds.
DoneOk(k) ==
    /\ isTransitioning' = (check[k].pc \in {"exit", "return"})
    /\ IF check[k].off THEN check' = Goes(k, "ask") /\ UNCHANGED isVerifying
                       ELSE End(k)

\* After the call: the flag is reset; the off branch goes on to the prompt.
Done(k) ==
    /\ isTransitioning' = FALSE
    /\ IF check[k].off THEN check' = Goes(k, "ask") /\ UNCHANGED isVerifying
                       ELSE End(k)

Answered(k) ==
    /\ check[k].pc \in {"exitOk", "returnOk"}
    /\ Show(IF CheckAt(k, "exitOk") THEN "PAUSED" ELSE "WORKING")
    /\ load' = Reload(load)
    /\ Done(k)
    /\ UNCHANGED <<env, srv, isPrompting, geofenceResult, button>>

\* Refused, or no answer.
CallFails(k) ==
    /\ check[k].pc \in {"exit", "return", "exitOk", "returnOk"}
    /\ Done(k)
    /\ UNCHANGED <<env, srv, activeSession, isPrompting, outsideCount,
                   geofenceResult, load, button>>

-----------------------------------------------------------------------------
(***************************************************************************)
(* loadAttendance, and when it is called                                   *)
(***************************************************************************)

\* Mount, pull to refresh.
HandleRefresh ==
    /\ load' = Reload(load)
    /\ UNCHANGED <<env, srv, activeSession, refs, geofenceResult, check,
                   button>>

\* Mutant: the countdown only counts.
GraceCountdownOnly ==
    /\ activeSession = "PAUSED"
    /\ UNCHANGED watchVars

\* The countdown of the deadline shown has reached zero.
GraceCountdown ==
    /\ activeSession = "PAUSED"
    /\ load' = Reload(load)
    /\ UNCHANGED <<env, srv, activeSession, refs, geofenceResult, check,
                   button>>

LoadServed(j) ==
    /\ load[j] = "sent"
    /\ load' = [load EXCEPT ![j] = IF srv = "none" THEN "empty" ELSE srv]
    /\ UNCHANGED <<env, srv, activeSession, refs, geofenceResult, check,
                   button>>

LoadAnswered(j) ==
    /\ load[j] \in {"empty", "WORKING", "PAUSED"}
    /\ Show(IF load[j] = "empty" THEN "none" ELSE load[j])
    /\ load' = [load EXCEPT ![j] = "none"]
    /\ UNCHANGED <<env, srv, isVerifying, isTransitioning, isPrompting,
                   geofenceResult, check, button>>

LoadFails(j) ==
    /\ load[j] = "sent"
    /\ load' = [load EXCEPT ![j] = "none"]
    /\ UNCHANGED <<env, srv, activeSession, refs, geofenceResult, check,
                   button>>

-----------------------------------------------------------------------------
(***************************************************************************)
(* Check-in, check-out, sign-out                                           *)
(***************************************************************************)

\* handleInitiateCheckIn and, after the face has been verified,
\* handleConfirmCheckIn.
CheckIn ==
    /\ button = "none" /\ activeSession = "none"
    /\ gps /\ geofenceResult = "inside"
    /\ button' = "in"
    /\ UNCHANGED <<env, srv, activeSession, refs, geofenceResult, check,
                   load>>

CheckOut ==
    /\ button = "none" /\ activeSession = "WORKING"
    /\ button' = "out"
    /\ UNCHANGED <<env, srv, activeSession, refs, geofenceResult, check,
                   load>>

ButtonServed ==
    /\ \/ button = "in" /\ srv = "none" /\ srv' = "WORKING" /\ button' = "inOk"
       \/ button = "out" /\ srv = "WORKING" /\ srv' = "none" /\ button' = "outOk"
    /\ UNCHANGED <<env, activeSession, refs, geofenceResult, check, load>>

ButtonAnswered ==
    /\ button \in {"inOk", "outOk"}
    /\ Show(IF button = "inOk" THEN "WORKING" ELSE "none")
    /\ button' = "none"
    /\ load' = Reload(load)
    /\ UNCHANGED <<env, srv, isVerifying, isTransitioning, isPrompting,
                   geofenceResult, check>>

ButtonFails ==
    /\ button # "none"
    /\ button' = "none"
    /\ UNCHANGED <<env, srv, activeSession, refs, geofenceResult, check,
                   load>>

\* A new screen.
Restart ==
    /\ activeSession' = "none"
    /\ isVerifying' = FALSE /\ isTransitioning' = FALSE /\ isPrompting' = FALSE
    /\ outsideCount' = 0
    /\ geofenceResult' = "other"
    /\ check' = [k \in Checks |-> NoCheck]
    /\ load' = [j \in Loads |-> "none"]
    /\ button' = "none"

\* Signing out tries to pause first; a new screen starts afresh, as it does
\* after the app has been closed.
SignOut ==
    /\ \/ UNCHANGED srv
       \/ /\ activeSession = "WORKING" /\ srv = "WORKING"
          /\ srv' = "PAUSED"
    /\ Restart
    /\ UNCHANGED env

-----------------------------------------------------------------------------
(***************************************************************************)
(* The world                                                               *)
(***************************************************************************)

Move ==
    /\ \E p \in Places \ {place} : place' = p
    /\ UNCHANGED <<gps, srv, activeSession, refs, geofenceResult, check,
                   load, button>>

SwitchLocation ==
    /\ gps' = ~gps
    /\ UNCHANGED <<place, srv, activeSession, refs, geofenceResult, check,
                   load, button>>

\* The sweep closes a session at the end of its grace, or at midnight.
AutoCheckOut ==
    /\ srv # "none"
    /\ srv' = "none"
    /\ UNCHANGED <<env, activeSession, refs, geofenceResult, check,
                   load, button>>

-----------------------------------------------------------------------------
CheckStep(k) ==
    \/ Begin(k) \/ StartOff(k) \/ StartOn(k) \/ Ask(k) \/ PromptDeclined(k)
    \/ PromptAccepted(k) \/ Locate(k) \/ CheckFails(k) \/ Judge(k)
    \/ ExitServed(k) \/ ReturnServed(k) \/ Answered(k) \/ CallFails(k)

WatchNext ==
    \/ \E k \in Checks : CheckStep(k)
    \/ \E j \in Loads : LoadServed(j) \/ LoadAnswered(j) \/ LoadFails(j)
    \/ HandleRefresh \/ GraceCountdown
    \/ CheckIn \/ CheckOut \/ ButtonServed \/ ButtonAnswered \/ ButtonFails
    \/ SignOut
    \/ Move \/ SwitchLocation \/ AutoCheckOut

WatchSpec == WatchInit /\ [][WatchNext]_watchVars

\* The runtime runs what is ready, a request ends, the timers fire, and a
\* request tried again and again is answered in the end.  Nothing is assumed
\* of the employee, who need not answer a prompt.
WatchFairness ==
    /\ WF_watchVars(GraceCountdown)
    /\ WF_watchVars(\E k \in Checks : Heartbeat(k))
    /\ \A k \in Checks :
         /\ WF_watchVars(StartOff(k) \/ StartOn(k) \/ Ask(k) \/ ExitServed(k)
                      \/ ReturnServed(k) \/ Answered(k) \/ CallFails(k))
         /\ SF_watchVars(Locate(k) \/ Judge(k))
    /\ SF_watchVars(\E k \in Checks : ExitServed(k))
    /\ SF_watchVars(\E k \in Checks : ReturnServed(k))
    /\ SF_watchVars(\E k \in Checks : Answered(k))
    /\ \A j \in Loads : SF_watchVars(LoadServed(j)) /\ WF_watchVars(LoadAnswered(j))

FairWatch == WatchSpec /\ WatchFairness

-----------------------------------------------------------------------------
(***************************************************************************)
(* Properties                                                              *)
(***************************************************************************)

Moving(k) == check[k].pc \in {"exit", "return", "exitOk", "returnOk"}

Run == [pc : {"idle", "start", "ask", "prompt", "locate", "judge",
              "exit", "return", "exitOk", "returnOk"},
        pos : Places, off : BOOLEAN, ask : BOOLEAN]

\* The refs, runs and answers are what they look like; the count of outside
\* verdicts never gets past what is tolerated.
WatchTypeOK ==
    /\ place \in Places /\ gps \in BOOLEAN
    /\ srv \in Screens
    /\ activeSession \in Screens
    /\ isVerifying \in BOOLEAN /\ isTransitioning \in BOOLEAN
    /\ isPrompting \in BOOLEAN /\ outsideCount \in 0..1
    /\ geofenceResult \in {"inside", "other"}
    /\ button \in {"none", "in", "inOk", "out", "outOk"}
    /\ load \in [Loads -> {"none", "sent", "empty", "WORKING", "PAUSED"}]
    /\ check \in [Checks -> Run]

\* Two runs of a check can be under way at once, because a prompt that is
\* accepted gives the lock back, and yet isTransitioning stands for exactly one
\* request to pause or resume.
OneTransition ==
    Cardinality({k \in Checks : Moving(k)}) = IF isTransitioning THEN 1 ELSE 0

\* Who stays away is paused in the end and who is back is resumed in the end,
\* unless a prompt is left unanswered.
MovesAreFollowed ==
    /\ <>[](place # "inside" /\ gps /\ ~isPrompting)
         => []<>~(srv = "WORKING" /\ activeSession = "WORKING")
    /\ <>[](place = "inside" /\ gps /\ ~isPrompting)
         => []<>~(srv = "PAUSED" /\ activeSession = "PAUSED")

\* A screen that shows a pause learns that the service has ended it.
PauseShownEnds ==
    activeSession = "PAUSED" /\ srv = "none"
      ~> activeSession # "PAUSED" \/ srv # "none"
=============================================================================
