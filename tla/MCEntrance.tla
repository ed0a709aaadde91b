------------------------------ MODULE MCEntrance ------------------------------
(***************************************************************************)
(* What stands between a person and the services, for TLC: the gateway's   *)
(* limiter, the refresh sessions and the face challenges.  The three share *)
(* no state, so that a behaviour takes one of them, chosen in Init.        *)
(***************************************************************************)
EXTENDS FaceChallenge, AuthSessions, RateLimiter, TLC

CONSTANTS login, face

MCLimit == login :> 2 @@ face :> 3

VARIABLE part

\* An account that has yet to set its password can do all that others can.
EntranceInit ==
    /\ part \in {"face", "auth", "limiter"}
    /\ Init /\ AuthInit /\ LimiterInit
    /\ \A u \in Users : user[u].mustChange = (part = "auth")

EntranceNext ==
    /\ UNCHANGED part
    /\ \/ part = "face" /\ Next /\ UNCHANGED <<authVars, limiterVars>>
       \/ part = "auth" /\ SessionNext /\ UNCHANGED <<vars, limiterVars>>
       \/ part = "limiter" /\ LimiterNext /\ UNCHANGED <<vars, authVars>>

EntranceSpec == EntranceInit /\ [][EntranceNext]_<<vars, authVars, limiterVars, part>>

\* The threads of one part are the workers of another.
Symmetry == Permutations(Threads) \union Permutations(Cids)
=============================================================================
