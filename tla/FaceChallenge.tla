--------------------------- MODULE FaceChallenge ----------------------------
(***************************************************************************)
(* The challenges of the face-ai-service, kept in two dictionaries that    *)
(* the threads of the server share without a lock.  A challenge is         *)
(* consumed once; for a grace time after that the same person may present  *)
(* it again, so that a retry succeeds.  A thread may be suspended between  *)
(* any two dictionary operations, and time passes meanwhile.               *)
(*                                                                         *)
(* clock         the time                                                  *)
(* expiresAt     _challenges: when each challenge expires, or Absent       *)
(* consumedAt    _recently_consumed: when it was consumed, or Absent       *)
(* owner         whose challenge it is                                     *)
(* thread[t]     a request to verify a face                                *)
(* done          history: when the consumption of a challenge was over     *)
(* firsts        history: the challenge -> how often it was consumed       *)
(***************************************************************************)
EXTENDS Naturals, FiniteSets

CONSTANTS People, Cids, Threads,
          TTL, Grace,               \* ttl_seconds, and the 15 seconds
          MaxClock                  \* bound

ASSUME TimesAssumption == TTL \in Nat /\ Grace \in Nat /\ MaxClock \in Nat

VARIABLES clock, expiresAt, consumedAt, owner, thread, done, firsts

dicts == <<expiresAt, consumedAt>>
history == <<done, firsts>>
vars == <<clock, expiresAt, consumedAt, owner, thread, done, firsts>>

Absent == MaxClock + TTL + 1
Nobody == "nobody"
NoCid == "none"

ASSUME NobodyAssumption == Nobody \notin People

\* now: the time the clean-up goes by; drop: what it has listed.
NoCall == [pc |-> "idle", cid |-> NoCid, who |-> Nobody, now |-> 0, drop |-> {}]

Init ==
    /\ clock = 0
    /\ expiresAt = [c \in Cids |-> Absent]
    /\ consumedAt = [c \in Cids |-> Absent]
    /\ owner = [c \in Cids |-> Nobody]
    /\ thread = [t \in Threads |-> NoCall]
    /\ done = [c \in Cids |-> Absent]
    /\ firsts = [c \in Cids |-> 0]

Doing(t, pc) == thread[t].pc = pc
Goes(t, pc) == thread' = [thread EXCEPT ![t].pc = pc]
Ends(t) == thread' = [thread EXCEPT ![t] = NoCall]

Here(d) == {c \in Cids : d[c] # Absent}
Without(d, S) == [c \in Cids |-> IF c \in S THEN Absent ELSE d[c]]

Expired(now) == {c \in Here(expiresAt) : now > expiresAt[c]}

\* Mutant: nothing is kept beyond the second it was consumed in.
ForgottenEarly(now) == {c \in Here(consumedAt) : now > consumedAt[c]}

Forgotten(now) == {c \in Here(consumedAt) : now > consumedAt[c] + Grace}

-----------------------------------------------------------------------------
\* A request to verify a face with a challenge, or to create one under a new
\* id.  The clean-up reads the time and lists what has expired.
Begin(t, c, p) ==
    /\ Doing(t, "idle")
    /\ owner[c] # Nobody \/ \A u \in Threads : thread[u].cid # c
    /\ thread' = [thread EXCEPT ![t] =
         [pc |-> "expire", cid |-> c, who |-> p, now |-> clock, drop |-> Expired(clock)]]
    /\ UNCHANGED <<clock, dicts, owner, history>>

\* The listed challenges are deleted; one that is gone raises a KeyError,
\* which ends the request.  Then the consumed ones are listed.
Expire(t) ==
    LET r == thread[t] IN
    /\ Doing(t, "expire")
    /\ r.drop \subseteq Here(expiresAt)
    /\ expiresAt' = Without(expiresAt, r.drop)
    /\ thread' = [thread EXCEPT ![t].pc = "forget", ![t].drop = Forgotten(r.now)]
    /\ UNCHANGED <<clock, consumedAt, owner, history>>

Forget(t) ==
    LET r == thread[t] IN
    /\ Doing(t, "forget")
    /\ r.drop \subseteq Here(consumedAt)
    /\ consumedAt' = Without(consumedAt, r.drop)
    /\ thread' = [thread EXCEPT ![t].pc = "get", ![t].drop = {}]
    /\ UNCHANGED <<clock, expiresAt, owner, history>>

\* Some were deleted before the one that is gone.
KeyError(t) ==
    LET r == thread[t] IN
    /\ \/ /\ Doing(t, "expire")
          /\ ~(r.drop \subseteq Here(expiresAt))
          /\ \E S \in SUBSET (r.drop \intersect Here(expiresAt)) :
               expiresAt' = Without(expiresAt, S)
          /\ UNCHANGED consumedAt
       \/ /\ Doing(t, "forget")
          /\ ~(r.drop \subseteq Here(consumedAt))
          /\ \E S \in SUBSET (r.drop \intersect Here(consumedAt)) :
               consumedAt' = Without(consumedAt, S)
          /\ UNCHANGED expiresAt
       \/ /\ Doing(t, "consume")
          /\ thread[t].cid \notin Here(expiresAt)
          /\ UNCHANGED dicts
    /\ Ends(t)
    /\ UNCHANGED <<clock, owner, history>>

-----------------------------------------------------------------------------
(***************************************************************************)
(* create_challenge and validate_and_consume, after the clean-up           *)
(***************************************************************************)

CreateChallenge(t) ==
    LET r == thread[t] IN
    /\ Doing(t, "get") /\ owner[r.cid] = Nobody
    /\ owner' = [owner EXCEPT ![r.cid] = r.who]
    /\ expiresAt' = [expiresAt EXCEPT ![r.cid] = clock + TTL]
    /\ Ends(t)
    /\ UNCHANGED <<clock, consumedAt, history>>

\* The thread keeps the entry it finds, even if that is deleted now.
Get(t) ==
    LET r == thread[t] IN
    /\ Doing(t, "get") /\ owner[r.cid] # Nobody
    /\ Goes(t, IF r.cid \notin Here(expiresAt) THEN "recent"
               ELSE IF r.who # owner[r.cid] THEN "refused" ELSE "check")
    /\ UNCHANGED <<clock, dicts, owner, history>>

\* Not there: was it consumed just now, by the same person?
GetRecent(t) ==
    LET r == thread[t] IN
    /\ Doing(t, "recent")
    /\ Goes(t, IF r.cid \in Here(consumedAt) /\ r.who = owner[r.cid]
               THEN "again" ELSE "refused")
    /\ UNCHANGED <<clock, dicts, owner, history>>

\* The expiry is compared with the time now.
Check(t) ==
    LET c == thread[t].cid IN
    /\ Doing(t, "check")
    /\ Goes(t, IF c \in Here(expiresAt) /\ clock > expiresAt[c]
               THEN "late" ELSE "consume")
    /\ UNCHANGED <<clock, dicts, owner, history>>

\* Expired after the clean-up: it is deleted, if it is still there.
DropLate(t) ==
    /\ Doing(t, "late")
    /\ expiresAt' = Without(expiresAt, {thread[t].cid})
    /\ Ends(t)
    /\ UNCHANGED <<clock, consumedAt, owner, history>>

\* Mutant: deleting what is gone is not an error.
ConsumePop(t) ==
    LET c == thread[t].cid IN
    /\ Doing(t, "consume")
    /\ expiresAt' = Without(expiresAt, {c})
    /\ firsts' = [firsts EXCEPT ![c] = @ + 1]
    /\ Goes(t, "remember")
    /\ UNCHANGED <<clock, consumedAt, owner, done>>

\* del _challenges[challenge_id]
Consume(t) ==
    LET c == thread[t].cid IN
    /\ Doing(t, "consume")
    /\ c \in Here(expiresAt)
    /\ expiresAt' = Without(expiresAt, {c})
    /\ firsts' = [firsts EXCEPT ![c] = @ + 1]
    /\ Goes(t, "remember")
    /\ UNCHANGED <<clock, consumedAt, owner, done>>

Remember(t) ==
    LET c == thread[t].cid IN
    /\ Doing(t, "remember")
    /\ consumedAt' = [consumedAt EXCEPT ![c] = clock]
    /\ done' = [done EXCEPT ![c] = clock]
    /\ Goes(t, "first")
    /\ UNCHANGED <<clock, expiresAt, owner, firsts>>

\* The request is over: accepted the first time or again, or refused.
Return(t) ==
    /\ thread[t].pc \in {"first", "again", "refused"}
    /\ Ends(t)
    /\ UNCHANGED <<clock, dicts, owner, history>>

Tick ==
    /\ clock < MaxClock
    /\ clock' = clock + 1
    /\ UNCHANGED <<dicts, owner, thread, history>>

Next ==
    \/ Tick
    \/ \E t \in Threads :
         \/ \E c \in Cids, p \in People : Begin(t, c, p)
         \/ CreateChallenge(t) \/ Expire(t) \/ Forget(t) \/ KeyError(t) \/ Get(t) \/ GetRecent(t)
         \/ Check(t) \/ DropLate(t) \/ Consume(t) \/ Remember(t) \/ Return(t)

Spec == Init /\ [][Next]_vars

-----------------------------------------------------------------------------
(***************************************************************************)
(* Properties                                                              *)
(***************************************************************************)

Thread ==
    [pc : {"idle", "expire", "forget", "get", "recent", "check", "late",
           "consume", "remember", "first", "again", "refused"},
     cid : Cids \union {NoCid}, who : People \union {Nobody}, now : Nat,
     drop : SUBSET Cids]

\* Times are times of the clock; a request under way has a challenge, a
\* person, and a time that is not in the future.
TypeOK ==
    /\ clock \in 0..MaxClock
    /\ expiresAt \in [Cids -> Nat]
    /\ consumedAt \in [Cids -> Nat]
    /\ owner \in [Cids -> People \union {Nobody}]
    /\ thread \in [Threads -> Thread]
    /\ \A t \in Threads :
         /\ thread[t].now <= clock
         /\ ~Doing(t, "idle") => thread[t].cid \in Cids /\ thread[t].who \in People
    /\ done \in [Cids -> Nat]
    /\ firsts \in [Cids -> Nat]

\* However many requests present a challenge at once, one consumes it.
ConsumedOnce == \A c \in Cids : firsts[c] <= 1

\* Once consumed, a challenge is accepted again from the same person for the
\* grace time, and never for a request that came after it.
GraceIsKept ==
    [][\A t \in Threads :
         LET c == thread[t].cid IN
         GetRecent(t) /\ thread[t].who = owner[c] /\ done[c] # Absent =>
           /\ clock <= done[c] + Grace => thread'[t].pc = "again"
           /\ thread[t].now > done[c] + Grace => thread'[t].pc = "refused"]_vars
=============================================================================
