--------------------------- MODULE EntranceProofs ---------------------------
(***************************************************************************)
(* Proofs about FaceChallenge, for every number of people, challenges and  *)
(* threads and all times, and about RateLimiter, for all keys and limits.  *)
(***************************************************************************)
EXTENDS FaceChallenge, RateLimiter, FiniteSetTheorems, TLAPS

(***************************************************************************)
(* FaceChallenge: the inductive invariant                                  *)
(***************************************************************************)

\* A challenge that is there has an owner and has not been consumed, and one
\* without an owner has not been issued yet.
Unconsumed ==
    \A c \in Cids :
        /\ expiresAt[c] # Absent => owner[c] # Nobody /\ firsts[c] = 0
        /\ owner[c] = Nobody => firsts[c] = 0

\* What has been consumed is over once, and remembered at that time if at all.
Over ==
    \A c \in Cids :
        /\ done[c] # Absent => firsts[c] = 1 /\ done[c] <= clock
        /\ consumedAt[c] # Absent => consumedAt[c] = done[c]

\* A thread between the two halves of a consumption is the only one.
Remembering ==
    \A t \in Threads : Doing(t, "remember") =>
        /\ firsts[thread[t].cid] = 1
        /\ done[thread[t].cid] = Absent
        /\ \A u \in Threads :
             Doing(u, "remember") /\ thread[u].cid = thread[t].cid => u = t

\* c was over more than the grace time before now.
Past(c, now) == done[c] # Absent /\ now > done[c] + Grace

\* The clean-up forgets what is past, and nothing else.
Kept == \A c \in Cids : done[c] # Absent /\ clock <= done[c] + Grace
                          => consumedAt[c] = done[c]
Listed == \A t \in Threads : Doing(t, "forget") =>
              \A c \in thread[t].drop : Past(c, thread[t].now)
Swept ==
    \A t \in Threads, c \in Cids : Past(c, thread[t].now) =>
        /\ Doing(t, "forget") => c \in thread[t].drop \/ consumedAt[c] = Absent
        /\ thread[t].pc \in {"get", "recent"} => consumedAt[c] = Absent

Inv == /\ TypeOK /\ ConsumedOnce
       /\ Unconsumed /\ Over /\ Remembering /\ Kept /\ Listed /\ Swept

LEMMA AbsentIsLater == Absent \in Nat /\ MaxClock \in Nat /\ MaxClock < Absent
                       /\ Grace \in Nat /\ TTL \in Nat
BY TimesAssumption DEF Absent


LEMMA InitInv == Init => Inv
<1> SUFFICES ASSUME Init PROVE Inv
  OBVIOUS
<1> USE AbsentIsLater DEF Init
<1>1. TypeOK
  BY DEF TypeOK, Thread, NoCall, Doing
<1>2. ConsumedOnce /\ Unconsumed /\ Over /\ Kept
  BY DEF ConsumedOnce, Unconsumed, Over, Kept
<1>3. Remembering /\ Listed /\ Swept
  BY DEF Remembering, Listed, Swept, Doing, NoCall, Past
<1> QED
  BY <1>1, <1>2, <1>3 DEF Inv

LEMMA TickInv == Inv /\ Tick => Inv'
<1> SUFFICES ASSUME Inv, Tick PROVE Inv'
  OBVIOUS
<1> USE AbsentIsLater DEF Tick, dicts, history
<1>1. TypeOK'
  BY DEF Inv, TypeOK, Doing, Thread
<1>2. (ConsumedOnce /\ Unconsumed /\ Over /\ Kept)'
  BY DEF Inv, ConsumedOnce, Unconsumed, Over, Kept, TypeOK
<1>3. (Remembering /\ Listed /\ Swept)'
  BY DEF Inv, Remembering, Listed, Swept, Doing, Past
<1> QED
  BY <1>1, <1>2, <1>3 DEF Inv

LEMMA BeginInv ==
    ASSUME Inv, NEW t \in Threads, NEW c \in Cids, NEW p \in People, Begin(t, c, p)
    PROVE  Inv'
<1> USE AbsentIsLater DEF Begin, Doing, Goes, Ends, dicts, history, Expired, Here
<1>1. TypeOK'
  BY DEF Inv, TypeOK, Thread, NoCall
<1>2. (ConsumedOnce /\ Unconsumed)'
  BY DEF Inv, ConsumedOnce, Unconsumed, TypeOK, Thread
<1>3. Over'
  BY DEF Inv, Over, TypeOK, Thread, Remembering, ConsumedOnce, Unconsumed
<1>4. Remembering'
  BY DEF Inv, Remembering, TypeOK, Thread, NoCall, Unconsumed, Over
<1>5. Kept'
  BY DEF Inv, Kept, TypeOK, Thread, Listed, Past, Over
<1>6. Listed'
  BY DEF Inv, Listed, TypeOK, Thread, NoCall, Past, Over
<1>7. Swept'
  BY DEF Inv, Swept, TypeOK, Thread, NoCall, Past, Over
<1> QED
  BY <1>1, <1>2, <1>3, <1>4, <1>5, <1>6, <1>7 DEF Inv

LEMMA ExpireInv ==
    ASSUME Inv, NEW t \in Threads, Expire(t)
    PROVE  Inv'
<1> USE AbsentIsLater DEF Expire, Doing, Goes, Ends, dicts, history, Without, Forgotten, Here
<1>1. TypeOK'
  <2>1. thread[t] \in Thread /\ Forgotten(thread[t].now) \subseteq Cids
    BY DEF Inv, TypeOK
  <2>2. thread' \in [Threads -> Thread]
    BY <2>1 DEF Inv, TypeOK, Thread
  <2>3. expiresAt' \in [Cids -> Nat]
    BY DEF Inv, TypeOK
  <2> QED
    BY <2>2, <2>3 DEF Inv, TypeOK
<1>2. (ConsumedOnce /\ Unconsumed)'
  BY DEF Inv, ConsumedOnce, Unconsumed, TypeOK, Thread
<1>3. Over'
  BY DEF Inv, Over, TypeOK, Thread, Remembering, ConsumedOnce, Unconsumed
<1>4. Remembering'
  BY DEF Inv, Remembering, TypeOK, Thread, NoCall, Unconsumed, Over
<1>5. Kept'
  BY DEF Inv, Kept, TypeOK, Thread, Listed, Past, Over
<1>6. Listed'
  BY DEF Inv, Listed, TypeOK, Thread, NoCall, Past, Over
<1>7. Swept'
  BY DEF Inv, Swept, TypeOK, Thread, NoCall, Past, Over
<1> QED
  BY <1>1, <1>2, <1>3, <1>4, <1>5, <1>6, <1>7 DEF Inv

LEMMA ForgetInv ==
    ASSUME Inv, NEW t \in Threads, Forget(t)
    PROVE  Inv'
<1> USE AbsentIsLater DEF Forget, Doing, Goes, Ends, dicts, history, Without, Here
<1>1. TypeOK'
  <2>1. thread[t] \in Thread
    BY DEF Inv, TypeOK
  <2>2. [thread[t] EXCEPT !.pc = "get", !.drop = {}] \in Thread
    BY <2>1 DEF Thread
  <2>3. thread' = [thread EXCEPT ![t] = [thread[t] EXCEPT !.pc = "get", !.drop = {}]]
    BY <2>1 DEF Inv, TypeOK, Thread
  <2>4. thread' \in [Threads -> Thread]
    BY <2>2, <2>3 DEF Inv, TypeOK
  <2>5. consumedAt' \in [Cids -> Nat]
    BY DEF Inv, TypeOK
  <2>6. ASSUME NEW u \in Threads
        PROVE  /\ thread'[u].now = thread[u].now /\ thread'[u].cid = thread[u].cid
               /\ thread'[u].who = thread[u].who
               /\ thread'[u].pc # "idle" => thread[u].pc # "idle"
    BY <2>1, <2>3 DEF Inv, TypeOK, Thread
  <2> QED
    BY <2>4, <2>5, <2>6 DEF Inv, TypeOK
<1>2. (ConsumedOnce /\ Unconsumed)'
  BY DEF Inv, ConsumedOnce, Unconsumed, TypeOK, Thread
<1>3. Over'
  BY DEF Inv, Over, TypeOK, Thread, Remembering, ConsumedOnce, Unconsumed
<1>4. Remembering'
  BY DEF Inv, Remembering, TypeOK, Thread, NoCall, Unconsumed, Over
<1>5. Kept'
  BY DEF Inv, Kept, TypeOK, Thread, Listed, Past, Over
<1>6. Listed'
  BY DEF Inv, Listed, TypeOK, Thread, NoCall, Past, Over
<1>7. Swept'
  BY DEF Inv, Swept, TypeOK, Thread, NoCall, Past, Over
<1> QED
  BY <1>1, <1>2, <1>3, <1>4, <1>5, <1>6, <1>7 DEF Inv

LEMMA KeyErrorInv ==
    ASSUME Inv, NEW t \in Threads, KeyError(t)
    PROVE  Inv'
<1> USE AbsentIsLater DEF KeyError, Doing, Goes, Ends, dicts, history, Without, Here
<1>1. TypeOK'
  BY DEF Inv, TypeOK, Thread, NoCall
<1>2. (ConsumedOnce /\ Unconsumed)'
  BY DEF Inv, ConsumedOnce, Unconsumed, TypeOK, Thread
<1>3. Over'
  BY DEF Inv, Over, TypeOK, Thread, Remembering, ConsumedOnce, Unconsumed
<1>4. Remembering'
  BY DEF Inv, Remembering, TypeOK, Thread, NoCall, Unconsumed, Over
<1>5. Kept'
  BY DEF Inv, Kept, TypeOK, Thread, Listed, Past, Over
<1>6. Listed'
  BY DEF Inv, Listed, TypeOK, Thread, NoCall, Past, Over
<1>7. Swept'
  BY DEF Inv, Swept, TypeOK, Thread, NoCall, Past, Over
<1> QED
  BY <1>1, <1>2, <1>3, <1>4, <1>5, <1>6, <1>7 DEF Inv

LEMMA CreateChallengeInv ==
    ASSUME Inv, NEW t \in Threads, CreateChallenge(t)
    PROVE  Inv'
<1> USE AbsentIsLater DEF CreateChallenge, Doing, Goes, Ends, dicts, history, Here
<1>1. TypeOK'
  BY DEF Inv, TypeOK, Thread, NoCall
<1>2. (ConsumedOnce /\ Unconsumed)'
  BY NobodyAssumption DEF Inv, ConsumedOnce, Unconsumed, TypeOK, Thread
<1>3. Over'
  BY DEF Inv, Over, TypeOK, Thread, Remembering, ConsumedOnce, Unconsumed
<1>4. Remembering'
  BY DEF Inv, Remembering, TypeOK, Thread, NoCall, Unconsumed, Over
<1>5. Kept'
  BY DEF Inv, Kept, TypeOK, Thread, Listed, Past, Over
<1>6. Listed'
  BY DEF Inv, Listed, TypeOK, Thread, NoCall, Past, Over
<1>7. Swept'
  BY DEF Inv, Swept, TypeOK, Thread, NoCall, Past, Over
<1> QED
  BY <1>1, <1>2, <1>3, <1>4, <1>5, <1>6, <1>7 DEF Inv

LEMMA GetInv ==
    ASSUME Inv, NEW t \in Threads, Get(t)
    PROVE  Inv'
<1> USE AbsentIsLater DEF Get, Doing, Goes, Ends, dicts, history, Here
<1>1. TypeOK'
  BY DEF Inv, TypeOK, Thread, NoCall
<1>2. (ConsumedOnce /\ Unconsumed)'
  BY DEF Inv, ConsumedOnce, Unconsumed, TypeOK, Thread
<1>3. Over'
  BY DEF Inv, Over, TypeOK, Thread, Remembering, ConsumedOnce, Unconsumed
<1>4. Remembering'
  BY DEF Inv, Remembering, TypeOK, Thread, NoCall, Unconsumed, Over
<1>5. Kept'
  BY DEF Inv, Kept, TypeOK, Thread, Listed, Past, Over
<1>6. Listed'
  BY DEF Inv, Listed, TypeOK, Thread, NoCall, Past, Over
<1>7. Swept'
  BY DEF Inv, Swept, TypeOK, Thread, NoCall, Past, Over
<1> QED
  BY <1>1, <1>2, <1>3, <1>4, <1>5, <1>6, <1>7 DEF Inv

LEMMA GetRecentInv ==
    ASSUME Inv, NEW t \in Threads, GetRecent(t)
    PROVE  Inv'
<1> USE AbsentIsLater DEF GetRecent, Doing, Goes, Ends, dicts, history, Here
<1>1. TypeOK'
  BY DEF Inv, TypeOK, Thread, NoCall
<1>2. (ConsumedOnce /\ Unconsumed)'
  BY DEF Inv, ConsumedOnce, Unconsumed, TypeOK, Thread
<1>3. Over'
  BY DEF Inv, Over, TypeOK, Thread, Remembering, ConsumedOnce, Unconsumed
<1>4. Remembering'
  BY DEF Inv, Remembering, TypeOK, Thread, NoCall, Unconsumed, Over
<1>5. Kept'
  BY DEF Inv, Kept, TypeOK, Thread, Listed, Past, Over
<1>6. Listed'
  BY DEF Inv, Listed, TypeOK, Thread, NoCall, Past, Over
<1>7. Swept'
  BY DEF Inv, Swept, TypeOK, Thread, NoCall, Past, Over
<1> QED
  BY <1>1, <1>2, <1>3, <1>4, <1>5, <1>6, <1>7 DEF Inv

LEMMA CheckInv ==
    ASSUME Inv, NEW t \in Threads, Check(t)
    PROVE  Inv'
<1> USE AbsentIsLater DEF Check, Doing, Goes, Ends, dicts, history, Here
<1>1. TypeOK'
  <2>1. thread[t] \in Thread
    BY DEF Inv, TypeOK
  <2>2. PICK pc \in {"late", "consume"} : thread' = [thread EXCEPT ![t].pc = pc]
    BY Zenon
  <2>3. [thread[t] EXCEPT !.pc = pc] \in Thread
    BY <2>1 DEF Thread
  <2>4. thread' = [thread EXCEPT ![t] = [thread[t] EXCEPT !.pc = pc]]
    BY <2>1, <2>2 DEF Inv, TypeOK, Thread
  <2>5. thread' \in [Threads -> Thread]
    BY <2>3, <2>4 DEF Inv, TypeOK
  <2>6. ASSUME NEW u \in Threads
        PROVE  /\ thread'[u].now = thread[u].now /\ thread'[u].cid = thread[u].cid
               /\ thread'[u].who = thread[u].who
               /\ thread'[u].pc # "idle" => thread[u].pc # "idle"
    BY <2>1, <2>4 DEF Inv, TypeOK, Thread
  <2> QED
    BY <2>5, <2>6 DEF Inv, TypeOK
<1>2. (ConsumedOnce /\ Unconsumed)'
  BY DEF Inv, ConsumedOnce, Unconsumed, TypeOK, Thread
<1>3. Over'
  BY DEF Inv, Over, TypeOK, Thread, Remembering, ConsumedOnce, Unconsumed
<1>4. Remembering'
  BY DEF Inv, Remembering, TypeOK, Thread, NoCall, Unconsumed, Over
<1>5. Kept'
  BY DEF Inv, Kept, TypeOK, Thread, Listed, Past, Over
<1>6. Listed'
  BY DEF Inv, Listed, TypeOK, Thread, NoCall, Past, Over
<1>7. Swept'
  BY DEF Inv, Swept, TypeOK, Thread, NoCall, Past, Over
<1> QED
  BY <1>1, <1>2, <1>3, <1>4, <1>5, <1>6, <1>7 DEF Inv

LEMMA DropLateInv ==
    ASSUME Inv, NEW t \in Threads, DropLate(t)
    PROVE  Inv'
<1> USE AbsentIsLater DEF DropLate, Doing, Goes, Ends, dicts, history, Without
<1>1. TypeOK'
  BY DEF Inv, TypeOK, Thread, NoCall
<1>2. (ConsumedOnce /\ Unconsumed)'
  BY DEF Inv, ConsumedOnce, Unconsumed, TypeOK, Thread
<1>3. Over'
  BY DEF Inv, Over, TypeOK, Thread, Remembering, ConsumedOnce, Unconsumed
<1>4. Remembering'
  BY DEF Inv, Remembering, TypeOK, Thread, NoCall, Unconsumed, Over
<1>5. Kept'
  BY DEF Inv, Kept, TypeOK, Thread, Listed, Past, Over
<1>6. Listed'
  BY DEF Inv, Listed, TypeOK, Thread, NoCall, Past, Over
<1>7. Swept'
  BY DEF Inv, Swept, TypeOK, Thread, NoCall, Past, Over
<1> QED
  BY <1>1, <1>2, <1>3, <1>4, <1>5, <1>6, <1>7 DEF Inv

LEMMA ConsumeInv ==
    ASSUME Inv, NEW t \in Threads, Consume(t)
    PROVE  Inv'
<1> USE AbsentIsLater DEF Consume, Doing, Goes, Ends, dicts, history, Without, Here
<1>1. TypeOK'
  BY DEF Inv, TypeOK, Thread, NoCall
<1>2. (ConsumedOnce /\ Unconsumed)'
  BY DEF Inv, ConsumedOnce, Unconsumed, TypeOK, Thread
<1>3. Over'
  BY DEF Inv, Over, TypeOK, Thread, Remembering, ConsumedOnce, Unconsumed
<1>4. Remembering'
  BY DEF Inv, Remembering, TypeOK, Thread, NoCall, Unconsumed, Over
<1>5. Kept'
  BY DEF Inv, Kept, TypeOK, Thread, Listed, Past, Over
<1>6. Listed'
  BY DEF Inv, Listed, TypeOK, Thread, NoCall, Past, Over
<1>7. Swept'
  BY DEF Inv, Swept, TypeOK, Thread, NoCall, Past, Over
<1> QED
  BY <1>1, <1>2, <1>3, <1>4, <1>5, <1>6, <1>7 DEF Inv

LEMMA RememberInv ==
    ASSUME Inv, NEW t \in Threads, Remember(t)
    PROVE  Inv'
<1> USE AbsentIsLater DEF Remember, Doing, Goes, Ends, dicts, history
<1>1. TypeOK'
  BY DEF Inv, TypeOK, Thread, NoCall
<1>2. (ConsumedOnce /\ Unconsumed)'
  BY DEF Inv, ConsumedOnce, Unconsumed, TypeOK, Thread
<1>3. Over'
  BY DEF Inv, Over, TypeOK, Thread, Remembering, ConsumedOnce, Unconsumed
<1>4. Remembering'
  BY DEF Inv, Remembering, TypeOK, Thread, NoCall, Unconsumed, Over
<1>5. Kept'
  BY DEF Inv, Kept, TypeOK, Thread, Listed, Past, Over
<1>6. Listed'
  BY DEF Inv, Listed, TypeOK, Thread, Past, Remembering
<1>7. Swept'
  BY DEF Inv, Swept, TypeOK, Thread, NoCall, Past, Over
<1> QED
  BY <1>1, <1>2, <1>3, <1>4, <1>5, <1>6, <1>7 DEF Inv

LEMMA ReturnInv ==
    ASSUME Inv, NEW t \in Threads, Return(t)
    PROVE  Inv'
<1> USE AbsentIsLater DEF Return, Doing, Goes, Ends, dicts, history
<1>1. TypeOK'
  BY DEF Inv, TypeOK, Thread, NoCall
<1>2. (ConsumedOnce /\ Unconsumed)'
  BY DEF Inv, ConsumedOnce, Unconsumed, TypeOK, Thread
<1>3. Over'
  BY DEF Inv, Over, TypeOK, Thread, Remembering, ConsumedOnce, Unconsumed
<1>4. Remembering'
  BY DEF Inv, Remembering, TypeOK, Thread, NoCall, Unconsumed, Over
<1>5. Kept'
  BY DEF Inv, Kept, TypeOK, Thread, Listed, Past, Over
<1>6. Listed'
  BY DEF Inv, Listed, TypeOK, Thread, NoCall, Past, Over
<1>7. Swept'
  BY DEF Inv, Swept, TypeOK, Thread, NoCall, Past, Over
<1> QED
  BY <1>1, <1>2, <1>3, <1>4, <1>5, <1>6, <1>7 DEF Inv

LEMMA NextInv == Inv /\ [Next]_vars => Inv'
<1> SUFFICES ASSUME Inv, [Next]_vars PROVE Inv'
  OBVIOUS
<1>1. CASE Tick
  BY <1>1, TickInv
<1>2. ASSUME NEW t \in Threads, NEW c \in Cids, NEW p \in People, Begin(t, c, p)
      PROVE  Inv'
  BY <1>2, BeginInv
<1>3. ASSUME NEW t \in Threads,
             Expire(t) \/ Forget(t) \/ KeyError(t) \/ CreateChallenge(t)
      PROVE  Inv'
  BY <1>3, ExpireInv, ForgetInv, KeyErrorInv, CreateChallengeInv
<1>4. ASSUME NEW t \in Threads,
             \/ Get(t) \/ GetRecent(t) \/ Check(t) \/ DropLate(t)
             \/ Consume(t) \/ Remember(t) \/ Return(t)
      PROVE  Inv'
  BY <1>4, GetInv, GetRecentInv, CheckInv, DropLateInv, ConsumeInv,
     RememberInv, ReturnInv
<1>5. CASE UNCHANGED vars
  BY <1>5 DEF vars, Inv, TypeOK, ConsumedOnce, Unconsumed, Over, Remembering,
     Kept, Listed, Swept, Past, Doing
<1> QED
  BY <1>1, <1>2, <1>3, <1>4, <1>5 DEF Next

-----------------------------------------------------------------------------
(***************************************************************************)
(* Theorems                                                                *)
(***************************************************************************)

LEMMA InvAlways == Spec => []Inv
BY InitInv, NextInv, PTL DEF Spec

\* Times and threads keep their types.
THEOREM TypeCorrect == Spec => []TypeOK
BY InvAlways, PTL DEF Inv

\* However many threads present a challenge at once, validate_and_consume()
\* consumes it for one of them.
THEOREM OneConsumption == Spec => []ConsumedOnce
BY InvAlways, PTL DEF Inv

\* A retry by the same person is accepted throughout the grace time, and
\* refused to every request that has come after it.
THEOREM GraceHolds == Spec => GraceIsKept
<1> DEFINE Retried(t) ==
      LET c == thread[t].cid IN
      GetRecent(t) /\ thread[t].who = owner[c] /\ done[c] # Absent =>
        /\ clock <= done[c] + Grace => thread'[t].pc = "again"
        /\ thread[t].now > done[c] + Grace => thread'[t].pc = "refused"
<1>1. ASSUME Inv, NEW t \in Threads PROVE Retried(t)
  <2> SUFFICES ASSUME GetRecent(t), done[thread[t].cid] # Absent,
                      thread[t].who = owner[thread[t].cid]
               PROVE  Retried(t)
    OBVIOUS
  <2> DEFINE c == thread[t].cid
  <2>1. Doing(t, "recent") /\ c \in Cids /\ thread \in [Threads -> Thread]
    BY <1>1 DEF Inv, TypeOK, GetRecent, Doing
  <2>2. thread'[t].pc = IF c \in Here(consumedAt) THEN "again" ELSE "refused"
    BY <2>1 DEF GetRecent, Goes, Thread
  <2>3. clock <= done[c] + Grace => c \in Here(consumedAt)
    BY <1>1, <2>1 DEF Inv, Kept, Here
  <2>4. thread[t].now > done[c] + Grace => c \notin Here(consumedAt)
    BY <1>1, <2>1 DEF Inv, Swept, Past, Doing, Here
  <2> QED
    BY <2>2, <2>3, <2>4
<1>2. Inv => \A t \in Threads : Retried(t)
  BY <1>1
<1> QED
  BY <1>2, InvAlways, PTL DEF GraceIsKept

(***************************************************************************)
(* RateLimiter: the inductive invariant                                    *)
(***************************************************************************)

Counter == [count : Nat \ {0}, resetAt : Nat]

\* The passes of a counter's window, which are those that lie less than a
\* window's length before its end.
InWindow(r, passes) == {p \in passes : p[1] + WindowMs >= r.resetAt}

\* What has been let through within the last window's length.
Passes(passes, now) ==
    /\ IsFiniteSet(passes) /\ passes \subseteq Nat \X Nat
    /\ \A p \in passes : p[1] <= now /\ p[1] + WindowMs >= now

\* The passes a counter stands for.  They are numbered, and until the window
\* is over it has missed none; those before it are of one earlier window.
Stands(max, r, passes, now) ==
    /\ r \in Counter /\ r.resetAt <= now + WindowMs
    /\ \A p \in passes : p[1] <= r.resetAt
    /\ \A p \in InWindow(r, passes) : p[2] <= r.count
    /\ Cardinality(InWindow(r, passes)) <= max
    /\ Cardinality(InWindow(r, passes)) <= r.count
    /\ now <= r.resetAt => \/ Cardinality(InWindow(r, passes)) >= max
                           \/ Cardinality(InWindow(r, passes)) >= r.count
    /\ Cardinality(passes \ InWindow(r, passes)) <= max

\* While there is no counter, the passes are as many as the limit says at most.
Tallied(max, r, passes, now) ==
    /\ Passes(passes, now)
    /\ \/ r = NoRecord /\ Cardinality(passes) <= max /\ \A p \in passes : p[1] < now
       \/ r # NoRecord /\ Stands(max, r, passes, now)

LimiterInv ==
    /\ records = [k \in Keys |-> records[k]] /\ passed = [k \in Keys |-> passed[k]]
    /\ milli \in Nat
    /\ \A k \in Keys : Tallied(Limit[k], records[k], passed[k], milli)

-----------------------------------------------------------------------------
(* What becomes of one counter *)

LEMMA NoRecordIsNone == NoRecord \notin Counter
BY DEF NoRecord, Counter

LEMMA WindowPasses ==
    ASSUME NEW r, NEW passes, IsFiniteSet(passes)
    PROVE  /\ IsFiniteSet(InWindow(r, passes)) /\ Cardinality(InWindow(r, passes)) \in Nat
           /\ Cardinality(passes) \in Nat
           /\ Cardinality(passes)
                = Cardinality(InWindow(r, passes)) + Cardinality(passes \ InWindow(r, passes))
<1>1. InWindow(r, passes) \in SUBSET passes
  BY DEF InWindow
<1>2. IsFiniteSet(InWindow(r, passes))
  BY <1>1, FS_Subset
<1>3. Cardinality(InWindow(r, passes)) \in Nat /\ Cardinality(passes) \in Nat
  BY <1>2, FS_CardinalityType
<1>4. passes \cap InWindow(r, passes) = InWindow(r, passes)
  BY <1>1
<1>5. Cardinality(passes \ InWindow(r, passes))
        = Cardinality(passes) - Cardinality(InWindow(r, passes))
  BY <1>4, FS_Difference
<1> QED
  BY <1>2, <1>3, <1>5

\* A counter whose window is over may as well be forgotten.
LEMMA OverTallied ==
    ASSUME NEW max \in Nat, NEW r, NEW passes, NEW now \in Nat,
           Tallied(max, r, passes, now), r = NoRecord \/ now > r.resetAt
    PROVE  Tallied(max, NoRecord, passes, now)
<1>1. CASE r = NoRecord
  BY <1>1
<1>2. CASE r # NoRecord
  <2>1. r \in Counter /\ now > r.resetAt /\ passes \subseteq Nat \X Nat
    BY <1>2 DEF Tallied, Passes, Stands
  <2>2. \A p \in passes : p[1] < now /\ p[1] + WindowMs >= r.resetAt
    BY <1>2, <2>1, LimiterAssumption DEF Tallied, Passes, Stands, Counter
  <2>3. InWindow(r, passes) = passes
    BY <2>2 DEF InWindow
  <2> QED
    BY <1>2, <2>2, <2>3 DEF Tallied, Passes, Stands
<1> QED
  BY <1>1, <1>2

\* The first request of a window, let through or - the limit is zero - not.
LEMMA WindowOpens ==
    ASSUME NEW max \in Nat, NEW passes, NEW now \in Nat, NEW new,
           Tallied(max, NoRecord, passes, now),
           \/ max >= 1 /\ new = passes \union {<<now, 1>>}
           \/ max = 0 /\ new = passes
    PROVE  Tallied(max, [count |-> 1, resetAt |-> now + WindowMs], new, now)
<1> DEFINE r == [count |-> 1, resetAt |-> now + WindowMs]
<1>1. r \in Counter /\ r # NoRecord /\ r.count = 1 /\ r.resetAt = now + WindowMs
  BY LimiterAssumption DEF Counter, NoRecord
<1>2. /\ IsFiniteSet(passes) /\ passes \subseteq Nat \X Nat
      /\ \A p \in passes : p[1] < now /\ p[1] + WindowMs >= now
      /\ Cardinality(passes) <= max
  BY DEF Tallied, Passes, Stands
<1>3. InWindow(r, passes) = {}
  BY <1>1, <1>2, LimiterAssumption DEF InWindow
<1> SUFFICES Tallied(max, r, new, now)
  BY DEF r
<1> HIDE DEF r
<1>4. /\ \A p \in passes : p[1] <= now /\ p[1] + WindowMs >= now
      /\ \A p \in passes : p[1] <= r.resetAt
      /\ r.resetAt <= now + WindowMs /\ now <= r.resetAt
  BY <1>1, <1>2, LimiterAssumption
<1>5. CASE max = 0 /\ new = passes
  <2>1. Cardinality(InWindow(r, new)) = 0 /\ new \ InWindow(r, new) = new
    BY <1>3, <1>5, FS_EmptySet
  <2>2. /\ Cardinality(InWindow(r, new)) <= max /\ Cardinality(InWindow(r, new)) <= r.count
        /\ Cardinality(InWindow(r, new)) >= max
    BY <1>1, <1>5, <2>1
  <2>3. Cardinality(new \ InWindow(r, new)) <= max
    BY <1>2, <1>5, <2>1
  <2>4. \A p \in InWindow(r, new) : p[2] <= r.count
    BY <1>3, <1>5
  <2>5. /\ IsFiniteSet(new) /\ new \subseteq Nat \X Nat
        /\ \A p \in new : p[1] <= now /\ p[1] + WindowMs >= now
        /\ \A p \in new : p[1] <= r.resetAt
    BY <1>2, <1>4, <1>5, Zenon
  <2> QED
    <3>1. Passes(new, now)
      BY <2>5 DEF Passes
    <3>2. Stands(max, r, new, now)
      BY <1>1, <1>4, <2>2, <2>3, <2>4, <2>5 DEF Stands
    <3> QED
      BY <1>1, <3>1, <3>2 DEF Tallied
<1>6. CASE max >= 1 /\ new = passes \union {<<now, 1>>}
  <2>1. InWindow(r, new) = {<<now, 1>>}
    <3>1. InWindow(r, new) = InWindow(r, passes) \union InWindow(r, {<<now, 1>>})
      BY <1>6 DEF InWindow
    <3>2. InWindow(r, {<<now, 1>>}) = {<<now, 1>>}
      BY <1>1, LimiterAssumption DEF InWindow
    <3> QED
      BY <1>3, <3>1, <3>2
  <2>2. Cardinality(InWindow(r, new)) = 1
    BY <2>1, FS_Singleton
  <2>3. new \ InWindow(r, new) = passes
    BY <1>2, <1>6, <2>1
  <2>4. IsFiniteSet(new)
    BY <1>2, <1>6, FS_AddElement
  <2>5. /\ new \subseteq Nat \X Nat
        /\ \A p \in new : p[1] <= now /\ p[1] + WindowMs >= now
        /\ \A p \in new : p[1] <= r.resetAt
    BY <1>2, <1>4, <1>6, LimiterAssumption
  <2>6. \A p \in InWindow(r, new) : p[2] <= r.count
    BY <1>1, <2>1
  <2>7. /\ Cardinality(InWindow(r, new)) <= max /\ Cardinality(InWindow(r, new)) <= r.count
        /\ Cardinality(InWindow(r, new)) >= r.count
    BY <1>1, <1>6, <2>2
  <2>8. Cardinality(new \ InWindow(r, new)) <= max
    BY <1>2, <2>3
  <2> QED
    <3>1. Passes(new, now)
      BY <2>4, <2>5 DEF Passes
    <3>2. Stands(max, r, new, now)
      BY <1>1, <1>4, <2>5, <2>6, <2>7, <2>8 DEF Stands
    <3> QED
      BY <1>1, <3>1, <3>2 DEF Tallied
<1> QED
  BY <1>5, <1>6

\* A further request of a window that is not over.
LEMMA WindowGoesOn ==
    ASSUME NEW max \in Nat, NEW r, NEW passes, NEW now \in Nat, NEW new,
           Tallied(max, r, passes, now), r # NoRecord, now <= r.resetAt,
           \/ r.count + 1 <= max /\ new = passes \union {<<now, r.count + 1>>}
           \/ r.count + 1 > max /\ new = passes
    PROVE  /\ Tallied(max, [r EXCEPT !.count = @ + 1], new, now)
           /\ r.count + 1 > max => Cardinality(passes) >= max
<1> DEFINE n == [r EXCEPT !.count = @ + 1]
<1>1. r \in Counter
  BY DEF Tallied, Passes, Stands
<1>2. n \in Counter /\ n # NoRecord /\ n.count = r.count + 1 /\ n.resetAt = r.resetAt
  BY <1>1 DEF Counter, NoRecord
<1> HIDE DEF n
<1>3. \A x : InWindow(n, x) = InWindow(r, x)
  BY <1>2 DEF InWindow
<1>4. r.count \in Nat /\ r.resetAt \in Nat
  BY <1>1 DEF Counter
<1>5. IsFiniteSet(passes) /\ passes \subseteq Nat \X Nat
  BY DEF Tallied, Passes, Stands
<1>6. /\ IsFiniteSet(InWindow(r, passes)) /\ Cardinality(InWindow(r, passes)) \in Nat
      /\ Cardinality(passes \ InWindow(r, passes)) \in Nat
      /\ Cardinality(passes)
           = Cardinality(InWindow(r, passes)) + Cardinality(passes \ InWindow(r, passes))
  <2>1. IsFiniteSet(passes \ InWindow(r, passes))
    BY <1>5, FS_Difference
  <2> QED
    BY <1>5, <2>1, WindowPasses, FS_CardinalityType
<1>7. CASE r.count + 1 > max /\ new = passes
  <2>1. Cardinality(InWindow(r, passes)) >= max
    BY <1>2, <1>4, <1>6, <1>7 DEF Tallied, Passes, Stands
  <2>2. Cardinality(passes) >= max
    BY <1>6, <2>1
  <2>3. /\ Cardinality(InWindow(n, new)) <= max /\ Cardinality(InWindow(n, new)) <= n.count
        /\ Cardinality(InWindow(n, new)) >= max
        /\ Cardinality(new \ InWindow(n, new)) <= max
    <3>1. Cardinality(InWindow(r, passes)) <= max /\ Cardinality(InWindow(r, passes)) <= r.count
      BY DEF Tallied, Passes, Stands
    <3>2. Cardinality(InWindow(r, passes)) <= n.count
      BY <1>2, <1>4, <1>6, <3>1
    <3>3. Cardinality(passes \ InWindow(r, passes)) <= max
      BY DEF Tallied, Passes, Stands
    <3> QED
      BY <1>3, <1>7, <2>1, <3>1, <3>2, <3>3
  <2>4. \A p \in InWindow(n, new) : p[2] <= n.count
    <3>1. \A p \in InWindow(r, passes) : p \in Nat \X Nat /\ p[2] <= r.count
      BY <1>5 DEF Tallied, Passes, Stands, InWindow
    <3> QED
      BY <1>2, <1>3, <1>4, <1>7, <3>1
  <2>5. /\ IsFiniteSet(new) /\ new \subseteq Nat \X Nat
        /\ \A p \in new : p[1] <= now /\ p[1] + WindowMs >= now
        /\ \A p \in new : p[1] <= n.resetAt
        /\ n.resetAt <= now + WindowMs
    BY <1>2, <1>7 DEF Tallied, Passes, Stands
  <2>6. Tallied(max, n, new, now)
    <3>1. Passes(new, now)
      BY <2>5 DEF Passes
    <3>2. Stands(max, n, new, now)
      BY <1>2, <2>3, <2>4, <2>5 DEF Stands
    <3> QED
      BY <1>2, <3>1, <3>2 DEF Tallied
  <2> QED
    BY <2>2, <2>6 DEF n
<1>8. CASE r.count + 1 <= max /\ new = passes \union {<<now, r.count + 1>>}
  <2>1. InWindow(r, new) = InWindow(r, passes) \union {<<now, r.count + 1>>}
    <3>1. InWindow(r, new) = InWindow(r, passes) \union InWindow(r, {<<now, r.count + 1>>})
      BY <1>8 DEF InWindow
    <3>2. now + WindowMs >= r.resetAt
      BY DEF Tallied, Passes, Stands
    <3>3. InWindow(r, {<<now, r.count + 1>>}) = {<<now, r.count + 1>>}
      BY <3>2 DEF InWindow
    <3> QED
      BY <3>1, <3>3
  <2>2. <<now, r.count + 1>> \notin InWindow(r, passes)
    BY <1>4 DEF Tallied, Passes, Stands
  <2>3. Cardinality(InWindow(r, new)) = Cardinality(InWindow(r, passes)) + 1
    <3>1. IsFiniteSet(InWindow(r, passes))
      BY <1>6
    <3> QED
      BY <2>1, <2>2, <3>1, FS_AddElement
  <2>4. new \ InWindow(r, new) = passes \ InWindow(r, passes)
    BY <1>4, <1>8, <2>1, LimiterAssumption DEF InWindow
  <2>5. IsFiniteSet(new)
    BY <1>5, <1>8, FS_AddElement
  <2>6. /\ new \subseteq Nat \X Nat
        /\ \A p \in new : p[1] <= now /\ p[1] + WindowMs >= now /\ p[1] <= r.resetAt
    BY <1>4, <1>5, <1>8, LimiterAssumption DEF Tallied, Passes, Stands
  <2>7. \A p \in InWindow(r, new) : p[2] <= r.count + 1
    <3>1. \A p \in InWindow(r, passes) : p \in Nat \X Nat /\ p[2] <= r.count
      BY <1>5 DEF Tallied, Passes, Stands, InWindow
    <3> QED
      BY <1>4, <2>1, <3>1
  <2>8. /\ Cardinality(InWindow(r, passes)) <= r.count /\ r.count < max
        /\ Cardinality(InWindow(r, passes)) >= max \/ Cardinality(InWindow(r, passes)) >= r.count
        /\ Cardinality(passes \ InWindow(r, passes)) <= max
    <3>1. r.count < max
      BY <1>4, <1>8
    <3> QED
      BY <3>1 DEF Tallied, Passes, Stands
  <2>9. /\ Cardinality(InWindow(r, new)) <= max /\ Cardinality(InWindow(r, new)) <= r.count + 1
        /\ Cardinality(InWindow(r, new)) >= r.count + 1
    BY <1>4, <1>6, <2>3, <2>8
  <2>10. Cardinality(new \ InWindow(r, new)) <= max
    BY <2>4, <2>8
  <2>11. n.resetAt <= now + WindowMs
    BY <1>2 DEF Tallied, Passes, Stands
  <2>12. Tallied(max, n, new, now)
    <3>1. Passes(new, now)
      BY <2>5, <2>6 DEF Passes
    <3>2. Stands(max, n, new, now)
      BY <1>2, <1>3, <2>6, <2>7, <2>9, <2>10, <2>11 DEF Stands
    <3> QED
      BY <1>2, <3>1, <3>2 DEF Tallied
  <2> QED
    BY <1>4, <1>8, <2>12 DEF n
<1> QED
  BY <1>7, <1>8

\* Time passes: passes fall out of sight, but none of a window not over.
LEMMA TimeTallied ==
    ASSUME NEW max \in Nat, NEW r, NEW passes, NEW now \in Nat, Tallied(max, r, passes, now)
    PROVE  Tallied(max, r, Recent(passes, now + 1), now + 1)
<1> DEFINE new == Recent(passes, now + 1)
<1>1. new \in SUBSET passes /\ \A p \in new : p[1] + WindowMs >= now + 1
  BY DEF Recent
<1>2. /\ IsFiniteSet(passes) /\ passes \subseteq Nat \X Nat
      /\ \A p \in passes : p[1] <= now
  BY DEF Tallied, Passes, Stands
<1>3. /\ IsFiniteSet(new) /\ new \subseteq Nat \X Nat /\ Cardinality(new) \in Nat
      /\ Cardinality(new) <= Cardinality(passes)
  BY <1>1, <1>2, FS_Subset, FS_CardinalityType
<1>4. \A p \in new : p[1] < now + 1
  BY <1>1, <1>2
<1>5. CASE r = NoRecord
  <2>1. Cardinality(passes) <= max /\ Cardinality(passes) \in Nat
    BY <1>2, <1>5, FS_CardinalityType DEF Tallied, Passes, Stands
  <2> QED
    BY <1>1, <1>3, <1>4, <1>5, <2>1 DEF Tallied, Passes, Stands
<1>6. CASE r # NoRecord
  <2>1. r.count \in Nat /\ r.resetAt \in Nat /\ r \in Counter
    BY <1>6 DEF Tallied, Passes, Stands, Counter
  <2>2. InWindow(r, new) \in SUBSET InWindow(r, passes)
    BY <1>1 DEF InWindow
  <2>3. new \ InWindow(r, new) \in SUBSET (passes \ InWindow(r, passes))
    BY <1>1 DEF InWindow
  <2>4. IsFiniteSet(InWindow(r, passes)) /\ IsFiniteSet(passes \ InWindow(r, passes))
    BY <1>2, WindowPasses, FS_Difference
  <2>5. /\ Cardinality(InWindow(r, passes)) \in Nat /\ Cardinality(InWindow(r, new)) \in Nat
        /\ Cardinality(InWindow(r, new)) <= Cardinality(InWindow(r, passes))
    BY <2>2, <2>4, FS_Subset, FS_CardinalityType
  <2>6. /\ Cardinality(passes \ InWindow(r, passes)) \in Nat
        /\ Cardinality(new \ InWindow(r, new)) \in Nat
        /\ Cardinality(new \ InWindow(r, new)) <= Cardinality(passes \ InWindow(r, passes))
    BY <2>3, <2>4, FS_Subset, FS_CardinalityType
  <2>7. now + 1 <= r.resetAt => InWindow(r, new) = InWindow(r, passes)
    BY <1>2, <2>1, LimiterAssumption DEF InWindow, Recent
  <2>8. now + 1 <= r.resetAt => \/ Cardinality(InWindow(r, new)) >= max
                                \/ Cardinality(InWindow(r, new)) >= r.count
    BY <1>6, <2>1, <2>7 DEF Tallied, Passes, Stands
  <2>9. \A p \in InWindow(r, new) : p[2] <= r.count
    BY <1>6, <2>2 DEF Tallied, Passes, Stands
  <2>10. \A p \in new : p[1] <= r.resetAt
    BY <1>1, <1>6 DEF Tallied, Passes, Stands
  <2>11. Cardinality(InWindow(r, new)) <= max /\ Cardinality(InWindow(r, new)) <= r.count
    BY <1>6, <2>1, <2>5 DEF Tallied, Passes, Stands
  <2>12. Cardinality(new \ InWindow(r, new)) <= max
    BY <1>6, <2>6 DEF Tallied, Passes, Stands
  <2>13. r.resetAt <= now + 1 + WindowMs
    BY <1>6, <2>1, LimiterAssumption DEF Tallied, Passes, Stands
  <2>14. \A p \in new : p[1] <= now + 1
    BY <1>1, <1>2
  <2> SUFFICES Tallied(max, r, new, now + 1)
    OBVIOUS
  <2> HIDE DEF new
  <2> QED
    <3>1. Passes(new, now + 1)
      BY <1>1, <1>3, <2>14 DEF Passes
    <3>2. Stands(max, r, new, now + 1)
      BY <2>1, <2>8, <2>9, <2>10, <2>11, <2>12, <2>13 DEF Stands
    <3> QED
      BY <1>6, <3>1, <3>2 DEF Tallied
<1> QED
  BY <1>5, <1>6

\* The passes of two windows are all there are within one window's length.
LEMMA TwiceTheLimit ==
    ASSUME NEW max \in Nat, NEW r, NEW passes, NEW now \in Nat, Tallied(max, r, passes, now)
    PROVE  Cardinality(passes) <= 2 * max
<1>1. IsFiniteSet(passes) /\ Cardinality(passes) \in Nat
  BY FS_CardinalityType DEF Tallied, Passes, Stands
<1>2. CASE r = NoRecord
  BY <1>1, <1>2 DEF Tallied, Passes, Stands
<1>3. CASE r # NoRecord
  <2>1. /\ Cardinality(passes)
             = Cardinality(InWindow(r, passes)) + Cardinality(passes \ InWindow(r, passes))
        /\ Cardinality(InWindow(r, passes)) \in Nat
        /\ Cardinality(passes \ InWindow(r, passes)) \in Nat
    BY <1>1, WindowPasses, FS_Difference, FS_CardinalityType
  <2>2. /\ Cardinality(InWindow(r, passes)) <= max
        /\ Cardinality(passes \ InWindow(r, passes)) <= max
    BY <1>3 DEF Tallied, Passes, Stands
  <2> QED
    BY <2>1, <2>2
<1> QED
  BY <1>2, <1>3

-----------------------------------------------------------------------------
(* What the requests do *)

\* A request counts on, or opens a window.
LEMMA CountedTallied ==
    ASSUME LimiterInv, NEW k \in Keys, NEW new,
           \/ /\ Counted(k).count <= Limit[k]
              /\ new = passed[k] \union {<<milli, Counted(k).count>>}
           \/ Counted(k).count > Limit[k] /\ new = passed[k]
    PROVE  /\ Tallied(Limit[k], Counted(k), new, milli)
           /\ Counted(k).count > Limit[k] => Cardinality(passed[k]) >= Limit[k]
<1>1. Limit[k] \in Nat /\ milli \in Nat /\ Tallied(Limit[k], records[k], passed[k], milli)
  BY LimiterAssumption DEF LimiterInv
<1>2. CASE records[k] = NoRecord \/ milli > records[k].resetAt
  <2>1. Counted(k) = [count |-> 1, resetAt |-> milli + WindowMs]
    BY <1>2 DEF Counted
  <2>2. Tallied(Limit[k], NoRecord, passed[k], milli)
    BY <1>1, <1>2, OverTallied
  <2>3. IsFiniteSet(passed[k]) /\ Cardinality(passed[k]) \in Nat
    BY <1>1, FS_CardinalityType DEF Tallied, Passes, Stands
  <2>4. \/ Limit[k] >= 1 /\ new = passed[k] \union {<<milli, 1>>}
        \/ Limit[k] = 0 /\ new = passed[k]
    BY <1>1, <2>1
  <2>5. Tallied(Limit[k], [count |-> 1, resetAt |-> milli + WindowMs], new, milli)
    BY <1>1, <2>2, <2>4, WindowOpens
  <2>6. Counted(k).count > Limit[k] => Limit[k] = 0
    BY <1>1, <2>1
  <2> QED
    BY <1>1, <2>1, <2>3, <2>5, <2>6
<1>3. CASE records[k] # NoRecord /\ ~(milli > records[k].resetAt)
  <2>1. records[k] \in Counter
    BY <1>1, <1>3 DEF Tallied, Passes, Stands
  <2>2. /\ Counted(k) = [records[k] EXCEPT !.count = @ + 1]
        /\ Counted(k).count = records[k].count + 1
        /\ milli <= records[k].resetAt
    BY <1>1, <1>3, <2>1 DEF Counted, Counter
  <2> QED
    <3>1. \/ records[k].count + 1 <= Limit[k]
             /\ new = passed[k] \union {<<milli, records[k].count + 1>>}
          \/ records[k].count + 1 > Limit[k] /\ new = passed[k]
      BY <2>2
    <3>2. /\ Tallied(Limit[k], [records[k] EXCEPT !.count = @ + 1], new, milli)
          /\ records[k].count + 1 > Limit[k] => Cardinality(passed[k]) >= Limit[k]
      BY <1>1, <1>3, <2>2, <3>1, WindowGoesOn
    <3> QED
      BY <2>2, <3>2
<1> QED
  BY <1>2, <1>3

\* The clean-up forgets windows that are over.
LEMMA CleanedTallied ==
    ASSUME milli \in Nat, NEW rs, rs = [k \in Keys |-> rs[k]], NEW ps,
           \A k \in Keys : Tallied(Limit[k], rs[k], ps[k], milli)
    PROVE  /\ Cleaned(rs) = [k \in Keys |-> Cleaned(rs)[k]]
           /\ \A k \in Keys : Tallied(Limit[k], Cleaned(rs)[k], ps[k], milli)
<1>1. Cleaned(rs) = [k \in Keys |-> Cleaned(rs)[k]]
  BY Zenon DEF Cleaned
<1>2. \A k \in Keys : Cleaned(rs)[k] = rs[k] \/ (Cleaned(rs)[k] = NoRecord /\ milli > rs[k].resetAt)
  BY DEF Cleaned, Dropped
<1>3. ASSUME NEW k \in Keys PROVE Tallied(Limit[k], Cleaned(rs)[k], ps[k], milli)
  <2>1. Limit[k] \in Nat
    BY LimiterAssumption
  <2>2. CASE Cleaned(rs)[k] = rs[k]
    BY <2>2
  <2>3. CASE Cleaned(rs)[k] = NoRecord /\ milli > rs[k].resetAt
    BY <2>1, <2>3, OverTallied
  <2> QED
    BY <1>2, <2>2, <2>3
<1> QED
  BY <1>1, <1>3

LEMMA LetThroughKeeps == ASSUME LimiterInv, NEW k \in Keys, LetThrough(k) PROVE LimiterInv'
<1> DEFINE rs == [records EXCEPT ![k] = Counted(k)]
           new == passed[k] \union {<<milli, Counted(k).count>>}
<1>1. /\ records' = Cleaned(rs) /\ milli' = milli /\ milli \in Nat
      /\ passed' = [passed EXCEPT ![k] = new] /\ Counted(k).count <= Limit[k]
  BY DEF LetThrough, LimiterInv
<1>2. /\ rs = [j \in Keys |-> rs[j]] /\ passed' = [j \in Keys |-> passed'[j]]
      /\ \A j \in Keys : /\ rs[j] = IF j = k THEN Counted(k) ELSE records[j]
                         /\ passed'[j] = IF j = k THEN new ELSE passed[j]
  BY <1>1 DEF LimiterInv
<1>3. Tallied(Limit[k], Counted(k), new, milli)
  BY <1>1, CountedTallied
<1> HIDE DEF rs, new
<1>4. \A j \in Keys : Tallied(Limit[j], rs[j], passed'[j], milli)
  BY <1>2, <1>3 DEF LimiterInv
<1>5. \A j \in Keys : Tallied(Limit[j], Cleaned(rs)[j], passed'[j], milli)
  BY <1>1, <1>2, <1>4, CleanedTallied
<1>6. Cleaned(rs) = [j \in Keys |-> Cleaned(rs)[j]]
  BY <1>1, <1>2, <1>4, CleanedTallied
<1> QED
  BY <1>1, <1>2, <1>5, <1>6 DEF LimiterInv

LEMMA RefusedKeeps ==
    ASSUME LimiterInv, NEW k \in Keys, TooManyRequests(k)
    PROVE  LimiterInv' /\ Lately(k) >= Limit[k]
<1>1. /\ records' = [records EXCEPT ![k] = Counted(k)] /\ milli' = milli /\ passed' = passed
      /\ Counted(k).count > Limit[k]
  BY LimiterAssumption DEF TooManyRequests
<1>2. /\ Tallied(Limit[k], Counted(k), passed[k], milli)
      /\ Cardinality(passed[k]) >= Limit[k]
  BY <1>1, CountedTallied
<1>3. /\ records' = [j \in Keys |-> records'[j]]
      /\ \A j \in Keys : records'[j] = IF j = k THEN Counted(k) ELSE records[j]
  BY <1>1 DEF LimiterInv
<1>4. LimiterInv'
  BY <1>1, <1>2, <1>3 DEF LimiterInv
<1> QED
  BY <1>2, <1>4 DEF Lately

LEMMA LimiterKeeps == LimiterInv /\ [LimiterNext]_limiterVars => LimiterInv'
<1> SUFFICES ASSUME LimiterInv, [LimiterNext]_limiterVars PROVE LimiterInv'
  OBVIOUS
<1>1. CASE MilliPasses
  <2>1. /\ records' = records /\ milli' = milli + 1
        /\ passed' = [k \in Keys |-> Recent(passed[k], milli + 1)]
    BY <1>1 DEF MilliPasses
  <2>2. \A k \in Keys : Tallied(Limit[k], records[k], Recent(passed[k], milli + 1), milli + 1)
    BY TimeTallied, LimiterAssumption DEF LimiterInv
  <2>3. milli + 1 \in Nat
    BY DEF LimiterInv
  <2> QED
    BY <2>1, <2>2, <2>3 DEF LimiterInv
<1>2. CASE Unlimited
  <2>1. records' = Cleaned(records) /\ milli' = milli /\ passed' = passed
    BY <1>2 DEF Unlimited
  <2>2. /\ Cleaned(records) = [k \in Keys |-> Cleaned(records)[k]]
        /\ \A k \in Keys : Tallied(Limit[k], Cleaned(records)[k], passed[k], milli)
    BY CleanedTallied DEF LimiterInv
  <2> QED
    BY <2>1, <2>2 DEF LimiterInv
<1>3. ASSUME NEW k \in Keys, LetThrough(k) \/ TooManyRequests(k) PROVE LimiterInv'
  BY <1>3, LetThroughKeeps, RefusedKeeps
<1>4. CASE UNCHANGED limiterVars
  BY <1>4 DEF limiterVars, LimiterInv
<1> QED
  BY <1>1, <1>2, <1>3, <1>4 DEF LimiterNext

LEMMA LimiterStarts == LimiterInit => LimiterInv
<1> SUFFICES ASSUME LimiterInit PROVE LimiterInv
  OBVIOUS
<1>1. \A k \in Keys : records[k] = NoRecord /\ passed[k] = {} /\ Limit[k] \in Nat
  BY LimiterAssumption DEF LimiterInit
<1>2. \A k \in Keys : Tallied(Limit[k], records[k], passed[k], 0)
  BY <1>1, FS_EmptySet DEF Tallied, Passes
<1> QED
  BY <1>2 DEF LimiterInit, LimiterInv

\* Within one window's length nobody gets through more than twice as often as
\* the limit says, whatever the clean-up drops, and nobody is refused who has
\* not been let through as often as that: for all keys, limits and lengths.
THEOREM LimitHolds == LimiterSpec => LimitIsKept
<1>1. LimiterInv /\ LimiterInv' /\ [LimiterNext]_limiterVars =>
          [\A k \in Keys : /\ Lately(k)' <= 2 * Limit[k]
                           /\ TooManyRequests(k) => Lately(k) >= Limit[k]]_limiterVars
  <2> SUFFICES ASSUME LimiterInv, LimiterInv', NEW k \in Keys
               PROVE  /\ Lately(k)' <= 2 * Limit[k]
                      /\ TooManyRequests(k) => Lately(k) >= Limit[k]
    OBVIOUS
  <2>1. Limit[k] \in Nat /\ milli' \in Nat /\ Tallied(Limit[k], records'[k], passed'[k], milli')
    BY LimiterAssumption DEF LimiterInv
  <2>2. Cardinality(passed'[k]) <= 2 * Limit[k]
    BY <2>1, TwiceTheLimit
  <2> QED
    BY <2>2, RefusedKeeps DEF Lately
<1> QED
  BY <1>1, LimiterStarts, LimiterKeeps, PTL DEF LimiterSpec, LimitIsKept
=============================================================================
