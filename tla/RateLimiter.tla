----------------------------- MODULE RateLimiter -----------------------------
(***************************************************************************)
(* The api-gateway's limit on sign-ins per address and face verifications  *)
(* per employee: a counter per key, in memory.  The middleware runs to its *)
(* end without an await, so a request is one step.  A gateway that is      *)
(* started anew has forgotten everything.                                  *)
(*                                                                         *)
(* records[k]  the counter of key k, or NoRecord                           *)
(* milli       Date.now()                                                  *)
(* passed[k]   history: the requests let through within the last window's  *)
(*             length, by their time and number                            *)
(***************************************************************************)
EXTENDS Naturals, FiniteSets

CONSTANTS Keys, Limit, WindowMs,
          MaxRecords,           \* counters beyond which expired ones are dropped
          MaxMilli, MaxCount    \* bounds: the clock, and requests in a window

ASSUME LimiterAssumption == Limit \in [Keys -> Nat] /\ WindowMs \in Nat

VARIABLES records, milli, passed

limiterVars == <<records, milli, passed>>

NoRecord == [count |-> 0, resetAt |-> 0]

LimiterInit ==
    /\ records = [k \in Keys |-> NoRecord]
    /\ milli = 0
    /\ passed = [k \in Keys |-> {}]

\* The counter with this request: a new window, or one more in the old one.
Counted(k) ==
    IF records[k] = NoRecord \/ milli > records[k].resetAt
    THEN [count |-> 1, resetAt |-> milli + WindowMs]
    ELSE [records[k] EXCEPT !.count = @ + 1]

\* Mutant: a window is dropped in its last millisecond.
DroppedEarly(r) == {k \in Keys : milli >= r[k].resetAt}

Dropped(r) == {k \in Keys : milli > r[k].resetAt}

\* The clean-up when there are too many counters.
Cleaned(r) ==
    IF Cardinality({k \in Keys : r[k] # NoRecord}) > MaxRecords
    THEN [k \in Keys |-> IF k \in Dropped(r) THEN NoRecord ELSE r[k]]
    ELSE r

LetThrough(k) ==
    /\ Counted(k).count <= Limit[k]
    /\ records' = Cleaned([records EXCEPT ![k] = Counted(k)])
    /\ passed' = [passed EXCEPT ![k] = @ \union {<<milli, Counted(k).count>>}]
    /\ UNCHANGED milli

\* 429, before the clean-up.
TooManyRequests(k) ==
    /\ Counted(k).count \in (Limit[k] + 1)..MaxCount
    /\ records' = [records EXCEPT ![k] = Counted(k)]
    /\ UNCHANGED <<milli, passed>>

\* A request of another kind is not counted, but cleans up.
Unlimited == records' = Cleaned(records) /\ UNCHANGED <<milli, passed>>

Recent(passes, now) == {p \in passes : p[1] + WindowMs >= now}

MilliPasses ==
    /\ milli < MaxMilli
    /\ milli' = milli + 1
    /\ passed' = [k \in Keys |-> Recent(passed[k], milli')]
    /\ UNCHANGED records

LimiterNext ==
    MilliPasses \/ Unlimited \/ \E k \in Keys : LetThrough(k) \/ TooManyRequests(k)

LimiterSpec == LimiterInit /\ [][LimiterNext]_limiterVars

-----------------------------------------------------------------------------
(***************************************************************************)
(* Properties                                                              *)
(***************************************************************************)

Lately(k) == Cardinality(passed[k])

\* The windows are fixed, not sliding, so more than the limit can pass within
\* one window's length; but never more than twice as much, whatever the
\* clean-up triggered by other clients drops.  Attempts that are refused do not
\* keep a client out: whoever is refused has been let through as often as the
\* limit says within the last window's length.
LimitIsKept ==
    [][\A k \in Keys : /\ Lately(k)' <= 2 * Limit[k]
                       /\ TooManyRequests(k) => Lately(k) >= Limit[k]]_limiterVars
=============================================================================
