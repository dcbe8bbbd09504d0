----------------------------- MODULE RateLimit ------------------------------
(***************************************************************************)
(* check_sliding_window (middleware/rate_limit.py): the sliding window of  *)
(* one key, shared by the concurrent requests of one client.  The per-IP   *)
(* middleware and the per-user dependency (api/deps.py) both call it.      *)
(*                                                                         *)
(* A request reads the clock, then sends one atomic pipeline; a rejected   *)
(* one makes two more calls.  The entry a request adds to the sorted set   *)
(* is named after the request, its score is the clock value it has read.   *)
(***************************************************************************)
EXTENDS Integers, FiniteSets

CONSTANTS
  Requests,  \* the requests made with this key
  Limit,     \* requests admitted per window
  Window,    \* the window, in ticks of the clock
  Second,    \* ticks per second
  MaxDelay,  \* ticks a call may take to reach Redis
  MaxTime    \* bound on the clock

ASSUME LimitAssumption == Limit \in Nat \ {0}
ASSUME TimeAssumption ==
  /\ Second \in Nat \ {0} /\ Window \in Nat \ {0} /\ Window % Second = 0
  /\ MaxDelay \in 0..(Window - 1) /\ MaxTime \in Nat

VARIABLES
  now,      \* the clock
  zset,     \* the requests with an entry in the sorted set
  expires,  \* when the key expires
  pc,       \* per request: the call it is about to make, or its answer
  stamp,    \* per request: its `now`
  oldest,   \* per request: the score that ZRANGE returned
  retry     \* per request: Retry-After, in seconds

vars == <<now, zset, expires, pc, stamp, oldest, retry>>

Init ==
  /\ now = 0 /\ zset = {} /\ expires = 0
  /\ pc = [r \in Requests |-> "idle"]
  /\ stamp = [r \in Requests |-> 0]
  /\ oldest = [r \in Requests |-> 0]
  /\ retry = [r \in Requests |-> 0]

\* A call reaches Redis within MaxDelay ticks of the clock value it goes with.
Tick ==
  /\ now < MaxTime
  /\ \A r \in Requests : pc[r] \in {"pipeline", "zrange"} => now < stamp[r] + MaxDelay
  /\ now' = now + 1
  /\ UNCHANGED <<zset, expires, pc, stamp, oldest, retry>>

ReadClock(r) ==
  /\ pc[r] = "idle"
  /\ pc' = [pc EXCEPT ![r] = "pipeline"]
  /\ stamp' = [stamp EXCEPT ![r] = now]
  /\ UNCHANGED <<now, zset, expires, oldest, retry>>

\* What the sorted set holds: nothing once the key has expired.
Live == IF now >= expires THEN {} ELSE zset

\* Mutant of InWindow: an entry stays for one tick more than it should.
InWindowLate(r) == {q \in Live : stamp[q] >= stamp[r] - Window}

\* Mutant of InWindow: entries leave the window a tick before their time.
InWindowEarly(r) == {q \in Live : stamp[q] > stamp[r] - Window + 1}

\* What ZREMRANGEBYSCORE key 0 now-window leaves.
InWindow(r) == {q \in Live : stamp[q] > stamp[r] - Window}

\* Mutant of Enter: EXPIRE gets milliseconds.
EnterMilliseconds(r) == zset' = InWindow(r) \cup {r} /\ expires' = now + 1000 * Window

\* ZREMRANGEBYSCORE, ZCARD, ZADD and EXPIRE, one MULTI/EXEC.
Enter(r) == zset' = InWindow(r) \cup {r} /\ expires' = now + Window

\* Mutant of Pipeline: the limit itself is still let through.
PipelineOffByOne(r) ==
  /\ pc[r] = "pipeline"
  /\ Enter(r)
  /\ pc' = [pc EXCEPT ![r] = IF Cardinality(InWindow(r)) > Limit THEN "zrange"
                                                                 ELSE "admitted"]
  /\ UNCHANGED <<now, stamp, oldest, retry>>

Pipeline(r) ==
  /\ pc[r] = "pipeline"
  /\ Enter(r)
  /\ pc' = [pc EXCEPT ![r] = IF Cardinality(InWindow(r)) >= Limit THEN "zrange"
                                                                  ELSE "admitted"]
  /\ UNCHANGED <<now, stamp, oldest, retry>>

Earliest(S) == CHOOSE t \in {stamp[q] : q \in S} : \A q \in S : t <= stamp[q]

\* Mutant of RetryAfter: the clamp to one second is missing.
RetryAfterUnclamped(r, score) == (Window - (stamp[r] - score)) \div Second

RetryAfter(r, score) ==
  LET seconds == (Window - (stamp[r] - score)) \div Second
  IN  IF seconds < 1 THEN 1 ELSE seconds

ZRange(r) ==
  /\ pc[r] = "zrange"
  /\ IF Live = {}
       THEN /\ retry' = [retry EXCEPT ![r] = Window \div Second]
            /\ oldest' = [oldest EXCEPT ![r] = stamp[r]]
       ELSE /\ retry' = [retry EXCEPT ![r] = RetryAfter(r, Earliest(Live))]
            /\ oldest' = [oldest EXCEPT ![r] = Earliest(Live)]
  /\ pc' = [pc EXCEPT ![r] = "zrem"]
  /\ UNCHANGED <<now, zset, expires, stamp>>

\* Mutant of ZRem: the entry of a rejected request stays.
ZRemForgotten(r) ==
  /\ pc[r] = "zrem"
  /\ pc' = [pc EXCEPT ![r] = "rejected"]
  /\ UNCHANGED <<now, zset, expires, stamp, oldest, retry>>

ZRem(r) ==
  /\ pc[r] = "zrem"
  /\ zset' = zset \ {r}
  /\ pc' = [pc EXCEPT ![r] = "rejected"]
  /\ UNCHANGED <<now, expires, stamp, oldest, retry>>

\* A call raises, before or after Redis has carried it out, or the worker dies.
Dies(r) ==
  /\ \/ pc[r] \in {"pipeline", "zrange", "zrem"} /\ UNCHANGED <<zset, expires>>
     \/ pc[r] = "pipeline" /\ Enter(r)
     \/ pc[r] = "zrem" /\ zset' = zset \ {r} /\ UNCHANGED expires
  /\ pc' = [pc EXCEPT ![r] = "dead"]
  /\ UNCHANGED <<now, stamp, oldest, retry>>

Next ==
  \/ Tick
  \/ \E r \in Requests : ReadClock(r) \/ Pipeline(r) \/ ZRange(r) \/ ZRem(r) \/ Dies(r)

Spec == Init /\ [][Next]_vars

-----------------------------------------------------------------------------
(***************************************************************************)
(* Properties.                                                             *)
(***************************************************************************)

TypeOK ==
  /\ now \in 0..MaxTime /\ expires \in 0..(MaxTime + Window)
  /\ zset \subseteq Requests
  /\ pc \in [Requests -> {"idle", "pipeline", "zrange", "zrem", "admitted", "rejected", "dead"}]
  /\ stamp \in [Requests -> 0..MaxTime]
  /\ oldest \in [Requests -> 0..MaxTime]
  /\ retry \in [Requests -> Nat]

AdmittedIn(first, last) ==
  {r \in Requests : pc[r] = "admitted" /\ stamp[r] \in first..last}

\* At most Limit requests are admitted in any stretch of time that is shorter
\* than the window by the time a call may be under way: requests that overtake
\* each other between reading the clock and reaching Redis cost no more.  (A
\* stretch as long as the window can hold one more: a request that read the clock
\* first and comes last no longer finds what a later one has removed.)
SlidingWindow ==
  \A t \in 0..now : Cardinality(AdmittedIn(t, t + Window - MaxDelay - 1)) <= Limit

\* An admitted request counts against the others for a whole window: neither the
\* expiry of the key, nor a pipeline that comes late or early, nor the cleanup
\* after rejected requests takes its entry away before.
AdmittedStillCount ==
  \A r \in Requests : pc[r] = "admitted" /\ now < stamp[r] + Window => r \in Live

\* Nobody is turned away unless Limit requests count against it: requests of the
\* last Window ticks that were admitted, died half-way, or are being turned away
\* at that moment; never one that has already been turned away.
NoneTurnedAwayEarly ==
  [][\A r \in Requests : pc[r] = "pipeline" /\ pc'[r] = "zrange" =>
       Cardinality({q \in Requests : /\ pc[q] \in {"admitted", "dead", "zrange", "zrem"}
                                     /\ stamp[q] > stamp[r] - Window}) >= Limit]_vars

\* Retry-After lies between a second and the window, and a client that waits for
\* it, and one second more for the fraction int() cut off, finds that the oldest
\* entry it was rejected for has left the window.
RetryAfterAccurate ==
  \A r \in Requests : pc[r] \in {"zrem", "rejected"} =>
    /\ retry[r] >= 1 /\ retry[r] * Second <= Window
    /\ oldest[r] + Window < stamp[r] + (retry[r] + 1) * Second
=============================================================================
