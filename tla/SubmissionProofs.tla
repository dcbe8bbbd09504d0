-------------------------- MODULE SubmissionProofs --------------------------
(***************************************************************************)
(* Proofs about RateLimit, for every limit, window, delay and set of       *)
(* requests (an invariant on which entries are in the sorted set, and what *)
(* the properties need of it), and then about Submission.  A submission is *)
(* a request of RateLimit, whatever else happens to it, so what is proved  *)
(* of the limiter holds there; the rest is where a request's record and    *)
(* its answer can be.                                                      *)
(***************************************************************************)
EXTENDS Submission, SequenceLemmas

-----------------------------------------------------------------------------
(* The invariant.                                                          *)

Begun == {r \in Requests : pc[r] # "idle"}

\* Who has an entry: requests behind their pipeline that have not been turned
\* away.  Without the finiteness of what has begun nothing could be counted.
EntryInv ==
  /\ IsFiniteSet(Begun)
  /\ \A r \in zset : pc[r] \in {"admitted", "dead", "zrange", "zrem"}

\* A request's clock value is not ahead, and behind by the delay at most while
\* its calls are under way; the key expires a window after its last use.
ClockInv ==
  /\ expires <= now + Window
  /\ \A r \in Requests :
       /\ stamp[r] <= now
       /\ pc[r] \in {"pipeline", "zrange"} => now <= stamp[r] + MaxDelay

\* An entry that still counts is there, and the key does not expire before it.
CountInv ==
  \A r \in Requests :
    pc[r] \in {"admitted", "zrange"} /\ now < stamp[r] + Window =>
      r \in zset /\ stamp[r] + Window <= expires

WindowInv == TypeOK /\ EntryInv /\ ClockInv /\ CountInv

-----------------------------------------------------------------------------
(* Arithmetic.                                                             *)

LEMMA Constants ==
  /\ Limit \in Nat \ {0} /\ Second \in Nat \ {0} /\ Window \in Nat \ {0}
  /\ MaxDelay \in Nat /\ MaxDelay < Window /\ MaxTime \in Nat
  BY LimitAssumption, TimeAssumption

LEMMA DivFacts ==
  ASSUME NEW x \in Int, NEW s \in Nat, s > 0
  PROVE  /\ x \div s \in Int
         /\ (x \div s) * s <= x
         /\ x < (x \div s + 1) * s
  <1>1. x \div s \in Int
    OBVIOUS
  <1>2. (x \div s) * s <= x
    BY SMTT(30)
  <1>3. x < (x \div s + 1) * s
    BY SMTT(30)
  <1> QED
    BY <1>1, <1>2, <1>3

LEMMA WholeWindow == (Window \div Second) * Second = Window
  <1>1. Window % Second = 0
    BY TimeAssumption
  <1> QED
    BY <1>1, Constants, SMTT(30)

LEMMA EarliestFacts ==
  ASSUME stamp \in [Requests -> 0..MaxTime], NEW S \in SUBSET Requests, S # {}
  PROVE  /\ Earliest(S) \in 0..MaxTime
         /\ \A q \in S : Earliest(S) <= stamp[q]
  <1> DEFINE T == {stamp[q] : q \in S}
  <1>1. T \subseteq Nat /\ T # {} /\ T \subseteq 0..MaxTime
    BY Constants
  <1>2. PICK t \in T : \A u \in T : t <= u
    BY <1>1, LeastElement
  <1>3. \A q \in S : t <= stamp[q]
    BY <1>2
  <1>4. /\ Earliest(S) \in T
        /\ \A q \in S : Earliest(S) <= stamp[q]
    BY <1>2, <1>3 DEF Earliest
  <1> QED
    BY <1>1, <1>4

-----------------------------------------------------------------------------
(* Types.                                                                  *)

LEMMA RetryType ==
  ASSUME TypeOK, NEW r \in Requests, NEW score \in 0..MaxTime
  PROVE  RetryAfter(r, score) \in Nat \ {0}
  <1>1. Window - (stamp[r] - score) \in Int
    BY Constants DEF TypeOK
  <1>2. (Window - (stamp[r] - score)) \div Second \in Int
    BY <1>1, Constants, DivFacts
  <1> QED
    BY <1>2 DEF RetryAfter

LEMMA TypeEnter ==
  ASSUME TypeOK, NEW r \in Requests, Enter(r)
  PROVE  zset' \subseteq Requests /\ expires' \in 0..(MaxTime + Window)
  BY Constants DEF TypeOK, Enter, InWindow, Live

LEMMA TypeStep == TypeOK /\ [Next]_vars => TypeOK'
  <1> SUFFICES ASSUME TypeOK, [Next]_vars PROVE TypeOK'
    OBVIOUS
  <1> USE Constants
  <1>1. CASE Tick
    BY <1>1 DEF TypeOK, Tick
  <1>2. ASSUME NEW r \in Requests, ReadClock(r) PROVE TypeOK'
    BY <1>2 DEF TypeOK, ReadClock
  <1>3. ASSUME NEW r \in Requests, Pipeline(r) PROVE TypeOK'
    BY <1>3, TypeEnter DEF TypeOK, Pipeline
  <1>4. ASSUME NEW r \in Requests, ZRange(r) PROVE TypeOK'
    <2>1. Live \in SUBSET Requests
      BY DEF TypeOK, Live
    <2>2. oldest' \in [Requests -> 0..MaxTime] /\ retry' \in [Requests -> Nat]
      <3>1. CASE Live = {}
        <4>1. Window \div Second \in Nat
          OBVIOUS
        <4>2. retry' \in [Requests -> Nat]
          BY <1>4, <3>1, <4>1 DEF ZRange, TypeOK
        <4>3. oldest' \in [Requests -> 0..MaxTime]
          BY <1>4, <3>1 DEF ZRange, TypeOK
        <4> QED
          BY <4>2, <4>3
      <3>2. CASE Live # {}
        <4>1. Earliest(Live) \in 0..MaxTime
          BY <2>1, <3>2, EarliestFacts DEF TypeOK
        <4>2. RetryAfter(r, Earliest(Live)) \in Nat
          BY <4>1, RetryType
        <4> QED
          BY <1>4, <3>2, <4>1, <4>2 DEF ZRange, TypeOK
      <3> QED
        BY <3>1, <3>2
    <2> QED
      BY <1>4, <2>2 DEF TypeOK, ZRange
  <1>5. ASSUME NEW r \in Requests, ZRem(r) PROVE TypeOK'
    BY <1>5 DEF TypeOK, ZRem
  <1>6. ASSUME NEW r \in Requests, Dies(r) PROVE TypeOK'
    <2>1. zset' \subseteq Requests /\ expires' \in 0..(MaxTime + Window)
      BY <1>6, TypeEnter DEF TypeOK, Dies
    <2> QED
      BY <1>6, <2>1 DEF TypeOK, Dies
  <1>7. CASE UNCHANGED vars
    BY <1>7 DEF TypeOK, vars
  <1> QED
    BY <1>1, <1>2, <1>3, <1>4, <1>5, <1>6, <1>7 DEF Next

LEMMA TypeInit == Init => TypeOK
  BY Constants DEF Init, TypeOK

-----------------------------------------------------------------------------
(* The invariant is inductive.                                             *)

LEMMA WindowInit == Init => WindowInv
  <1> SUFFICES ASSUME Init PROVE WindowInv
    OBVIOUS
  <1>1. Begun = {}
    BY DEF Init, Begun
  <1> QED
    BY <1>1, TypeInit, Constants, FS_EmptySet
    DEF Init, WindowInv, EntryInv, ClockInv, CountInv

LEMMA EntryStep == WindowInv /\ [Next]_vars => EntryInv'
  <1> SUFFICES ASSUME WindowInv, [Next]_vars PROVE EntryInv'
    OBVIOUS
  <1> USE DEF WindowInv, EntryInv
  <1>1. ASSUME NEW r \in Requests, ReadClock(r) PROVE EntryInv'
    <2>1. Begun' = Begun \cup {r}
      BY <1>1 DEF Begun, ReadClock, TypeOK
    <2>2. IsFiniteSet(Begun')
      BY <2>1, FS_AddElement
    <2> QED
      BY <1>1, <2>2 DEF ReadClock, TypeOK
  <1>2. ASSUME NEW r \in Requests, pc[r] # "idle",
               pc' \in {[pc EXCEPT ![r] = x] : x \in {"admitted", "rejected", "zrange", "zrem", "dead"}}
        PROVE  Begun' = Begun
    BY <1>2 DEF Begun, TypeOK
  <1>3. ASSUME NEW r \in Requests, Pipeline(r) PROVE EntryInv'
    <2>1. Begun' = Begun
      BY <1>2, <1>3 DEF Pipeline
    <2> QED
      BY <1>3, <2>1 DEF Pipeline, Enter, InWindow, Live, TypeOK
  <1>4. ASSUME NEW r \in Requests, ZRange(r) PROVE EntryInv'
    <2>1. Begun' = Begun
      BY <1>2, <1>4 DEF ZRange
    <2> QED
      BY <1>4, <2>1 DEF ZRange, TypeOK
  <1>5. ASSUME NEW r \in Requests, ZRem(r) PROVE EntryInv'
    <2>1. Begun' = Begun
      BY <1>2, <1>5 DEF ZRem
    <2> QED
      BY <1>5, <2>1 DEF ZRem, TypeOK
  <1>6. ASSUME NEW r \in Requests, Dies(r) PROVE EntryInv'
    <2>1. Begun' = Begun
      BY <1>2, <1>6 DEF Dies
    <2>2. zset' \subseteq zset \cup {r}
      BY <1>6 DEF Dies, Enter, InWindow, Live, TypeOK
    <2> QED
      BY <1>6, <2>1, <2>2 DEF Dies, TypeOK
  <1>7. CASE Tick \/ UNCHANGED vars
    BY <1>7 DEF Tick, vars, Begun
  <1> QED
    BY <1>1, <1>3, <1>4, <1>5, <1>6, <1>7 DEF Next

LEMMA ClockStep == WindowInv /\ [Next]_vars => ClockInv'
  <1> SUFFICES ASSUME WindowInv, [Next]_vars PROVE ClockInv'
    OBVIOUS
  <1> USE Constants DEF WindowInv, ClockInv, TypeOK
  <1>1. CASE Tick
    BY <1>1 DEF Tick
  <1>2. ASSUME NEW r \in Requests, ReadClock(r) PROVE ClockInv'
    BY <1>2 DEF ReadClock
  <1>3. ASSUME NEW r \in Requests, Pipeline(r) PROVE ClockInv'
    BY <1>3 DEF Pipeline, Enter
  <1>4. ASSUME NEW r \in Requests, ZRange(r) \/ ZRem(r) PROVE ClockInv'
    BY <1>4 DEF ZRange, ZRem
  <1>5. ASSUME NEW r \in Requests, Dies(r) PROVE ClockInv'
    BY <1>5 DEF Dies, Enter
  <1>6. CASE UNCHANGED vars
    BY <1>6 DEF vars
  <1> QED
    BY <1>1, <1>2, <1>3, <1>4, <1>5, <1>6 DEF Next

\* An entry outlives the pipelines of other requests while it still counts.
LEMMA EnterKeeps ==
  ASSUME WindowInv, NEW q \in Requests, Enter(q), now' = now,
         NEW r \in zset, now < stamp[r] + Window, stamp[r] + Window <= expires
  PROVE  r \in zset' /\ stamp[r] + Window <= expires'
  BY Constants DEF WindowInv, ClockInv, TypeOK, Enter, InWindow, Live

LEMMA CountStep == WindowInv /\ [Next]_vars => CountInv'
  <1> SUFFICES ASSUME WindowInv, [Next]_vars PROVE CountInv'
    OBVIOUS
  <1> USE Constants DEF WindowInv, CountInv, TypeOK
  <1>1. CASE Tick
    BY <1>1 DEF Tick
  <1>2. ASSUME NEW q \in Requests, ReadClock(q) PROVE CountInv'
    BY <1>2 DEF ReadClock
  <1>3. ASSUME NEW q \in Requests, Pipeline(q) PROVE CountInv'
    <2> SUFFICES ASSUME NEW r \in Requests, pc'[r] \in {"admitted", "zrange"},
                        now' < stamp'[r] + Window
                 PROVE  r \in zset' /\ stamp'[r] + Window <= expires'
      OBVIOUS
    <2>1. CASE r = q
      BY <1>3, <2>1 DEF Pipeline, Enter, ClockInv
    <2>2. CASE r # q
      BY <1>3, <2>2, EnterKeeps DEF Pipeline
    <2> QED
      BY <2>1, <2>2
  <1>4. ASSUME NEW q \in Requests, ZRange(q) PROVE CountInv'
    BY <1>4 DEF ZRange
  <1>5. ASSUME NEW q \in Requests, ZRem(q) PROVE CountInv'
    BY <1>5 DEF ZRem
  <1>6. ASSUME NEW q \in Requests, Dies(q) PROVE CountInv'
    <2> SUFFICES ASSUME NEW r \in Requests, pc'[r] \in {"admitted", "zrange"},
                        now' < stamp'[r] + Window
                 PROVE  r \in zset' /\ stamp'[r] + Window <= expires'
      OBVIOUS
    <2>1. /\ r # q /\ now' = now /\ stamp' = stamp
          /\ pc[r] \in {"admitted", "zrange"} /\ now < stamp[r] + Window
      BY <1>6 DEF Dies
    <2>2. CASE Enter(q)
      BY <2>1, <2>2, EnterKeeps
    <2>3. CASE zset' \in {zset, zset \ {q}} /\ expires' = expires
      BY <2>1, <2>3
    <2> QED
      BY <1>6, <2>2, <2>3 DEF Dies
  <1>7. CASE UNCHANGED vars
    BY <1>7 DEF vars
  <1> QED
    BY <1>1, <1>2, <1>3, <1>4, <1>5, <1>6, <1>7 DEF Next

LEMMA WindowStep == WindowInv /\ [Next]_vars => WindowInv'
  BY TypeStep, EntryStep, ClockStep, CountStep DEF WindowInv

\* Types, who has an entry, and which entries still count, whatever fails.
THEOREM WindowInvariant == Spec => []WindowInv
  BY WindowInit, WindowStep, PTL DEF Spec

\* TypeOK; that Retry-After is a number needs ZRANGE to find a least score.
THEOREM LimiterTypes == Spec => []TypeOK
  <1>1. WindowInv => TypeOK
    BY DEF WindowInv
  <1> QED
    BY <1>1, WindowInvariant, PTL

-----------------------------------------------------------------------------
(* The properties.                                                         *)

LEMMA Counted == WindowInv => AdmittedStillCount
  BY Constants DEF WindowInv, TypeOK, CountInv, AdmittedStillCount, Live

\* AdmittedStillCount: neither expiry, nor late pipelines, nor the cleanup after
\* a rejection takes an admitted request's entry before its window is over
\* (rate_limit.py:19-31).
THEOREM AdmittedCount == Spec => []AdmittedStillCount
  BY Counted, WindowInvariant, PTL

\* SlidingWindow, for every stretch and not only those that have begun.
SlidingInv ==
  \A t \in Int : Cardinality(AdmittedIn(t, t + Window - MaxDelay - 1)) <= Limit

LEMMA FiniteStretch ==
  ASSUME WindowInv, NEW first \in Int, NEW last \in Int
  PROVE  /\ IsFiniteSet(AdmittedIn(first, last))
         /\ Cardinality(AdmittedIn(first, last)) \in Nat
  <1>1. AdmittedIn(first, last) \subseteq Begun
    BY DEF AdmittedIn, Begun
  <1>2. IsFiniteSet(AdmittedIn(first, last))
    BY <1>1, FS_Subset DEF WindowInv, EntryInv
  <1> QED
    BY <1>2, FS_CardinalityType

\* The request of a stretch that is admitted last has counted all the others.
LEMMA LastCountsOthers ==
  ASSUME WindowInv, NEW r \in Requests, pc[r] = "pipeline", NEW t \in Int,
         stamp[r] \in t..(t + Window - MaxDelay - 1)
  PROVE  AdmittedIn(t, t + Window - MaxDelay - 1) \subseteq InWindow(r)
  <1> SUFFICES ASSUME NEW q \in Requests, pc[q] = "admitted",
                      stamp[q] \in t..(t + Window - MaxDelay - 1)
               PROVE  q \in InWindow(r)
    BY DEF AdmittedIn
  <1>1. now <= stamp[r] + MaxDelay
    BY DEF WindowInv, ClockInv
  <1>2. /\ now \in Int /\ stamp[r] \in Int /\ stamp[q] \in Int
    BY Constants DEF WindowInv, TypeOK
  <1>3. now < stamp[q] + Window /\ stamp[q] > stamp[r] - Window
    BY <1>1, <1>2, Constants
  <1>4. q \in Live
    BY <1>3, Counted DEF AdmittedStillCount
  <1> QED
    BY <1>3, <1>4 DEF InWindow

LEMMA SlidingStep == WindowInv /\ SlidingInv /\ [Next]_vars => SlidingInv'
  <1> SUFFICES ASSUME WindowInv, SlidingInv, [Next]_vars, NEW t \in Int
               PROVE  Cardinality(AdmittedIn(t, t + Window - MaxDelay - 1)') <= Limit
    BY DEF SlidingInv
  <1> DEFINE last == t + Window - MaxDelay - 1
             A == AdmittedIn(t, last)
  <1>1. last \in Int /\ Cardinality(A) <= Limit /\ IsFiniteSet(A) /\ Cardinality(A) \in Nat
    BY Constants, FiniteStretch DEF SlidingInv
  <1>2. SUFFICES Cardinality(A') <= Limit
    OBVIOUS
  <1>3. ASSUME NEW r \in Requests, Pipeline(r), pc'[r] = "admitted",
               stamp[r] \in t..last
        PROVE  Cardinality(A') <= Limit
    <2>1. pc[r] = "pipeline" /\ ~(Cardinality(InWindow(r)) >= Limit)
      BY <1>3 DEF Pipeline, WindowInv, TypeOK
    <2>2. A \subseteq InWindow(r)
      BY <1>3, <2>1, LastCountsOthers
    <2>3. IsFiniteSet(InWindow(r)) /\ Cardinality(InWindow(r)) \in Nat
      <3>1. InWindow(r) \subseteq Begun
        BY DEF InWindow, Live, Begun, WindowInv, EntryInv, TypeOK
      <3> QED
        BY <3>1, FS_Subset, FS_CardinalityType DEF WindowInv, EntryInv
    <2>4. Cardinality(A) <= Cardinality(InWindow(r))
      BY <2>2, <2>3, FS_Subset
    <2>5. A' = A \cup {r}
      BY <1>3 DEF AdmittedIn, Pipeline, WindowInv, TypeOK
    <2>6. /\ IsFiniteSet(A \cup {r})
          /\ Cardinality(A \cup {r}) \in {Cardinality(A), Cardinality(A) + 1}
      BY <1>1, FS_AddElement
    <2>7. Cardinality(A) + 1 <= Limit
      BY <1>1, <2>1, <2>3, <2>4, Constants
    <2>8. Cardinality(A \cup {r}) <= Limit
      BY <1>1, <2>6, <2>7, Constants
    <2> QED
      BY <2>5, <2>8
  <1>4. CASE A' = A
    BY <1>1, <1>4
  <1>5. ASSUME NEW r \in Requests, Pipeline(r), ~(pc'[r] = "admitted" /\ stamp[r] \in t..last)
        PROVE  A' = A
    BY <1>5 DEF AdmittedIn, Pipeline, WindowInv, TypeOK
  <1>6. ASSUME NEW r \in Requests, ReadClock(r) \/ ZRange(r) \/ ZRem(r) \/ Dies(r)
        PROVE  A' = A
    BY <1>6 DEF AdmittedIn, ReadClock, ZRange, ZRem, Dies, WindowInv, TypeOK
  <1>7. Tick \/ UNCHANGED vars => A' = A
    BY DEF AdmittedIn, Tick, vars
  <1> QED
    BY <1>3, <1>4, <1>5, <1>6, <1>7 DEF Next

LEMMA SlidingInit == Init => SlidingInv
  <1> SUFFICES ASSUME Init, NEW t \in Int
               PROVE  Cardinality(AdmittedIn(t, t + Window - MaxDelay - 1)) <= Limit
    BY DEF SlidingInv
  <1>1. AdmittedIn(t, t + Window - MaxDelay - 1) = {}
    BY DEF Init, AdmittedIn
  <1> QED
    BY <1>1, FS_EmptySet, Constants

\* SlidingWindow: for every limit, window and delay, and for requests that overtake
\* each other, fail half-way or are turned away, no stretch of time shorter than
\* the window by the delay has more than Limit admitted requests (rate_limit.py:17-34).
THEOREM LimitHolds == Spec => []SlidingWindow
  <1>1. WindowInv /\ SlidingInv => SlidingWindow
    BY Constants DEF SlidingInv, SlidingWindow, WindowInv, TypeOK
  <1> QED
    BY <1>1, SlidingInit, SlidingStep, WindowInvariant, PTL DEF Spec

LEMMA TurnedAwayStep ==
  ASSUME WindowInv, [Next]_vars, NEW r \in Requests, pc[r] = "pipeline", pc'[r] = "zrange"
  PROVE  Cardinality({q \in Requests : /\ pc[q] \in {"admitted", "dead", "zrange", "zrem"}
                                       /\ stamp[q] > stamp[r] - Window}) >= Limit
  <1> DEFINE C == {q \in Requests : /\ pc[q] \in {"admitted", "dead", "zrange", "zrem"}
                                    /\ stamp[q] > stamp[r] - Window}
  <1>1. Pipeline(r)
    BY DEF Next, Tick, ReadClock, Pipeline, ZRange, ZRem, Dies, vars, WindowInv, TypeOK
  <1>2. Cardinality(InWindow(r)) >= Limit
    BY <1>1 DEF Pipeline, WindowInv, TypeOK
  <1>3. InWindow(r) \subseteq C
    BY DEF InWindow, Live, WindowInv, EntryInv, TypeOK
  <1>4. IsFiniteSet(C)
    <2>1. C \subseteq Begun
      BY DEF Begun
    <2> QED
      BY <2>1, FS_Subset DEF WindowInv, EntryInv
  <1>5. /\ Cardinality(InWindow(r)) <= Cardinality(C) /\ Cardinality(C) \in Nat
        /\ Cardinality(InWindow(r)) \in Nat
    BY <1>3, <1>4, FS_Subset, FS_CardinalityType
  <1> QED
    BY <1>2, <1>5, Constants

\* NoneTurnedAwayEarly: a request is rejected only while Limit others count
\* against it that were not themselves rejected before (rate_limit.py:25-31).
THEOREM RejectedForCause == Spec => NoneTurnedAwayEarly
  <1>1. WindowInv /\ [Next]_vars =>
          [\A r \in Requests : pc[r] = "pipeline" /\ pc'[r] = "zrange" =>
             Cardinality({q \in Requests : /\ pc[q] \in {"admitted", "dead", "zrange", "zrem"}
                                           /\ stamp[q] > stamp[r] - Window}) >= Limit]_vars
    BY TurnedAwayStep
  <1> QED
    BY <1>1, WindowInvariant, PTL DEF Spec, NoneTurnedAwayEarly

\* What a rejected request is told, once ZRANGE has answered.
LEMMA RetryFacts ==
  ASSUME TypeOK, NEW r \in Requests, NEW score \in 0..MaxTime, score <= stamp[r]
  PROVE  /\ RetryAfter(r, score) * Second <= Window
         /\ score + Window < stamp[r] + (RetryAfter(r, score) + 1) * Second
  <1> DEFINE x == Window - (stamp[r] - score)
             d == x \div Second
  <1>1. /\ x \in Int /\ x <= Window /\ stamp[r] \in Int /\ score \in Int
        /\ score + Window = stamp[r] + x
    BY Constants DEF TypeOK
  <1>2. d \in Int /\ d * Second <= x /\ x < (d + 1) * Second
    BY <1>1, Constants, DivFacts
  <1>3. Second <= Window
    <2>1. Window \div Second >= 1
      BY Constants, WholeWindow
    <2> QED
      BY <2>1, Constants, WholeWindow
  <1>4. CASE d < 1
    <2>1. RetryAfter(r, score) = 1
      BY <1>4 DEF RetryAfter
    <2>2. (d + 1) * Second <= 1 * Second
      BY <1>2, <1>4, Constants
    <2> QED
      BY <1>1, <1>2, <1>3, <2>1, <2>2, Constants
  <1>5. CASE ~(d < 1)
    <2>1. RetryAfter(r, score) = d
      BY <1>5 DEF RetryAfter
    <2> QED
      BY <1>1, <1>2, <2>1, Constants
  <1> QED
    BY <1>4, <1>5

LEMMA RetryStep == WindowInv /\ RetryAfterAccurate /\ [Next]_vars => RetryAfterAccurate'
  <1> SUFFICES ASSUME WindowInv, RetryAfterAccurate, [Next]_vars PROVE RetryAfterAccurate'
    OBVIOUS
  <1> USE DEF RetryAfterAccurate
  <1>1. ASSUME NEW q \in Requests, ZRange(q) PROVE RetryAfterAccurate'
    <2>1. /\ pc[q] = "zrange" /\ q \in Live /\ Live \in SUBSET Requests
      <3>1. pc[q] = "zrange" /\ now < stamp[q] + Window
        BY <1>1, Constants DEF ZRange, WindowInv, ClockInv, TypeOK
      <3> QED
        BY <3>1, Constants DEF WindowInv, CountInv, TypeOK, Live
    <2>2. Earliest(Live) \in 0..MaxTime /\ Earliest(Live) <= stamp[q]
      BY <2>1, EarliestFacts DEF WindowInv, TypeOK
    <2>3. /\ stamp' = stamp /\ retry'[q] = RetryAfter(q, Earliest(Live))
          /\ oldest'[q] = Earliest(Live)
          /\ \A r \in Requests \ {q} : /\ pc'[r] = pc[r] /\ retry'[r] = retry[r]
                                       /\ oldest'[r] = oldest[r]
      BY <1>1, <2>1 DEF ZRange, WindowInv, TypeOK
    <2>4. /\ RetryAfter(q, Earliest(Live)) >= 1
          /\ RetryAfter(q, Earliest(Live)) * Second <= Window
          /\ Earliest(Live) + Window
               < stamp[q] + (RetryAfter(q, Earliest(Live)) + 1) * Second
      BY <2>2, RetryType, RetryFacts DEF WindowInv
    <2> QED
      BY <2>3, <2>4, Zenon
  <1>2. ASSUME NEW q \in Requests, ReadClock(q) \/ Pipeline(q) \/ ZRem(q) \/ Dies(q)
        PROVE  RetryAfterAccurate'
    <2>1. /\ retry' = retry /\ oldest' = oldest
          /\ \A r \in Requests : pc'[r] \in {"zrem", "rejected"} =>
               pc[r] \in {"zrem", "rejected"} /\ stamp'[r] = stamp[r]
      BY <1>2 DEF ReadClock, Pipeline, ZRem, Dies, WindowInv, TypeOK
    <2> QED
      BY <2>1, Zenon
  <1>3. CASE Tick \/ UNCHANGED vars
    BY <1>3, Zenon DEF Tick, vars
  <1> QED
    BY <1>1, <1>2, <1>3 DEF Next

\* RetryAfterAccurate: the hint is between a second and the window, and outlasts by
\* less than a second what it was computed from (rate_limit.py:28-32).
THEOREM RetryHint == Spec => []RetryAfterAccurate
  <1>1. Init => RetryAfterAccurate
    BY DEF Init, RetryAfterAccurate
  <1> QED
    BY <1>1, RetryStep, WindowInvariant, PTL DEF Spec

-----------------------------------------------------------------------------
(* Submission implements RateLimit.                                        *)

LEMMA LimiterStep == [SNext]_svars => [Next]_vars
  <1> SUFFICES ASSUME [SNext]_svars PROVE [Next]_vars
    OBVIOUS
  <1> USE DEF vars, limitVars
  <1>1. ASSUME NEW r \in Requests, Handler(r) PROVE [Next]_vars
    BY <1>1 DEF Handler, Limiter, LimiterRaises, TooMany, Ingest, Create, Reply,
                StartTask, Next
  <1>2. ASSUME NEW r \in Requests, Refuse(r) \/ Unauthenticated(r) \/ WorkerDies(r)
        PROVE  [Next]_vars
    BY <1>2 DEF Refuse, Unauthenticated, WorkerDies, Next
  <1>3. CASE Tick \/ UNCHANGED svars
    BY <1>3 DEF Next, svars
  <1> QED
    BY <1>1, <1>2, <1>3 DEF SNext

\* A submission does nothing to the sorted set that a request of RateLimit does not.
THEOREM SubmissionsAreLimited == SSpec => Spec
  <1>1. SInit => Init
    BY DEF SInit
  <1> QED
    BY <1>1, LimiterStep, PTL DEF SSpec, Spec

-----------------------------------------------------------------------------
(* A request on its way.                                                   *)

\* The record exists from its creation on, for a request that was admitted; it is
\* taken only for one that was told 202, and who is told 202 has it.
WayInv ==
  \A r \in Requests :
    /\ stage[r] \in {"limiting", "creating"} => record[r] = "none"
    /\ stage[r] \in {"limiting", "creating", "replying"} => answer[r] = 0
    /\ stage[r] \in {"creating", "replying"} => pc[r] = "admitted"
    /\ stage[r] = "replying" => record[r] = "queued"
    /\ record[r] # "none" => pc[r] = "admitted"
    /\ answer[r] = 202 => record[r] # "none"
    /\ record[r] = "taken" => answer[r] = 202

LEMMA STypeInit == SInit => STypeOK /\ WayInv
  BY TypeInit DEF SInit, STypeOK, WayInv

LEMMA STypeStep == STypeOK /\ [SNext]_svars => STypeOK'
  <1> SUFFICES ASSUME STypeOK, [SNext]_svars PROVE STypeOK'
    OBVIOUS
  <1>1. TypeOK'
    BY LimiterStep, TypeStep DEF STypeOK
  <1> USE DEF STypeOK, Answered
  <1>2. ASSUME NEW r \in Requests, Limiter(r) \/ LimiterRaises(r) \/ TooMany(r) \/ Ingest(r)
        PROVE  STypeOK'
    BY <1>1, <1>2 DEF Limiter, LimiterRaises, TooMany, Ingest
  <1>3. ASSUME NEW r \in Requests, Create(r) \/ Reply(r) \/ StartTask(r)
        PROVE  STypeOK'
    BY <1>1, <1>3 DEF Create, Reply, StartTask
  <1>4. ASSUME NEW r \in Requests, Refuse(r) \/ Unauthenticated(r) \/ WorkerDies(r)
        PROVE  STypeOK'
    BY <1>1, <1>4 DEF Refuse, Unauthenticated, WorkerDies
  <1>5. CASE UNCHANGED <<stage, answer, record>>
    BY <1>1, <1>5
  <1> QED
    BY <1>2, <1>3, <1>4, <1>5 DEF SNext, Handler, svars

\* A step of r's is no step of another's, and leaves an admitted request admitted.
LEMMA LimiterKeeps ==
  ASSUME TypeOK, NEW r \in Requests,
         \/ ReadClock(r) \/ Pipeline(r) \/ ZRange(r) \/ ZRem(r) \/ Dies(r)
  PROVE  /\ pc[r] # "admitted"
         /\ \A q \in Requests \ {r} : pc'[q] = pc[q]
  BY DEF TypeOK, ReadClock, Pipeline, ZRange, ZRem, Dies

LEMMA WayStep == STypeOK /\ WayInv /\ [SNext]_svars => WayInv'
  <1> SUFFICES ASSUME STypeOK, WayInv, [SNext]_svars PROVE WayInv'
    OBVIOUS
  <1> USE DEF STypeOK, Answered, limitVars
  <1>1. ASSUME NEW r \in Requests, Limiter(r) PROVE WayInv'
    <2>1. /\ pc[r] # "admitted" /\ \A q \in Requests \ {r} : pc'[q] = pc[q]
          /\ stage[r] = "limiting" /\ UNCHANGED <<stage, answer, record>>
      BY <1>1, LimiterKeeps DEF Limiter
    <2> QED
      BY <2>1 DEF WayInv
  <1>2. ASSUME NEW r \in Requests, LimiterRaises(r) PROVE WayInv'
    <2>1. \A q \in Requests \ {r} : pc'[q] = pc[q]
      BY <1>2, LimiterKeeps DEF LimiterRaises
    <2> QED
      BY <1>2, <2>1 DEF WayInv, LimiterRaises
  <1>3. ASSUME NEW r \in Requests, TooMany(r) \/ Refuse(r) \/ Unauthenticated(r)
        PROVE  WayInv'
    BY <1>3 DEF WayInv, TooMany, Refuse, Unauthenticated
  <1>4. ASSUME NEW r \in Requests, Ingest(r) PROVE WayInv'
    BY <1>4 DEF WayInv, Ingest
  <1>5. ASSUME NEW r \in Requests, Create(r) PROVE WayInv'
    BY <1>5 DEF WayInv, Create
  <1>6. ASSUME NEW r \in Requests, Reply(r) \/ StartTask(r) PROVE WayInv'
    BY <1>6 DEF WayInv, Reply, StartTask
  <1>7. ASSUME NEW r \in Requests, WorkerDies(r) PROVE WayInv'
    <2>1. /\ pc[r] = "admitted" => pc'[r] = "admitted"
          /\ \A q \in Requests \ {r} : pc'[q] = pc[q]
      BY <1>7, LimiterKeeps DEF WorkerDies
    <2> QED
      BY <1>7, <2>1 DEF WayInv, WorkerDies
  <1>8. CASE Tick /\ UNCHANGED <<stage, answer, record>>
    BY <1>8 DEF WayInv, Tick
  <1>9. CASE UNCHANGED svars
    BY <1>9 DEF WayInv, svars
  <1> QED
    BY <1>1, <1>2, <1>3, <1>4, <1>5, <1>6, <1>7, <1>8, <1>9 DEF SNext, Handler

\* Types, and where a request's record and answer are at each of its stages.
THEOREM WayInvariant == SSpec => [](STypeOK /\ WayInv)
  BY STypeInit, STypeStep, WayStep, PTL DEF SSpec

\* STypeOK: a submission has an answer, a record and a stage of the kinds there are,
\* for any number of submissions, refused, failing or abandoned (audits.py:25-60).
THEOREM SubmissionTypes == SSpec => []STypeOK
  BY WayInvariant, PTL

-----------------------------------------------------------------------------
(* The properties.                                                         *)

\* AcceptedAndOnlyThen: a 202 always has its record behind it, and no audit runs
\* for a client that was told anything else (audits.py:36-38).
THEOREM PromisesAreBacked == SSpec => []AcceptedAndOnlyThen
  <1>1. WayInv => AcceptedAndOnlyThen
    BY DEF WayInv, AcceptedAndOnlyThen
  <1> QED
    BY <1>1, WayInvariant, PTL

LEMMA AuditsCounted == WindowInv /\ WayInv /\ SlidingWindow => AuditsPerWindow
  <1> SUFFICES ASSUME WindowInv, WayInv, SlidingWindow, NEW t \in 0..now
               PROVE  Cardinality({r \in Requests :
                        /\ record[r] # "none"
                        /\ stamp[r] \in t..(t + Window - MaxDelay - 1)}) <= Limit
    BY DEF AuditsPerWindow
  <1> DEFINE last == t + Window - MaxDelay - 1
             C == {r \in Requests : record[r] # "none" /\ stamp[r] \in t..last}
  <1>1. t \in Int /\ last \in Int
    BY Constants DEF WindowInv, TypeOK
  <1>2. C \subseteq AdmittedIn(t, last)
    BY DEF WayInv, AdmittedIn
  <1>3. /\ IsFiniteSet(AdmittedIn(t, last))
        /\ Cardinality(AdmittedIn(t, last)) \in Nat
    BY <1>1, FiniteStretch
  <1>4. Cardinality(C) <= Cardinality(AdmittedIn(t, last)) /\ Cardinality(C) \in Nat
    BY <1>2, <1>3, FS_Subset, FS_CardinalityType
  <1>5. Cardinality(AdmittedIn(t, last)) <= Limit
    BY DEF SlidingWindow
  <1> QED
    BY <1>3, <1>4, <1>5, Constants

\* AuditsPerWindow: the limiter runs before ingestion and the record is made after
\* it, and still no window has more than Limit audits, whatever fails in between
\* (deps.py:27-43, audits.py:46-81).
THEOREM AuditsAreLimited == SSpec => []AuditsPerWindow
  BY AuditsCounted, WayInvariant, SubmissionsAreLimited, WindowInvariant, LimitHolds, PTL
=============================================================================
