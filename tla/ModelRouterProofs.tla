------------------------- MODULE ModelRouterProofs --------------------------
(***************************************************************************)
(* Proofs about ModelRouter, for any number of callers, every set of uses  *)
(* and every number of retries: what the cache holds, who answers a call,  *)
(* and that one provider in order is enough.                               *)
(***************************************************************************)
EXTENDS ModelRouter, SequenceLemmas

-----------------------------------------------------------------------------
(* The tables, and the chains built from them.                             *)

Tables == {RoleTable[r] : r \in DOMAIN RoleTable}

\* Every role lists the three providers, each of them once.
LEMMA TableFacts ==
  ASSUME NEW t \in Tables
  PROVE  /\ t \in Seq(Providers) /\ Len(t) = 3 /\ DOMAIN t = 1..3
         /\ t = <<t[1], t[2], t[3]>>
         /\ t[1] \in Providers /\ t[2] \in Providers /\ t[3] \in Providers
         /\ t[1] # t[2] /\ t[1] # t[3] /\ t[2] # t[3]
         /\ Providers = {t[1], t[2], t[3]}
  <1>1. \/ t = <<"anthropic", "google", "ollama">>
        \/ t = <<"google", "anthropic", "ollama">>
        \/ t = <<"ollama", "google", "anthropic">>
        \/ t = <<"google", "ollama", "anthropic">>
    BY DEF Tables, RoleTable
  <1>2. CASE t = <<"anthropic", "google", "ollama">>
    BY <1>2 DEF Providers
  <1>3. CASE t = <<"google", "anthropic", "ollama">>
    BY <1>3 DEF Providers
  <1>4. CASE t = <<"ollama", "google", "anthropic">>
    BY <1>4 DEF Providers
  <1>5. CASE t = <<"google", "ollama", "anthropic">>
    BY <1>5 DEF Providers
  <1> QED
    BY <1>1, <1>2, <1>3, <1>4, <1>5

\* The providers of the chain are in the order of the table.
Respects(chain, t) ==
  \A i, j \in 1..Len(chain) : i < j =>
    \E a, b \in 1..3 : a < b /\ chain[i] = t[a] /\ chain[j] = t[b]

\* One round of the loop over the table, which has got to its n-th provider.
LEMMA TriedFacts ==
  ASSUME NEW t \in Tables, NEW n \in 1..3, NEW chain \in Seq(Providers),
         Respects(chain, t), ToSet(chain) \subseteq {t[a] : a \in 1..(n - 1)}
  PROVE  /\ Tried(chain, t[n]) \in Seq(Providers) /\ Respects(Tried(chain, t[n]), t)
         /\ ToSet(Tried(chain, t[n])) = ToSet(chain) \cup ({t[n]} \ broken)
  <1>1. CASE t[n] \in broken
    BY <1>1 DEF Tried
  <1>2. CASE t[n] \notin broken
    <2> DEFINE longer == Append(chain, t[n])
    <2>1. t[n] \in Providers
      BY TableFacts
    <2>2. /\ Len(chain) \in Nat /\ longer \in Seq(Providers)
          /\ Len(longer) = Len(chain) + 1 /\ ToSet(longer) = ToSet(chain) \cup {t[n]}
          /\ \A i \in 1..Len(chain) : longer[i] = chain[i]
          /\ longer[Len(chain) + 1] = t[n]
      BY <2>1, AppendFacts, LenProperties
    <2>3. ToSet(chain) = {chain[i] : i \in 1..Len(chain)}
      BY ToSetOfSeq
    <2> HIDE DEF longer
    <2>4. ASSUME NEW i \in 1..Len(longer), NEW j \in 1..Len(longer), i < j
          PROVE  \E a, b \in 1..3 : a < b /\ longer[i] = t[a] /\ longer[j] = t[b]
      <3>1. i \in 1..Len(chain) /\ (j \in 1..Len(chain) \/ j = Len(chain) + 1)
        BY <2>2, <2>4
      <3>2. CASE j \in 1..Len(chain)
        BY <2>2, <2>4, <3>1, <3>2 DEF Respects
      <3>3. CASE j = Len(chain) + 1
        <4>1. PICK a \in 1..(n - 1) : longer[i] = t[a]
          <5>1. longer[i] = chain[i] /\ chain[i] \in ToSet(chain)
            BY <2>2, <2>3, <3>1
          <5>2. \A x \in ToSet(chain) : \E a \in 1..(n - 1) : x = t[a]
            OBVIOUS
          <5> QED
            BY <5>1, <5>2
        <4>2. a \in 1..3 /\ a < n
          OBVIOUS
        <4> QED
          BY <2>2, <3>3, <4>1, <4>2
      <3> QED
        BY <3>1, <3>2, <3>3
    <2> QED
      BY <1>2, <2>2, <2>4 DEF Tried, Respects, longer
  <1> QED
    BY <1>1, <1>2

LEMMA BuiltFacts ==
  ASSUME NEW u \in Uses
  PROVE  /\ RoleTable[u.role] \in Tables
         /\ Built(u) \in Seq(Providers) /\ Respects(Built(u), RoleTable[u.role])
         /\ ToSet(Built(u)) = Providers \ broken
  <1> DEFINE t == RoleTable[u.role]
             one == Tried(<<>>, t[1])
             two == Tried(one, t[2])
             three == Tried(two, t[3])
  <1>1. t \in Tables
    BY RouterAssumption DEF Tables
  <1>2. Built(u) = three
    BY DEF Built
  <1> HIDE DEF t, one, two, three
  <1>3. <<>> \in Seq(Providers) /\ Respects(<<>>, t) /\ ToSet(<<>>) = {}
    BY EmptySeq DEF Respects, ToSet
  <1>4. /\ one \in Seq(Providers) /\ Respects(one, t)
        /\ ToSet(one) = {t[1]} \ broken
    <2>1. 1 \in 1..3 /\ ToSet(<<>>) \subseteq {t[a] : a \in 1..(1 - 1)}
      BY <1>3
    <2>2. /\ one \in Seq(Providers) /\ Respects(one, t)
          /\ ToSet(one) = ToSet(<<>>) \cup ({t[1]} \ broken)
      BY <1>1, <1>3, <2>1, TriedFacts, Zenon DEF one
    <2> QED
      BY <1>3, <2>2
  <1>5. /\ two \in Seq(Providers) /\ Respects(two, t)
        /\ ToSet(two) = {t[1], t[2]} \ broken
    <2>1. 2 \in 1..3 /\ ToSet(one) \subseteq {t[a] : a \in 1..(2 - 1)}
      BY <1>4
    <2>2. /\ two \in Seq(Providers) /\ Respects(two, t)
          /\ ToSet(two) = ToSet(one) \cup ({t[2]} \ broken)
      BY <1>1, <1>4, <2>1, TriedFacts, Zenon DEF two
    <2> QED
      BY <1>4, <2>2
  <1>6. /\ three \in Seq(Providers) /\ Respects(three, t)
        /\ ToSet(three) = {t[1], t[2], t[3]} \ broken
    <2>1. 3 \in 1..3 /\ ToSet(two) \subseteq {t[a] : a \in 1..(3 - 1)}
      BY <1>5
    <2>2. /\ three \in Seq(Providers) /\ Respects(three, t)
          /\ ToSet(three) = ToSet(two) \cup ({t[3]} \ broken)
      BY <1>1, <1>5, <2>1, TriedFacts, Zenon DEF three
    <2> QED
      BY <1>5, <2>2
  <1>7. Providers = {t[1], t[2], t[3]}
    BY <1>1, TableFacts
  <1> QED
    BY <1>1, <1>2, <1>6, <1>7 DEF t

-----------------------------------------------------------------------------
(* The invariant.                                                          *)

CachedChains == \A u \in Uses : Respects(cache[Key(u)], RoleTable[u.role])

\* What is known of call k, when the cache holds the chains of `cached`.
CallInv(k, cached) ==
  /\ k.event # NoEvent => k.pc \in {"parsed", "unparsed"}
  /\ k.pc \in {"calling", "parsed", "unparsed"} =>
       /\ k.chain = cached[Key(k.use)]
       /\ k.at \in 1..Len(k.chain)
       /\ \A i \in 1..(k.at - 1) : k.chain[i] \in k.raised

RouterInv == TypeOK /\ CachedChains /\ \A c \in Callers : CallInv(call[c], cache)

LEMMA NoEventFacts == NoEvent \in Event
  BY DEF NoEvent, Event

LEMMA NoCallFacts ==
  /\ NoCall \in Call
  /\ NoCall.pc = "idle" /\ NoCall.event = NoEvent /\ NoCall.raised = {}
  <1>1. (CHOOSE u \in Uses : TRUE) \in Uses
    BY RouterAssumption
  <1>2. <<>> \in Seq(Providers)
    BY EmptySeq
  <1> QED
    BY <1>1, <1>2, NoEventFacts DEF NoCall, Call

\* The call that a caller makes when the router has found it a chain.
CallOf(u, found, pc) == [NoCall EXCEPT !.use = u, !.chain = found, !.pc = pc]

LEMMA NewCallFacts ==
  ASSUME NEW u \in Uses, NEW found \in Seq(Providers), NEW pc \in {"failed", "calling"}
  PROVE  /\ CallOf(u, found, pc) \in Call
         /\ CallOf(u, found, pc) = [pc |-> pc, use |-> u, chain |-> found, at |-> 1,
                                    retry |-> 0, raised |-> {}, event |-> NoEvent]
  <1> DEFINE r == [pc |-> pc, use |-> u, chain |-> found, at |-> 1, retry |-> 0,
                  raised |-> {}, event |-> NoEvent]
  <1>1. CallOf(u, found, pc) = r
    <2> SUFFICES ASSUME NEW k, k = CallOf(u, found, pc)
                 PROVE  k = r
      OBVIOUS
    <2> QED
      BY DEF NoCall, CallOf
  <1>2. pc \in {"idle", "calling"} \cup Over
    BY DEF Over
  <1>3. 1 \in Nat \ {0} /\ 0 \in Nat /\ {} \in SUBSET Providers
        /\ NoEvent \in Event
    BY NoEventFacts
  <1>4. r \in Call
    BY <1>2, <1>3 DEF Call
  <1> QED
    BY <1>1, <1>4, Zenon

LEMMA InitRouter == Init => RouterInv
  <1> SUFFICES ASSUME Init PROVE RouterInv
    OBVIOUS
  <1>1. TypeOK
    BY NoCallFacts, EmptySeq DEF Init, TypeOK
  <1>2. CachedChains
    BY EmptySeq DEF Init, CachedChains, Respects
  <1>3. ASSUME NEW c \in Callers PROVE CallInv(call[c], cache)
    BY NoCallFacts DEF Init, CallInv
  <1> QED
    BY <1>1, <1>2, <1>3 DEF RouterInv

\* What GetChatModel finds for a use.
Found(u) == IF cache[Key(u)] # <<>> THEN cache[Key(u)] ELSE Built(u)

\* It is a chain for that use; the cache gets more, and loses nothing.
LEMMA FoundFacts ==
  ASSUME RouterInv, NEW u \in Uses, cache' = [cache EXCEPT ![Key(u)] = Found(u)]
  PROVE  /\ Found(u) \in Seq(Providers) /\ Respects(Found(u), RoleTable[u.role])
         /\ cache' \in [{Key(v) : v \in Uses} -> Seq(Providers)]
         /\ cache'[Key(u)] = Found(u)
         /\ \A v \in Uses : cache'[Key(v)] = cache[Key(v)] \/ Key(v) = Key(u)
         /\ \A v \in Uses : cache[Key(v)] # <<>> => cache'[Key(v)] = cache[Key(v)]
         /\ \A v \in Uses : Respects(cache'[Key(v)], RoleTable[v.role])
  <1>1. /\ cache \in [{Key(v) : v \in Uses} -> Seq(Providers)]
        /\ Key(u) \in {Key(v) : v \in Uses}
    BY DEF RouterInv, TypeOK
  <1>2. Found(u) \in Seq(Providers) /\ Respects(Found(u), RoleTable[u.role])
    BY <1>1, BuiltFacts DEF RouterInv, CachedChains, Found
  <1>3. /\ cache' \in [{Key(v) : v \in Uses} -> Seq(Providers)]
        /\ cache'[Key(u)] = Found(u)
        /\ \A v \in Uses : cache'[Key(v)] = cache[Key(v)] \/ Key(v) = Key(u)
    BY <1>1, <1>2
  <1>4. \A v \in Uses : cache[Key(v)] # <<>> => cache'[Key(v)] = cache[Key(v)]
    BY <1>3 DEF Found
  <1>5. ASSUME NEW v \in Uses PROVE Respects(cache'[Key(v)], RoleTable[v.role])
    <2>1. CASE Key(v) = Key(u)
      <3>1. v.role = u.role
        BY <2>1 DEF Key
      <3> QED
        BY <1>2, <1>3, <2>1, <3>1
    <2>2. CASE Key(v) # Key(u)
      BY <1>3, <2>2 DEF RouterInv, CachedChains
    <2> QED
      BY <2>1, <2>2
  <1> QED
    BY <1>2, <1>3, <1>4, <1>5

\* A call that changes in no other way keeps its chain when the cache gets more.
LEMMA CallKept ==
  ASSUME NEW k \in Call, NEW cached, CallInv(k, cache),
         \A v \in Uses : cache[Key(v)] # <<>> => cached[Key(v)] = cache[Key(v)]
  PROVE  CallInv(k, cached)
  <1> SUFFICES ASSUME k.pc \in {"calling", "parsed", "unparsed"}
               PROVE  k.chain = cached[Key(k.use)]
    BY DEF CallInv
  <1>1. k.chain = cache[Key(k.use)] /\ k.at \in 1..Len(k.chain) /\ k.use \in Uses
    BY DEF CallInv, Call
  <1>2. k.chain # <<>>
    BY <1>1, EmptySeq
  <1> QED
    BY <1>1, <1>2

LEMMA GetChatModelKeeps ==
  ASSUME RouterInv, NEW c \in Callers, NEW u \in Uses, GetChatModel(c, u)
  PROVE  /\ RouterInv'
         /\ \A d \in Callers \ {c} : call'[d] = call[d]
         /\ call'[c].event = NoEvent /\ call'[c].raised = {}
         /\ call'[c].pc = "failed" => Found(u) = <<>>
  <1> DEFINE found == Found(u)
             pc == IF found = <<>> THEN "failed" ELSE "calling"
             k == CallOf(u, found, pc)
  <1>1. /\ cache' = [cache EXCEPT ![Key(u)] = found]
        /\ call' = [call EXCEPT ![c] = k]
        /\ broken' = broken /\ down' = down
    BY DEF GetChatModel, Found, CallOf
  <1>2. /\ found \in Seq(Providers)
        /\ cache' \in [{Key(v) : v \in Uses} -> Seq(Providers)]
        /\ cache'[Key(u)] = found
        /\ \A v \in Uses : cache[Key(v)] # <<>> => cache'[Key(v)] = cache[Key(v)]
        /\ \A v \in Uses : Respects(cache'[Key(v)], RoleTable[v.role])
    BY <1>1, FoundFacts
  <1> HIDE DEF found
  <1>9. /\ pc \in {"failed", "calling"} /\ (pc = "calling" => found # <<>>)
        /\ (pc = "failed" => found = <<>>)
    OBVIOUS
  <1> HIDE DEF pc
  <1>3. /\ k \in Call /\ k.use = u /\ k.chain = found /\ k.at = 1 /\ k.event = NoEvent
        /\ k.pc = pc /\ k.raised = {}
    <2>1. u \in Uses /\ found \in Seq(Providers) /\ pc \in {"failed", "calling"}
      BY <1>2, <1>9
    <2>2. /\ k \in Call
          /\ k = [pc |-> pc, use |-> u, chain |-> found, at |-> 1, retry |-> 0,
                  raised |-> {}, event |-> NoEvent]
      BY <2>1, NewCallFacts, Zenon
    <2> HIDE DEF k
    <2> QED
      BY <2>2
  <1> HIDE DEF k
  <1>4. call \in [Callers -> Call]
    BY DEF RouterInv, TypeOK
  <1>5. TypeOK'
    BY <1>1, <1>2, <1>3, <1>4 DEF RouterInv, TypeOK
  <1>6. CachedChains'
    BY <1>2 DEF CachedChains
  <1>7. CallInv(k, cache')
    <2>1. found # <<>> => 1 \in 1..Len(found)
      BY <1>2, EmptySeq
    <2>2. 1..(1 - 1) = {}
      OBVIOUS
    <2>3. k.pc = "calling" \/ k.pc = "failed"
      BY <1>3, <1>9
    <2>4. k.pc = "calling" => found # <<>>
      BY <1>3, <1>9
    <2> QED
      BY <1>2, <1>3, <2>1, <2>2, <2>3, <2>4 DEF CallInv
  <1>8. ASSUME NEW d \in Callers PROVE CallInv(call'[d], cache')
    <2>1. CASE d = c
      BY <1>1, <1>4, <1>7, <2>1
    <2>2. CASE d # c
      <3>1. call'[d] = call[d] /\ call[d] \in Call /\ CallInv(call[d], cache)
        BY <1>1, <1>4, <2>2 DEF RouterInv
      <3>2. CallInv(call[d], cache')
        BY <1>2, <3>1, CallKept
      <3> QED
        BY <3>1, <3>2
    <2> QED
      BY <2>1, <2>2
  <1>10. call'[c] = k /\ \A d \in Callers \ {c} : call'[d] = call[d]
    BY <1>1, <1>4
  <1>11. RouterInv'
    BY <1>5, <1>6, <1>8 DEF RouterInv
  <1> QED
    BY <1>3, <1>9, <1>10, <1>11 DEF found

\* A step that changes one call alone.
LEMMA CallChanged ==
  ASSUME RouterInv, NEW c \in Callers, NEW k \in Call, CallInv(k, cache),
         call' = [call EXCEPT ![c] = k], broken' = broken, down' = down, cache' = cache
  PROVE  RouterInv'
  <1>1. call \in [Callers -> Call]
    BY DEF RouterInv, TypeOK
  <1>2. TypeOK'
    BY <1>1 DEF RouterInv, TypeOK
  <1>3. CachedChains'
    BY DEF RouterInv, CachedChains
  <1>4. ASSUME NEW d \in Callers PROVE CallInv(call'[d], cache')
    <2>1. CASE d = c
      <3>1. call'[d] = k
        BY <1>1, <2>1
      <3> QED
        BY <3>1
    <2>2. CASE d # c
      <3>1. call'[d] = call[d] /\ CallInv(call[d], cache)
        BY <1>1, <2>2 DEF RouterInv
      <3> QED
        BY <3>1
    <2> QED
      BY <2>1, <2>2
  <1> QED
    BY <1>2, <1>3, <1>4 DEF RouterInv

\* What the steps of a call leave of it.
Retried(k) == [k EXCEPT !.retry = @ + 1]
Advanced(k) == [k EXCEPT !.at = @ + 1, !.retry = 0]
RaisedBy(k, p) == [k EXCEPT !.raised = @ \cup {p}]
Failed(k) == [k EXCEPT !.pc = "failed"]
Answered(k, how, e) == [k EXCEPT !.pc = how, !.event = e]

LEMMA RetryFacts ==
  ASSUME NEW k \in Call
  PROVE  /\ Retried(k) \in Call /\ Retried(k).pc = k.pc
         /\ Retried(k).use = k.use /\ Retried(k).chain = k.chain
         /\ Retried(k).at = k.at /\ Retried(k).raised = k.raised
         /\ Retried(k).event = k.event
  <1>1. k.retry + 1 \in Nat
    <2>1. k.retry \in Nat
      BY DEF Call
    <2> QED
      BY <2>1
  <1>2. ASSUME NEW n, n = Retried(k)
        PROVE  /\ n \in Call /\ n.pc = k.pc /\ n.use = k.use /\ n.chain = k.chain
               /\ n.at = k.at /\ n.raised = k.raised /\ n.event = k.event
    BY <1>1, <1>2 DEF Retried, Call
  <1> QED
    BY <1>2, Zenon

LEMMA AdvanceFacts ==
  ASSUME NEW k \in Call
  PROVE  /\ Advanced(k) \in Call /\ Advanced(k).pc = k.pc
         /\ Advanced(k).use = k.use /\ Advanced(k).chain = k.chain
         /\ Advanced(k).at = k.at + 1 /\ Advanced(k).raised = k.raised
         /\ Advanced(k).event = k.event
  <1>1. k.at + 1 \in Nat \ {0} /\ 0 \in Nat
    <2>1. k.at \in Nat
      BY DEF Call
    <2> QED
      BY <2>1
  <1>2. ASSUME NEW n, n = Advanced(k)
        PROVE  /\ n \in Call /\ n.pc = k.pc /\ n.use = k.use /\ n.chain = k.chain
               /\ n.at = k.at + 1 /\ n.raised = k.raised /\ n.event = k.event
    BY <1>1, <1>2 DEF Advanced, Call
  <1> QED
    BY <1>2, Zenon

LEMMA RaisedFacts ==
  ASSUME NEW k \in Call, NEW p \in Providers
  PROVE  /\ RaisedBy(k, p) \in Call /\ RaisedBy(k, p).pc = k.pc
         /\ RaisedBy(k, p).use = k.use /\ RaisedBy(k, p).chain = k.chain
         /\ RaisedBy(k, p).at = k.at /\ RaisedBy(k, p).raised = k.raised \cup {p}
         /\ RaisedBy(k, p).event = k.event
  <1>1. k.raised \cup {p} \in SUBSET Providers
    BY DEF Call, Over
  <1>2. ASSUME NEW n, n = RaisedBy(k, p)
        PROVE  /\ n \in Call /\ n.pc = k.pc /\ n.use = k.use /\ n.chain = k.chain
               /\ n.at = k.at /\ n.raised = k.raised \cup {p} /\ n.event = k.event
    BY <1>1, <1>2 DEF RaisedBy, Call
  <1> QED
    BY <1>2, Zenon

LEMMA FailedFacts ==
  ASSUME NEW k \in Call
  PROVE  /\ Failed(k) \in Call /\ Failed(k).pc = "failed"
         /\ Failed(k).use = k.use /\ Failed(k).chain = k.chain
         /\ Failed(k).at = k.at /\ Failed(k).raised = k.raised
         /\ Failed(k).event = k.event
  <1>1. "failed" \in {"idle", "calling"} \cup Over
    BY DEF Call, Over
  <1>2. ASSUME NEW n, n = Failed(k)
        PROVE  /\ n \in Call /\ n.pc = "failed" /\ n.use = k.use /\ n.chain = k.chain
               /\ n.at = k.at /\ n.raised = k.raised /\ n.event = k.event
    BY <1>1, <1>2 DEF Failed, Call
  <1> QED
    BY <1>2, Zenon

LEMMA AnsweredFacts ==
  ASSUME NEW k \in Call, NEW how \in {"parsed", "unparsed"}, NEW e \in Event
  PROVE  /\ Answered(k, how, e) \in Call /\ Answered(k, how, e).pc = how
         /\ Answered(k, how, e).use = k.use /\ Answered(k, how, e).chain = k.chain
         /\ Answered(k, how, e).at = k.at /\ Answered(k, how, e).raised = k.raised
         /\ Answered(k, how, e).event = e
  <1>1. how \in {"idle", "calling"} \cup Over /\ e \in Event
    BY DEF Call, Over
  <1>2. ASSUME NEW n, n = Answered(k, how, e)
        PROVE  /\ n \in Call /\ n.pc = how /\ n.use = k.use /\ n.chain = k.chain
               /\ n.at = k.at /\ n.raised = k.raised /\ n.event = e
    BY <1>1, <1>2 DEF Answered, Call
  <1> QED
    BY <1>2, Zenon

LEMMA NextIndex ==
  ASSUME NEW n \in Nat, NEW a \in 1..n
  PROVE  /\ a < n => a + 1 \in 1..n
         /\ ~(a < n) => a = n
         /\ \A i \in 1..((a + 1) - 1) : i = a \/ i \in 1..(a - 1)
  OBVIOUS

LEMMA BeforeIndex ==
  ASSUME NEW n \in Nat, NEW a \in 1..n, NEW i \in 1..n, ~(a < i), i # a
  PROVE  i \in 1..(a - 1)
  OBVIOUS

\* What becomes of call k when provider p has raised to it.
Raised(k, p, cached, n) ==
  /\ n \in Call /\ CallInv(n, cached)
  /\ n.raised = k.raised \cup {p} /\ n.event = NoEvent
  /\ n.pc = "failed" => k.at = Len(k.chain)

\* A call whose provider has raised tries again, goes on, or has nobody left.
LEMMA AfterRaiseFacts ==
  ASSUME NEW cached, NEW k \in Call, k.pc = "calling", CallInv(k, cached),
         NEW p \in Providers, p = k.chain[k.at],
         NEW n, n = AfterRaise(RaisedBy(k, p), p)
  PROVE  Raised(k, p, cached, n)
  <1> DEFINE m == RaisedBy(k, p)
  <1>1. /\ m \in Call /\ m.pc = "calling" /\ m.raised = k.raised \cup {p}
        /\ m.chain = k.chain /\ m.at = k.at /\ m.use = k.use /\ m.event = k.event
    BY RaisedFacts
  <1> HIDE DEF m
  <1>2. /\ k.event = NoEvent /\ k.chain = cached[Key(k.use)] /\ k.at \in 1..Len(k.chain)
        /\ \A i \in 1..(k.at - 1) : k.chain[i] \in k.raised
        /\ Len(k.chain) \in Nat
    BY LenProperties DEF CallInv, Call
  <1>3. \/ n = Retried(m)
        \/ n = Advanced(m) /\ m.at < Len(m.chain)
        \/ n = Failed(m) /\ ~(m.at < Len(m.chain))
    BY DEF AfterRaise, Retried, Advanced, Failed, m
  <1>4. CASE n = Retried(m)
    <2>1. /\ n \in Call /\ n.pc = "calling" /\ n.raised = m.raised /\ n.chain = m.chain
          /\ n.at = m.at /\ n.use = m.use /\ n.event = m.event
      BY <1>1, <1>4, RetryFacts
    <2>2. CallInv(n, cached)
      BY <1>1, <1>2, <2>1 DEF CallInv
    <2> QED
      BY <1>1, <1>2, <2>1, <2>2 DEF Raised
  <1>5. CASE n = Advanced(m) /\ m.at < Len(m.chain)
    <2>1. /\ n \in Call /\ n.pc = "calling" /\ n.raised = m.raised /\ n.chain = m.chain
          /\ n.at = m.at + 1 /\ n.use = m.use /\ n.event = m.event
      BY <1>1, <1>5, AdvanceFacts
    <2>2. n.at \in 1..Len(n.chain)
      <3>1. k.at + 1 \in 1..Len(k.chain)
        BY <1>1, <1>2, <1>5, NextIndex
      <3> QED
        BY <1>1, <2>1, <3>1
    <2>3. \A i \in 1..(n.at - 1) : n.chain[i] \in n.raised
      <3> SUFFICES ASSUME NEW i \in 1..((k.at + 1) - 1)
                   PROVE  k.chain[i] \in k.raised \cup {p}
        BY <1>1, <2>1
      <3>1. i = k.at \/ i \in 1..(k.at - 1)
        BY <1>2, NextIndex
      <3> QED
        BY <1>2, <3>1
    <2>4. CallInv(n, cached)
      BY <1>1, <1>2, <2>1, <2>2, <2>3 DEF CallInv
    <2> QED
      BY <1>1, <1>2, <2>1, <2>4 DEF Raised
  <1>6. CASE n = Failed(m) /\ ~(m.at < Len(m.chain))
    <2>1. n \in Call /\ n.pc = "failed" /\ n.raised = m.raised /\ n.event = m.event
      BY <1>1, <1>6, FailedFacts
    <2>2. k.at = Len(k.chain)
      BY <1>1, <1>2, <1>6, NextIndex
    <2>3. CallInv(n, cached)
      BY <1>1, <1>2, <2>1 DEF CallInv
    <2> QED
      BY <1>1, <1>2, <2>1, <2>2, <2>3 DEF Raised
  <1> QED
    BY <1>3, <1>4, <1>5, <1>6

\* The provider that is called is one of the chain that the cache holds.
LEMMA CalledFacts ==
  ASSUME RouterInv, NEW c \in Callers, call[c].pc \in {"calling", "parsed", "unparsed"}
  PROVE  /\ call[c] \in Call /\ CallInv(call[c], cache) /\ call[c].use \in Uses
         /\ call[c].chain = cache[Key(call[c].use)] /\ call[c].chain \in Seq(Providers)
         /\ call[c].at \in 1..Len(call[c].chain)
         /\ Called(c) \in Providers /\ Called(c) = call[c].chain[call[c].at]
  <1>1. call[c] \in Call /\ CallInv(call[c], cache)
    BY DEF RouterInv, TypeOK
  <1>2. call[c].use \in Uses /\ call[c].chain \in Seq(Providers)
    BY <1>1 DEF Call
  <1>3. /\ call[c].chain = cache[Key(call[c].use)]
        /\ call[c].at \in 1..Len(call[c].chain)
    BY <1>1 DEF CallInv
  <1>4. call[c].chain[call[c].at] \in Providers
    BY <1>2, <1>3, LenProperties
  <1> QED
    BY <1>1, <1>2, <1>3, <1>4 DEF Called

LEMMA RaisesKeeps ==
  ASSUME RouterInv, NEW c \in Callers, Raises(c)
  PROVE  /\ RouterInv'
         /\ \A d \in Callers \ {c} : call'[d] = call[d]
         /\ call'[c].event = NoEvent /\ call'[c].raised = call[c].raised \cup {Called(c)}
         /\ call'[c].pc = "failed" => call[c].at = Len(call[c].chain)
  <1>1. PICK n : n = AfterRaise(RaisedBy(call[c], Called(c)), Called(c))
    OBVIOUS
  <1>2. /\ call[c].pc = "calling" /\ broken' = broken /\ down' = down /\ cache' = cache
        /\ call' = [call EXCEPT ![c] = n]
    <2>1. /\ call[c].pc = "calling" /\ broken' = broken /\ down' = down /\ cache' = cache
      BY DEF Raises, Calling
    <2>2. call' = [call EXCEPT ![c] = AfterRaise(RaisedBy(call[c], Called(c)), Called(c))]
      BY DEF Raises, RaisedBy
    <2> QED
      BY <1>1, <2>1, <2>2, Zenon
  <1>3. /\ call[c] \in Call /\ CallInv(call[c], cache)
        /\ Called(c) \in Providers /\ Called(c) = call[c].chain[call[c].at]
    BY <1>2, CalledFacts
  <1>4. /\ n \in Call /\ CallInv(n, cache)
        /\ n.raised = call[c].raised \cup {Called(c)} /\ n.event = NoEvent
        /\ n.pc = "failed" => call[c].at = Len(call[c].chain)
    <2>1. Raised(call[c], Called(c), cache, n)
      BY <1>1, <1>2, <1>3, AfterRaiseFacts
    <2> QED
      BY <2>1 DEF Raised
  <1>5. RouterInv'
    BY <1>2, <1>4, CallChanged
  <1>6. call'[c] = n /\ \A d \in Callers \ {c} : call'[d] = call[d]
    BY <1>2 DEF RouterInv, TypeOK
  <1> QED
    BY <1>4, <1>5, <1>6

LEMMA UsageEventsFacts ==
  ASSUME NEW c, Called(c) \in Providers, NEW e \in UsageEvents(c)
  PROVE  e \in Event
  <1>1. CASE e = NoEvent
    BY <1>1, NoEventFacts
  <1>2. ASSUME NEW m \in NamesOf[Called(c)] \cup {"unknown"},
               e = [provider |-> InferProvider(m), model |-> m]
        PROVE  e \in Event
    <2>1. m \in Names \cup {"unknown", ""}
      BY RouterAssumption
    <2>2. InferProvider(m) \in Providers
      BY DEF InferProvider, Providers
    <2> QED
      BY <1>2, <2>1, <2>2 DEF Event
  <1> QED
    BY <1>1, <1>2 DEF UsageEvents

LEMMA AnswersKeeps ==
  ASSUME RouterInv, NEW c \in Callers, NEW how \in {"parsed", "unparsed"}, Answers(c, how)
  PROVE  /\ RouterInv'
         /\ \A d \in Callers \ {c} : call'[d] = call[d]
         /\ call'[c].raised = call[c].raised /\ call'[c].pc = how
         /\ call'[c].event \in UsageEvents(c) /\ Called(c)' = Called(c)
  <1>0. PICK e \in UsageEvents(c) :
          call' = [call EXCEPT ![c] = Answered(call[c], how, e)]
    BY DEF Answers, Answered
  <1>1. PICK n : n = Answered(call[c], how, e)
    OBVIOUS
  <1>2. /\ call[c].pc = "calling" /\ broken' = broken /\ down' = down /\ cache' = cache
        /\ call' = [call EXCEPT ![c] = n]
    <2>1. /\ call[c].pc = "calling" /\ broken' = broken /\ down' = down /\ cache' = cache
      BY DEF Answers, Calling
    <2> QED
      BY <1>0, <1>1, <2>1, Zenon
  <1>3. /\ call[c] \in Call /\ CallInv(call[c], cache) /\ Called(c) \in Providers
    BY <1>2, CalledFacts
  <1>4. e \in Event
    BY <1>3, UsageEventsFacts
  <1>5. /\ n \in Call /\ n.pc = how /\ n.use = call[c].use /\ n.chain = call[c].chain
        /\ n.at = call[c].at /\ n.raised = call[c].raised /\ n.event = e
    BY <1>1, <1>3, <1>4, AnsweredFacts
  <1>6. CallInv(n, cache)
    BY <1>2, <1>3, <1>5 DEF CallInv
  <1>7. RouterInv'
    BY <1>2, <1>5, <1>6, CallChanged
  <1>8. call'[c] = n /\ \A d \in Callers \ {c} : call'[d] = call[d]
    BY <1>2 DEF RouterInv, TypeOK
  <1>9. Called(c)' = Called(c)
    BY <1>5, <1>8, Zenon DEF Called
  <1> QED
    BY <1>5, <1>7, <1>8, <1>9

LEMMA LeavesKeeps ==
  ASSUME RouterInv, NEW c \in Callers, Leaves(c)
  PROVE  /\ RouterInv'
         /\ \A d \in Callers \ {c} : call'[d] = call[d]
         /\ call'[c] = NoCall
  <1>1. CallInv(NoCall, cache)
    BY NoCallFacts DEF CallInv
  <1>2. RouterInv'
    BY <1>1, NoCallFacts, CallChanged DEF Leaves
  <1>3. call'[c] = NoCall /\ \A d \in Callers \ {c} : call'[d] = call[d]
    BY DEF Leaves, RouterInv, TypeOK
  <1> QED
    BY <1>2, <1>3

LEMMA WeatherKeeps ==
  ASSUME RouterInv, Weather
  PROVE  RouterInv'
  <1>1. cache' = cache /\ call' = call
    BY DEF Weather
  <1>2. broken' \subseteq Providers /\ down' \subseteq Providers
    BY DEF Weather, RouterInv, TypeOK, SymDiff
  <1>3. TypeOK'
    BY <1>1, <1>2 DEF RouterInv, TypeOK
  <1>4. CachedChains'
    BY <1>1 DEF RouterInv, CachedChains
  <1> QED
    BY <1>1, <1>3, <1>4 DEF RouterInv

LEMMA NextKeeps == RouterInv /\ [Next]_vars => RouterInv'
  <1> SUFFICES ASSUME RouterInv, [Next]_vars PROVE RouterInv'
    OBVIOUS
  <1>1. CASE Weather
    BY <1>1, WeatherKeeps
  <1>2. ASSUME NEW c \in Callers, NEW u \in Uses, GetChatModel(c, u) PROVE RouterInv'
    BY <1>2, GetChatModelKeeps
  <1>3. ASSUME NEW c \in Callers, Raises(c) PROVE RouterInv'
    BY <1>3, RaisesKeeps
  <1>4. ASSUME NEW c \in Callers, NEW how \in {"parsed", "unparsed"}, Answers(c, how)
        PROVE RouterInv'
    BY <1>4, AnswersKeeps
  <1>5. ASSUME NEW c \in Callers, Leaves(c) PROVE RouterInv'
    BY <1>5, LeavesKeeps
  <1>6. CASE UNCHANGED vars
    BY <1>6 DEF vars, RouterInv, TypeOK, CachedChains
  <1> QED
    BY <1>1, <1>2, <1>3, <1>4, <1>5, <1>6 DEF Next, Attempt

\* At all times the cached chain of a use lists providers in the order of its
\* role's table, and a call that is under way or answered goes by the cached
\* chain of its use and has been through it up to where it is.  (The cache is
\* shared, and filled while other calls are under way.)
THEOREM RouterInvariant == Spec => []RouterInv
  <1>1. Init => RouterInv
    BY InitRouter
  <1>2. RouterInv /\ [Next]_vars => RouterInv'
    BY NextKeeps
  <1> QED
    BY <1>1, <1>2, PTL DEF Spec

\* The router's variables have their types, whoever calls and whatever fails.
THEOREM RouterTypes == Spec => []TypeOK
  <1>1. RouterInv => TypeOK
    BY DEF RouterInv
  <1> QED
    BY <1>1, RouterInvariant, PTL

-----------------------------------------------------------------------------
(* Who answers a call, and whom it is billed to.                           *)

\* Before(p, t) is what the table lists before the n-th provider, if that is p.
LEMMA BeforeFacts ==
  ASSUME NEW t \in Tables, NEW n \in 1..3
  PROVE  Before(t[n], t) = {t[i] : i \in 1..(n - 1)}
  <1>1. {j \in DOMAIN t : t[j] = t[n]} = {n}
    BY TableFacts
  <1>2. Min({n}) = n
    BY DEF Min
  <1> QED
    BY <1>1, <1>2 DEF Before

LEMMA RouterInvKeepsPreference == RouterInv => PreferenceKept
  <1> SUFFICES ASSUME RouterInv, NEW c \in Callers, call[c].pc \in {"parsed", "unparsed"},
                      NEW p \in Before(Called(c), RoleTable[call[c].use.role]),
                      p \in ToSet(cache[Key(call[c].use)])
               PROVE  p \in call[c].raised
    BY DEF PreferenceKept
  <1> DEFINE k == call[c]
             t == RoleTable[k.use.role]
  <1>1. /\ CallInv(k, cache) /\ k.use \in Uses /\ k.chain = cache[Key(k.use)]
        /\ k.chain \in Seq(Providers) /\ k.at \in 1..Len(k.chain)
        /\ Called(c) = k.chain[k.at]
    BY CalledFacts
  <1>2. t \in Tables /\ Respects(k.chain, t)
    BY <1>1, BuiltFacts DEF RouterInv, CachedChains
  <1>3. PICK n \in 1..3 : Called(c) = t[n]
    BY <1>1, <1>2, TableFacts, CalledFacts
  <1>4. PICK a \in 1..(n - 1) : p = t[a]
    BY <1>2, <1>3, BeforeFacts
  <1>5. PICK i \in 1..Len(k.chain) : p = k.chain[i]
    BY <1>1, ToSetOfSeq
  <1>6. \A x, y \in 1..3 : t[x] = t[y] => x = y
    BY <1>2, TableFacts
  <1>7. a \in 1..3 /\ a < n
    BY <1>3, <1>4
  <1> HIDE DEF t
  <1>8. i # k.at
    <2> SUFFICES ASSUME i = k.at PROVE FALSE
      OBVIOUS
    <2>1. t[a] = t[n]
      BY <1>1, <1>3, <1>4, <1>5
    <2> QED
      BY <1>6, <1>7, <2>1
  <1>9. ~(k.at < i)
    <2> SUFFICES ASSUME k.at < i PROVE FALSE
      OBVIOUS
    <2>1. PICK x \in 1..3, y \in 1..3 : x < y /\ k.chain[k.at] = t[x] /\ k.chain[i] = t[y]
      BY <1>1, <1>2, <1>5 DEF Respects
    <2>2. x = n /\ y = a
      BY <1>1, <1>3, <1>4, <1>5, <1>6, <1>7, <2>1
    <2> QED
      BY <1>7, <2>1, <2>2
  <1>10. i \in 1..(k.at - 1)
    BY <1>1, <1>8, <1>9, LenProperties, BeforeIndex
  <1> QED
    BY <1>1, <1>5, <1>10 DEF CallInv

\* A call is answered by the provider its role prefers, less those that raised to
\* it and those its chain lacks: _resolve_models keeps the order of the table, and
\* with_fallbacks skips nobody, for every number of callers that share the cache.
THEOREM AnsweredInOrder == Spec => []PreferenceKept
  BY RouterInvariant, RouterInvKeepsPreference, PTL

\* No provider's answer carries the word by which another one's are known.  It need
\* not carry its own, nor a name at all.
NamesTellApart ==
  \A p \in Providers : \A m \in NamesOf[p] : /\ "claude" \in Words[m] => p = "anthropic"
                                             /\ "gemini" \in Words[m] => p = "google"

\* Event e of an answer of provider p.
RightlyBilled(e, p) ==
  e # NoEvent /\ e.provider # p => e.provider = "ollama" /\ e.model \notin Priced

LEMMA BilledFacts ==
  ASSUME NamesTellApart, NEW c, Called(c) \in Providers, NEW e \in UsageEvents(c)
  PROVE  RightlyBilled(e, Called(c))
  <1> SUFFICES ASSUME NEW m \in NamesOf[Called(c)] \cup {"unknown"},
                      e = [provider |-> InferProvider(m), model |-> m],
                      InferProvider(m) # Called(c)
               PROVE  InferProvider(m) = "ollama" /\ m \notin Priced
    BY DEF UsageEvents, RightlyBilled
  <1>1. CASE "claude" \in Words[m]
    <2>1. m \in NamesOf[Called(c)]
      BY <1>1, RouterAssumption
    <2> QED
      BY <1>1, <2>1 DEF NamesTellApart, InferProvider
  <1>2. CASE "claude" \notin Words[m] /\ "gemini" \in Words[m]
    <2>1. m \in NamesOf[Called(c)]
      BY <1>2, RouterAssumption
    <2> QED
      BY <1>2, <2>1 DEF NamesTellApart, InferProvider
  <1>3. CASE "claude" \notin Words[m] /\ "gemini" \notin Words[m]
    <2>1. m \in Names \cup {"unknown"}
      BY RouterAssumption
    <2>2. Words[m] = {}
      BY <1>3, <2>1, RouterAssumption
    <2> QED
      BY <1>3, <2>2, RouterAssumption DEF InferProvider
  <1> QED
    BY <1>1, <1>2, <1>3

LEMMA NextBills ==
  ASSUME NamesTellApart, RouterInv, CostGoesToAnswerer, [Next]_vars
  PROVE  CostGoesToAnswerer'
  <1> SUFFICES ASSUME NEW d \in Callers
               PROVE  RightlyBilled(call'[d].event, Called(d)')
    BY DEF CostGoesToAnswerer, RightlyBilled
  <1>1. call'[d] = call[d] => RightlyBilled(call'[d].event, Called(d)')
    BY DEF CostGoesToAnswerer, RightlyBilled, Called
  <1>2. CASE Weather
    BY <1>1, <1>2 DEF Weather
  <1>3. ASSUME NEW c \in Callers, NEW u \in Uses, GetChatModel(c, u)
        PROVE  RightlyBilled(call'[d].event, Called(d)')
    <2>1. d = c => call'[d].event = NoEvent
      BY <1>3, GetChatModelKeeps
    <2>2. d # c => call'[d] = call[d]
      BY <1>3, GetChatModelKeeps
    <2> QED
      BY <1>1, <2>1, <2>2 DEF RightlyBilled
  <1>4. ASSUME NEW c \in Callers, Raises(c)
        PROVE  RightlyBilled(call'[d].event, Called(d)')
    <2>1. d = c => call'[d].event = NoEvent
      BY <1>4, RaisesKeeps
    <2>2. d # c => call'[d] = call[d]
      BY <1>4, RaisesKeeps
    <2> QED
      BY <1>1, <2>1, <2>2 DEF RightlyBilled
  <1>5. ASSUME NEW c \in Callers, NEW how \in {"parsed", "unparsed"}, Answers(c, how)
        PROVE  RightlyBilled(call'[d].event, Called(d)')
    <2>1. Called(c) \in Providers
      BY <1>5, CalledFacts DEF Answers, Calling
    <2>2. RightlyBilled(call'[c].event, Called(c)')
      BY <1>5, <2>1, AnswersKeeps, BilledFacts
    <2>3. d # c => call'[d] = call[d]
      BY <1>5, AnswersKeeps
    <2> QED
      BY <1>1, <2>2, <2>3
  <1>6. ASSUME NEW c \in Callers, Leaves(c)
        PROVE  RightlyBilled(call'[d].event, Called(d)')
    <2>1. d = c => call'[d].event = NoEvent
      BY <1>6, LeavesKeeps, NoCallFacts
    <2>2. d # c => call'[d] = call[d]
      BY <1>6, LeavesKeeps
    <2> QED
      BY <1>1, <2>1, <2>2 DEF RightlyBilled
  <1>7. CASE UNCHANGED vars
    BY <1>1, <1>7 DEF vars
  <1> QED
    BY <1>2, <1>3, <1>4, <1>5, <1>6, <1>7 DEF Next, Attempt

\* The cost of a call goes to the provider that answered it, not to the one its role
\* prefers, however providers fail and whatever names their answers carry: those
\* with a word of their own, those without, and none at all.  _infer_provider has
\* nothing but the name to go by, so the answers of one provider must not carry
\* another one's word (NamesTellApart).
THEOREM CostGoesRight ==
  ASSUME NamesTellApart
  PROVE  Spec => []CostGoesToAnswerer
  <1>1. Init => RouterInv /\ CostGoesToAnswerer
    BY InitRouter, NoCallFacts DEF Init, CostGoesToAnswerer
  <1>2. (RouterInv /\ CostGoesToAnswerer) /\ [Next]_vars
          => (RouterInv /\ CostGoesToAnswerer)'
    BY NextKeeps, NextBills
  <1> QED
    BY <1>1, <1>2, PTL DEF Spec

-----------------------------------------------------------------------------
(* One provider in order is enough.                                        *)

Healthy(p) == p \notin broken \cup down
NoneFails == \A c \in Callers : call[c].pc # "failed"

\* While p is in order, every chain that is cached contains it, and it has raised
\* to no call.
HealthyInv(p) ==
  /\ \A u \in Uses : cache[Key(u)] = <<>> \/ p \in ToSet(cache[Key(u)])
  /\ \A c \in Callers : call[c].pc # "failed" /\ p \notin call[c].raised

LEMMA HealthyStep ==
  ASSUME NEW p \in Providers, Healthy(p), RouterInv, HealthyInv(p), [Next]_vars
  PROVE  HealthyInv(p)'
  <1>1. CASE Weather
    BY <1>1 DEF Weather, HealthyInv
  <1>2. ASSUME NEW c \in Callers, NEW u \in Uses, GetChatModel(c, u)
        PROVE  HealthyInv(p)'
    <2>1. p \in ToSet(Found(u)) /\ Found(u) # <<>>
      <3>1. p \in ToSet(Found(u))
        BY BuiltFacts DEF Found, HealthyInv, Healthy
      <3> QED
        BY <3>1 DEF ToSet
    <2>2. cache' = [cache EXCEPT ![Key(u)] = Found(u)]
      BY <1>2 DEF GetChatModel, Found
    <2>3. /\ cache'[Key(u)] = Found(u)
          /\ \A v \in Uses : cache'[Key(v)] = cache[Key(v)] \/ Key(v) = Key(u)
      BY <2>2, FoundFacts
    <2>4. \A v \in Uses : cache'[Key(v)] = <<>> \/ p \in ToSet(cache'[Key(v)])
      BY <2>1, <2>3 DEF HealthyInv
    <2>5. ASSUME NEW d \in Callers
          PROVE  call'[d].pc # "failed" /\ p \notin call'[d].raised
      BY <1>2, <2>1, GetChatModelKeeps DEF HealthyInv
    <2> QED
      BY <2>4, <2>5 DEF HealthyInv
  <1>3. ASSUME NEW c \in Callers, Raises(c) PROVE HealthyInv(p)'
    <2>1. call[c].pc = "calling" /\ Called(c) \in down /\ cache' = cache
      BY <1>3 DEF Raises, Calling
    <2>2. Called(c) # p
      BY <2>1 DEF Healthy
    <2>3. call'[c].pc # "failed"
      <3> SUFFICES ASSUME call[c].at = Len(call[c].chain) PROVE FALSE
        BY <1>3, RaisesKeeps
      <3>1. /\ CallInv(call[c], cache) /\ call[c].use \in Uses
            /\ call[c].chain = cache[Key(call[c].use)] /\ call[c].chain \in Seq(Providers)
            /\ call[c].at \in 1..Len(call[c].chain) /\ Called(c) = call[c].chain[call[c].at]
        BY <2>1, CalledFacts
      <3>2. call[c].chain # <<>>
        BY <3>1, EmptySeq
      <3>3. p \in ToSet(call[c].chain)
        BY <3>1, <3>2 DEF HealthyInv
      <3>4. PICK i \in 1..Len(call[c].chain) : p = call[c].chain[i]
        BY <3>1, <3>3, ToSetOfSeq
      <3>5. i # call[c].at /\ ~(call[c].at < i)
        BY <2>2, <3>1, <3>4, LenProperties
      <3>6. i \in 1..(call[c].at - 1)
        BY <3>1, <3>5, LenProperties, BeforeIndex
      <3> QED
        BY <2>1, <3>1, <3>4, <3>6 DEF CallInv, HealthyInv
    <2>4. p \notin call'[c].raised
      BY <1>3, <2>2, RaisesKeeps DEF HealthyInv
    <2>5. ASSUME NEW d \in Callers
          PROVE  call'[d].pc # "failed" /\ p \notin call'[d].raised
      BY <1>3, <2>3, <2>4, RaisesKeeps DEF HealthyInv
    <2> QED
      BY <2>1, <2>5 DEF HealthyInv
  <1>4. ASSUME NEW c \in Callers, NEW how \in {"parsed", "unparsed"}, Answers(c, how)
        PROVE  HealthyInv(p)'
    <2>1. cache' = cache
      BY <1>4 DEF Answers
    <2>2. ASSUME NEW d \in Callers
          PROVE  call'[d].pc # "failed" /\ p \notin call'[d].raised
      BY <1>4, AnswersKeeps DEF HealthyInv
    <2> QED
      BY <2>1, <2>2 DEF HealthyInv
  <1>5. ASSUME NEW c \in Callers, Leaves(c) PROVE HealthyInv(p)'
    <2>1. cache' = cache
      BY <1>5 DEF Leaves
    <2>2. ASSUME NEW d \in Callers
          PROVE  call'[d].pc # "failed" /\ p \notin call'[d].raised
      BY <1>5, LeavesKeeps, NoCallFacts DEF HealthyInv
    <2> QED
      BY <2>1, <2>2 DEF HealthyInv
  <1>6. CASE UNCHANGED vars
    BY <1>6 DEF vars, HealthyInv
  <1> QED
    BY <1>1, <1>2, <1>3, <1>4, <1>5, <1>6 DEF Next, Attempt

\* As long as one provider can be constructed and answers, no call of any role
\* fails, however the other two break, recover and break again, and whatever
\* chains the cache was filled with meanwhile (the comment in _resolve_models).
THEOREM OneHealthySuffices == Spec => OneHealthyIsEnough
  <1>1. ASSUME NEW p \in Providers
        PROVE  Spec => ([]Healthy(p) => []NoneFails)
    <2>1. Init => HealthyInv(p)
      BY NoCallFacts DEF Init, HealthyInv
    <2>2. Healthy(p) /\ RouterInv /\ HealthyInv(p) /\ [Next]_vars => HealthyInv(p)'
      BY HealthyStep
    <2>3. HealthyInv(p) => NoneFails
      BY DEF HealthyInv, NoneFails
    <2> QED
      BY <2>1, <2>2, <2>3, RouterInvariant, PTL DEF Spec
  <1> QED
    BY <1>1 DEF OneHealthyIsEnough, Healthy, NoneFails
=============================================================================
