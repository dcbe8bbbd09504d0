-------------------------- MODULE AuditGraphProofs --------------------------
(***************************************************************************)
(* Proofs about AuditGraph, for every set of keys, every limit and every   *)
(* mix of answers: the order in which its nodes return, and what is in the *)
(* report they make.                                                       *)
(***************************************************************************)
EXTENDS AuditGraph, SequenceLemmas

LEMMA AgentNames == Agents = {"vulnerability_agent", "code_quality_agent", "secrets_agent"}
  BY DEF Agents, Priority, ToSet

\* The barriers of the graph: the agents before the merge, the merge before the
\* aggregate node, that before guardrail; and what raised has not returned.
OrderInv ==
  /\ finished \subseteq Nodes
  /\ merged => Agents \subseteq finished
  /\ "aggregate" \in finished => merged
  /\ "guardrail" \in finished => "aggregate" \in finished
  /\ report # <<>> <=> "guardrail" \in finished
  /\ raised => finished # Nodes

LEMMA RunNames ==
  /\ Run!Nodes = Nodes
  /\ \A a \in Agents : Run!WaitsFor(a) = {} /\ a \in Nodes /\ a \notin {"aggregate", "guardrail"}
  /\ Run!WaitsFor("aggregate") = Agents
  /\ Run!WaitsFor("guardrail") = {"aggregate"}
  /\ Nodes = Agents \cup {"aggregate", "guardrail"}
  BY AgentNames DEF Run!Nodes, Nodes, Run!WaitsFor

LEMMA OrderInit == Init => OrderInv /\ Run!Init
  BY AgentNames DEF Init, OrderInv, Run!Init, Nodes

\* One step of AuditGraph, as GraphRun sees it.
LEMMA RunStep ==
  ASSUME OrderInv, [Step]_vars
  PROVE  OrderInv' /\ [Run!Next]_Run!vars
  <1> USE RunNames DEF OrderInv, Running
  <1>1. ASSUME NEW a \in Agents, NEW r, AgentReturns(a, r)
        PROVE  OrderInv' /\ [Run!Next]_Run!vars
    <2>1. /\ ~raised /\ a \notin finished /\ finished' = finished \cup {a}
          /\ raised' = raised /\ report' = report /\ merged' = merged
      BY <1>1 DEF AgentReturns, stateVars
    <2>2. report = <<>>
      BY <2>1
    <2>3. Run!Finish(a)
      BY <2>1, <2>2 DEF Run!Finish
    <2> QED
      BY <2>1, <2>2, <2>3 DEF Run!Next
  <1>2. ASSUME NEW n \in Nodes, n \notin finished, ~raised, raised' = TRUE,
               UNCHANGED <<finished, merged, report>>
        PROVE  OrderInv' /\ [Run!Next]_Run!vars
    <2>1. Run!Raise
      BY <1>2 DEF Run!Raise
    <2> QED
      BY <1>2, <2>1 DEF Run!Next
  <1>3. ASSUME NEW r, \/ \E a \in Agents : AgentRaises(a, r)
                      \/ AggregateRaises(r) \/ ScanRaises \/ GuardrailRaises
        PROVE  OrderInv' /\ [Run!Next]_Run!vars
    <2>1. "secrets_agent" \in Nodes
      BY AgentNames
    <2> QED
      BY <1>2, <1>3, <2>1
      DEF AgentRaises, AggregateRaises, ScanRaises, GuardrailRaises, stateVars
  <1>4. CASE Merge
    BY <1>4 DEF Merge, Run!vars
  <1>5. ASSUME NEW r, Aggregate(r)
        PROVE  OrderInv' /\ [Run!Next]_Run!vars
    <2>1. /\ ~raised /\ merged /\ "aggregate" \notin finished
          /\ finished' = finished \cup {"aggregate"}
          /\ raised' = raised /\ report' = report /\ merged' = merged
      BY <1>5 DEF Aggregate
    <2>2. report = <<>>
      BY <2>1
    <2>3. Run!Finish("aggregate")
      BY <2>1, <2>2 DEF Run!Finish
    <2> QED
      BY <2>1, <2>2, <2>3 DEF Run!Next
  <1>6. CASE Guardrail
    <2>1. /\ ~raised /\ "aggregate" \in finished /\ "guardrail" \notin finished
          /\ finished' = finished \cup {"guardrail"}
          /\ raised' = raised /\ merged' = merged
      BY <1>6 DEF Guardrail
    <2>2. report' # <<>>
      BY <1>6 DEF Guardrail
    <2>3. Run!Finish("guardrail")
      BY <2>1, <2>2 DEF Run!Finish
    <2> QED
      BY <2>1, <2>2, <2>3 DEF Run!Next
  <1>7. CASE UNCHANGED vars
    BY <1>7 DEF vars, stateVars, Run!vars
  <1> QED
    BY <1>1, <1>3, <1>4, <1>5, <1>6, <1>7 DEF Step

\* ImplementsGraphRun: whatever the models answer, and whichever texts are too
\* long for their fields, each node returns or raises once and after the nodes it
\* waits for, and there is a report exactly when guardrail returned (build.py:13-38).
THEOREM GraphIsRun == Spec => ImplementsGraphRun
  <1>1. OrderInv /\ [Step]_vars => OrderInv' /\ [Run!Next]_Run!vars
    BY RunStep
  <1> QED
    BY <1>1, OrderInit, PTL DEF Spec, ImplementsGraphRun, Run!Spec

-----------------------------------------------------------------------------
(***************************************************************************)
(* TokensOf: the total of a list of usage events.                          *)
(***************************************************************************)

\* f runs the total of the first n events.
Totals(f, events, n) ==
  /\ f \in [0..n -> Nat] /\ f[0] = 0
  /\ \A i \in 1..n : f[i] = f[i - 1] + Tokens[events[i]]

LEMMA TotalsExist ==
  ASSUME NEW events \in Seq(Nodes)
  PROVE  \E f : Totals(f, events, Len(events))
  <1> DEFINE L == Len(events)
             step == [i \in 1..L |-> [x \in Nat |-> x + Tokens[events[i]]]]
  <1>1. L \in Nat /\ \A i \in 1..L : Tokens[events[i]] \in Nat
    BY GraphAssumption, LenProperties, ElementOfSeq
  <1>2. step \in [1..L -> [Nat -> Nat]]
    BY <1>1
  <1>3. \A i \in 1..L, x \in Nat : step[i][x] = x + Tokens[events[i]]
    OBVIOUS
  <1> HIDE DEF step
  <1>4. PICK f : Runs(f, Nat, 0, step, L)
    BY <1>1, <1>2, RunExists
  <1>5. f \in [0..L -> Nat] /\ f[0] = 0 /\ \A i \in 1..L : f[i] = step[i][f[i - 1]]
    BY <1>4 DEF Runs
  <1>6. \A i \in 1..L : i - 1 \in 0..L /\ f[i - 1] \in Nat
    BY <1>1, <1>5
  <1> QED
    BY <1>3, <1>5, <1>6 DEF Totals

\* Running totals of two sequences are the same as far as the sequences are.
LEMMA TotalsAgree ==
  ASSUME NEW n \in Nat, NEW f, NEW g, NEW s, NEW t, NEW m \in Nat, n <= m,
         Totals(f, s, n), Totals(g, t, m), \A i \in 1..n : s[i] = t[i]
  PROVE  f[n] = g[n]
  <1> DEFINE T == {i \in 0..n : f[i] # g[i]}
  <1> SUFFICES ASSUME T # {} PROVE FALSE
    OBVIOUS
  <1>0. T \in SUBSET Nat
    OBVIOUS
  <1>1. PICK i \in T : \A j \in T : i <= j
    BY <1>0, LeastElement
  <1>2. i \in 0..n /\ f[i] # g[i] /\ i # 0
    BY <1>1 DEF Totals
  <1>3. i \in 1..n /\ i \in 1..m /\ i - 1 \in 0..n /\ i - 1 \notin T
    BY <1>1, <1>2
  <1>4. f[i - 1] = g[i - 1]
    BY <1>3
  <1>5. f[i] = f[i - 1] + Tokens[s[i]] /\ g[i] = g[i - 1] + Tokens[t[i]]
    BY <1>3 DEF Totals
  <1> QED
    BY <1>2, <1>3, <1>4, <1>5

LEMMA TokensOfIsTotal ==
  ASSUME NEW events \in Seq(Nodes)
  PROVE  \E f : Totals(f, events, Len(events)) /\ TokensOf(events) = f[Len(events)]
  <1> DEFINE L == Len(events)
             Law(h) == h = [i \in 0..L |-> IF i = 0 THEN 0 ELSE h[i - 1] + Tokens[events[i]]]
             total == CHOOSE h : Law(h)
  <1>1. L \in Nat
    BY LenProperties
  <1>2. PICK f : Totals(f, events, L)
    BY TotalsExist
  <1>3. Law(f)
    <2> DEFINE g == [i \in 0..L |-> IF i = 0 THEN 0 ELSE f[i - 1] + Tokens[events[i]]]
    <2>1. ASSUME NEW i \in 0..L PROVE f[i] = g[i]
      <3>1. i = 0 \/ i \in 1..L
        BY <1>1
      <3> QED
        BY <3>1, <1>1, <1>2 DEF Totals
    <2>2. f \in [0..L -> Nat] /\ DOMAIN g = 0..L
      BY <1>2 DEF Totals
    <2> QED
      BY <2>1, <2>2
  <1>4. Law(total)
    BY <1>3, Zenon
  <1>5. TokensOf(events) = total[L]
    BY Zenon DEF TokensOf
  <1> HIDE DEF total
  <1>6. /\ total[0] = 0
        /\ \A i \in 1..L : total[i] = total[i - 1] + Tokens[events[i]]
    <2>1. \A i \in 0..L : total[i] = IF i = 0 THEN 0 ELSE total[i - 1] + Tokens[events[i]]
      BY <1>4
    <2> QED
      BY <1>1, <2>1
  <1> DEFINE T == {i \in 0..L : f[i] # total[i]}
  <1>7. T = {}
    <2> SUFFICES ASSUME T # {} PROVE FALSE
      OBVIOUS
    <2>0. T \in SUBSET Nat
      BY <1>1
    <2>1. PICK i \in T : \A j \in T : i <= j
      BY <2>0, LeastElement
    <2>2. i \in 0..L /\ f[i] # total[i] /\ i # 0
      BY <2>1, <1>2, <1>6 DEF Totals
    <2>3. i \in 1..L /\ i - 1 \in 0..L /\ i - 1 \notin T
      BY <2>1, <2>2
    <2>4. f[i - 1] = total[i - 1]
      BY <2>3
    <2>5. f[i] = f[i - 1] + Tokens[events[i]]
      BY <2>3, <1>2 DEF Totals
    <2> QED
      BY <2>2, <2>3, <2>4, <2>5, <1>6
  <1>8. f[L] = total[L]
    BY <1>1, <1>7
  <1> QED
    BY <1>2, <1>5, <1>8

\* An event adds the tokens of its call.
LEMMA TokensOfAppend ==
  ASSUME NEW s \in Seq(Nodes), NEW n \in Nodes
  PROVE  /\ TokensOf(<<>>) = 0 /\ TokensOf(s) \in Nat
         /\ TokensOf(Append(s, n)) = TokensOf(s) + Tokens[n]
  <1>1. TokensOf(<<>>) = 0
    <2>1. PICK f : Totals(f, <<>>, Len(<<>>)) /\ TokensOf(<<>>) = f[Len(<<>>)]
      BY EmptySeq, TokensOfIsTotal
    <2> QED
      BY <2>1, EmptySeq DEF Totals
  <1>2. /\ Append(s, n) \in Seq(Nodes) /\ Len(s) \in Nat
        /\ Len(Append(s, n)) = Len(s) + 1 /\ Append(s, n)[Len(s) + 1] = n
        /\ \A i \in 1..Len(s) : s[i] = Append(s, n)[i]
    BY AppendFacts, LenProperties
  <1> DEFINE t == Append(s, n)
             L == Len(s)
  <1>3. PICK f : Totals(f, s, L) /\ TokensOf(s) = f[L]
    BY TokensOfIsTotal
  <1>4. PICK g : Totals(g, t, L + 1) /\ TokensOf(t) = g[L + 1]
    BY <1>2, TokensOfIsTotal
  <1> HIDE DEF t
  <1>5. f[L] = g[L]
    <2>1. L + 1 \in Nat /\ L <= L + 1 /\ L \in Nat /\ \A i \in 1..L : s[i] = t[i]
      BY <1>2 DEF t
    <2> QED
      BY <1>3, <1>4, <2>1, TotalsAgree
  <1>6. g[L + 1] = g[(L + 1) - 1] + Tokens[t[L + 1]]
    BY <1>2, <1>4 DEF Totals
  <1>7. f[L] \in Nat
    BY <1>2, <1>3 DEF Totals
  <1> QED
    BY <1>1, <1>2, <1>3, <1>4, <1>5, <1>6, <1>7 DEF t

-----------------------------------------------------------------------------
(***************************************************************************)
(* Occurrences: how often a node is in a list.                             *)
(***************************************************************************)

LEMMA MinOfTwo ==
  ASSUME NEW a \in Nat, NEW b \in Nat
  PROVE  Min({a, b}) = IF a <= b THEN a ELSE b
  <1> DEFINE m == IF a <= b THEN a ELSE b
             LeastOf(x) == x \in {a, b} /\ \A y \in {a, b} : x <= y
  <1>1. LeastOf(m)
    OBVIOUS
  <1>2. \A x : LeastOf(x) => x = m
    OBVIOUS
  <1>3. Min({a, b}) = CHOOSE x : LeastOf(x)
    BY Zenon DEF Min
  <1> HIDE DEF LeastOf, m
  <1>4. LeastOf(CHOOSE x : LeastOf(x))
    BY <1>1, Zenon
  <1>5. Min({a, b}) = m
    BY <1>2, <1>3, <1>4
  <1> QED
    BY <1>5 DEF m

\* Where x occurs in s.
Places(x, s) == {i \in DOMAIN s : s[i] = x}

LEMMA PlacesFinite ==
  ASSUME NEW S, NEW s \in Seq(S), NEW x
  PROVE  /\ IsFiniteSet(Places(x, s)) /\ Occurrences(x, s) = Cardinality(Places(x, s))
         /\ Occurrences(x, s) \in Nat
         /\ DOMAIN s = 1..Len(s) /\ Len(s) \in Nat
  <1>1. Len(s) \in Nat /\ DOMAIN s = 1..Len(s)
    BY LenProperties
  <1>2. IsFiniteSet(1..Len(s))
    BY <1>1, FS_Interval
  <1>3. Places(x, s) \in SUBSET (1..Len(s))
    BY <1>1 DEF Places
  <1>4. IsFiniteSet(Places(x, s)) /\ Cardinality(Places(x, s)) \in Nat
    BY <1>2, <1>3, FS_Subset, FS_CardinalityType
  <1>5. Occurrences(x, s) = Cardinality(Places(x, s))
    BY Zenon DEF Occurrences, Places
  <1> QED
    BY <1>1, <1>4, <1>5

LEMMA OccurrencesAppend ==
  ASSUME NEW S, NEW s \in Seq(S), NEW e \in S, NEW x
  PROVE  /\ Occurrences(x, <<>>) = 0 /\ Occurrences(x, s) \in Nat
         /\ Occurrences(x, Append(s, e)) = Occurrences(x, s) + (IF e = x THEN 1 ELSE 0)
  <1> DEFINE t == Append(s, e)
             L == Len(s)
  <1>1. /\ t \in Seq(S) /\ DOMAIN t = 1..(L + 1) /\ t[L + 1] = e
        /\ \A i \in 1..L : t[i] = s[i]
    BY AppendFacts, ToSetOfSeq
  <1>2. /\ IsFiniteSet(Places(x, s)) /\ Occurrences(x, s) = Cardinality(Places(x, s))
        /\ Occurrences(x, s) \in Nat /\ L \in Nat /\ DOMAIN s = 1..L
        /\ Occurrences(x, t) = Cardinality(Places(x, t))
    BY <1>1, PlacesFinite
  <1> HIDE DEF t, L
  <1>3. L + 1 \notin Places(x, s)
    BY <1>2 DEF Places
  <1>4. \A i : i \in 1..(L + 1) <=> (i \in 1..L \/ i = L + 1)
    BY <1>2
  <1>5. Places(x, t) = IF e = x THEN Places(x, s) \cup {L + 1} ELSE Places(x, s)
    <2>1. \A i : i \in Places(x, t) <=> i \in Places(x, s) \/ (i = L + 1 /\ e = x)
      BY <1>1, <1>2, <1>4 DEF Places
    <2> QED
      BY <2>1
  <1>6. Cardinality(Places(x, s) \cup {L + 1}) = Cardinality(Places(x, s)) + 1
    BY <1>2, <1>3, FS_AddElement
  <1>7. Occurrences(x, <<>>) = 0
    <2>1. /\ IsFiniteSet(Places(x, <<>>))
          /\ Occurrences(x, <<>>) = Cardinality(Places(x, <<>>)) /\ DOMAIN <<>> = 1..0
      BY EmptySeq, PlacesFinite
    <2>2. Places(x, <<>>) = {}
      BY <2>1 DEF Places
    <2> QED
      BY <2>1, <2>2, FS_EmptySet
  <1> QED
    BY <1>2, <1>5, <1>6, <1>7 DEF t

\* An element that s does not have, r times over.
LEMMA OccurrencesRepeat ==
  ASSUME NEW S, NEW s \in Seq(S), NEW e \in S, NEW r \in Seq(S),
         \A i \in 1..Len(r) : r[i] = e
  PROVE  /\ \A x : x # e => Occurrences(x, s \o r) = Occurrences(x, s)
         /\ Occurrences(e, s) = 0 => Occurrences(e, s \o r) = Len(r)
  <1> DEFINE t == s \o r
  <1>1. /\ t \in Seq(S) /\ Len(t) = Len(s) + Len(r)
        /\ \A i \in 1..Len(s) : t[i] = s[i]
        /\ \A i \in (Len(s) + 1)..Len(t) : t[i] = e
        /\ Len(s) \in Nat /\ Len(r) \in Nat
    BY RepeatFacts, LenProperties
  <1>2. /\ DOMAIN s = 1..Len(s) /\ DOMAIN t = 1..Len(t)
        /\ \A x : /\ Occurrences(x, s) = Cardinality(Places(x, s))
                  /\ Occurrences(x, t) = Cardinality(Places(x, t))
                  /\ IsFiniteSet(Places(x, s))
    BY <1>1, PlacesFinite
  <1> HIDE DEF t
  <1>3. \A i : i \in 1..Len(t) <=> i \in 1..Len(s) \/ i \in (Len(s) + 1)..Len(t)
    BY <1>1
  <1>4. \A i \in 1..Len(s) : i \notin (Len(s) + 1)..Len(t)
    BY <1>1
  <1>5. ASSUME NEW x, x # e
        PROVE  Occurrences(x, t) = Occurrences(x, s)
    <2>1. \A i : i \in Places(x, t) <=> i \in Places(x, s)
      BY <1>1, <1>2, <1>3, <1>5 DEF Places
    <2>2. Places(x, t) = Places(x, s)
      BY <2>1
    <2> QED
      BY <1>2, <2>2
  <1>6. ASSUME Occurrences(e, s) = 0
        PROVE  Occurrences(e, t) = Len(r)
    <2>1. Places(e, s) = {}
      BY <1>2, <1>6, FS_EmptySet
    <2>2. \A i \in 1..Len(s) : s[i] # e
      BY <1>2, <2>1 DEF Places
    <2>3. \A i : i \in Places(e, t) <=> i \in (Len(s) + 1)..Len(t)
      BY <1>1, <1>2, <1>3, <1>4, <2>2 DEF Places
    <2>4. Places(e, t) = (Len(s) + 1)..Len(t)
      BY <2>3
    <2>5. Cardinality((Len(s) + 1)..Len(t)) = Len(r)
      <3>1. \A a, b \in Int : Cardinality(a..b) = IF a > b THEN 0 ELSE b - a + 1
        BY FS_Interval
      <3>2. /\ Len(s) + 1 \in Int /\ Len(t) \in Int
            /\ Len(r) = IF Len(s) + 1 > Len(t) THEN 0 ELSE Len(t) - (Len(s) + 1) + 1
        BY <1>1
      <3> QED
        BY <3>1, <3>2
    <2> QED
      BY <1>2, <2>4, <2>5
  <1> QED
    BY <1>5, <1>6 DEF t

-----------------------------------------------------------------------------
(***************************************************************************)
(* The invariant.                                                          *)
(***************************************************************************)

\* What the graph's state is, apart from the calls' results.
StateTypes ==
  /\ findings \in [Agents -> Seq(Finding)]
  /\ agent_errors \in Seq(Nodes) /\ token_usage \in Seq(Nodes)
  /\ deduped \in Seq(Finding) /\ summary \in {"", "fallback", "model"}
  /\ report \in Seq(Report) /\ Len(report) <= 1

ResultTypes ==
  /\ result \in [Nodes -> Results]
  /\ result["guardrail"] = NoResult
  /\ ~raised => \A n \in Nodes \ finished : result[n] = NoResult

FileTypes == overlong \in OverlongSets /\ hits \in Seq(Known) /\ candidates \subseteq Known

FlowTypes == finished \subseteq Nodes /\ merged \in BOOLEAN /\ raised \in BOOLEAN

TypeInv == StateTypes /\ ResultTypes /\ FileTypes /\ FlowTypes

\* The tokens of the call a node made.
Cost(n) == IF result[n].usage THEN Tokens[n] ELSE 0

\* Merged: the state's lists hold what the calls so far have left.
MergedInv ==
  /\ findings = [a \in Agents |-> FindingsOf(a)]
  /\ ~raised =>
       /\ \A n \in Nodes : Occurrences(n, agent_errors) = IF result[n].failed THEN 1 ELSE 0
       /\ TokensOf(token_usage) = Cost("vulnerability_agent") + Cost("code_quality_agent")
                                    + Cost("secrets_agent") + Cost("aggregate")

\* What guardrail makes of the state.
Made == [findings |-> Select(Kept, Clean(Kept)),
         agent_errors |-> agent_errors \o Notes(Kept),
         usage |-> TokensOf(token_usage)]

DataInv ==
  /\ TypeInv
  /\ merged => MergedInv
  /\ "aggregate" \in finished => deduped = Dedupe(AllFindings)
  /\ "guardrail" \in finished => report = <<Made>>

GraphInv == OrderInv /\ DataInv

-----------------------------------------------------------------------------
(***************************************************************************)
(* What the nodes write, and what they keep of it.                         *)
(***************************************************************************)

LEMMA NodeNames ==
  /\ Agents = {"vulnerability_agent", "code_quality_agent", "secrets_agent"}
  /\ Nodes = Agents \cup {"aggregate", "guardrail"}
  /\ "aggregate" \notin Agents /\ "guardrail" \notin Agents
  /\ "aggregate" \in Nodes /\ "guardrail" \in Nodes /\ "secrets_agent" \in Nodes
  BY AgentNames DEF Nodes

LEMMA ResultFacts ==
  /\ NoResult \in Results /\ NoResult.failed = FALSE /\ NoResult.usage = FALSE
  /\ NoResult.batch = <<>>
  /\ \A r \in Results : /\ r.failed \in BOOLEAN /\ r.usage \in BOOLEAN
                        /\ r.batch \in Seq(Keys) /\ (r.failed => r.batch = <<>>)
  <1> DEFINE B == BoundedSeq(Keys, MaxBatch)
  <1>1. B \subseteq Seq(Keys) /\ <<>> \in B
    <2>1. B = UNION {[1..m -> Keys] : m \in 0..MaxBatch}
      BY DEF BoundedSeq, SeqOf
    <2>2. \A m \in 0..MaxBatch : [1..m -> Keys] \subseteq Seq(Keys)
      OBVIOUS
    <2>3. 0 \in 0..MaxBatch /\ <<>> \in [1..0 -> Keys]
      BY GraphAssumption
    <2> QED
      BY <2>1, <2>2, <2>3
  <1>2. Results = {r \in [failed : BOOLEAN, usage : BOOLEAN, batch : B] :
                     r.failed => r.batch = <<>>}
    BY DEF Results
  <1> HIDE DEF B
  <1>3. /\ NoResult \in Results /\ NoResult.failed = FALSE /\ NoResult.usage = FALSE
        /\ NoResult.batch = <<>>
    BY <1>1, <1>2 DEF NoResult
  <1> QED
    BY <1>1, <1>2, <1>3

LEMMA TaggedFacts ==
  ASSUME NEW keys \in Seq(Keys), NEW a \in Agents
  PROVE  /\ Tagged(keys, a) \in Seq(Finding) /\ Len(Tagged(keys, a)) = Len(keys)
         /\ \A i \in 1..Len(keys) : Tagged(keys, a)[i] = [key |-> keys[i], agent |-> a]
  <1>1. Len(keys) \in Nat /\ DOMAIN keys = 1..Len(keys) /\ \A i \in 1..Len(keys) : keys[i] \in Keys
    BY LenProperties
  <1>2. \A i \in 1..Len(keys) : [key |-> keys[i], agent |-> a] \in Finding
    BY <1>1 DEF Finding
  <1> QED
    BY <1>1, <1>2 DEF Tagged

\* The keys a node reports.
KeysOf(a) == IF a = "secrets_agent" THEN hits \o Select(result[a].batch, Confirmed)
             ELSE result[a].batch

LEMMA KeysOfFacts ==
  ASSUME TypeInv, NEW a \in Agents
  PROVE  /\ KeysOf(a) \in Seq(Keys)
         /\ FindingsOf(a) = Tagged(KeysOf(a), a)
         /\ \A k : k \in ToSet(KeysOf(a)) <=> Claims(a, k)
  <1> USE NodeNames
  <1>1. \A n \in Nodes : result[n].batch \in Seq(Keys)
    BY ResultFacts DEF TypeInv, ResultTypes
  <1>2. hits \in Seq(Keys)
    <2>1. hits \in Seq(Known) /\ Known \subseteq Keys
      BY GraphAssumption DEF TypeInv, FileTypes
    <2> QED
      BY <2>1, SeqMonotonic
  <1>3. CASE a # "secrets_agent"
    BY <1>1, <1>3 DEF KeysOf, FindingsOf, Claims
  <1>4. CASE a = "secrets_agent"
    <2> DEFINE batch == result["secrets_agent"].batch
    <2>1. batch \in Seq(Keys) /\ DOMAIN batch = 1..Len(batch)
      BY <1>1, LenProperties
    <2>2. Confirmed = {i \in DOMAIN batch : batch[i] \in candidates}
      BY DEF Confirmed
    <2>3. ToSet(batch) = {batch[i] : i \in DOMAIN batch}
      BY <2>1, ToSetOfSeq
    <2> HIDE DEF batch
    <2>4. SelectMeans(Keys, batch, Confirmed)
      BY <2>1, <2>2, SelectFacts
    <2>5. /\ Select(batch, Confirmed) \in Seq(Keys)
          /\ ToSet(Select(batch, Confirmed)) = {batch[i] : i \in Confirmed}
      BY <2>4 DEF SelectMeans
    <2>6. /\ hits \o Select(batch, Confirmed) \in Seq(Keys)
          /\ ToSet(hits \o Select(batch, Confirmed))
               = ToSet(hits) \cup ToSet(Select(batch, Confirmed))
      BY <1>2, <2>5, ConcatFacts
    <2>7. \A k : k \in {batch[i] : i \in Confirmed} <=> k \in candidates \cap ToSet(batch)
      BY <2>2, <2>3
    <2>8. KeysOf(a) = hits \o Select(batch, Confirmed) /\ FindingsOf(a) = Tagged(KeysOf(a), a)
      BY <1>4 DEF KeysOf, FindingsOf, batch
    <2>9. \A k : Claims(a, k) <=> k \in ToSet(hits) \/ k \in candidates \cap ToSet(batch)
      BY <1>4 DEF Claims, batch
    <2> QED
      BY <2>5, <2>6, <2>7, <2>8, <2>9
  <1> QED
    BY <1>3, <1>4

LEMMA FindingsOfType ==
  ASSUME TypeInv
  PROVE  [a \in Agents |-> FindingsOf(a)] \in [Agents -> Seq(Finding)]
  <1>1. \A a \in Agents : FindingsOf(a) \in Seq(Finding)
    BY KeysOfFacts, TaggedFacts
  <1> QED
    BY <1>1

\* What deduplication and the check for known files leave of a list of findings.
LEMMA SelectionFacts ==
  ASSUME NEW fs \in Seq(Finding)
  PROVE  SelectMeans(Finding, fs, FirstOfKey(fs)) /\ Dedupe(fs) \in Seq(Finding)
         /\ SelectMeans(Finding, fs, Clean(fs))
  <1>1. FirstOfKey(fs) \in SUBSET (DOMAIN fs) /\ Clean(fs) \in SUBSET (DOMAIN fs)
    BY DEF FirstOfKey, Clean
  <1>2. SelectMeans(Finding, fs, FirstOfKey(fs)) /\ SelectMeans(Finding, fs, Clean(fs))
    BY <1>1, SelectFacts
  <1> QED
    BY <1>2 DEF Dedupe, SelectMeans

\* The findings the graph dedupes.
LEMMA AllFindingsFacts ==
  ASSUME findings \in [Agents -> Seq(Finding)]
  PROVE  /\ AllFindings \in Seq(Finding)
         /\ AllFindings = (findings["vulnerability_agent"] \o findings["code_quality_agent"])
                            \o findings["secrets_agent"]
  <1>1. /\ Priority[1] = "vulnerability_agent" /\ Priority[2] = "code_quality_agent"
        /\ Priority[3] = "secrets_agent"
    BY DEF Priority
  <1>2. \A a \in Agents : findings[a] \in Seq(Finding)
    OBVIOUS
  <1>3. /\ findings["vulnerability_agent"] \in Seq(Finding)
        /\ findings["code_quality_agent"] \in Seq(Finding)
        /\ findings["secrets_agent"] \in Seq(Finding)
    BY <1>2, NodeNames
  <1>4. findings["vulnerability_agent"] \o findings["code_quality_agent"] \in Seq(Finding)
    BY <1>3, ConcatFacts
  <1>5. (findings["vulnerability_agent"] \o findings["code_quality_agent"])
          \o findings["secrets_agent"] \in Seq(Finding)
    BY <1>3, <1>4, ConcatFacts
  <1> QED
    BY <1>1, <1>5 DEF AllFindings

\* Kept is deduped cut to the limit.
LEMMA KeptFacts ==
  ASSUME deduped \in Seq(Finding)
  PROVE  /\ Kept \in Seq(Finding)
         /\ Len(Kept) = IF Len(deduped) <= MaxFindings THEN Len(deduped) ELSE MaxFindings
         /\ \A i \in 1..Len(Kept) : Kept[i] = deduped[i]
         /\ Len(Kept) \in Nat /\ Len(deduped) \in Nat /\ Len(Kept) <= Len(deduped)
  <1>1. /\ Len(deduped) \in Nat /\ MaxFindings \in Nat
        /\ \A i \in 1..Len(deduped) : deduped[i] \in Finding
    BY GraphAssumption, LenProperties
  <1> DEFINE m == Min({Len(deduped), MaxFindings})
  <1>2. m = IF Len(deduped) <= MaxFindings THEN Len(deduped) ELSE MaxFindings
    BY <1>1, MinOfTwo
  <1>3. Kept = SubSeq(deduped, 1, m)
    BY DEF Kept
  <1> HIDE DEF m
  <1>4. m \in Nat /\ m <= Len(deduped) /\ \A i \in 1..m : deduped[i] \in Finding
    BY <1>1, <1>2
  <1>5. /\ SubSeq(deduped, 1, m) \in Seq(Finding)
        /\ Len(SubSeq(deduped, 1, m)) = IF 1 <= m THEN m - 1 + 1 ELSE 0
        /\ \A i \in 1..(m - 1 + 1) : SubSeq(deduped, 1, m)[i] = deduped[1 + i - 1]
    BY <1>4, SubSeqProperties, Z3
  <1>6. Len(Kept) = m
    BY <1>3, <1>4, <1>5
  <1>7. ASSUME NEW i \in 1..m PROVE Kept[i] = deduped[i]
    <2>1. i \in 1..(m - 1 + 1) /\ 1 + i - 1 = i
      BY <1>4
    <2> QED
      BY <1>3, <1>5, <2>1
  <1> QED
    BY <1>1, <1>2, <1>3, <1>4, <1>5, <1>6, <1>7

\* A note for each finding of Kept that is not clean.
LEMMA NotesFacts ==
  ASSUME NEW fs \in Seq(Finding)
  PROVE  /\ Notes(fs) \in Seq(Nodes)
         /\ \A i \in 1..Len(Notes(fs)) : Notes(fs)[i] = "guardrail"
         /\ Len(Notes(fs)) + Cardinality(Clean(fs)) = Len(fs)
         /\ Len(Notes(fs)) \in Nat
  <1>1. Len(fs) \in Nat /\ DOMAIN fs = 1..Len(fs)
    BY LenProperties
  <1>2. IsFiniteSet(1..Len(fs)) /\ Cardinality(1..Len(fs)) = Len(fs)
    <2>1. Cardinality(1..Len(fs)) = IF 1 > Len(fs) THEN 0 ELSE Len(fs) - 1 + 1
      BY <1>1, FS_Interval
    <2>2. IsFiniteSet(1..Len(fs))
      BY <1>1, FS_Interval
    <2> QED
      BY <1>1, <2>1, <2>2
  <1> DEFINE C == Clean(fs)
             D == DOMAIN fs \ C
  <1>3. C \in SUBSET (1..Len(fs)) /\ D = (1..Len(fs)) \ C
    BY <1>1 DEF Clean
  <1> HIDE DEF C
  <1>4. IsFiniteSet(C) /\ IsFiniteSet(D) /\ C \cup D = 1..Len(fs) /\ C \cap D = {}
    BY <1>2, <1>3, FS_Subset
  <1>5. Cardinality(C) \in Nat /\ Cardinality(D) \in Nat
    BY <1>4, FS_CardinalityType
  <1>6. Cardinality(C \cup D) = Cardinality(C) + Cardinality(D) - Cardinality(C \cap D)
    BY <1>4, FS_Union
  <1>7. Cardinality(C) + Cardinality(D) = Len(fs)
    <2>1. Cardinality(C \cap D) = 0
      BY <1>4, FS_EmptySet, Zenon
    <2>2. Cardinality(C \cup D) = Len(fs)
      BY <1>2, <1>4, Zenon
    <2>3. \A c, d \in Nat : Len(fs) = c + d - 0 => c + d = Len(fs)
      BY <1>1
    <2>4. Len(fs) = Cardinality(C) + Cardinality(D) - 0
      BY <1>6, <2>1, <2>2, Zenon
    <2> QED
      BY <1>5, <2>3, <2>4, Zenon
  <1>8. Notes(fs) = [n \in 1..Cardinality(D) |-> "guardrail"]
    BY DEF Notes, C
  <1> HIDE DEF D
  <1>9. /\ Notes(fs) \in Seq(Nodes) /\ Len(Notes(fs)) = Cardinality(D)
        /\ \A i \in 1..Cardinality(D) : Notes(fs)[i] = "guardrail"
    BY <1>5, <1>8, NodeNames
  <1> QED
    BY <1>5, <1>7, <1>9 DEF C

-----------------------------------------------------------------------------
(***************************************************************************)
(* The invariant holds at first, and every step preserves it.              *)
(***************************************************************************)

LEMMA EmptyLists ==
  /\ <<>> \in Seq(Nodes) /\ <<>> \in Seq(Finding) /\ <<>> \in Seq(Report)
  /\ Len(<<>>) = 0
  BY EmptySeq

LEMMA TypeInit == Init => TypeInv
  <1> SUFFICES ASSUME Init PROVE TypeInv
    OBVIOUS
  <1> USE NodeNames
  <1>1. FileTypes
    <2>1. BoundedSeq(Known, MaxHits) \subseteq Seq(Known)
      <3>1. BoundedSeq(Known, MaxHits) = UNION {[1..m -> Known] : m \in 0..MaxHits}
        BY DEF BoundedSeq, SeqOf
      <3> QED
        BY <3>1
    <2> QED
      BY <2>1 DEF Init, FileTypes
  <1>2. ResultTypes
    BY ResultFacts DEF Init, ResultTypes
  <1>3. StateTypes
    <2>1. findings \in [Agents -> Seq(Finding)]
      BY EmptyLists DEF Init
    <2>2. report = <<>> /\ agent_errors = <<>> /\ token_usage = <<>> /\ deduped = <<>>
      BY DEF Init
    <2>3. /\ report \in Seq(Report) /\ Len(report) <= 1
          /\ agent_errors \in Seq(Nodes) /\ token_usage \in Seq(Nodes) /\ deduped \in Seq(Finding)
      BY <2>2, EmptyLists
    <2>4. summary \in {"", "fallback", "model"}
      BY DEF Init
    <2> QED
      BY <2>1, <2>3, <2>4 DEF StateTypes
  <1>4. FlowTypes
    BY DEF Init, FlowTypes
  <1> QED
    BY <1>1, <1>2, <1>3, <1>4 DEF TypeInv

\* A list with at most one element more.
Maybe(s, n, c) == s \o (IF c THEN <<n>> ELSE <<>>)

OneMore(s, n, c) ==
  /\ Maybe(s, n, c) \in Seq(Nodes)
  /\ \A x : Occurrences(x, Maybe(s, n, c)) = Occurrences(x, s) + (IF c /\ x = n THEN 1 ELSE 0)
  /\ TokensOf(Maybe(s, n, c)) = TokensOf(s) + (IF c THEN Tokens[n] ELSE 0)

LEMMA MaybeOne ==
  ASSUME NEW s \in Seq(Nodes), NEW n \in Nodes, NEW c \in BOOLEAN
  PROVE  OneMore(s, n, c)
  <1>1. \A x : /\ Occurrences(x, s) \in Nat
               /\ Occurrences(x, Append(s, n)) = Occurrences(x, s) + (IF n = x THEN 1 ELSE 0)
    BY OccurrencesAppend
  <1>2. TokensOf(s) \in Nat /\ TokensOf(Append(s, n)) = TokensOf(s) + Tokens[n]
    BY TokensOfAppend
  <1>3. CASE c
    <2>1. Maybe(s, n, c) = Append(s, n) /\ Append(s, n) \in Seq(Nodes)
      BY <1>3, AppendIsConcat, AppendFacts DEF Maybe
    <2> QED
      BY <1>1, <1>2, <1>3, <2>1 DEF OneMore
  <1>4. CASE ~c
    <2>1. Maybe(s, n, c) = s
      BY <1>4, ConcatEmptySeq DEF Maybe
    <2>2. \A x : Occurrences(x, s) = Occurrences(x, s) + 0
      BY <1>1
    <2>3. TokensOf(s) = TokensOf(s) + 0
      BY <1>2
    <2> QED
      BY <1>4, <2>1, <2>2, <2>3 DEF OneMore
  <1> QED
    BY <1>3, <1>4

\* The three agents in any order.
LEMMA Orders ==
  ASSUME NEW o \in SetToSeqs(Agents)
  PROVE  /\ o[1] \in Agents /\ o[2] \in Agents /\ o[3] \in Agents
         /\ o[1] # o[2] /\ o[1] # o[3] /\ o[2] # o[3]
         /\ \A a \in Agents : a = o[1] \/ a = o[2] \/ a = o[3]
  <1>1. Cardinality(Agents) = 3
    <2> DEFINE A == {"vulnerability_agent"}
               B == A \cup {"code_quality_agent"}
               C == B \cup {"secrets_agent"}
    <2>1. IsFiniteSet(A) /\ Cardinality(A) = 1
      BY FS_Singleton
    <2>2. "code_quality_agent" \notin A /\ "secrets_agent" \notin B
      OBVIOUS
    <2> HIDE DEF A
    <2>3. IsFiniteSet(B) /\ Cardinality(B) = 2
      BY <2>1, <2>2, FS_AddElement
    <2> HIDE DEF B
    <2>4. Cardinality(C) = Cardinality(B) + 1
      BY <2>2, <2>3, FS_AddElement
    <2>5. Agents = C
      BY NodeNames DEF A, B
    <2> QED
      BY <2>3, <2>4, <2>5
  <1>2. o \in [1..3 -> Agents] /\ \A i, j \in 1..3 : i # j => o[i] # o[j]
    BY <1>1 DEF SetToSeqs
  <1>3. 1 \in 1..3 /\ 2 \in 1..3 /\ 3 \in 1..3
    OBVIOUS
  <1>4. /\ o[1] \in Agents /\ o[2] \in Agents /\ o[3] \in Agents
        /\ o[1] # o[2] /\ o[1] # o[3] /\ o[2] # o[3]
    BY <1>2, <1>3
  <1> QED
    BY <1>4, NodeNames

\* What the three agents' calls leave in the lists, in whatever order.
LEMMA MergedLists ==
  ASSUME TypeInv, NEW o \in SetToSeqs(Agents)
  PROVE  /\ ErrorsOf(o[1]) \o ErrorsOf(o[2]) \o ErrorsOf(o[3]) \in Seq(Nodes)
         /\ UsageOf(o[1]) \o UsageOf(o[2]) \o UsageOf(o[3]) \in Seq(Nodes)
         /\ \A n \in Nodes :
              Occurrences(n, ErrorsOf(o[1]) \o ErrorsOf(o[2]) \o ErrorsOf(o[3]))
                = IF n \in Agents /\ result[n].failed THEN 1 ELSE 0
         /\ TokensOf(UsageOf(o[1]) \o UsageOf(o[2]) \o UsageOf(o[3]))
              = Cost("vulnerability_agent") + Cost("code_quality_agent")
                  + Cost("secrets_agent")
  <1> DEFINE a == o[1]  b == o[2]  c == o[3]
  <1>1. /\ a \in Agents /\ b \in Agents /\ c \in Agents
        /\ a # b /\ a # c /\ b # c
        /\ \A n \in Agents : n = a \/ n = b \/ n = c
    BY Orders
  <1>2. /\ a \in Nodes /\ b \in Nodes /\ c \in Nodes
        /\ \A n \in Nodes : result[n].failed \in BOOLEAN /\ result[n].usage \in BOOLEAN
                             /\ Tokens[n] \in Nat
    BY <1>1, NodeNames, ResultFacts, GraphAssumption DEF TypeInv, ResultTypes
  <1> HIDE DEF a, b, c
  <1>3. /\ \A n \in Nodes : ErrorsOf(n) = IF result[n].failed THEN <<n>> ELSE <<>>
        /\ \A n \in Nodes : UsageOf(n) = IF result[n].usage THEN <<n>> ELSE <<>>
    BY DEF ErrorsOf, UsageOf
  <1>4. ASSUME NEW s \in Seq(Nodes), NEW n \in Nodes
        PROVE  /\ s \o ErrorsOf(n) \in Seq(Nodes) /\ s \o UsageOf(n) \in Seq(Nodes)
               /\ \A x : Occurrences(x, s \o ErrorsOf(n))
                           = Occurrences(x, s) + (IF result[n].failed /\ x = n THEN 1 ELSE 0)
               /\ TokensOf(s \o UsageOf(n)) = TokensOf(s) + Cost(n)
    <2>1. /\ s \o ErrorsOf(n) = Maybe(s, n, result[n].failed)
          /\ s \o UsageOf(n) = Maybe(s, n, result[n].usage)
      BY <1>3 DEF Maybe
    <2>2. OneMore(s, n, result[n].failed) /\ OneMore(s, n, result[n].usage)
      BY <1>2, MaybeOne
    <2> QED
      BY <2>1, <2>2 DEF OneMore, Cost
  <1>5. /\ ErrorsOf(a) \in Seq(Nodes) /\ UsageOf(a) \in Seq(Nodes)
        /\ <<>> \o ErrorsOf(a) = ErrorsOf(a) /\ <<>> \o UsageOf(a) = UsageOf(a)
    <2>1. <<>> \in Seq(Nodes) /\ <<a>> \in Seq(Nodes)
      BY <1>2
    <2>2. ErrorsOf(a) \in Seq(Nodes) /\ UsageOf(a) \in Seq(Nodes)
      BY <1>2, <1>3, <2>1
    <2> QED
      BY <2>2, ConcatEmptySeq
  <1> DEFINE E == ErrorsOf(a) \o ErrorsOf(b)
             U == UsageOf(a) \o UsageOf(b)
  <1>6. /\ E \in Seq(Nodes) /\ U \in Seq(Nodes)
        /\ E \o ErrorsOf(c) \in Seq(Nodes) /\ U \o UsageOf(c) \in Seq(Nodes)
    BY <1>2, <1>4, <1>5
  <1>7. ASSUME NEW n \in Nodes
        PROVE  Occurrences(n, E \o ErrorsOf(c))
                 = IF n \in Agents /\ result[n].failed THEN 1 ELSE 0
    <2> DEFINE blame(m) == IF result[m].failed /\ n = m THEN 1 ELSE 0
    <2>1. Occurrences(n, <<>>) = 0
      BY <1>2, EmptyLists, OccurrencesAppend
    <2>2. Occurrences(n, ErrorsOf(a)) = 0 + blame(a)
      <3>1. <<>> \in Seq(Nodes)
        BY EmptyLists
      <3>2. \A x : Occurrences(x, <<>> \o ErrorsOf(a))
                    = Occurrences(x, <<>>) + (IF result[a].failed /\ x = a THEN 1 ELSE 0)
        BY <1>2, <1>4, <3>1, Zenon
      <3> QED
        BY <1>5, <2>1, <3>2
    <2>3. Occurrences(n, E) = Occurrences(n, ErrorsOf(a)) + blame(b)
      <3>1. \A x : Occurrences(x, ErrorsOf(a) \o ErrorsOf(b))
                    = Occurrences(x, ErrorsOf(a)) + (IF result[b].failed /\ x = b THEN 1 ELSE 0)
        BY <1>2, <1>4, <1>5, Zenon
      <3> QED
        BY <3>1, Zenon
    <2>4. Occurrences(n, E \o ErrorsOf(c)) = Occurrences(n, E) + blame(c)
      <3>1. \A x : Occurrences(x, E \o ErrorsOf(c))
                    = Occurrences(x, E) + (IF result[c].failed /\ x = c THEN 1 ELSE 0)
        BY <1>2, <1>4, <1>6, Zenon
      <3> QED
        BY <3>1, Zenon
    <2>5. 0 + blame(a) + blame(b) + blame(c) = IF n \in Agents /\ result[n].failed THEN 1 ELSE 0
      BY <1>1, <1>2
    <2> QED
      BY <2>2, <2>3, <2>4, <2>5
  <1>8. TokensOf(U \o UsageOf(c)) = Cost("vulnerability_agent") + Cost("code_quality_agent")
                                      + Cost("secrets_agent")
    <2>1. TokensOf(<<>>) = 0
      BY <1>2, EmptyLists, TokensOfAppend
    <2>2. TokensOf(UsageOf(a)) = 0 + Cost(a)
      BY <1>2, <1>4, <1>5, <2>1, EmptyLists
    <2>3. TokensOf(U) = TokensOf(UsageOf(a)) + Cost(b)
      BY <1>2, <1>4, <1>5
    <2>4. TokensOf(U \o UsageOf(c)) = TokensOf(U) + Cost(c)
      BY <1>2, <1>4, <1>6
    <2>5. \A n \in Nodes : Cost(n) \in Nat
      BY <1>2 DEF Cost
    <2>6. Cost(a) + Cost(b) + Cost(c)
            = Cost("vulnerability_agent") + Cost("code_quality_agent") + Cost("secrets_agent")
      BY <1>1, <1>2, <2>5, NodeNames
    <2> QED
      BY <1>2, <2>2, <2>3, <2>4, <2>5, <2>6
  <1> QED
    BY <1>6, <1>7, <1>8 DEF a, b, c

LEMMA GraphInit == Init => GraphInv
  BY OrderInit, TypeInit DEF GraphInv, DataInv, Init

\* What a node's call brings back is that node's alone.
LEMMA SetResult ==
  ASSUME TypeInv, NEW n \in Nodes \ {"guardrail"}, NEW r \in Results,
         n \notin finished, ~raised, result' = [result EXCEPT ![n] = r],
         \/ finished' = finished \cup {n} /\ raised' = raised
         \/ finished' = finished /\ raised' = TRUE
  PROVE  /\ ResultTypes' /\ finished' \subseteq Nodes /\ raised' \in BOOLEAN
         /\ result'[n] = r /\ \A m \in Nodes : m # n => result'[m] = result[m]
  <1>1. ResultTypes /\ FlowTypes
    BY DEF TypeInv
  <1>2. /\ result' \in [Nodes -> Results]
        /\ result'[n] = r /\ \A m \in Nodes : m # n => result'[m] = result[m]
    BY <1>1 DEF ResultTypes
  <1>3. finished' \subseteq Nodes /\ raised' \in BOOLEAN
    BY <1>1 DEF FlowTypes
  <1>4. result'["guardrail"] = NoResult
    BY <1>1, <1>2, NodeNames DEF ResultTypes
  <1>5. ~raised' => \A m \in Nodes \ finished' : result'[m] = NoResult
    BY <1>1, <1>2 DEF ResultTypes
  <1> QED
    BY <1>2, <1>3, <1>4, <1>5 DEF ResultTypes

LEMMA SameFindings ==
  ASSUME \A a \in Agents : result'[a] = result[a], UNCHANGED fileVars
  PROVE  \A a \in Agents : FindingsOf(a)' = FindingsOf(a)
  <1>1. /\ result'["secrets_agent"] = result["secrets_agent"]
        /\ hits' = hits /\ candidates' = candidates
    BY NodeNames DEF fileVars
  <1>2. Confirmed' = Confirmed
    BY <1>1 DEF Confirmed
  <1> QED
    BY <1>1, <1>2 DEF FindingsOf

LEMMA SameMade ==
  ASSUME UNCHANGED stateVars
  PROVE  Made' = Made /\ AllFindings' = AllFindings
  BY DEF stateVars, Made, Kept, AllFindings

LEMMA TypeInvNext ==
  ASSUME TypeInv, UNCHANGED <<fileVars, stateVars>>,
         ResultTypes', finished' \subseteq Nodes, raised' \in BOOLEAN, merged' \in BOOLEAN
  PROVE  TypeInv'
  <1>1. StateTypes /\ FileTypes
    BY DEF TypeInv
  <1>2. StateTypes' /\ FileTypes' /\ FlowTypes'
    BY <1>1 DEF StateTypes, FileTypes, FlowTypes, stateVars, fileVars
  <1> QED
    BY <1>2 DEF TypeInv

LEMMA AgentStep ==
  ASSUME GraphInv, NEW a \in Agents, NEW r \in Results,
         AgentReturns(a, r) \/ AgentRaises(a, r)
  PROVE  DataInv'
  <1> USE NodeNames
  <1>1. /\ ~raised /\ a \notin finished /\ result' = [result EXCEPT ![a] = r]
        /\ \/ finished' = finished \cup {a} /\ raised' = raised
           \/ finished' = finished /\ raised' = TRUE
        /\ merged' = merged /\ UNCHANGED <<fileVars, stateVars>>
    BY DEF AgentReturns, AgentRaises, Running
  <1>2. ~merged /\ "aggregate" \notin finished /\ "guardrail" \notin finished
    BY <1>1 DEF GraphInv, DataInv, OrderInv
  <1>3. TypeInv
    BY DEF GraphInv, DataInv
  <1>4. ResultTypes' /\ finished' \subseteq Nodes /\ raised' \in BOOLEAN
    BY <1>1, <1>3, SetResult
  <1>5. merged' \in BOOLEAN
    BY <1>1, <1>3 DEF TypeInv, FlowTypes
  <1>6. TypeInv'
    BY <1>1, <1>3, <1>4, <1>5, TypeInvNext
  <1>7. ~merged' /\ "aggregate" \notin finished' /\ "guardrail" \notin finished'
    BY <1>1, <1>2
  <1> QED
    BY <1>6, <1>7 DEF DataInv

\* A node that raises before or after its call leaves the rest as it is.
LEMMA PlainRaise ==
  ASSUME GraphInv, raised' = TRUE,
         UNCHANGED <<fileVars, result, finished, merged, stateVars>>
  PROVE  DataInv'
  <1>1. TypeInv /\ ResultTypes /\ FlowTypes
    BY DEF TypeInv, GraphInv, DataInv
  <1>2. /\ result' = result /\ finished' = finished /\ merged' = merged /\ findings' = findings
        /\ deduped' = deduped /\ report' = report
    BY DEF stateVars
  <1>3. ResultTypes'
    BY <1>1, <1>2 DEF ResultTypes
  <1>4. TypeInv'
    BY <1>1, <1>2, <1>3, TypeInvNext DEF FlowTypes
  <1>5. merged' => MergedInv'
    <2> SUFFICES ASSUME merged' PROVE MergedInv'
      OBVIOUS
    <2>1. findings = [a \in Agents |-> FindingsOf(a)]
      BY <1>2 DEF GraphInv, DataInv, MergedInv
    <2>2. \A a \in Agents : FindingsOf(a)' = FindingsOf(a)
      BY <1>2, SameFindings
    <2>3. findings' = [a \in Agents |-> FindingsOf(a)']
      BY <1>2, <2>1, <2>2
    <2> QED
      BY <2>3 DEF MergedInv
  <1>6. Made' = Made /\ AllFindings' = AllFindings
    BY SameMade
  <1>7. "aggregate" \in finished' => deduped' = Dedupe(AllFindings')
    BY <1>2, <1>6 DEF GraphInv, DataInv
  <1>8. "guardrail" \in finished' => report' = <<Made'>>
    BY <1>2, <1>6 DEF GraphInv, DataInv
  <1> QED
    BY <1>4, <1>5, <1>7, <1>8 DEF DataInv

LEMMA MergeStep ==
  ASSUME GraphInv, Merge
  PROVE  DataInv'
  <1> USE NodeNames
  <1>1. /\ ~raised /\ ~merged /\ merged' = TRUE
        /\ findings' = [a \in Agents |-> FindingsOf(a)]
        /\ UNCHANGED <<fileVars, result, finished, deduped, summary, report, raised>>
    BY DEF Merge
  <1>2. /\ result' = result /\ finished' = finished /\ raised' = raised
        /\ deduped' = deduped /\ summary' = summary /\ report' = report /\ UNCHANGED fileVars
    BY <1>1
  <1>3. PICK o \in SetToSeqs(Agents) :
          /\ agent_errors' = ErrorsOf(o[1]) \o ErrorsOf(o[2]) \o ErrorsOf(o[3])
          /\ token_usage' = UsageOf(o[1]) \o UsageOf(o[2]) \o UsageOf(o[3])
    BY DEF Merge
  <1>4. TypeInv /\ ResultTypes /\ FlowTypes /\ StateTypes /\ FileTypes
    BY DEF TypeInv, GraphInv, DataInv
  <1>5. /\ agent_errors' \in Seq(Nodes) /\ token_usage' \in Seq(Nodes)
        /\ \A n \in Nodes : Occurrences(n, agent_errors')
                              = IF n \in Agents /\ result[n].failed THEN 1 ELSE 0
        /\ TokensOf(token_usage') = Cost("vulnerability_agent") + Cost("code_quality_agent")
                                      + Cost("secrets_agent")
    BY <1>3, <1>4, MergedLists
  <1>6. "aggregate" \notin finished /\ "guardrail" \notin finished
    BY <1>1 DEF GraphInv, DataInv, OrderInv
  <1>7. result["aggregate"] = NoResult /\ result["guardrail"] = NoResult
    BY <1>1, <1>4, <1>6 DEF ResultTypes
  <1>8. TypeInv'
    <2>1. findings' \in [Agents -> Seq(Finding)]
      BY <1>1, <1>4, FindingsOfType
    <2>2. StateTypes'
      BY <1>2, <1>4, <1>5, <2>1 DEF StateTypes
    <2>3. ResultTypes' /\ FileTypes' /\ FlowTypes'
      BY <1>1, <1>2, <1>4 DEF ResultTypes, FileTypes, FlowTypes, fileVars
    <2> QED
      BY <2>2, <2>3 DEF TypeInv
  <1>9. findings' = [a \in Agents |-> FindingsOf(a)']
    <2>1. \A a \in Agents : FindingsOf(a)' = FindingsOf(a)
      BY <1>2, SameFindings
    <2> QED
      BY <1>1, <2>1
  <1>10. \A n \in Nodes : Occurrences(n, agent_errors') = IF result'[n].failed THEN 1 ELSE 0
    <2> TAKE n \in Nodes
    <2>1. CASE n \in Agents
      BY <1>2, <1>5, <2>1
    <2>2. CASE n \notin Agents
      <3>1. result'[n].failed = FALSE
        BY <1>2, <1>7, <2>2, ResultFacts
      <3> QED
        BY <1>5, <2>2, <3>1
    <2> QED
      BY <2>1, <2>2
  <1>11. TokensOf(token_usage')
           = Cost("vulnerability_agent")' + Cost("code_quality_agent")'
               + Cost("secrets_agent")' + Cost("aggregate")'
    <2>1. \A n \in Nodes : Cost(n)' = Cost(n) /\ Cost(n) \in Nat
      BY <1>2, <1>4, ResultFacts, GraphAssumption DEF Cost, ResultTypes
    <2>2. Cost("aggregate") = 0
      BY <1>7, ResultFacts DEF Cost
    <2> QED
      BY <1>5, <2>1, <2>2
  <1>12. MergedInv'
    BY <1>9, <1>10, <1>11 DEF MergedInv
  <1> QED
    BY <1>2, <1>6, <1>8, <1>12 DEF DataInv

LEMMA AggregateStep ==
  ASSUME GraphInv, NEW r \in Results, Aggregate(r)
  PROVE  DataInv'
  <1> USE NodeNames
  <1>1. /\ ~raised /\ merged /\ "aggregate" \notin finished
        /\ result' = [result EXCEPT !["aggregate"] = r]
        /\ finished' = finished \cup {"aggregate"}
        /\ deduped' = Dedupe(AllFindings)
        /\ summary' = IF r.failed THEN "fallback" ELSE "model"
        /\ agent_errors' = Maybe(agent_errors, "aggregate", r.failed)
        /\ token_usage' = Maybe(token_usage, "aggregate", r.usage)
        /\ merged' = merged /\ findings' = findings /\ report' = report /\ raised' = raised
        /\ UNCHANGED fileVars
    BY DEF Aggregate, Running, Maybe
  <1>2. TypeInv /\ ResultTypes /\ FlowTypes /\ StateTypes /\ FileTypes
    BY DEF TypeInv, GraphInv, DataInv
  <1>3. MergedInv /\ "guardrail" \notin finished
    BY <1>1 DEF GraphInv, DataInv, OrderInv
  <1>4. /\ ResultTypes' /\ finished' \subseteq Nodes /\ raised' \in BOOLEAN
        /\ result'["aggregate"] = r /\ \A m \in Nodes : m # "aggregate" => result'[m] = result[m]
    BY <1>1, <1>2, SetResult
  <1>5. r.failed \in BOOLEAN /\ r.usage \in BOOLEAN
    BY ResultFacts
  <1>6. result["aggregate"].failed = FALSE /\ result["aggregate"].usage = FALSE
    BY <1>1, <1>2, ResultFacts DEF ResultTypes
  <1>7. OneMore(agent_errors, "aggregate", r.failed) /\ OneMore(token_usage, "aggregate", r.usage)
    BY <1>2, <1>5, MaybeOne DEF StateTypes
  <1>8. TypeInv'
    <2>1. deduped' \in Seq(Finding)
      BY <1>1, <1>2, AllFindingsFacts, SelectionFacts DEF StateTypes
    <2>2. agent_errors' \in Seq(Nodes) /\ token_usage' \in Seq(Nodes)
      BY <1>1, <1>7 DEF OneMore
    <2>3. summary' \in {"", "fallback", "model"}
      BY <1>1
    <2>4. StateTypes'
      BY <1>1, <1>2, <2>1, <2>2, <2>3 DEF StateTypes
    <2>5. FileTypes' /\ FlowTypes'
      BY <1>1, <1>2, <1>4 DEF FileTypes, FlowTypes, fileVars
    <2> QED
      BY <1>4, <2>4, <2>5 DEF TypeInv
  <1>9. findings' = [a \in Agents |-> FindingsOf(a)']
    <2>1. \A a \in Agents : result'[a] = result[a]
      BY <1>4
    <2>2. \A a \in Agents : FindingsOf(a)' = FindingsOf(a)
      BY <1>1, <2>1, SameFindings
    <2> QED
      BY <1>1, <1>3, <2>2 DEF MergedInv
  <1>10. \A n \in Nodes : Occurrences(n, agent_errors') = IF result'[n].failed THEN 1 ELSE 0
    <2> TAKE n \in Nodes
    <2>1. Occurrences(n, agent_errors) = IF result[n].failed THEN 1 ELSE 0
      BY <1>1, <1>3 DEF MergedInv
    <2>2. Occurrences(n, agent_errors')
            = Occurrences(n, agent_errors) + (IF r.failed /\ n = "aggregate" THEN 1 ELSE 0)
      BY <1>1, <1>7 DEF OneMore
    <2>3. CASE n = "aggregate"
      BY <1>4, <1>6, <2>1, <2>2, <2>3
    <2>4. CASE n # "aggregate"
      BY <1>4, <2>1, <2>2, <2>4
    <2> QED
      BY <2>3, <2>4
  <1>11. TokensOf(token_usage')
           = Cost("vulnerability_agent")' + Cost("code_quality_agent")'
               + Cost("secrets_agent")' + Cost("aggregate")'
    <2>1. TokensOf(token_usage)
            = Cost("vulnerability_agent") + Cost("code_quality_agent")
                + Cost("secrets_agent") + Cost("aggregate")
      BY <1>1, <1>3 DEF MergedInv
    <2>2. TokensOf(token_usage')
            = TokensOf(token_usage) + (IF r.usage THEN Tokens["aggregate"] ELSE 0)
      BY <1>1, <1>7 DEF OneMore
    <2>3. Cost("aggregate") = 0
      BY <1>6 DEF Cost
    <2>4. Cost("aggregate")' = IF r.usage THEN Tokens["aggregate"] ELSE 0
      BY <1>4 DEF Cost
    <2>5. \A a \in Agents : Cost(a)' = Cost(a) /\ Cost(a) \in Nat
      BY <1>2, <1>4, ResultFacts, GraphAssumption DEF Cost, ResultTypes
    <2>6. Tokens["aggregate"] \in Nat
      BY GraphAssumption
    <2> QED
      BY <2>1, <2>2, <2>3, <2>4, <2>5, <2>6
  <1>12. MergedInv'
    BY <1>9, <1>10, <1>11 DEF MergedInv
  <1>13. deduped' = Dedupe(AllFindings')
    BY <1>1 DEF AllFindings
  <1>14. "guardrail" \notin finished'
    BY <1>1, <1>3
  <1> QED
    BY <1>8, <1>12, <1>13, <1>14 DEF DataInv

LEMMA AggregateRaiseStep ==
  ASSUME GraphInv, NEW r \in Results, AggregateRaises(r)
  PROVE  DataInv'
  <1> USE NodeNames
  <1>1. /\ ~raised /\ merged /\ "aggregate" \notin finished /\ raised' = TRUE
        /\ result' = [result EXCEPT !["aggregate"] = r]
        /\ UNCHANGED <<fileVars, finished, merged, stateVars>>
    BY DEF AggregateRaises, Running
  <1>2. TypeInv /\ FlowTypes /\ MergedInv /\ "guardrail" \notin finished
    BY <1>1 DEF TypeInv, GraphInv, DataInv, OrderInv
  <1>3. /\ finished' = finished /\ merged' = merged /\ findings' = findings
        /\ UNCHANGED fileVars
    BY <1>1 DEF stateVars
  <1>4. /\ ResultTypes' /\ finished' \subseteq Nodes /\ raised' \in BOOLEAN
        /\ \A m \in Nodes : m # "aggregate" => result'[m] = result[m]
    BY <1>1, <1>2, <1>3, SetResult
  <1>5. TypeInv'
    BY <1>1, <1>2, <1>3, <1>4, TypeInvNext DEF FlowTypes
  <1>6. MergedInv'
    <2>1. \A a \in Agents : result'[a] = result[a]
      BY <1>4
    <2>2. \A a \in Agents : FindingsOf(a)' = FindingsOf(a)
      BY <1>3, <2>1, SameFindings
    <2>3. findings' = [a \in Agents |-> FindingsOf(a)']
      BY <1>2, <1>3, <2>2 DEF MergedInv
    <2> QED
      BY <1>1, <2>3 DEF MergedInv
  <1> QED
    BY <1>1, <1>2, <1>3, <1>5, <1>6 DEF DataInv

LEMMA GuardrailStep ==
  ASSUME GraphInv, Guardrail
  PROVE  DataInv'
  <1> USE NodeNames
  <1>1. /\ ~raised /\ "guardrail" \notin finished /\ "aggregate" \in finished
        /\ report' = <<Made>>
        /\ finished' = finished \cup {"guardrail"}
        /\ result' = result /\ merged' = merged /\ findings' = findings
        /\ agent_errors' = agent_errors /\ token_usage' = token_usage
        /\ deduped' = deduped /\ summary' = summary /\ raised' = raised /\ UNCHANGED fileVars
    BY DEF Guardrail, Running, Made
  <1>2. TypeInv /\ ResultTypes /\ FlowTypes /\ StateTypes /\ FileTypes
    BY DEF TypeInv, GraphInv, DataInv
  <1>3. merged /\ MergedInv /\ deduped = Dedupe(AllFindings)
    BY <1>1 DEF GraphInv, DataInv, OrderInv
  <1>4. Made \in Report
    <2>1. Kept \in Seq(Finding)
      BY <1>2, KeptFacts DEF StateTypes
    <2>2. Select(Kept, Clean(Kept)) \in Seq(Finding)
      BY <2>1, SelectionFacts DEF SelectMeans
    <2>3. Notes(Kept) \in Seq(Nodes) /\ agent_errors \in Seq(Nodes)
      BY <1>2, <2>1, NotesFacts DEF StateTypes
    <2>4. agent_errors \o Notes(Kept) \in Seq(Nodes)
      BY <2>3, ConcatFacts
    <2>5. TokensOf(token_usage) \in Nat
      BY <1>2, TokensOfAppend DEF StateTypes
    <2> QED
      BY <2>2, <2>4, <2>5 DEF Made, Report
  <1>5. TypeInv'
    <2>1. report' \in Seq(Report) /\ Len(report') <= 1
      BY <1>1, <1>4
    <2>2. StateTypes' /\ FileTypes' /\ FlowTypes' /\ ResultTypes'
      BY <1>1, <1>2, <2>1 DEF StateTypes, FileTypes, FlowTypes, ResultTypes, fileVars
    <2> QED
      BY <2>2 DEF TypeInv
  <1>6. MergedInv'
    <2>1. \A a \in Agents : FindingsOf(a)' = FindingsOf(a)
      BY <1>1, SameFindings
    <2>2. \A n \in Nodes : Cost(n)' = Cost(n)
      BY <1>1 DEF Cost
    <2>3. findings' = [a \in Agents |-> FindingsOf(a)']
      BY <1>1, <1>3, <2>1 DEF MergedInv
    <2> QED
      BY <1>1, <1>3, <2>2, <2>3 DEF MergedInv
  <1>7. Made' = Made /\ AllFindings' = AllFindings
    BY <1>1 DEF Made, Kept, AllFindings
  <1> QED
    BY <1>1, <1>3, <1>5, <1>6, <1>7 DEF DataInv

LEMMA GraphStutter ==
  ASSUME GraphInv, UNCHANGED vars
  PROVE  DataInv'
  <1>1. /\ UNCHANGED <<fileVars, result, finished, merged, stateVars>> /\ raised' = raised
    BY DEF vars
  <1>2. /\ result' = result /\ finished' = finished /\ merged' = merged /\ findings' = findings
        /\ deduped' = deduped /\ report' = report
        /\ agent_errors' = agent_errors /\ token_usage' = token_usage
    BY <1>1 DEF stateVars
  <1>3. TypeInv /\ ResultTypes /\ FlowTypes
    BY DEF TypeInv, GraphInv, DataInv
  <1>4. TypeInv'
    BY <1>1, <1>2, <1>3, TypeInvNext DEF ResultTypes, FlowTypes
  <1>5. merged' => MergedInv'
    <2>1. \A a \in Agents : FindingsOf(a)' = FindingsOf(a)
      BY <1>1, <1>2, SameFindings
    <2>2. \A n \in Nodes : Cost(n)' = Cost(n)
      BY <1>2 DEF Cost
    <2>3. merged => findings' = [a \in Agents |-> FindingsOf(a)']
      BY <1>2, <2>1 DEF GraphInv, DataInv, MergedInv
    <2> QED
      BY <1>1, <1>2, <2>2, <2>3, NodeNames DEF GraphInv, DataInv, MergedInv
  <1>6. Made' = Made /\ AllFindings' = AllFindings
    BY <1>1, SameMade
  <1> QED
    BY <1>2, <1>4, <1>5, <1>6 DEF GraphInv, DataInv

LEMMA GraphStep ==
  ASSUME GraphInv, [Step]_vars
  PROVE  GraphInv'
  <1>1. OrderInv'
    BY RunStep DEF GraphInv, DataInv
  <1>2. DataInv'
    <2>1. ASSUME NEW a \in Agents, NEW r \in Results, AgentReturns(a, r) \/ AgentRaises(a, r)
          PROVE  DataInv'
      BY <2>1, AgentStep
    <2>2. ASSUME NEW r \in Results, Aggregate(r) PROVE DataInv'
      BY <2>2, AggregateStep
    <2>3. ASSUME NEW r \in Results, AggregateRaises(r) PROVE DataInv'
      BY <2>3, AggregateRaiseStep
    <2>4. CASE ScanRaises \/ GuardrailRaises
      <3>1. raised' = TRUE /\ UNCHANGED <<fileVars, result, finished, merged, stateVars>>
        BY <2>4 DEF ScanRaises, GuardrailRaises
      <3> QED
        BY <3>1, PlainRaise
    <2>5. CASE Merge
      BY <2>5, MergeStep
    <2>6. CASE Guardrail
      BY <2>6, GuardrailStep
    <2>7. CASE UNCHANGED vars
      BY <2>7, GraphStutter
    <2> QED
      BY <2>1, <2>2, <2>3, <2>4, <2>5, <2>6, <2>7 DEF Step
  <1> QED
    BY <1>1, <1>2 DEF GraphInv, DataInv

\* The state of the graph is what its nodes have left in it: each agent's findings
\* from its own answer, each failed call once among the errors, each reported call
\* in the total, the deduplicated list of all findings, and the report made of it.
THEOREM GraphInvariant == Spec => []GraphInv
  BY GraphInit, GraphStep, PTL DEF Spec

\* Types of the graph's state (domain/state.py:9-33, domain/report.py).
THEOREM GraphTypes == Spec => []TypeOK
  <1>1. GraphInv => TypeOK
    BY DEF GraphInv, DataInv, TypeInv, StateTypes, ResultTypes, FileTypes, FlowTypes, TypeOK
  <1> QED
    BY <1>1, GraphInvariant, PTL

-----------------------------------------------------------------------------
(***************************************************************************)
(* Properties of the report.                                               *)
(***************************************************************************)

\* One report, and what it is.
LEMMA TheReport ==
  ASSUME GraphInv, NEW rep \in ToSet(report)
  PROVE  /\ rep = Made /\ report = <<Made>> /\ merged /\ ~raised
         /\ MergedInv /\ TypeInv /\ deduped = Dedupe(AllFindings)
  <1>1. report # <<>>
    BY DEF ToSet
  <1>2. "guardrail" \in finished /\ "aggregate" \in finished /\ merged /\ Agents \subseteq finished
    BY <1>1 DEF GraphInv, DataInv, OrderInv
  <1>3. finished = Nodes
    BY <1>2, NodeNames DEF GraphInv, DataInv, OrderInv
  <1>4. ~raised /\ report = <<Made>>
    BY <1>2, <1>3 DEF GraphInv, DataInv, OrderInv
  <1>5. rep = Made
    BY <1>4 DEF ToSet
  <1> QED
    BY <1>2, <1>4, <1>5 DEF GraphInv, DataInv

LEMMA EveryCallIsCounted == GraphInv => EveryCallCounted
  <1> SUFFICES ASSUME GraphInv, NEW rep \in ToSet(report)
               PROVE  rep.usage = Cost("vulnerability_agent") + Cost("code_quality_agent")
                                    + Cost("secrets_agent") + Cost("aggregate")
    BY DEF EveryCallCounted, Cost
  <1> QED
    BY TheReport DEF MergedInv, Made

LEMMA EveryFailureIsReported == GraphInv => EveryFailureReported
  <1> SUFFICES ASSUME GraphInv, NEW rep \in ToSet(report), NEW n \in Nodes \ {"guardrail"}
               PROVE  Occurrences(n, rep.agent_errors) = IF result[n].failed THEN 1 ELSE 0
    BY DEF EveryFailureReported
  <1>1. rep.agent_errors = agent_errors \o Notes(Kept)
    BY TheReport DEF Made
  <1>2. StateTypes
    BY TheReport DEF TypeInv
  <1>3. /\ agent_errors \in Seq(Nodes) /\ Notes(Kept) \in Seq(Nodes)
        /\ \A i \in 1..Len(Notes(Kept)) : Notes(Kept)[i] = "guardrail"
    BY <1>2, KeptFacts, NotesFacts DEF StateTypes
  <1>4. Occurrences(n, agent_errors \o Notes(Kept)) = Occurrences(n, agent_errors)
    <2>0. "guardrail" \in Nodes
      BY NodeNames
    <2>1. \A x : x # "guardrail" => Occurrences(x, agent_errors \o Notes(Kept))
                                     = Occurrences(x, agent_errors)
      BY <1>3, <2>0, OccurrencesRepeat
    <2> QED
      BY <2>1
  <1>5. Occurrences(n, agent_errors) = IF result[n].failed THEN 1 ELSE 0
    BY TheReport DEF MergedInv
  <1> QED
    BY <1>1, <1>4, <1>5

\* The agents' claims, in one set.
Claimed == {k \in Keys : \E a \in Agents : Claims(a, k)}

LEMMA PriorityNames ==
  /\ DOMAIN Priority = 1..3
  /\ Priority[1] = "vulnerability_agent" /\ Priority[2] = "code_quality_agent"
  /\ Priority[3] = "secrets_agent"
  /\ \A j \in 1..3 : Priority[j] \in Agents
  /\ \A i, j \in 1..3 : Priority[i] = Priority[j] => i = j
  /\ \A a \in Agents : \E j \in 1..3 : Priority[j] = a
  <1>1. /\ DOMAIN Priority = 1..3 /\ Priority[1] = "vulnerability_agent"
        /\ Priority[2] = "code_quality_agent" /\ Priority[3] = "secrets_agent"
    BY DEF Priority
  <1>2. \A i \in 1..3 : i = 1 \/ i = 2 \/ i = 3
    OBVIOUS
  <1>3. 1 \in 1..3 /\ 2 \in 1..3 /\ 3 \in 1..3
    OBVIOUS
  <1>4. \A j \in 1..3 : Priority[j] \in Agents
    BY <1>1, <1>2, NodeNames
  <1>5. \A i, j \in 1..3 : Priority[i] = Priority[j] => i = j
    BY <1>1, <1>2
  <1>6. \A a \in Agents : \E j \in 1..3 : Priority[j] = a
    BY <1>1, <1>3, NodeNames
  <1> QED
    BY <1>1, <1>4, <1>5, <1>6

\* Position i of fs has a claim of the agent it names, and earlier ones of its key
\* wherever an agent of a higher priority claims it.
Attributed(fs, i) ==
  \E j \in 1..3 :
    /\ fs[i].agent = Priority[j] /\ Claims(Priority[j], fs[i].key)
    /\ \A h \in 1..(j - 1) : Claims(Priority[h], fs[i].key) =>
         \E p \in 1..(i - 1) : fs[p].key = fs[i].key

\* fs has the claims of a, and nothing else.
Speaks(fs, a) ==
  /\ fs \in Seq(Finding)
  /\ \A i \in 1..Len(fs) : fs[i].agent = a /\ Claims(a, fs[i].key)
  /\ \A k : Claims(a, k) => \E i \in 1..Len(fs) : fs[i].key = k

LEMMA AgentSpeaks ==
  ASSUME TypeInv, MergedInv, NEW a \in Agents
  PROVE  Speaks(findings[a], a)
  <1>1. findings[a] = Tagged(KeysOf(a), a)
    BY KeysOfFacts DEF MergedInv
  <1>2. PICK keys \in Seq(Keys) : keys = KeysOf(a)
    BY KeysOfFacts
  <1>3. \A k : k \in ToSet(keys) <=> Claims(a, k)
    BY <1>2, KeysOfFacts
  <1>4. Len(keys) \in Nat /\ ToSet(keys) = {keys[i] : i \in 1..Len(keys)}
    BY ToSetOfSeq
  <1>5. PICK fs : fs = findings[a]
    OBVIOUS
  <1>6. /\ fs \in Seq(Finding) /\ Len(fs) = Len(keys)
        /\ \A i \in 1..Len(keys) : fs[i] = [key |-> keys[i], agent |-> a]
    <2>1. fs = Tagged(keys, a)
      BY <1>1, <1>2, <1>5
    <2> QED
      BY <2>1, TaggedFacts
  <1>7. ASSUME NEW i \in 1..Len(fs) PROVE fs[i].agent = a /\ Claims(a, fs[i].key)
    <2>1. i \in 1..Len(keys) /\ fs[i] = [key |-> keys[i], agent |-> a]
      BY <1>6
    <2>2. fs[i].agent = a /\ fs[i].key = keys[i]
      BY <2>1
    <2> QED
      BY <1>3, <1>4, <2>1, <2>2
  <1>8. ASSUME NEW k, Claims(a, k) PROVE \E i \in 1..Len(fs) : fs[i].key = k
    <2>1. PICK i \in 1..Len(keys) : keys[i] = k
      BY <1>3, <1>4, <1>8
    <2>2. i \in 1..Len(fs) /\ fs[i] = [key |-> k, agent |-> a]
      BY <1>6, <2>1
    <2> QED
      BY <2>2
  <1> QED
    BY <1>5, <1>6, <1>7, <1>8 DEF Speaks

\* Where the elements of three lists are once they are one.
ThreeInOne(all, f1, f2, f3) ==
  /\ \A i \in 1..Len(f1) : i \in 1..Len(all) /\ all[i] = f1[i] /\ i <= Len(f1)
  /\ \A i \in 1..Len(f2) : /\ Len(f1) + i \in 1..Len(all) /\ all[Len(f1) + i] = f2[i]
                           /\ Len(f1) + i <= Len(f1) + Len(f2)
  /\ \A i \in 1..Len(f3) : /\ (Len(f1) + Len(f2)) + i \in 1..Len(all)
                           /\ all[(Len(f1) + Len(f2)) + i] = f3[i]
  /\ \A i \in 1..Len(all) :
       \/ i \in 1..Len(f1)
       \/ \E m \in 1..Len(f2) : i = Len(f1) + m
       \/ \E m \in 1..Len(f3) : i = (Len(f1) + Len(f2)) + m

LEMMA ThreeLists ==
  ASSUME NEW S, NEW f1 \in Seq(S), NEW f2 \in Seq(S), NEW f3 \in Seq(S)
  PROVE  ThreeInOne((f1 \o f2) \o f3, f1, f2, f3)
  <1>0. Len(f1) \in Nat /\ Len(f2) \in Nat /\ Len(f3) \in Nat
    BY LenProperties
  <1>1. PICK A : A = f1 \o f2
    OBVIOUS
  <1>2. /\ A \in Seq(S) /\ Len(A) = Len(f1) + Len(f2)
        /\ \A i \in 1..Len(f1) : A[i] = f1[i]
        /\ \A i \in 1..Len(f2) : A[Len(f1) + i] = f2[i]
        /\ \A i \in 1..Len(A) : i \in 1..Len(f1) \/ \E m \in 1..Len(f2) : i = Len(f1) + m
    BY <1>1, ConcatFacts
  <1>3. PICK all : all = A \o f3
    OBVIOUS
  <1>4. /\ all \in Seq(S) /\ Len(all) = Len(A) + Len(f3)
        /\ \A i \in 1..Len(A) : all[i] = A[i]
        /\ \A i \in 1..Len(f3) : all[Len(A) + i] = f3[i]
        /\ \A i \in 1..Len(all) : i \in 1..Len(A) \/ \E m \in 1..Len(f3) : i = Len(A) + m
    <2>1. A \in Seq(S)
      BY <1>2
    <2> QED
      BY <1>3, <2>1, ConcatFacts
  <1>5. \A i \in 1..Len(f1) : i \in 1..Len(all) /\ all[i] = f1[i] /\ i <= Len(f1)
    <2> TAKE i \in 1..Len(f1)
    <2>1. i \in 1..Len(A) /\ i \in 1..Len(all) /\ i <= Len(f1)
      BY <1>0, <1>2, <1>4
    <2> QED
      BY <1>2, <1>4, <2>1
  <1>6. ASSUME NEW i \in 1..Len(f2)
        PROVE  /\ Len(f1) + i \in 1..Len(all) /\ all[Len(f1) + i] = f2[i]
               /\ Len(f1) + i <= Len(f1) + Len(f2)
    <2>1. /\ Len(f1) + i \in 1..Len(A) /\ Len(f1) + i \in 1..Len(all)
          /\ Len(f1) + i <= Len(f1) + Len(f2)
      BY <1>0, <1>2, <1>4
    <2> QED
      BY <1>2, <1>4, <2>1
  <1>7. ASSUME NEW i \in 1..Len(f3)
        PROVE  /\ (Len(f1) + Len(f2)) + i \in 1..Len(all)
               /\ all[(Len(f1) + Len(f2)) + i] = f3[i]
    <2>1. (Len(f1) + Len(f2)) + i \in 1..Len(all)
      BY <1>0, <1>2, <1>4
    <2> QED
      BY <1>2, <1>4, <2>1
  <1>8. ASSUME NEW i \in 1..Len(all)
        PROVE  \/ i \in 1..Len(f1)
               \/ \E m \in 1..Len(f2) : i = Len(f1) + m
               \/ \E m \in 1..Len(f3) : i = (Len(f1) + Len(f2)) + m
    BY <1>2, <1>4
  <1> QED
    BY <1>1, <1>3, <1>5, <1>6, <1>7, <1>8 DEF ThreeInOne

LEMMA AttributedAll ==
  ASSUME TypeInv, MergedInv
  PROVE  /\ AllFindings \in Seq(Finding)
         /\ \A i \in 1..Len(AllFindings) : Attributed(AllFindings, i)
         /\ \A a \in Agents : \A k : Claims(a, k) =>
              \E i \in 1..Len(AllFindings) : AllFindings[i].key = k
  <1>1. PICK f1, f2, f3 : /\ f1 = findings[Priority[1]] /\ f2 = findings[Priority[2]]
                          /\ f3 = findings[Priority[3]]
    OBVIOUS
  <1>2. Priority[1] \in Agents /\ Priority[2] \in Agents /\ Priority[3] \in Agents
    BY PriorityNames
  <1>3. Speaks(f1, Priority[1]) /\ Speaks(f2, Priority[2]) /\ Speaks(f3, Priority[3])
    BY <1>1, <1>2, AgentSpeaks
  <1>4. f1 \in Seq(Finding) /\ f2 \in Seq(Finding) /\ f3 \in Seq(Finding)
    BY <1>3 DEF Speaks
  <1>5. PICK all : all = (f1 \o f2) \o f3
    OBVIOUS
  <1>6. AllFindings = all /\ all \in Seq(Finding)
    <2>1. f1 \o f2 \in Seq(Finding)
      BY <1>4, ConcatFacts
    <2>2. all \in Seq(Finding)
      BY <1>4, <1>5, <2>1, ConcatFacts
    <2> QED
      BY <1>1, <1>5, <2>2 DEF AllFindings
  <1>7. ThreeInOne(all, f1, f2, f3)
    BY <1>4, <1>5, ThreeLists
  <1>8. Len(f1) \in Nat /\ Len(f2) \in Nat /\ Len(f3) \in Nat
    BY <1>4, LenProperties
  <1>9. ASSUME NEW a \in Agents, NEW k, Claims(a, k)
        PROVE  \E i \in 1..Len(all) : all[i].key = k
    <2>1. PICK j \in 1..3 : a = Priority[j]
      BY PriorityNames
    <2>2. CASE j = 1
      <3>1. PICK m \in 1..Len(f1) : f1[m].key = k
        BY <1>3, <1>9, <2>1, <2>2 DEF Speaks
      <3> QED
        BY <1>7, <3>1 DEF ThreeInOne
    <2>3. CASE j = 2
      <3>1. PICK m \in 1..Len(f2) : f2[m].key = k
        BY <1>3, <1>9, <2>1, <2>3 DEF Speaks
      <3> QED
        BY <1>7, <3>1 DEF ThreeInOne
    <2>4. CASE j = 3
      <3>1. PICK m \in 1..Len(f3) : f3[m].key = k
        BY <1>3, <1>9, <2>1, <2>4 DEF Speaks
      <3> QED
        BY <1>7, <3>1 DEF ThreeInOne
    <2> QED
      BY <2>2, <2>3, <2>4
  <1>10. ASSUME NEW k, NEW i \in Nat, Len(f1) < i, Claims(Priority[1], k)
         PROVE  \E p \in 1..(i - 1) : all[p].key = k
    <2>1. PICK p \in 1..Len(f1) : f1[p].key = k
      BY <1>3, <1>10 DEF Speaks
    <2>2. all[p].key = k
      BY <1>7, <2>1 DEF ThreeInOne
    <2>3. p \in 1..(i - 1)
      BY <1>8, <1>10
    <2> QED
      BY <2>2, <2>3
  <1>11. ASSUME NEW k, NEW i \in Nat, Len(f1) + Len(f2) < i, Claims(Priority[2], k)
         PROVE  \E p \in 1..(i - 1) : all[p].key = k
    <2>1. PICK p \in 1..Len(f2) : f2[p].key = k
      BY <1>3, <1>11 DEF Speaks
    <2>2. all[Len(f1) + p].key = k
      BY <1>7, <2>1 DEF ThreeInOne
    <2>3. Len(f1) + p \in 1..(i - 1)
      BY <1>8, <1>11
    <2> QED
      BY <2>2, <2>3
  <1>12. ASSUME NEW i \in 1..Len(all) PROVE Attributed(all, i)
    <2>1. CASE i \in 1..Len(f1)
      <3>1. all[i] = f1[i]
        BY <1>7, <2>1 DEF ThreeInOne
      <3>2. all[i].agent = Priority[1] /\ Claims(Priority[1], all[i].key)
        BY <1>3, <2>1, <3>1 DEF Speaks
      <3>3. 1 \in 1..3 /\ \A h : h \notin 1..(1 - 1)
        OBVIOUS
      <3> QED
        BY <3>2, <3>3, Zenon DEF Attributed
    <2>2. ASSUME NEW m \in 1..Len(f2), i = Len(f1) + m PROVE Attributed(all, i)
      <3>1. all[i] = f2[m]
        BY <1>7, <2>2 DEF ThreeInOne
      <3>2. all[i].agent = Priority[2] /\ Claims(Priority[2], all[i].key)
        BY <1>3, <3>1 DEF Speaks
      <3>3. i \in Nat /\ Len(f1) < i
        BY <1>8, <2>2
      <3>4. 2 \in 1..3 /\ \A h \in 1..(2 - 1) : h = 1
        OBVIOUS
      <3> QED
        BY <1>10, <3>2, <3>3, <3>4, Zenon DEF Attributed
    <2>3. ASSUME NEW m \in 1..Len(f3), i = (Len(f1) + Len(f2)) + m PROVE Attributed(all, i)
      <3>1. all[i] = f3[m]
        BY <1>7, <2>3 DEF ThreeInOne
      <3>2. all[i].agent = Priority[3] /\ Claims(Priority[3], all[i].key)
        BY <1>3, <3>1 DEF Speaks
      <3>3. i \in Nat /\ Len(f1) < i /\ Len(f1) + Len(f2) < i
        BY <1>8, <2>3
      <3>4. 3 \in 1..3 /\ \A h \in 1..(3 - 1) : h = 1 \/ h = 2
        OBVIOUS
      <3> QED
        BY <1>10, <1>11, <3>2, <3>3, <3>4, Zenon DEF Attributed
    <2> QED
      BY <1>7, <2>1, <2>2, <2>3 DEF ThreeInOne
  <1> QED
    BY <1>6, <1>9, <1>12

KeysDiffer(fs) == \A i, j \in 1..Len(fs) : i # j => fs[i].key # fs[j].key

\* Selecting keeps different keys different.
LEMMA SelectKeepsKeysApart ==
  ASSUME NEW fs \in Seq(Finding), NEW I \in SUBSET (1..Len(fs)),
         \A i, j \in I : i # j => fs[i].key # fs[j].key
  PROVE  KeysDiffer(Select(fs, I))
  <1>1. I \in SUBSET (DOMAIN fs)
    BY LenProperties
  <1>2. SelectMeans(Finding, fs, I)
    BY <1>1, SelectFacts
  <1>3. PICK t : t = Select(fs, I)
    OBVIOUS
  <1>4. /\ Len(t) = Cardinality(I)
        /\ \A n \in 1..Len(t) : Nth(I, n) \in I /\ t[n] = fs[Nth(I, n)]
        /\ \A m, n \in 1..Len(t) : m # n => Nth(I, m) # Nth(I, n)
    BY <1>2, <1>3 DEF SelectMeans
  <1>5. KeysDiffer(t)
    <2> SUFFICES ASSUME NEW m \in 1..Len(t), NEW n \in 1..Len(t), m # n
                 PROVE  t[m].key # t[n].key
      BY DEF KeysDiffer
    <2>1. PICK i \in I, j \in I : i # j /\ t[m] = fs[i] /\ t[n] = fs[j]
      BY <1>4
    <2> QED
      BY <2>1
  <1> QED
    BY <1>3, <1>5

\* _dedupe: each key once, and no key lost.
LEMMA DedupeFacts ==
  ASSUME NEW fs \in Seq(Finding)
  PROVE  /\ Dedupe(fs) \in Seq(Finding) /\ KeysDiffer(Dedupe(fs))
         /\ \A n \in 1..Len(Dedupe(fs)) :
              \E i \in 1..Len(fs) : /\ Dedupe(fs)[n] = fs[i]
                                    /\ \A p \in 1..(i - 1) : fs[p].key # fs[i].key
         /\ \A i \in 1..Len(fs) :
              \E n \in 1..Len(Dedupe(fs)) : Dedupe(fs)[n].key = fs[i].key
  <1> DEFINE I == FirstOfKey(fs)
  <1>1. Len(fs) \in Nat /\ DOMAIN fs = 1..Len(fs)
    BY LenProperties
  <1>2. I = {i \in 1..Len(fs) : \A j \in 1..(i - 1) : fs[j].key # fs[i].key}
    BY <1>1 DEF FirstOfKey
  <1>3. SelectMeans(Finding, fs, I) /\ Dedupe(fs) = Select(fs, I)
    BY SelectionFacts DEF Dedupe
  <1>4. I \in SUBSET (1..Len(fs))
    BY <1>2
  <1>5. \A i \in I : i \in 1..Len(fs) /\ \A j \in 1..(i - 1) : fs[j].key # fs[i].key
    BY <1>2
  <1>6. \A i \in 1..Len(fs) : (\A j \in 1..(i - 1) : fs[j].key # fs[i].key) => i \in I
    BY <1>2
  <1> HIDE DEF I
  <1>7. \A i, j \in I : i # j => fs[i].key # fs[j].key
    <2> SUFFICES ASSUME NEW i \in I, NEW j \in I, i < j
                 PROVE  fs[i].key # fs[j].key
      BY <1>1, <1>5
    <2>1. i \in 1..(j - 1)
      BY <1>1, <1>5
    <2> QED
      BY <1>5, <2>1
  <1>8. KeysDiffer(Dedupe(fs))
    BY <1>3, <1>4, <1>7, SelectKeepsKeysApart
  <1>9. PICK t : t = Dedupe(fs)
    OBVIOUS
  <1>10. /\ t \in Seq(Finding) /\ Len(t) = Cardinality(I)
         /\ \A n \in 1..Len(t) : Nth(I, n) \in I /\ t[n] = fs[Nth(I, n)]
         /\ ToSet(t) = {fs[i] : i \in I}
    BY <1>3, <1>9 DEF SelectMeans
  <1>11. ASSUME NEW n \in 1..Len(t)
         PROVE  \E i \in 1..Len(fs) : t[n] = fs[i] /\ \A p \in 1..(i - 1) : fs[p].key # fs[i].key
    BY <1>5, <1>10
  <1>12. ASSUME NEW i \in 1..Len(fs)
         PROVE  \E n \in 1..Len(t) : t[n].key = fs[i].key
    <2> DEFINE T == {j \in 1..Len(fs) : fs[j].key = fs[i].key}
    <2>1. T \in SUBSET Nat /\ i \in T
      BY <1>1
    <2>2. PICK j \in T : \A m \in T : j <= m
      BY <2>1, LeastElement
    <2>3. j \in 1..Len(fs) /\ fs[j].key = fs[i].key
      BY <2>2
    <2>4. ASSUME NEW p \in 1..(j - 1) PROVE fs[p].key # fs[j].key
      <3>1. p \in 1..Len(fs) /\ ~(j <= p)
        BY <1>1, <2>3
      <3> QED
        BY <2>2, <2>3, <3>1
    <2>5. fs[j] \in ToSet(t)
      BY <1>6, <1>10, <2>3, <2>4
    <2>6. ToSet(t) = {t[n] : n \in 1..Len(t)}
      BY <1>10, ToSetOfSeq
    <2> QED
      BY <2>3, <2>5, <2>6
  <1> QED
    BY <1>8, <1>9, <1>10, <1>11, <1>12

\* There are as many findings left as there are different claims.
LEMMA OneForEachClaim ==
  ASSUME TypeInv, MergedInv
  PROVE  /\ IsFiniteSet(Claimed)
         /\ Cardinality(Claimed) = Len(Dedupe(AllFindings))
  <1>1. PICK all : all = AllFindings
    OBVIOUS
  <1>2. /\ all \in Seq(Finding)
        /\ \A i \in 1..Len(all) : Attributed(all, i)
        /\ \A a \in Agents : \A k : Claims(a, k) => \E i \in 1..Len(all) : all[i].key = k
    BY <1>1, AttributedAll
  <1>3. PICK t : t = Dedupe(all)
    OBVIOUS
  <1>4. /\ t \in Seq(Finding) /\ KeysDiffer(t)
        /\ \A n \in 1..Len(t) : \E i \in 1..Len(all) : t[n] = all[i]
        /\ \A i \in 1..Len(all) : \E n \in 1..Len(t) : t[n].key = all[i].key
    BY <1>2, <1>3, DedupeFacts, ZenonT(40)
  <1>5. Len(t) \in Nat /\ \A n \in 1..Len(t) : t[n] \in Finding /\ t[n].key \in Keys
    <2>1. Len(t) \in Nat /\ \A n \in 1..Len(t) : t[n] \in Finding
      BY <1>4, LenProperties
    <2>2. \A x \in Finding : x.key \in Keys
      BY DEF Finding
    <2> QED
      BY <2>1, <2>2
  <1> DEFINE f == [n \in 1..Len(t) |-> t[n].key]
  <1>6. \A n \in 1..Len(t) : t[n].key \in Claimed
    <2> TAKE n \in 1..Len(t)
    <2>1. PICK i \in 1..Len(all) : t[n] = all[i]
      BY <1>4
    <2>2. PICK j \in 1..3 : Claims(Priority[j], all[i].key)
      BY <1>2 DEF Attributed
    <2> QED
      BY <1>5, <2>1, <2>2, PriorityNames DEF Claimed
  <1>7. f \in [1..Len(t) -> Claimed] /\ \A n \in 1..Len(t) : f[n] = t[n].key
    BY <1>6
  <1> HIDE DEF f
  <1>8. ASSUME NEW k \in Claimed PROVE \E n \in 1..Len(t) : f[n] = k
    <2>1. PICK a \in Agents : Claims(a, k)
      BY DEF Claimed
    <2>2. PICK i \in 1..Len(all) : all[i].key = k
      BY <1>2, <2>1
    <2>3. PICK n \in 1..Len(t) : t[n].key = k
      BY <1>4, <2>2
    <2> QED
      BY <1>7, <2>3
  <1>9. \A m, n \in 1..Len(t) : f[m] = f[n] => m = n
    <2>1. \A m, n \in 1..Len(t) : m # n => t[m].key # t[n].key
      BY <1>4, Zenon DEF KeysDiffer
    <2>2. \A n \in 1..Len(t) : f[n] = t[n].key
      BY <1>7
    <2> QED
      BY <2>1, <2>2, Zenon
  <1>10. IsFiniteSet(Claimed) /\ Cardinality(Claimed) = Len(t)
    BY <1>5, <1>7, <1>8, <1>9, CountByNumber
  <1> QED
    BY <1>1, <1>3, <1>10

\* What is kept, one finding at a time.
LEMMA ReportedFacts ==
  ASSUME GraphInv, NEW rep \in ToSet(report)
  PROVE  /\ rep.findings \in Seq(Finding) /\ KeysDiffer(rep.findings)
         /\ Len(rep.findings) = Cardinality(Clean(Kept))
         /\ \A f \in ToSet(rep.findings) : \E i \in 1..Len(Kept) : f = Kept[i] /\ f.key \in Known
         /\ \A i \in 1..Len(Kept) : Kept[i].key \in Known => Kept[i] \in ToSet(rep.findings)
  <1>1. rep.findings = Select(Kept, Clean(Kept)) /\ deduped = Dedupe(AllFindings)
    BY TheReport DEF Made
  <1>2. deduped \in Seq(Finding) /\ findings \in [Agents -> Seq(Finding)]
    BY TheReport DEF TypeInv, StateTypes
  <1>3. /\ Kept \in Seq(Finding) /\ Len(Kept) \in Nat /\ DOMAIN Kept = 1..Len(Kept)
        /\ \A i \in 1..Len(Kept) : Kept[i] = deduped[i] /\ i \in 1..Len(deduped)
    BY <1>2, KeptFacts, LenProperties
  <1>4. KeysDiffer(deduped)
    BY <1>1, <1>2, AllFindingsFacts, DedupeFacts
  <1>5. PICK kept : kept = Kept
    OBVIOUS
  <1>6. PICK I : I = Clean(Kept)
    OBVIOUS
  <1>7. I \in SUBSET (1..Len(kept)) /\ \A i \in 1..Len(kept) : i \in I <=> kept[i].key \in Known
    BY <1>3, <1>5, <1>6 DEF Clean
  <1>8. PICK t : t = Select(kept, I)
    OBVIOUS
  <1>9. /\ kept \in Seq(Finding)
        /\ \A i \in 1..Len(kept) : kept[i] = deduped[i] /\ i \in 1..Len(deduped)
    BY <1>3, <1>5
  <1>10. \A i, j \in I : i # j => kept[i].key # kept[j].key
    BY <1>4, <1>7, <1>9 DEF KeysDiffer
  <1>11. KeysDiffer(t)
    BY <1>7, <1>8, <1>9, <1>10, SelectKeepsKeysApart
  <1>12. t \in Seq(Finding) /\ Len(t) = Cardinality(I) /\ ToSet(t) = {kept[i] : i \in I}
    <2>1. I \in SUBSET (DOMAIN kept)
      BY <1>3, <1>5, <1>7
    <2>2. SelectMeans(Finding, kept, I)
      BY <1>9, <2>1, SelectFacts
    <2> QED
      BY <1>8, <2>2 DEF SelectMeans
  <1>13. rep.findings = t
    BY <1>1, <1>5, <1>6, <1>8
  <1>14. \A f \in ToSet(t) : \E i \in 1..Len(kept) : f = kept[i] /\ f.key \in Known
    BY <1>7, <1>12
  <1>15. \A i \in 1..Len(kept) : kept[i].key \in Known => kept[i] \in ToSet(t)
    BY <1>7, <1>12
  <1> QED
    BY <1>5, <1>6, <1>11, <1>12, <1>13, <1>14, <1>15

LEMMA FindingsAreClaimed == GraphInv => FindingsAreClaims
  <1> SUFFICES ASSUME GraphInv, NEW rep \in ToSet(report)
               PROVE  /\ \A i, j \in DOMAIN rep.findings :
                           i # j => rep.findings[i].key # rep.findings[j].key
                      /\ \A f \in ToSet(rep.findings) :
                           /\ f.key \in Known
                           /\ Claims(f.agent, f.key)
                           /\ \A i, j \in DOMAIN Priority :
                                f.agent = Priority[j] /\ i < j => ~Claims(Priority[i], f.key)
    BY DEF FindingsAreClaims
  <1>1. \A i, j \in DOMAIN rep.findings : i # j => rep.findings[i].key # rep.findings[j].key
    <2>1. rep.findings \in Seq(Finding) /\ KeysDiffer(rep.findings)
      BY ReportedFacts
    <2>2. DOMAIN rep.findings = 1..Len(rep.findings)
      BY <2>1, LenProperties
    <2> QED
      BY <2>1, <2>2 DEF KeysDiffer
  <1>2. ASSUME NEW f \in ToSet(rep.findings)
        PROVE  /\ f.key \in Known
               /\ Claims(f.agent, f.key)
               /\ \A i, j \in DOMAIN Priority :
                    f.agent = Priority[j] /\ i < j => ~Claims(Priority[i], f.key)
    <2>1. PICK n \in 1..Len(Kept) : f = Kept[n] /\ f.key \in Known
      BY ReportedFacts
    <2>2. /\ TypeInv /\ MergedInv /\ deduped = Dedupe(AllFindings) /\ deduped \in Seq(Finding)
      BY TheReport DEF TypeInv, StateTypes
    <2>3. n \in 1..Len(deduped) /\ f = deduped[n]
      BY <2>1, <2>2, KeptFacts
    <2>4. PICK all : all = AllFindings
      OBVIOUS
    <2>5. all \in Seq(Finding) /\ \A i \in 1..Len(all) : Attributed(all, i)
      BY <2>2, <2>4, AttributedAll
    <2>6. PICK i \in 1..Len(all) : f = all[i] /\ \A p \in 1..(i - 1) : all[p].key # all[i].key
      BY <2>2, <2>3, <2>4, <2>5, DedupeFacts
    <2>7. PICK j \in 1..3 :
            /\ all[i].agent = Priority[j] /\ Claims(Priority[j], all[i].key)
            /\ \A h \in 1..(j - 1) : Claims(Priority[h], all[i].key) =>
                 \E p \in 1..(i - 1) : all[p].key = all[i].key
      BY <2>5 DEF Attributed
    <2>8. \A h \in 1..(j - 1) : ~Claims(Priority[h], f.key)
      BY <2>6, <2>7
    <2>9. ASSUME NEW h \in 1..3, NEW m \in 1..3, f.agent = Priority[m], h < m
          PROVE  ~Claims(Priority[h], f.key)
      <3>1. m = j
        BY <2>6, <2>7, <2>9, PriorityNames
      <3>2. h \in 1..(j - 1)
        BY <2>9, <3>1
      <3> QED
        BY <2>8, <3>2
    <2> QED
      BY <2>1, <2>6, <2>7, <2>9, PriorityNames
  <1> QED
    BY <1>1, <1>2

LEMMA ClaimsReported == GraphInv => ClaimsAreReported
  <1> SUFFICES ASSUME GraphInv, NEW rep \in ToSet(report), NEW k \in Known,
                      NEW a \in Agents, Claims(a, k)
               PROVE  \/ \E f \in ToSet(rep.findings) : f.key = k
                      \/ Cardinality(Claimed) > MaxFindings
    BY DEF ClaimsAreReported, Claimed
  <1>1. /\ TypeInv /\ MergedInv /\ deduped = Dedupe(AllFindings) /\ deduped \in Seq(Finding)
    BY TheReport DEF TypeInv, StateTypes
  <1>2. AllFindings \in Seq(Finding) /\ \E i \in 1..Len(AllFindings) : AllFindings[i].key = k
    BY <1>1, AttributedAll
  <1>3. PICK n \in 1..Len(deduped) : deduped[n].key = k
    <2>1. \A i \in 1..Len(AllFindings) :
            \E n \in 1..Len(Dedupe(AllFindings)) : Dedupe(AllFindings)[n].key = AllFindings[i].key
      BY <1>2, DedupeFacts, Zenon
    <2> QED
      BY <1>1, <1>2, <2>1
  <1>4. Cardinality(Claimed) = Len(deduped) /\ MaxFindings \in Nat
    BY <1>1, OneForEachClaim, GraphAssumption
  <1>5. /\ Len(Kept) = IF Len(deduped) <= MaxFindings THEN Len(deduped) ELSE MaxFindings
        /\ \A i \in 1..Len(Kept) : Kept[i] = deduped[i]
        /\ Len(deduped) \in Nat
    BY <1>1, KeptFacts
  <1>6. CASE Len(deduped) <= MaxFindings
    <2>1. n \in 1..Len(Kept) /\ Kept[n].key = k
      BY <1>3, <1>5, <1>6
    <2>2. Kept[n] \in ToSet(rep.findings)
      BY <2>1, ReportedFacts
    <2> QED
      BY <2>1, <2>2
  <1>7. CASE ~(Len(deduped) <= MaxFindings)
    BY <1>4, <1>5, <1>7
  <1> QED
    BY <1>6, <1>7

LEMMA ReportAdds == GraphInv => ReportAddsUp
  <1> SUFFICES ASSUME GraphInv, NEW rep \in ToSet(report)
               PROVE  Len(rep.findings) + Occurrences("guardrail", rep.agent_errors)
                        = Min({MaxFindings, Cardinality(Claimed)})
    BY DEF ReportAddsUp, Claimed
  <1>1. /\ TypeInv /\ MergedInv /\ ~raised /\ deduped = Dedupe(AllFindings)
        /\ StateTypes /\ ResultTypes
        /\ rep.agent_errors = agent_errors \o Notes(Kept)
    BY TheReport DEF TypeInv, Made
  <1>2. Cardinality(Claimed) = Len(deduped) /\ MaxFindings \in Nat
    BY <1>1, OneForEachClaim, GraphAssumption
  <1>3. /\ Kept \in Seq(Finding) /\ Len(deduped) \in Nat
        /\ Len(Kept) = IF Len(deduped) <= MaxFindings THEN Len(deduped) ELSE MaxFindings
    BY <1>1, KeptFacts DEF StateTypes
  <1>4. /\ Notes(Kept) \in Seq(Nodes) /\ \A i \in 1..Len(Notes(Kept)) : Notes(Kept)[i] = "guardrail"
        /\ Len(Notes(Kept)) + Cardinality(Clean(Kept)) = Len(Kept)
        /\ Len(Notes(Kept)) \in Nat
    BY <1>3, NotesFacts
  <1>5. Occurrences("guardrail", agent_errors) = 0
    <2>1. result["guardrail"].failed = FALSE
      BY <1>1, ResultFacts DEF ResultTypes
    <2> QED
      BY <1>1, <2>1, NodeNames DEF MergedInv
  <1>6. Occurrences("guardrail", rep.agent_errors) = Len(Notes(Kept))
    <2>1. "guardrail" \in Nodes /\ agent_errors \in Seq(Nodes)
      BY <1>1, NodeNames DEF StateTypes
    <2> QED
      BY <1>1, <1>4, <1>5, <2>1, OccurrencesRepeat
  <1>7. Len(rep.findings) = Cardinality(Clean(Kept)) /\ Len(rep.findings) \in Nat
    <2>1. rep.findings \in Seq(Finding) /\ Len(rep.findings) = Cardinality(Clean(Kept))
      BY ReportedFacts
    <2> QED
      BY <2>1, LenProperties
  <1>8. Min({MaxFindings, Len(deduped)})
          = IF MaxFindings <= Len(deduped) THEN MaxFindings ELSE Len(deduped)
    BY <1>2, <1>3, MinOfTwo
  <1>9. Min({MaxFindings, Len(deduped)}) = Len(Kept)
    BY <1>2, <1>3, <1>8
  <1>10. Len(rep.findings) + Occurrences("guardrail", rep.agent_errors) = Len(Kept)
    BY <1>4, <1>6, <1>7
  <1> QED
    BY <1>2, <1>9, <1>10

\* EveryFailureReported: whatever order the agents return in, each node whose model
\* call failed is in the report's errors exactly once and no other node is, for the
\* reducers of the state add lists up (domain/state.py) and guardrail only adds its
\* own notes (agents/guardrail.py:21-50).
THEOREM FailuresAreReported == Spec => []EveryFailureReported
  BY GraphInvariant, EveryFailureIsReported, PTL

\* EveryCallCounted: the report's total is the sum of the calls that reported usage,
\* also of those whose answer could not be used (costs/tracker.py, agents/support.py).
THEOREM CallsAreCounted == Spec => []EveryCallCounted
  BY GraphInvariant, EveryCallIsCounted, PTL

\* FindingsAreClaims: each finding in the report is on a known file, there once, and
\* attributed to the first agent in order of priority that claims it, because
\* _dedupe keeps the first of each key (agents/aggregate.py:17-26).
THEOREM ReportedFindingsAreClaims == Spec => []FindingsAreClaims
  BY GraphInvariant, FindingsAreClaimed, PTL

\* ClaimsAreReported: a claim on a known file is in the report unless there are more
\* claims than the limit, also after a failed triage (agents/secrets.py:206-231).
THEOREM NoClaimIsDropped == Spec => []ClaimsAreReported
  BY GraphInvariant, ClaimsReported, PTL

\* ReportAddsUp: findings and guardrail's notes together are as many as the different
\* claims, or as the limit (agents/guardrail.py:21-50).
THEOREM ReportsAddUp == Spec => []ReportAddsUp
  BY GraphInvariant, ReportAdds, PTL
=============================================================================
