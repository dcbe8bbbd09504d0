----------------------------- MODULE AuditGraph -----------------------------
(***************************************************************************)
(* The graph of one audit (graph/build.py): three agents that run side by  *)
(* side over the same files, the aggregate node that dedupes what they     *)
(* found and asks for a summary, and the guardrail node that builds the    *)
(* report.  AuditJob knows of these nodes only that they finish or raise.  *)
(*                                                                         *)
(* A finding is its key, that is its (file, line, rule_id), and the agent  *)
(* it is attributed to; an AgentError is the name of the node it blames; a *)
(* TokenUsageEvent is the name of the node whose call it counts.           *)
(***************************************************************************)
EXTENDS Naturals, Sequences, FiniteSets, SequencesExt, FiniteSetsExt, Positions

CONSTANTS
  Keys,         \* the keys a finding can have
  Known,        \* those whose file is in the submitted file set
  MaxFindings,  \* MAX_FINDINGS of guardrail.py
  MaxBatch,     \* bound: findings a model returns in one answer
  MaxHits,      \* bound: matches of the high-confidence rules
  Tokens,       \* per node: the tokens a call of it costs when it reports usage
  OverlongSets  \* which bounded fields an audit's data may exceed

\* In the order aggregate_node concatenates their findings.
Priority == <<"vulnerability_agent", "code_quality_agent", "secrets_agent">>
Agents == ToSet(Priority)
Nodes == Agents \cup {"aggregate", "guardrail"}

(***************************************************************************)
(* "error"    AgentError.message, 1000 characters of str(exc)              *)
(* "usage"    TokenUsageEvent.model, 100 characters of the model's name    *)
(* "line"     Finding.snippet and SecretCandidate.context, 500 characters  *)
(*            of the source line a rule of the secrets scanner matches     *)
(* "summary"  AuditReport.summary, 4000 characters of the model's answer   *)
(* "note"     AgentError.message again, for a note of the guardrail        *)
(* Pydantic raises when a field does not fit, and the node with it.        *)
(***************************************************************************)
ASSUME GraphAssumption ==
  /\ Known \subseteq Keys
  /\ MaxFindings \in Nat \ {0} /\ MaxBatch \in Nat /\ MaxHits \in Nat
  /\ Tokens \in [Nodes -> Nat]
  /\ OverlongSets \subseteq SUBSET {"error", "usage", "line", "summary", "note"}

\* A StructuredCallResult: `failed` is an error or no parsed value, `usage`
\* says whether it carries an event, `batch` has the keys of the answer.
Results == {r \in [failed : BOOLEAN, usage : BOOLEAN, batch : BoundedSeq(Keys, MaxBatch)] :
              r.failed => r.batch = <<>>}

NoResult == [failed |-> FALSE, usage |-> FALSE, batch |-> <<>>]

Finding == [key : Keys, agent : Agents]
Report == [findings : Seq(Finding), agent_errors : Seq(Nodes), usage : Nat]

VARIABLES
  overlong,    \* the bounded fields that this audit's data exceeds
  hits,        \* keys the high-confidence rules of the scanner find, in order
  candidates,  \* keys its ambiguous rules leave for the model to decide
  result,      \* per node: what its model call returned
  finished,    \* the nodes that have returned their update
  merged,      \* the agents' updates are in the graph's state
  findings,    \* vulnerability_findings, quality_findings, secret_findings
  agent_errors, token_usage, deduped, summary,   \* the rest of that state
  report,      \* the report, in a sequence of at most one
  raised       \* a node raised, the graph with it

fileVars == <<overlong, hits, candidates>>
stateVars == <<findings, agent_errors, token_usage, deduped, summary, report>>
vars == <<fileVars, result, finished, merged, stateVars, raised>>

\* A triaged key has a rule_id of its own, so it is none of the hits' keys.
Init ==
  /\ overlong \in OverlongSets
  /\ hits \in BoundedSeq(Known, MaxHits)
  /\ candidates \in SUBSET (Known \ ToSet(hits))
  /\ result = [n \in Nodes |-> NoResult]
  /\ finished = {} /\ merged = FALSE /\ raised = FALSE
  /\ findings = [a \in Agents |-> <<>>]
  /\ agent_errors = <<>> /\ token_usage = <<>>
  /\ deduped = <<>> /\ summary = "" /\ report = <<>>

Running(n) == ~raised /\ n \notin finished

-----------------------------------------------------------------------------
(***************************************************************************)
(* The agents: invoke_structured, then the node's update.                  *)
(***************************************************************************)

\* The scanner answers by itself when nothing is ambiguous.
CallsModel(a) == a # "secrets_agent" \/ candidates # {}

\* Mutant of Tagged: the finding keeps the agent's name the model made up.
TaggedByModel(keys, a) == [i \in DOMAIN keys |-> [key |-> keys[i], agent |-> "llm"]]

Tagged(keys, a) == [i \in DOMAIN keys |-> [key |-> keys[i], agent |-> a]]

\* Where an answer confirms a candidate.
Confirmed == LET batch == result["secrets_agent"].batch IN
               {i \in DOMAIN batch : batch[i] \in candidates}

\* Mutant of FindingsOf: a failed triage loses the scanner's own hits.
FindingsOfTriageOnly(a) ==
  IF a = "secrets_agent"
    THEN IF result[a].failed THEN <<>>
         ELSE Tagged(hits \o Select(result[a].batch, Confirmed), a)
    ELSE Tagged(result[a].batch, a)

\* What a node that got result[a] writes: the secrets agent its own hits, and
\* the candidates the model confirms; a decision on another index is ignored.
FindingsOf(a) ==
  IF a = "secrets_agent"
    THEN Tagged(hits \o Select(result[a].batch, Confirmed), a)
    ELSE Tagged(result[a].batch, a)

\* Mutant of UsageOf: a failed call's usage event is not passed on.
UsageOfParsed(n) == IF result[n].usage /\ ~result[n].failed THEN <<n>> ELSE <<>>

UsageOf(n) == IF result[n].usage THEN <<n>> ELSE <<>>

ErrorsOf(n) == IF result[n].failed THEN <<n>> ELSE <<>>

AgentReturns(a, r) ==
  /\ Running(a)
  /\ CallsModel(a) \/ r = NoResult
  /\ result' = [result EXCEPT ![a] = r]
  /\ finished' = finished \cup {a}
  /\ UNCHANGED <<fileVars, merged, stateVars, raised>>

AgentRaises(a, r) ==
  /\ Running(a) /\ CallsModel(a)
  /\ \/ "error" \in overlong /\ r.failed
     \/ "usage" \in overlong /\ r.usage
  /\ result' = [result EXCEPT ![a] = r]
  /\ raised' = TRUE
  /\ UNCHANGED <<fileVars, finished, merged, stateVars>>

ScanRaises ==
  /\ Running("secrets_agent")
  /\ "line" \in overlong /\ (hits # <<>> \/ candidates # {})
  /\ raised' = TRUE
  /\ UNCHANGED <<fileVars, result, finished, merged, stateVars>>

\* Mutant of Merge: the graph's reducers see the first agents to return.
MergeEarly ==
  /\ ~raised /\ ~merged /\ Cardinality(finished) >= 2
  /\ merged' = TRUE
  /\ findings' = [a \in Agents |-> IF a \in finished THEN FindingsOf(a) ELSE <<>>]
  /\ \E o \in SetToSeqs(Agents) :
       /\ agent_errors' = ErrorsOf(o[1]) \o ErrorsOf(o[2]) \o ErrorsOf(o[3])
       /\ token_usage' = UsageOf(o[1]) \o UsageOf(o[2]) \o UsageOf(o[3])
  /\ UNCHANGED <<fileVars, result, finished, deduped, summary, report, raised>>

\* LangGraph writes the updates of a superstep when all its nodes have returned;
\* the lists with an operator.add reducer grow in an order of its choosing.
Merge ==
  /\ ~raised /\ ~merged /\ Agents \subseteq finished
  /\ merged' = TRUE
  /\ findings' = [a \in Agents |-> FindingsOf(a)]
  /\ \E o \in SetToSeqs(Agents) :
       /\ agent_errors' = ErrorsOf(o[1]) \o ErrorsOf(o[2]) \o ErrorsOf(o[3])
       /\ token_usage' = UsageOf(o[1]) \o UsageOf(o[2]) \o UsageOf(o[3])
  /\ UNCHANGED <<fileVars, result, finished, deduped, summary, report, raised>>

-----------------------------------------------------------------------------
(***************************************************************************)
(* aggregate_node.                                                         *)
(***************************************************************************)

\* Mutant of Dedupe: a finding of another agent is another finding.
DedupePerAgent(fs) == Select(fs, {i \in DOMAIN fs : \A j \in 1..(i - 1) : fs[j] # fs[i]})

\* _dedupe: a finding whose key has been seen is skipped.
FirstOfKey(fs) == {i \in DOMAIN fs : \A j \in 1..(i - 1) : fs[j].key # fs[i].key}
Dedupe(fs) == Select(fs, FirstOfKey(fs))

AllFindings == findings[Priority[1]] \o findings[Priority[2]] \o findings[Priority[3]]

\* Mutant of Aggregate: what the summary call raises is not caught.
AggregateUncaught(r) ==
  /\ Running("aggregate") /\ merged
  /\ r.batch = <<>> /\ (r.failed => ~r.usage)
  /\ result' = [result EXCEPT !["aggregate"] = r]
  /\ IF r.failed
       THEN raised' = TRUE /\ UNCHANGED <<finished, stateVars>>
       ELSE /\ finished' = finished \cup {"aggregate"}
            /\ deduped' = Dedupe(AllFindings)
            /\ summary' = "model"
            /\ token_usage' = token_usage \o
                                (IF r.usage THEN <<"aggregate">> ELSE <<>>)
            /\ UNCHANGED <<findings, agent_errors, report, raised>>
  /\ UNCHANGED <<fileVars, merged>>

\* A call that raised has no usage; any answer is a summary.
Aggregate(r) ==
  /\ Running("aggregate") /\ merged
  /\ r.batch = <<>> /\ (r.failed => ~r.usage)
  /\ result' = [result EXCEPT !["aggregate"] = r]
  /\ finished' = finished \cup {"aggregate"}
  /\ deduped' = Dedupe(AllFindings)
  /\ summary' = IF r.failed THEN "fallback" ELSE "model"
  /\ agent_errors' = agent_errors \o (IF r.failed THEN <<"aggregate">> ELSE <<>>)
  /\ token_usage' = token_usage \o (IF r.usage THEN <<"aggregate">> ELSE <<>>)
  /\ UNCHANGED <<fileVars, merged, findings, report, raised>>

AggregateRaises(r) ==
  /\ Running("aggregate") /\ merged
  /\ r.batch = <<>> /\ (r.failed => ~r.usage)
  /\ \/ "error" \in overlong /\ r.failed
     \/ "usage" \in overlong /\ r.usage
  /\ result' = [result EXCEPT !["aggregate"] = r]
  /\ raised' = TRUE
  /\ UNCHANGED <<fileVars, finished, merged, stateVars>>

-----------------------------------------------------------------------------
(***************************************************************************)
(* guardrail_node.                                                         *)
(***************************************************************************)

\* deduped_findings[:MAX_FINDINGS], before any of them is looked at.
Kept == SubSeq(deduped, 1, Min({Len(deduped), MaxFindings}))

\* TokenUsageSummary.from_events: a total that grows with each event.
TokensOf(events) ==
  LET total[i \in 0..Len(events)] ==
        IF i = 0 THEN 0 ELSE total[i - 1] + Tokens[events[i]]
  IN  total[Len(events)]

\* The positions of fs whose finding is on a submitted file; a note of the
\* guardrail for each of the others.
Clean(fs) == {i \in DOMAIN fs : fs[i].key \in Known}
Notes(fs) == [n \in 1..Cardinality(DOMAIN fs \ Clean(fs)) |-> "guardrail"]

\* Mutant of Guardrail: unknown files are dropped first, the limit comes after.
GuardrailCutsLast ==
  /\ Running("guardrail") /\ "aggregate" \in finished
  /\ LET stay == Select(deduped, Clean(deduped)) IN
       report' = <<[findings |-> SubSeq(stay, 1, Min({Len(stay), MaxFindings})),
                    agent_errors |-> agent_errors \o Notes(deduped),
                    usage |-> TokensOf(token_usage)]>>
  /\ finished' = finished \cup {"guardrail"}
  /\ UNCHANGED <<fileVars, result, merged, findings, agent_errors, token_usage,
                 deduped, summary, raised>>

Guardrail ==
  /\ Running("guardrail") /\ "aggregate" \in finished
  /\ report' = <<[findings |-> Select(Kept, Clean(Kept)),
                  agent_errors |-> agent_errors \o Notes(Kept),
                  usage |-> TokensOf(token_usage)]>>
  /\ finished' = finished \cup {"guardrail"}
  /\ UNCHANGED <<fileVars, result, merged, findings, agent_errors, token_usage,
                 deduped, summary, raised>>

GuardrailRaises ==
  /\ Running("guardrail") /\ "aggregate" \in finished
  /\ \/ "summary" \in overlong /\ summary = "model"
     \/ "note" \in overlong /\ \E f \in ToSet(Kept) : f.key \notin Known
  /\ raised' = TRUE
  /\ UNCHANGED <<fileVars, result, finished, merged, stateVars>>

-----------------------------------------------------------------------------
Step == \/ \E r \in Results : \/ \E a \in Agents : AgentReturns(a, r) \/ AgentRaises(a, r)
                              \/ Aggregate(r) \/ AggregateRaises(r)
        \/ ScanRaises \/ Merge \/ Guardrail \/ GuardrailRaises

Spec == Init /\ [][Step]_vars

\* Nothing stops a node that can run: a model call returns or raises within its
\* provider's timeout.
FairSpec == Spec /\ WF_vars(Step)

-----------------------------------------------------------------------------
(***************************************************************************)
(* Properties.                                                             *)
(***************************************************************************)

TypeOK ==
  /\ overlong \in OverlongSets
  /\ hits \in Seq(Known) /\ candidates \subseteq Known
  /\ \A n \in Nodes : result[n] \in Results
  /\ finished \subseteq Nodes /\ merged \in BOOLEAN /\ raised \in BOOLEAN
  /\ findings \in [Agents -> Seq(Finding)]
  /\ agent_errors \in Seq(Nodes) /\ token_usage \in Seq(Nodes)
  /\ deduped \in Seq(Finding) /\ summary \in {"", "fallback", "model"}
  /\ report \in Seq(Report) /\ Len(report) <= 1

Occurrences(x, s) == Cardinality({i \in DOMAIN s : s[i] = x})

\* The report blames every node whose model call failed exactly once, and no
\* other node, in whatever order the agents returned; besides these it has one
\* note of the guardrail for each finding dropped.
EveryFailureReported ==
  \A rep \in ToSet(report) : \A n \in Nodes \ {"guardrail"} :
    Occurrences(n, rep.agent_errors) = IF result[n].failed THEN 1 ELSE 0

\* README: every model call's token usage is captured and rolled into the cost:
\* the report's total has the tokens of each call that reported usage once, also
\* of those whose answer could not be parsed.
EveryCallCounted ==
  LET cost(n) == IF result[n].usage THEN Tokens[n] ELSE 0 IN
  \A rep \in ToSet(report) :
    rep.usage = cost("vulnerability_agent") + cost("code_quality_agent")
                  + cost("secrets_agent") + cost("aggregate")

\* What the agents have to say on a key, from what the models and the scanner
\* answered: the secrets agent's word counts for hits and confirmed candidates.
Claims(a, k) ==
  IF a = "secrets_agent"
    THEN k \in ToSet(hits) \/ k \in candidates \cap ToSet(result[a].batch)
    ELSE k \in ToSet(result[a].batch)

\* A reported finding is on a submitted file, is reported once, was claimed by
\* the agent it is attributed to, and by none that goes before that agent.
FindingsAreClaims ==
  \A rep \in ToSet(report) :
    /\ \A i, j \in DOMAIN rep.findings :
         i # j => rep.findings[i].key # rep.findings[j].key
    /\ \A f \in ToSet(rep.findings) :
         /\ f.key \in Known
         /\ Claims(f.agent, f.key)
         /\ \A i, j \in DOMAIN Priority :
              f.agent = Priority[j] /\ i < j => ~Claims(Priority[i], f.key)

\* A claim on a submitted file is missing from the report only if the agents
\* made more than MaxFindings different claims, whichever calls failed: the
\* scanner's hits survive a failed triage.
ClaimsAreReported ==
  \A rep \in ToSet(report) : \A k \in Known :
    (\E a \in Agents : Claims(a, k)) =>
      \/ \E f \in ToSet(rep.findings) : f.key = k
      \/ Cardinality({l \in Keys : \E a \in Agents : Claims(a, l)}) > MaxFindings

\* Nothing is lost without a trace: the findings and the guardrail's notes add
\* up to the different claims, up to MaxFindings of them.
ReportAddsUp ==
  \A rep \in ToSet(report) :
    Len(rep.findings) + Occurrences("guardrail", rep.agent_errors)
      = Min({MaxFindings, Cardinality({k \in Keys : \E a \in Agents : Claims(a, k)})})

\* While every text fits its field an audit ends with a report, whichever of
\* its model calls fail.
ReportIsProduced == overlong = {} => <>(report # <<>>)

\* The docstring of invoke_structured: agent nodes degrade on failure rather
\* than crash the whole audit.
AgentsDegrade == ~raised

\* To the task that runs it, the graph is GraphRun: whatever the models answer,
\* a node returns or raises once, after the nodes it waits for, and there is a
\* report exactly when guardrail has returned.  (AuditJob starts from this.)
Run == INSTANCE GraphRun WITH report <- report # <<>>
ImplementsGraphRun == Run!Spec
=============================================================================
