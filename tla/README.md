# custos-examinis: models, checks and proofs

TLA+ models of the auditor in `src/src/custos_examinis/`, checked with TLC on
small instances, and theorems about them proved with TLAPS. File names below are
relative to that directory.

## The system

A client submits files (`POST /audits/zip`, `POST /audits/inline`); a background
task in the same worker process runs a graph of LLM agents over them; the client
polls the result or follows it over Server-Sent Events. Redis holds everything
that is shared: one record per audit, one pub/sub channel per audit, one sorted
set per rate-limited client.

| Component | State | Operations | Talks to |
|---|---|---|---|
| Job store, `jobs/store.py` | the JSON record `audit-job:<id>` in Redis, 24 h TTL | `create`, `get`, `mark_running`, `append_progress`, `mark_completed`, `mark_failed` | Redis GET/SET, PUBLISH |
| Audit task, `jobs/runner.py` | where `run_audit` is, the last state the graph yielded | `run_audit` | the store, the graph |
| Event stream, `jobs/events.py` | one generator per connection: subscription, `seen` | `stream_audit_events` | the store, SUBSCRIBE |
| Audit graph, `graph/build.py`, `agents/`, `domain/` | `AuditState`, merged at the end of each superstep | three agents side by side, `aggregate`, `guardrail` | the model router |
| Model router, `llm/` | a cache of fallback chains | `get_chat_model` | the providers |
| Rate limiter, `middleware/rate_limit.py`, `api/deps.py` | a sorted set of request times per client | `check_sliding_window` | a Redis pipeline |
| Ingestion, `ingest/` | none | `from_zip_bytes`, `from_inline_files` | - |
| Endpoints, `api/` | none | submit, poll, stream | all of the above |
| Token accounting, `costs/` | none | `usage_event_from_message`, `from_events` | the agents |
| Authentication, middleware for headers, logging, configuration | none | - | - |

What is hard about it:

* The record and the channel are written by two awaits, `SET` then `PUBLISH`, and
  read by two, `SUBSCRIBE` then `GET`. Every interleaving of the four is possible,
  for any number of streams, while the graph's nodes go on finishing.
* Every Redis call can raise before or after it took effect. Only
  `append_progress` is awaited inside `run_audit`'s `try`; a failure there becomes
  `mark_failed`, a failure elsewhere ends the task.
* `mark_*` and `append_progress` return silently when the record has expired; a
  record that expires between `GET` and `SET` comes back.
* The worker may die, the client may go away, the client library may publish twice.
* The agents finish in any order, each with an answer, a failure, or a failure
  that cost tokens; everything must be in the report once.
* The rate limiter reads the clock before its pipeline: requests overtake.
* A submission is limited, ingested, recorded, answered and started in five steps
  of one request, any of which can fail; its record is in Redis before its client knows of it.
* A chain of providers is cached as it could be built at the first use, and serves
  every later call, whatever has failed or recovered since.
* Ingestion judges files one by one, with a running total; two names may be one path.
* The triage model answers by the index of a candidate out of all files' candidates.

## Modules

| Module | Models | Extends |
|---|---|---|
| `AuditJob` | store, task, graph (as nodes that finish or raise), streams of one audit | - |
| `AuditFeed` | abstract: what a stream promises; `AuditJob` implements it | - |
| `GraphRun` | abstract: a run of the graph as its two sides see it; `AuditJob` and `AuditGraph` implement it | - |
| `AuditJobInv` | the inductive invariant of `AuditJob`, in named parts | `AuditJob` |
| `Positions` | `Select`: the elements of a list at a set of positions, as a loop keeps them | - |
| `SequenceLemmas` | lemmas on `Append`, `Front`, `Tail`, `\o`, `ToSet`, repetition, `Select`, counting, recursion along a sequence | `Positions` |
| `AuditJobProofs` | theorems on the record, the task and final statuses | `AuditJobInv`, `SequenceLemmas` |
| `AuditStreamProofs` | theorems on what a stream is sent, and that `AuditJob` implements `AuditFeed` and `GraphRun` | `AuditJobProofs` |
| `AuditGraph` | the five nodes of the graph and the report they make | `Positions` |
| `SecretScan` | the secrets agent on the text of the files | `Positions` |
| `ModelRouter` | chains of providers, their cache, calls that fall back | - |
| `RateLimit` | the sliding window of one client | - |
| `Submission` | `POST /audits/...` of one user, from the limiter to the task | `RateLimit` |
| `Ingest` | a zip, a request's files or a directory into a `FileSet` | `Positions` |
| `AuditGraphProofs`, `ModelRouterProofs`, `IngestProofs`, `SecretScanProofs` | theorems on the modules they are named after | that module, `SequenceLemmas` |
| `SubmissionProofs` | theorems on `RateLimit`, then on `Submission` | `Submission`, `SequenceLemmas` |
| `MC...` | symmetry sets and input sets for TLC | the module of that name |

How they fit together:

    Submission --StartTask--> AuditJob ==> AuditFeed      (what clients see)
     |     |                     |
    RateLimit Ingest             +=======> GraphRun <=== AuditGraph
                                                           |      |
                                                    SecretScan  ModelRouter

`==>` is an implementation that TLC checks and a theorem states. `Submission` extends `RateLimit`: its
limiter steps are that module's actions. `AuditJob` begins with the `create` of one
accepted request and goes on where `Submission` ends, at `StartTask`: the task starts
from a queued record, which `AcceptedAndOnlyThen` guarantees.
`GraphRun` is the seam between the task and the graph: `AuditGraph` shows that the
nodes do no more than `GraphRun` allows, `AuditJob` that it lets them do no more.
`Ingest` appears in `Submission`, `SecretScan` and `ModelRouter` in `AuditGraph`, as a step with all
the outcomes they can have.

### AuditJob

One audit: keys, channel and task carry the audit's uuid, so audits do not meet.
`pc` is the await the task is at, `op` the store operation it is in (or did last).
A store operation is three steps, `StoreGet`, `StoreSave`, `StorePublish`, one per
await; `create` only saves. `local` is the record the operation has in hand, which
is how a stale copy can be written back. A record that does not exist is `NoJob`.

The graph appears as LangGraph shows it to `run_audit`: a node of the current
superstep finishes (`NodeFinishes`) or raises (`NodeRaises`) while the task is
anywhere in the loop; `updates` are those `astream` has still to yield, `pulled`
those it has yielded. A node of the next superstep starts only when the task comes
back for more. `GraphEnds` is the end of the loop, with a report if `guardrail`
was among the nodes.

A stream is at `spc[s]`: SUBSCRIBE sent (`ack`), about to read the snapshot, or in
the live loop. `inbox[s]` is its socket. `sent[s]` is what the client got; a
heartbeat changes nothing and is left out. Messages are names: a node's for
progress, a status otherwise.

`Faults` switches on what the environment may do: `redis` (a call raises, whether
or not Redis carried it out), `retry` (a publish is sent twice), `loss` (the record
expires or is evicted), `crash` (the worker dies), `drop` (a client goes away),
`late_ack` (Redis acknowledges a SUBSCRIBE after more than a second).

Left out: timestamps, the owner, the text of errors, the contents of reports.

### AuditFeed

Without Redis: a log of finished nodes that a verdict closes, and per stream a
growing prefix of that log and at last the verdict. `AuditJob` implements it
(`ImplementsFeed`): the log is `pulled`, the verdict is fixed when the task turns
to `mark_completed` or `mark_failed`, a stream shows `sent` less its final status.
This says in one formula that nothing is lost, repeated, out of order, after the
end, or contradicts the audit's outcome.

### GraphRun

Nodes finish, each after those it waits for, until `guardrail` has made the report
or a node has raised. `AuditJob` implements it with the nodes in `pulled` and `updates` as
the finished ones and guardrail among them as the report, which is what `GraphEnds`
goes by; `AuditGraph` with its own variables.

### AuditGraph

A finding is its dedupe key (file, line, rule) and the agent it is attributed to;
an error is the node it blames; a usage event the node whose call it counts.
`result[n]` is what the model call of node `n` came back with: failed or not
(raised, unparsable, empty), with or without usage, and the keys it named. The
secrets agent adds what its own regular expressions found (`hits`) and asks the
model only about `candidates`; it makes no call when there are none. `Merge` is the
end of LangGraph's superstep; it may order the concatenated lists as it likes, and no property
depends on that. What the code filters is a set of positions (`Confirmed`, `FirstOfKey`,
`Clean`) and `Select`, which lists the elements there. `overlong` says which of the length-limited Pydantic fields this
audit's data exceeds; the node then raises, and the graph with it. `Tokens` is what
a call of a node costs; the totals of the report are sums of it.

Left out: prompts, the regular expressions, redaction of snippets, severity counts
and prices.

### RateLimit

One client's requests against one sorted set. The clock ticks between a request's
`time.time()` and the arrival of its pipeline, by at most `MaxDelay`. The pipeline
is atomic (MULTI/EXEC); the `ZRANGE` and `ZREM` of a rejected request are steps of
their own, and any call may fail before or after Redis has carried it out.
An entry's member, clock value and object id (`rate_limit.py:22`), is taken to be
different for every request.

### Submission

Per request: `stage` is where the endpoint is, `answer` the status code, `record`
the record of its audit, and `RateLimit`'s `pc` where its limiter is. FastAPI
resolves the token and the limiter before it calls the endpoint; the generic limiter
of the client's address, a body that is no JSON and a bad token end a request
before the user's window is looked at. Ingestion accepts, or rejects (400, 422), or raises (500).
`Create` may raise with the record saved or not. The background task starts after
the response has gone out (`Reply`, then `StartTask`). The worker may die anywhere.

Two consequences that are no disagreement with a document: submissions that
ingestion rejects use up the user's quota, and a `create` whose answer is lost leaves a
queued record that nobody knows of and nothing runs.

### Ingest

A path is the sequence of what stands between its separators, so that `normpath` goes
segment by segment (`AfterSegment`); absolute and drive paths, null bytes, `.`, `..` and
empty segments are all there. An entry has a kind, a declared size and what reading it gives. The three
sources differ by guards on `source`, and by the inputs each can have (`Possible`): names of
a request that differ only in their separators are paths that are equal here.
`FiledWhereItLeads` compares with the depth of a path after each segment,
`AcceptedIffFine` with a look at all entries at once; neither walks the path.

What an exception that is no `IngestionError` does (a corrupt entry, a local file that cannot
be read, a path of more than 1000 characters) is the verdict `crashed`: an answer 500, or a
traceback of the script. `AcceptedIffFine` tells it from a rejection: ingestion crashes only on an
entry that is otherwise in order, after nothing but fine ones and within the limits, since each
check that needs no content comes before the entry is read. The local script reads all files before
it checks any (`Unreadable`); it compares `Path.suffix`, which a name like `.env` does not have, and
so skips files that the endpoints accept (`Suffixed`). Left out: an archive that
cannot be opened at all, and local names with a backslash in them.

### SecretScan

Text is a sequence of tokens, so that offsets, line numbers and lines cut out by
`rfind` and `find` are what they are in the code. Candidates of all files are
numbered together; decisions come back by number, in any order, more than once, or for a
number that was not asked. The properties look at lines (`Lines`), which the model does
not build. A candidate whose value stands on a later line than its key is shown to
the triage model without the value, and reported on the key's line.

A line with a match that, stripped, is longer than the field for it (`MaxLine`) makes the scan of
all files raise: `ScanRaises`, the action of the same name in `AuditGraph`. `HitsReported` says that
nothing else does.

Left out: the regular expressions, and the order of several rules' matches.

### ModelRouter

`broken` are the providers whose client cannot be constructed, `down` those whose
calls raise; both change at any time. `cache` holds chains as they were built;
`get_chat_model` has no await and is one step. A call retries within its provider's
client, then falls back; an answer that does not parse is an answer (`include_raw`).

An answer makes a usage event (`UsageEvents`), or none when it reports no usage. The event's
model is the name the answer carries (`NamesOf`), or "unknown" when it carries none, and its provider
is guessed from that: without "claude" or "gemini" in the name it is ollama. So an answer of
Anthropic or Google that has no name counts as ollama's, and costs nothing: "unknown" has no price.
`CostGoesToAnswerer` says that this is as far as it goes: whatever has a price is charged to the
provider that answered. A name that is not in the price table, as the dated one that Anthropic may
report, also costs nothing, under the right provider.

A chain that was built while a provider could not be constructed never gets it back
while the process lives. `OneHealthyIsEnough` is therefore about a provider that was healthy all
along, and `Recovers` about what is left of an outage once no call raises; that a provider which becomes
healthy is used is not true. `broad_review` and `summarize` have the same primary
(`llm/router.py:27`, `:29`), although the comment above them and the README give
each role one of its own. Left out: chains handed to `from_models` by tests.

## Runs

Deadlock is checked only in `router`, which never stops; audits, graphs, requests,
ingestion and scans end.

| Run | Question | Instance |
|---|---|---|
| `job_safety` | is the record coherent, does a stream implement `AuditFeed`, and is the graph a `GraphRun` to the task, with every fault but a late acknowledgement? Also checks that the invariant used in proofs (`IInv`) holds | 3 agents, 1 stream |
| `job_late_ack` | does the order of events survive a late acknowledgement? (prefix and completeness do not; coherence and agreement are proved for every fault) | 2 agents, 1 stream, all faults |
| `job_liveness` | does every audit end and every stream get its final status, with nodes that raise, repeated publishes and clients that leave? | 2 agents, 1 stream, fair |
| `job_event_lost` | violated: a message is lost when the acknowledgement is late | |
| `job_final_status` | violated: no final event when the last publish raises | fair |
| `graph_reports` | is there a report while texts fit, does it account for every failure, call and claim, and is the graph a `GraphRun`? | 3 keys, one unknown, limit 2, one finding per answer, two hits, all fields may be too long or none, fair |
| `graph_degrades` | violated: a failure with a long text crashes the audit | |
| `rate_limit` | limit, retry hint and cleanup under overtaking and failing requests | 4 requests, limit 2, window 4 ticks of half a second, delay 1, clock up to 7 |
| `submission` | limit on audits, who is told 202 and whose task runs, with failures and dying workers at every step | 2 requests, limit 1, window 4, delay 1, clock up to 6, fair |
| `router` | preference, who is charged, survival of outages, termination | 3 providers with 4 names of models, 2 roles with one schema, one call at a time, fair |
| `ingest` | does one pass agree with a look at everything? | paths of up to 4 segments, 1 to 4 entries, limits 3, 2 and 4 |
| `secrets` | is every match, and every decision, reported where it belongs? | texts of up to 4 tokens, lines of up to 3, 1 to 3 files, 2 decisions |

Bounds. Streams do not influence each other or the task, so one stream shows all
a stream can do. Three agents is the real number; two already finish in
both orders and leave the later supersteps as they are. Sequences need no bound: a node finishes once, and a
message is published at most twice. In `AuditGraph` three keys and a limit of two
make a duplicate between agents, a duplicate within one, an unknown file and a
full report possible in one behaviour. In `RateLimit` four requests are two more
than the limit, and the clock runs long enough for the window to slide
past the first ones and for one retry. In `AuditGraph`'s run `Tokens` are powers of
two, so a sum tells which calls it counts; fields too long one at a time would show
nothing that all together do not, because each is a disjunct of its own. In
`Submission` limit 1 and two requests already compete, and the clock outlasts the window; its limiter
alone is checked larger in `rate_limit`. In `ModelRouter` calls meet only in the cache, and what one leaves
there is the same whether another is under way or not, so one call at a time after any
history is general; the two roles share a schema and order their providers differently.
In `Ingest` four segments are enough for `..` to go up past a name and come back;
sizes are 0 to 3 around a limit of 2 for a file and 4 in all, and pairs differ in
every attribute. In `SecretScan` four tokens put a match on the first, a middle and the last
line, beside blanks and empty lines, and make a line of four too long with no other limit in the
way; three files make numbers cross files twice.

Fairness. In `AuditJob`, weak fairness of the task as a whole, of the nodes as a whole
and of each stream: the event loop resumes what can run, Redis answers, and a provider
call ends in 30 s and one retry (`llm/providers.py:7-8`). In `AuditGraph`, of the
graph's steps, for the same reason. In `ModelRouter`, of each call's attempts and of
its caller going on; providers need not recover and nobody has to call. (This takes every
client library to honour the `timeout` it is given.) In `Submission`, of
the handler of a request that has begun; no request has to begin. No fault has to happen and no
client has to connect. The liveness run has no Redis errors, loss, crashes or late
acknowledgements: with them the code makes no promise it could keep (nothing
restarts a dead task), which `job_final_status` shows for one of them.

## Findings

* `job_event_lost`: the generator does not notice that the acknowledgement has not
  come within its second (`jobs/events.py:29`), contrary to its docstring.
* `job_final_status`: save and publish of the final status are not atomic and the
  second is not retried (`jobs/store.py:91`); the stream then sends heartbeats for ever.
* `graph_degrades`: `AgentError.message` holds 1000 characters, `str(exc)` any number
  (`domain/errors.py:6`); the node raises while degrading.

Two more raising paths are modelled (`ScanRaises`, `GuardrailRaises`) after which there is no
report, about which no document makes a promise; the audit ends as failed (`AuditFinishes`). The sliding window admits one more than the limit in a
stretch as long as the window when two requests overtake each other;
`SlidingWindow` is therefore stated for stretches shorter by `MaxDelay`.

## Proofs

Theorems hold for every value of the constants that the modules' assumptions admit: any set
of agents, streams, keys or callers, finite or not, any texts, and any `Faults`. Every safety
property, action property and refinement of the passing runs is proved; liveness is model-checked.

### The task and the record: `AuditJobProofs`

* `TypeCorrect`: `TypeOK`.
* `TaskInvariant`, then `RecordIsCoherent`: `RecordCoherent` is not inductive: that
  a completed record lists every node depends on how far the task and the graph
  are. `TaskIInv` adds which nodes can have finished (`GraphInv`), which operation
  can be at which await (`TaskInv`), and what the record, or the copy about to be
  written over it, holds at each await (`RecordInv`: status before or after the
  save, progress equal to `pulled` or one short).
* `StatusAdvances`: `StatusNeverRegresses`, from `TaskIInv`: a save writes the
  copy that was read, and only this task writes.
* `VerdictInvariant`, then `StreamsAgree`: a final status is in an inbox or sent
  only when the operation that writes it has saved, and no operation follows it.

The stream steps share one lemma (a step that leaves the task's variables alone
preserves what is about them); steps of the task are split by action and, where they
differ, by operation.

### The streams: `AuditStreamProofs`

`StreamInvariant`: `IInv`, which adds `StreamSideInv` to the two invariants above. It says of
each stream what keeps the next event from being a gap:

* `Idle`: no subscription, no messages; no snapshot, nothing sent.
* `Pending`: until the snapshot is read, what the channel has delivered is in the record, so
  that the replay and the messages overlap and never leave a hole.
* `SentSoFar`: `seen` is what was sent, which is a prefix of `pulled`.
* `Unread`: each message in the socket comes after nothing that neither `seen` nor
  an earlier message has. `NotLost`: what was announced is in one of the two.

`NothingIsLost`, `PrefixIsShown` and `CompletedIsComplete` follow. All three assume
`AckInTime`, that `late_ack` is not among `Faults`: the snapshot is then read after the
subscription exists. Without it they are false, which `job_event_lost` shows of the first;
every other fault is allowed.

`StreamsAreInOrder` needs no such assumption. Its invariant is another one, `OrderInv`: what
is in the socket is in the order of the graph, copies of a message next to each other (a
repeated publish), and whatever of it has not been sent comes after all that has.

### The seams: `AuditStreamProofs`, `AuditGraphProofs`

`JobImplementsFeed`: each step of `AuditJob` is one of `AuditFeed` or leaves its variables
alone, under `AckInTime`. Pulling a node records it, choosing `mark_completed` or `mark_failed`
concludes, sending delivers the next node of the log; that it is the next is `Unread`, that
the verdict told is the one chosen is `VerdictInv`. Steps of Redis show nothing.

`JobRunsGraph` and `GraphIsRun` are the two sides of the seam between task and graph
(`ImplementsGraphRun` of either module). On the task's side the finished nodes are `pulled`
and `updates` together; that a report and guardrail's return are one step needs `GraphInv`:
guardrail is the last node there is. On the graph's side `OrderInv` says who has returned
when the agents are merged.

### The graph and its report: `AuditGraphProofs`

`GraphInvariant`: `OrderInv`, and `DataInv`, which says of every list what it holds as long as
it is there: a node that has not run has no result; once merged, `findings` are what the
agents' answers make, each failed call is among the errors once, and the events cost what the
calls that reported usage cost (`MergedInv`, which speaks of no order); after `aggregate`, `deduped` is `Dedupe(AllFindings)`; a report is
made of these (`Made`). No property is inductive without it, since a report is
about answers that came in three supersteps before. The properties are then about operators:

* `FailuresAreReported`, `CallsAreCounted`: how often a node occurs in a concatenation, and
  what a sum over one is, is a sum of the parts; the order drops out.
* `ReportedFindingsAreClaims`, `NoClaimIsDropped`, `ReportsAddUp`: a finding of the concatenation
  is a claim of its agent on its key, and the first one on a key is by the first agent that
  claims it, because the agents' lists follow one another in the order of `Priority`. Deduped,
  there is one finding for each claimed key, a bijection, so the two are
  equally many; cutting at the limit and dropping unknown files is then counting.

### Recursion along a sequence: `SequenceLemmas`

What a total, or a walk along a path, comes to is a recursive function. That such a function
exists is proved once, for sequences of any length (`RunExists`), and what it returns by
a least counterexample (`LeastElement`): the library's induction theorems have an operator as
a parameter, which the provers cannot instantiate. `Select` is known by three facts: it lists the chosen
elements, all of them, and in the order of any ascending list of their positions.

### Chains of providers: `ModelRouterProofs`

`RouterInvariant`: each cached chain lists providers in its role's order, each once; a
call under way or answered has the chain that is cached for its use, and the providers before
the one it is at have raised to it (`CallInv`). `AnsweredInOrder` (`PreferenceKept`) follows by position in the chain.
`CostGoesRight` (`CostGoesToAnswerer`) is about every name an answer may carry, and none. It assumes
that "claude" is in no name that Google's or Ollama's answers carry, and "gemini" in none of the
others' (`NamesTellApart`), as with the models of `config.py:19`, `:22` and `:25`: an Ollama
model called after one of the two would be taken for it. That the rest costs nothing is `RouterAssumption`:
every name in the price table has one of the words (`costs/pricing.py:12-17`).
`OneHealthySuffices` has an invariant for one provider: as long as it is in order it is in every
cached chain and has raised to no call; then no call runs out of providers.

### Requests: `SubmissionProofs`

The first half proves all of `RateLimit`'s properties for every limit, window, delay
and any number of requests. `WindowInv` is the invariant: which requests have an entry
(`EntryInv`; finitely many have begun, so sets can be counted), that a call under way is
at most `MaxDelay` behind the clock (`ClockInv`), and that an entry which still counts is in
the set and the key outlives it (`CountInv`). None of the properties is inductive:

* `LimiterTypes`: that a retry hint is a number needs an oldest entry to compute it from.
* `AdmittedCount` is `CountInv`: a pipeline that comes later has a clock value of at
  most now, so it cannot remove an entry that is less than a window old.
* `LimitHolds`: of a stretch, the request whose pipeline comes last finds all others in
  its count, because it is at most `MaxDelay` late; so it is admitted only if they are
  fewer than the limit.
* `RejectedForCause`: what a pipeline counts is not idle, waiting or turned away.
* `RetryHint`: a rejected request's own entry is still there when it asks for the oldest, which
  is therefore no newer than itself; the rest is division with a remainder. (It
  follows that the branch for an empty answer, `rate_limit.py:30`, is not taken while
  calls take less than a window.)

The second half is about `Submission`. `SubmissionsAreLimited` (each step is one of `RateLimit` or leaves its
variables alone) brings the theorems above to `Submission`; `WayInv` says where record and
answer are at each stage. `AuditsAreLimited` needs both: an audit's request was
admitted and stays so, hence audits are among the admitted requests of a stretch.

### Ingestion: `IngestProofs`

What `normpath` does and where a path leads are defined in ways that have nothing in common:
a walk that drops what it has, and a look at depths. `NormalizeFacts` brings them
together: after `n` segments the walk stands at the names that no later `..` takes back, one for
each level (`FollowsBy`), as long as the path has not been above its root; once it was, the walk
begins with `..` for good (`Walked`). So `PathRejected` holds exactly when a path leaves the
root, leads nowhere, or is absolute.

`IngestInv` is the invariant: what has been taken is fine, each place has the last entry that
leads there (`FiledInv`), the running total is theirs, and what ended the loop is a cause, a
different one for a rejection and for a crash (`LimitsInv`). `NothingEscapes` is part of it. `OnePassDecides` needs that totals only grow: an entry
that broke the limit breaks it for the whole.

### The secrets agent: `SecretScanProofs`

The code never splits a text into lines: it counts the breaks before an offset, and cuts out
what lies between the break before and the break after. The properties read lines token by token. The
lemma that joins the two is `LinesSplit`: what has been read after `n` tokens is the text between its
breaks (`Split`). From it `LineFacts` concludes that an offset's line number is the line it
stands on, `StripTrims` that `strip` leaves what `Trimmed` does, and `OccurrencesOnLine` that a line
has as many matches as there are offsets with its number.

`ScanInv` is the invariant: of each scanned file, the findings and the matches correspond one to
one, each finding where its match is (`HitsInv`); candidates stand where they say, and carry different
numbers once they are numbered (`CandidateInv`); what follows the rules' findings answers the decisions
that count, one by one (`TriageInv`); if a scan has raised, some file has a line with a match
that is too long (`RaisedInv`). `MatchesAreReported` needs the correspondence because a
property about numbers of findings says nothing of which finding belongs to which match.
`DecisionsAreFollowed` needs that `by_index` finds one candidate only.

### Assumptions, and what is only model-checked

Assumptions of the modules: a node has no status's name, `Faults` are the named
ones, `Limit`, `Window` and `Second` are positive, `Second` divides `Window`
(`window_seconds` is a whole number), a call takes less than a window to
reach Redis, every priced name of a model has a provider's word in it, and a raw path has a segment (the text between no separators is one). Two theorems' hypotheses come on top, `AckInTime` and `NamesTellApart`.

Only model-checked: liveness (`AuditFinishes`, `StreamFinishes`, `ReportIsProduced`, `Recovers`, `CallsEnd`,
`PromisesKept`), which under fairness needs `ENABLED` and is out of the prover's reach, and the three
violations. The models hold no folds and no `RECURSIVE` operators, which could not be proved
about: what a recursive function computes is proved by a least counterexample instead.

## Not modelled, and the plan

What is left of the plan is liveness on larger instances than the fair runs have.

Not modelled:

* Authentication is a step that may answer 401; the verification of a token is a
  library's, and its settings are no state.
* Prompts are text. The tool in `llm/tools.py` is used by no agent.
* The header middleware only adds headers to responses; its one gap, that a 429 of the
  generic limiter is sent without them, is the order of `add_middleware` calls.
* Application, configuration, logging and health are wiring, settings and formatting.
* Prices are floating-point arithmetic over the events that `AuditGraph` counts; of the table
  `ModelRouter` has the names (a model that is not among them costs nothing, `costs/pricing.py:22-23`).
* Polling (`GET /audits/{id}`) reads the record once; ownership of an audit is a field that is
  compared and never changes.
