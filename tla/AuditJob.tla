------------------------------ MODULE AuditJob ------------------------------
(***************************************************************************)
(* One audit from submission to its final status: the JobStore record in   *)
(* Redis (jobs/store.py), the background task that runs the graph and      *)
(* writes the record (jobs/runner.py), and the Server-Sent-Events          *)
(* generators that replay and follow it (jobs/events.py).                  *)
(*                                                                         *)
(* Audits do not interact here: an audit's key, its channel and its task   *)
(* carry its own uuid, so the module describes one of them.                *)
(*                                                                         *)
(* A message on the channel, and an event on a stream, is the name of a    *)
(* graph node ("progress") or a job status ("status").                     *)
(***************************************************************************)
EXTENDS Naturals, Sequences, FiniteSets, SequencesExt

CONSTANTS
  Agents,   \* the graph nodes with an edge from START
  Streams,  \* the connections made to GET /audits/{id}/events
  Faults    \* which misbehaviours of the environment are allowed

(***************************************************************************)
(* "redis"     a Redis call raises, whether or not Redis carried it out    *)
(* "retry"     the client library sends a publish twice                    *)
(* "loss"      the record expires (24 h) or is evicted                     *)
(* "crash"     the process that runs the background task dies              *)
(* "drop"      an SSE client disconnects, or its generator raises          *)
(* "late_ack"  Redis takes more than 1 s to acknowledge a SUBSCRIBE        *)
(***************************************************************************)
ASSUME FaultsAssumption ==
  Faults \subseteq {"redis", "retry", "loss", "crash", "drop", "late_ack"}

Nodes == Agents \cup {"aggregate", "guardrail"}

\* Mutant of Preds: the edge from aggregate to guardrail starts at the agents.
PredsNoBarrier(n) == IF n \in Agents THEN {} ELSE Agents

Preds(n) == CASE n = "aggregate" -> Agents
              [] n = "guardrail" -> {"aggregate"}
              [] OTHER           -> {}

Terminal == {"completed", "failed"}
Statuses == {"queued", "running"} \cup Terminal

\* No node is called like a status, an agent like a later node.
ASSUME NamesAssumption ==
  Agents \cap (Statuses \cup {"aggregate", "guardrail"}) = {}

Messages == Nodes \cup Statuses

Job == [status : Statuses \cup {"absent"}, progress : Seq(Nodes),
        report : BOOLEAN, error : BOOLEAN]

\* What `store.get` returns as None.
NoJob == [status |-> "absent", progress |-> <<>>, report |-> FALSE, error |-> FALSE]

Operations == {"create", "mark_running", "append_progress",
               "mark_completed", "mark_failed"}

VARIABLES
  job,         \* the record under audit-job:<id>
  op,          \* the JobStore operation the audit's task is in, or did last
  pc,          \* the await that task is at
  local,       \* the copy of the record that operation works on
  pulled,      \* the nodes astream has yielded an update of, in order
  updates,     \* finished nodes whose update astream has not yielded yet
  raised,      \* a node raised, astream is about to
  spc,         \* per stream: the await its generator is at
  subscribed,  \* per stream: Redis has registered the subscription
  inbox,       \* per stream: messages delivered and not read
  seen,        \* per stream: the generator's `seen`
  sent         \* per stream: the events yielded to the client

graphVars  == <<pulled, updates, raised>>
taskVars   == <<op, pc, local>>
streamVars == <<spc, subscribed, inbox, seen, sent>>
vars == <<job, taskVars, graphVars, streamVars>>

Init ==
  /\ job = NoJob
  /\ op = "create" /\ pc = "save"
  /\ local = [NoJob EXCEPT !.status = "queued"]
  /\ pulled = <<>> /\ updates = <<>> /\ raised = FALSE
  /\ spc = [s \in Streams |-> "closed"]
  /\ subscribed = [s \in Streams |-> FALSE]
  /\ inbox = [s \in Streams |-> <<>>]
  /\ seen = [s \in Streams |-> {}]
  /\ sent = [s \in Streams |-> <<>>]

-----------------------------------------------------------------------------
(***************************************************************************)
(* JobStore: every mark_* and append_progress is a get, a save and a       *)
(* publish, three awaits; create is a save alone.                          *)
(***************************************************************************)

InStore == pc \in {"get", "save", "publish"}

\* Mutant of Edited: mark_failed writes a status that JobStatus lacks.
EditedUnknownStatus(j) ==
  CASE op = "create"          -> j
    [] op = "mark_running"    -> [j EXCEPT !.status = "running"]
    [] op = "append_progress" -> [j EXCEPT !.progress = Append(@, Last(pulled))]
    [] op = "mark_completed"  -> [j EXCEPT !.status = "completed", !.report = TRUE]
    [] op = "mark_failed"     -> [j EXCEPT !.status = "error", !.error = TRUE]

\* What the operation does to the copy it has read.
Edited(j) ==
  CASE op = "create"          -> j
    [] op = "mark_running"    -> [j EXCEPT !.status = "running"]
    [] op = "append_progress" -> [j EXCEPT !.progress = Append(@, Last(pulled))]
    [] op = "mark_completed"  -> [j EXCEPT !.status = "completed", !.report = TRUE]
    [] op = "mark_failed"     -> [j EXCEPT !.status = "failed", !.error = TRUE]

\* What the operation publishes.
Announcement ==
  CASE op = "mark_running"    -> "running"
    [] op = "append_progress" -> Last(pulled)
    [] op = "mark_completed"  -> "completed"
    [] op = "mark_failed"     -> "failed"

\* Where the task goes on when the operation returns.
Return == pc' = CASE op = "create" -> "scheduled"
                  [] op \in {"mark_running", "append_progress"} -> "pull"
                  [] OTHER -> "done"

Broadcast(times) ==
  inbox' = [s \in Streams |->
              IF subscribed[s] THEN inbox[s] \o [i \in 1..times |-> Announcement]
                               ELSE inbox[s]]

\* Mutant of StoreGet: the operation trusts the copy the task already has.
StoreGetCached ==
  /\ pc = "get"
  /\ pc' = "save"
  /\ UNCHANGED <<job, op, local, graphVars, streamVars>>

StoreGet ==
  /\ pc = "get"
  /\ local' = job
  /\ IF job = NoJob THEN Return ELSE pc' = "save"
  /\ UNCHANGED <<job, op, graphVars, streamVars>>

StoreSave ==
  /\ pc = "save"
  /\ job' = Edited(local)
  /\ IF op = "create" THEN Return ELSE pc' = "publish"
  /\ UNCHANGED <<op, local, graphVars, streamVars>>

StorePublish ==
  /\ pc = "publish"
  /\ \/ Broadcast(1)
     \/ "retry" \in Faults /\ Broadcast(2)
  /\ Return
  /\ UNCHANGED <<job, op, local, graphVars, spc, subscribed, seen, sent>>

-----------------------------------------------------------------------------
(***************************************************************************)
(* run_audit and the graph it pulls from.  The graph's nodes run while the *)
(* task is inside a store operation; a node of the next superstep starts   *)
(* only when the task asks astream for more.                               *)
(***************************************************************************)

InLoop == pc = "pull" \/ (op = "append_progress" /\ InStore)

Finished == ToSet(pulled) \cup ToSet(updates)

Running ==
  {n \in Nodes \ Finished :
     IF n \in Agents THEN InLoop
     ELSE pc = "pull" /\ Preds(n) \subseteq ToSet(pulled)}

Start(o) == op' = o /\ pc' = "get"

RunAudit ==
  /\ pc = "scheduled"
  /\ Start("mark_running")
  /\ UNCHANGED <<job, local, graphVars, streamVars>>

NodeFinishes(n) ==
  /\ n \in Running /\ ~raised
  /\ updates' = Append(updates, n)
  /\ UNCHANGED <<job, taskVars, pulled, raised, streamVars>>

\* A node, or the construction of the graph, raises; its siblings are cancelled.
NodeRaises ==
  /\ Running # {} /\ ~raised
  /\ raised' = TRUE
  /\ UNCHANGED <<job, taskVars, pulled, updates, streamVars>>

PullUpdate ==
  /\ pc = "pull" /\ updates # <<>>
  /\ pulled' = Append(pulled, Head(updates))
  /\ updates' = Tail(updates)
  /\ Start("append_progress")
  /\ UNCHANGED <<job, local, raised, streamVars>>

\* Mutant of GraphRaises: the except clause is gone, the task dies.
GraphRaisesUncaught ==
  /\ pc = "pull" /\ raised
  /\ pc' = "dead"
  /\ UNCHANGED <<job, op, local, graphVars, streamVars>>

GraphRaises ==
  /\ pc = "pull" /\ raised
  /\ Start("mark_failed")
  /\ UNCHANGED <<job, local, graphVars, streamVars>>

\* The graph ends after its last node; only guardrail writes "report".
GraphEnds ==
  /\ pc = "pull" /\ ~raised /\ updates = <<>> /\ Running = {}
  /\ Start(IF "guardrail" \in ToSet(pulled) THEN "mark_completed" ELSE "mark_failed")
  /\ UNCHANGED <<job, local, graphVars, streamVars>>

-----------------------------------------------------------------------------
(***************************************************************************)
(* Faults of the task's environment.                                       *)
(***************************************************************************)

\* Mutant of RedisRaises: mark_completed is awaited inside the try block too.
RedisRaisesInTry ==
  /\ "redis" \in Faults
  /\ \/ pc = "get" /\ UNCHANGED <<job, inbox>>
     \/ pc = "save" /\ UNCHANGED inbox /\ (UNCHANGED job \/ job' = Edited(local))
     \/ pc = "publish" /\ UNCHANGED job /\ (UNCHANGED inbox \/ Broadcast(1))
  /\ IF op \in {"append_progress", "mark_completed"}
       THEN Start("mark_failed")
       ELSE pc' = "dead" /\ UNCHANGED op
  /\ UNCHANGED <<local, graphVars, spc, subscribed, seen, sent>>

\* Only append_progress is awaited inside the try block.
RedisRaises ==
  /\ "redis" \in Faults
  /\ \/ pc = "get" /\ UNCHANGED <<job, inbox>>
     \/ pc = "save" /\ UNCHANGED inbox /\ (UNCHANGED job \/ job' = Edited(local))
     \/ pc = "publish" /\ UNCHANGED job /\ (UNCHANGED inbox \/ Broadcast(1))
  /\ IF op = "append_progress" THEN Start("mark_failed")
                               ELSE pc' = "dead" /\ UNCHANGED op
  /\ UNCHANGED <<local, graphVars, spc, subscribed, seen, sent>>

Crash ==
  /\ "crash" \in Faults /\ pc \notin {"done", "dead"}
  /\ pc' = "dead"
  /\ UNCHANGED <<job, op, local, graphVars, streamVars>>

RecordLost ==
  /\ "loss" \in Faults /\ job # NoJob
  /\ job' = NoJob
  /\ UNCHANGED <<taskVars, graphVars, streamVars>>

-----------------------------------------------------------------------------
(***************************************************************************)
(* stream_audit and stream_audit_events.  A heartbeat changes nothing.     *)
(***************************************************************************)

IsOpen(s) == spc[s] \in {"ack", "snapshot", "live"}

\* `finally`: unsubscribe and close.
Close(s, how) ==
  /\ spc' = [spc EXCEPT ![s] = how]
  /\ subscribed' = [subscribed EXCEPT ![s] = FALSE]
  /\ inbox' = [inbox EXCEPT ![s] = <<>>]

\* Mutant of OpenStream: the snapshot is read without waiting for the subscription.
OpenStreamUnsubscribed(s) ==
  /\ spc[s] = "closed" /\ job # NoJob
  /\ spc' = [spc EXCEPT ![s] = "snapshot"]
  /\ UNCHANGED <<job, taskVars, graphVars, subscribed, inbox, seen, sent>>

\* The endpoint's own `store.get`, then SUBSCRIBE is sent.
OpenStream(s) ==
  /\ spc[s] = "closed" /\ job # NoJob
  /\ spc' = [spc EXCEPT ![s] = "ack"]
  /\ UNCHANGED <<job, taskVars, graphVars, subscribed, inbox, seen, sent>>

RedisSubscribes(s) ==
  /\ IsOpen(s) /\ ~subscribed[s]
  /\ subscribed' = [subscribed EXCEPT ![s] = TRUE]
  /\ UNCHANGED <<job, taskVars, graphVars, spc, inbox, seen, sent>>

\* Mutant of ReadAck: the acknowledgement is not waited for.
ReadAckAtOnce(s) ==
  /\ spc[s] = "ack"
  /\ spc' = [spc EXCEPT ![s] = "snapshot"]
  /\ UNCHANGED <<job, taskVars, graphVars, subscribed, inbox, seen, sent>>

\* get_message(timeout=1.0): the acknowledgement, or None after one second.
ReadAck(s) ==
  /\ spc[s] = "ack"
  /\ subscribed[s] \/ "late_ack" \in Faults
  /\ spc' = [spc EXCEPT ![s] = "snapshot"]
  /\ UNCHANGED <<job, taskVars, graphVars, subscribed, inbox, seen, sent>>

\* Mutant of ReadSnapshot: what it replays is not entered in `seen`.
ReadSnapshotUnseen(s) ==
  /\ spc[s] = "snapshot"
  /\ LET ends == job.status \in Terminal IN
       /\ sent' = [sent EXCEPT ![s] =
                     IF ends THEN Append(job.progress, job.status) ELSE job.progress]
       /\ IF job = NoJob \/ ends
            THEN Close(s, "ended")
            ELSE spc' = [spc EXCEPT ![s] = "live"] /\ UNCHANGED <<subscribed, inbox>>
  /\ UNCHANGED <<job, taskVars, graphVars, seen>>

\* store.get and the replay of what it returned.
ReadSnapshot(s) ==
  /\ spc[s] = "snapshot"
  /\ seen' = [seen EXCEPT ![s] = ToSet(job.progress)]
  /\ LET ends == job.status \in Terminal IN
       /\ sent' = [sent EXCEPT ![s] =
                     IF ends THEN Append(job.progress, job.status) ELSE job.progress]
       /\ IF job = NoJob \/ ends
            THEN Close(s, "ended")
            ELSE spc' = [spc EXCEPT ![s] = "live"] /\ UNCHANGED <<subscribed, inbox>>
  /\ UNCHANGED <<job, taskVars, graphVars>>

\* Mutant of ReadMessage: every progress message is passed on, seen or not.
ReadMessageAgain(s) ==
  /\ spc[s] = "live" /\ inbox[s] # <<>>
  /\ LET m == Head(inbox[s]) IN
       /\ seen' = [seen EXCEPT ![s] = @ \cup ({m} \cap Nodes)]
       /\ sent' = [sent EXCEPT ![s] = IF m \in Nodes \cup Terminal THEN Append(@, m) ELSE @]
       /\ IF m \in Terminal
            THEN Close(s, "ended")
            ELSE /\ inbox' = [inbox EXCEPT ![s] = Tail(@)]
                 /\ UNCHANGED <<spc, subscribed>>
  /\ UNCHANGED <<job, taskVars, graphVars>>

\* Mutant of ReadMessage: only "completed" ends the stream.
ReadMessageCompletedOnly(s) ==
  /\ spc[s] = "live" /\ inbox[s] # <<>>
  /\ LET m == Head(inbox[s])
         fresh == m \in Nodes \ seen[s] IN
       /\ seen' = [seen EXCEPT ![s] = IF fresh THEN @ \cup {m} ELSE @]
       /\ sent' = [sent EXCEPT ![s] =
                     IF fresh \/ m = "completed" THEN Append(@, m) ELSE @]
       /\ IF m = "completed"
            THEN Close(s, "ended")
            ELSE /\ inbox' = [inbox EXCEPT ![s] = Tail(@)]
                 /\ UNCHANGED <<spc, subscribed>>
  /\ UNCHANGED <<job, taskVars, graphVars>>

ReadMessage(s) ==
  /\ spc[s] = "live" /\ inbox[s] # <<>>
  /\ LET m == Head(inbox[s])
         fresh == m \in Nodes \ seen[s] IN
       /\ seen' = [seen EXCEPT ![s] = IF fresh THEN @ \cup {m} ELSE @]
       /\ sent' = [sent EXCEPT ![s] = IF fresh \/ m \in Terminal THEN Append(@, m) ELSE @]
       /\ IF m \in Terminal
            THEN Close(s, "ended")
            ELSE /\ inbox' = [inbox EXCEPT ![s] = Tail(@)]
                 /\ UNCHANGED <<spc, subscribed>>
  /\ UNCHANGED <<job, taskVars, graphVars>>

DropStream(s) ==
  /\ "drop" \in Faults /\ IsOpen(s)
  /\ Close(s, "dropped")
  /\ UNCHANGED <<job, taskVars, graphVars, seen, sent>>

-----------------------------------------------------------------------------
TaskStep == \/ StoreGet \/ StoreSave \/ StorePublish
            \/ RunAudit \/ PullUpdate \/ GraphRaises \/ GraphEnds

NodeStep == \E n \in Nodes : NodeFinishes(n)

StreamStep(s) == RedisSubscribes(s) \/ ReadAck(s) \/ ReadSnapshot(s) \/ ReadMessage(s)

Environment == NodeRaises \/ RedisRaises \/ Crash \/ RecordLost

Next == \/ TaskStep \/ NodeStep \/ Environment
        \/ \E s \in Streams : OpenStream(s) \/ StreamStep(s) \/ DropStream(s)

Spec == Init /\ [][Next]_vars

(***************************************************************************)
(* The event loop keeps resuming the task and the generators, Redis        *)
(* answers, and a node cannot run for ever: the provider clients have a    *)
(* 30 s timeout and one retry (llm/providers.py).  Nobody has to open a    *)
(* stream, and no fault has to happen.                                     *)
(***************************************************************************)
FairSpec ==
  /\ Spec
  /\ WF_vars(TaskStep) /\ WF_vars(NodeStep)
  /\ \A s \in Streams : WF_vars(StreamStep(s))

-----------------------------------------------------------------------------
(***************************************************************************)
(* Properties.                                                             *)
(***************************************************************************)

TypeOK ==
  /\ job \in Job /\ local \in Job
  /\ op \in Operations
  /\ pc \in {"get", "save", "publish", "scheduled", "pull", "done", "dead"}
  /\ pulled \in Seq(Nodes) /\ updates \in Seq(Nodes) /\ raised \in BOOLEAN
  /\ spc \in [Streams -> {"closed", "ack", "snapshot", "live", "ended", "dropped"}]
  /\ subscribed \in [Streams -> BOOLEAN]
  /\ inbox \in [Streams -> Seq(Messages)]
  /\ seen \in [Streams -> SUBSET Nodes]
  /\ sent \in [Streams -> Seq(Messages)]

\* A record that says "completed" carries the report, no error, and exactly one
\* progress entry per graph node; one that says "failed" carries the error and
\* no report; no other record carries either.  (A poll of GET /audits/{id} never
\* sees a half-finished job, whatever failed in between.)
RecordCoherent ==
  /\ job.report = (job.status = "completed")
  /\ job.error = (job.status = "failed")
  /\ job.status = "completed" =>
       ToSet(job.progress) = Nodes /\ IsInjective(job.progress)

\* A stream that has been told a final status agrees with the record: whoever
\* polls GET /audits/{id} after the last SSE event sees that same status (or a
\* record that has expired), never an earlier one.
StreamAgreesWithStore ==
  \A s \in Streams : \A v \in Terminal :
    v \in ToSet(sent[s]) => job = NoJob \/ job.status = v

\* A client never sees a node reported twice, nor two nodes in another order
\* than the graph finished them, however late it connects and whatever is
\* delivered twice or not at all; and a status is the last event it gets.
StreamInOrder ==
  \A s \in Streams : \A i, j \in DOMAIN sent[s] :
    i < j => \E a, b \in DOMAIN pulled :
               /\ sent[s][i] = pulled[a]
               /\ sent[s][j] \in Nodes => a < b /\ sent[s][j] = pulled[b]

\* A final status is the last event of its stream; what comes before is progress.
Told(s)  == sent[s] # <<>> /\ Last(sent[s]) \in Terminal
Shown(s) == IF Told(s) THEN Front(sent[s]) ELSE sent[s]

\* Nothing is skipped: what a stream has shown is always a prefix of the graph's
\* own order, wherever the subscription and the snapshot fell between the
\* store's save and its publish.
StreamIsPrefix ==
  \A s \in Streams : IsPrefix(Shown(s), pulled)

\* A stream that ends in "completed" has shown every node of the graph.
CompletedStreamIsComplete ==
  \A s \in Streams :
    "completed" \in ToSet(sent[s]) => ToSet(Shown(s)) = Nodes

\* The record is in Redis, or about to be written back from the task's copy.
Intact == job # NoJob \/ pc \in {"save", "publish"}

\* The nodes whose progress event has certainly been published.
Announced ==
  IF op = "mark_failed" \/ (op = "append_progress" /\ pc # "pull")
    THEN ToSet(Front(pulled)) ELSE ToSet(pulled)

\* The docstring of stream_audit_events: an event published between the
\* subscription and the snapshot is captured rather than lost.
NoEventLost ==
  \A s \in Streams :
    spc[s] = "live" /\ Intact => Announced \subseteq seen[s] \cup ToSet(inbox[s])

\* A final record never changes again except by expiring, and a record never
\* goes back to an earlier status.
StatusRank(j) == CASE j.status = "queued" -> 1 [] j.status = "running" -> 2
                   [] j.status \in Terminal -> 3 [] OTHER -> 0
StatusNeverRegresses ==
  [][\/ job' = NoJob \/ StatusRank(job') > StatusRank(job)
     \/ StatusRank(job') = 2 /\ IsPrefix(job.progress, job'.progress)]_job

\* An audit whose environment behaves always reaches a final status, also when
\* nodes raise.
AuditFinishes == <>(job.status \in Terminal)

\* No lost wakeup: a stream opened at any moment is eventually told the final
\* status, unless its client goes away.
StreamFinishes ==
  \A s \in Streams : spc[s] = "ack" ~> Told(s) \/ spc[s] = "dropped"

\* The docstring of stream_audit: the progress events are "followed by a final
\* `status` event once the audit completes or fails".
FinalStatusDelivered ==
  \A s \in Streams :
    spc[s] = "live" /\ job.status \in Terminal ~> Told(s) \/ spc[s] = "dropped"

-----------------------------------------------------------------------------
(***************************************************************************)
(* The streams implement AuditFeed: its log is the order in which the task *)
(* got the nodes, its verdict falls when the task turns to mark_completed  *)
(* or mark_failed.                                                         *)
(***************************************************************************)
Feed == INSTANCE AuditFeed WITH
  log     <- pulled,
  verdict <- CASE op = "mark_completed" -> "completed"
               [] op = "mark_failed"    -> "failed"
               [] OTHER                 -> "pending",
  shown   <- [s \in Streams |-> Shown(s)],
  told    <- [s \in Streams |-> IF Told(s) THEN Last(sent[s]) ELSE "pending"]

\* Whatever the environment does short of a late acknowledgement, the audit and
\* its streams do only what AuditFeed allows: no event is lost, repeated, out of
\* order or after the final status, and no stream is told a wrong status.
ImplementsFeed == Feed!Spec

\* The graph as the task sees it is the graph of AuditGraph: GraphRun is all they
\* have to agree on.
Run == INSTANCE GraphRun WITH
  finished <- Finished, report <- "guardrail" \in Finished, raised <- raised

\* However the task falls behind its graph, or stops, the nodes whose updates it
\* has or will get finish in an order the edges allow, and none after one raised.
ImplementsGraphRun == Run!Spec
=============================================================================
