---------------------------- MODULE AuditJobInv -----------------------------
(***************************************************************************)
(* The inductive invariant behind AuditJob's safety properties, checked by *)
(* TLC and used by the proofs.  Its parts, from the graph outwards: which  *)
(* nodes have finished, where the task is, what the record may hold, what  *)
(* a stream has been sent and has yet to read.                             *)
(***************************************************************************)
EXTENDS AuditJob

-----------------------------------------------------------------------------
(* The graph and the task.                                                 *)

\* No node finishes twice, and none before its predecessors have been pulled.
GraphInv ==
  /\ IsInjective(pulled) /\ IsInjective(updates)
  /\ ToSet(pulled) \cap ToSet(updates) = {}
  /\ "aggregate" \in Finished => Agents \subseteq ToSet(pulled)
  /\ "guardrail" \in Finished => "aggregate" \in ToSet(pulled)

\* Which operations the task can be in at which await.
TaskInv ==
  /\ op = "create" => pc \in {"save", "scheduled", "dead"} /\ updates = <<>>
  /\ op \in {"create", "mark_running"} => pulled = <<>>
  /\ op = "append_progress" => pulled # <<>>
  /\ op = "mark_completed" => "guardrail" \in ToSet(pulled)
  /\ pc = "scheduled" => op = "create"
  /\ pc = "pull" => op \in {"mark_running", "append_progress"}
  /\ pc = "done" => op \in {"mark_completed", "mark_failed"}

-----------------------------------------------------------------------------
(* The record.                                                             *)

\* The statuses the record has before and after the operation's save.
Before == CASE op \in {"create", "mark_running"} -> "queued" [] OTHER -> "running"
After  == CASE op = "create"         -> "queued"
            [] op = "mark_completed" -> "completed"
            [] op = "mark_failed"    -> "failed"
            [] OTHER                 -> "running"

Status(j) ==
  CASE pc \in {"get", "save"} -> j.status = Before
    [] pc = "dead"            -> j.status \in {Before, After}
    [] OTHER                  -> j.status = After

\* The record lags behind the task by the node that is being appended, for good
\* if that is where Redis fails.
Progress(j) ==
  \/ j.progress = pulled /\ ~(op = "append_progress" /\ pc \in {"get", "save"})
  \/ /\ j.progress = Front(pulled)
     /\ \/ op = "mark_failed"
        \/ op = "append_progress" /\ pc \in {"get", "save", "dead"}

Written(j) ==
  /\ Status(j) /\ Progress(j)
  /\ j.report = (j.status = "completed")
  /\ j.error = (j.status = "failed")

\* What is in Redis, or what the task is about to write back.
Record == IF pc = "save" THEN local ELSE job

RecordInv ==
  /\ job # NoJob => Written(job)
  /\ pc = "save" => /\ local # NoJob /\ Written(local)
                    /\ job = NoJob \/ job = local
                    /\ op = "create" => job = NoJob

-----------------------------------------------------------------------------
(* The streams.                                                            *)

MarkOf(v) == IF v = "completed" THEN "mark_completed" ELSE "mark_failed"

\* A final status is published, and sent, only once the record has it.
VerdictInv ==
  \A s \in Streams : \A v \in Terminal :
    v \in ToSet(inbox[s]) \cup ToSet(sent[s]) =>
      /\ op = MarkOf(v) /\ pc \in {"publish", "done", "dead"}
      /\ job = NoJob \/ job.status = v

\* A generator that is not running is not subscribed and holds no messages; one
\* that has not read the snapshot has sent nothing.
Idle(s) ==
  /\ ~IsOpen(s) => ~subscribed[s]
  /\ ~subscribed[s] => inbox[s] = <<>>
  /\ spc[s] \in {"snapshot", "live"} => subscribed[s]
  /\ spc[s] \in {"closed", "ack", "snapshot"} => sent[s] = <<>> /\ seen[s] = {}

\* Until the snapshot is read, every node announced to the stream is in it.
Pending(s) ==
  spc[s] \in {"ack", "snapshot"} /\ Record # NoJob =>
    ToSet(inbox[s]) \cap Nodes \subseteq ToSet(Record.progress)

PrefixOf(s, t) == Len(s) <= Len(t) /\ \A i \in 1..Len(s) : s[i] = t[i]

\* What the client has been sent.
SentSoFar(s) ==
  /\ spc[s] = "live" => seen[s] = ToSet(sent[s])
  /\ PrefixOf(Shown(s), pulled)
  /\ Told(s) => /\ spc[s] = "ended"
                /\ Last(sent[s]) = "completed" => Len(sent[s]) = Len(pulled) + 1

\* What a stream that knows of `known` knows when it comes to its i-th message.
Known(known, messages, i) == known \cup {messages[j] : j \in 1..(i - 1)}

\* A message leaves no gap behind what is known: of every node before it; and of
\* every node there is, when it is "completed".
Ready(m, known, log) ==
  /\ m \in Nodes => \E a \in 1..Len(log) :
                      m = log[a] /\ \A b \in 1..(a - 1) : log[b] \in known
  /\ m = "completed" => ToSet(log) \subseteq known

\* The unread messages of a live stream leave no gap.
Unread(s) ==
  spc[s] = "live" =>
    \A i \in 1..Len(inbox[s]) :
      Ready(inbox[s][i], Known(seen[s], inbox[s], i), pulled)

\* NoEventLost of one stream.
NotLost(s) ==
  spc[s] = "live" /\ Intact => Announced \subseteq seen[s] \cup ToSet(inbox[s])

TaskSideInv == GraphInv /\ TaskInv /\ RecordInv
StreamSideInv ==
  \A s \in Streams :
    Idle(s) /\ Pending(s) /\ SentSoFar(s) /\ Unread(s) /\ NotLost(s)

\* The inductive invariant.  Its last part needs the acknowledgement in time.
IInv == TypeOK /\ TaskSideInv /\ VerdictInv /\ StreamSideInv
=============================================================================
