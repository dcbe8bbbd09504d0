----------------------------- MODULE AuditFeed ------------------------------
(***************************************************************************)
(* What the event stream of an audit promises its clients, without Redis:  *)
(* the audit is a log of finished graph nodes that is closed by a verdict, *)
(* and every stream shows a growing prefix of that log and, as its last    *)
(* event, the verdict.  AuditJob implements this.                          *)
(***************************************************************************)
EXTENDS Naturals, Sequences, SequencesExt

CONSTANTS Nodes, Streams

VARIABLES
  log,      \* the nodes the audit has got through, in order
  verdict,  \* "pending" until the audit is over
  shown,    \* per stream: the progress events its client has got
  told      \* per stream: the final status its client has got, or "pending"

vars == <<log, verdict, shown, told>>

Verdicts == {"completed", "failed"}

Init ==
  /\ log = <<>> /\ verdict = "pending"
  /\ shown = [s \in Streams |-> <<>>]
  /\ told = [s \in Streams |-> "pending"]

Record(n) ==
  /\ verdict = "pending" /\ n \notin ToSet(log)
  /\ log' = Append(log, n)
  /\ UNCHANGED <<verdict, shown, told>>

\* An audit completes only when every node is in the log.
Conclude(v) ==
  /\ verdict = "pending"
  /\ v = "completed" => ToSet(log) = Nodes
  /\ verdict' = v
  /\ UNCHANGED <<log, shown, told>>

\* A stream shows more of the log, in one event or, when it replays, in many;
\* it ends with the verdict.  The stream of a completed audit has shown it all.
Deliver(s, n, v) ==
  /\ told[s] = "pending" /\ v \in {"pending", verdict}
  /\ Len(shown[s]) <= n
  /\ v = "completed" => n = Len(log)
  /\ shown' = [shown EXCEPT ![s] = SubSeq(log, 1, n)]
  /\ told' = [told EXCEPT ![s] = v]
  /\ UNCHANGED <<log, verdict>>

Next == \/ \E n \in Nodes : Record(n)
        \/ \E v \in Verdicts : Conclude(v)
        \/ \E s \in Streams, n \in 0..Len(log), v \in Verdicts \cup {"pending"} :
             Deliver(s, n, v)

Spec == Init /\ [][Next]_vars
=============================================================================
