------------------------------ MODULE GraphRun ------------------------------
(***************************************************************************)
(* One run of the audit graph (graph/build.py) as its two sides agree on   *)
(* it: nodes finish, each after the nodes it waits for, until guardrail    *)
(* has made the report or a node has raised.  AuditGraph, which knows what *)
(* the nodes compute, and AuditJob, which knows how the task follows them, *)
(* both implement it; what holds of one is what the other relies on.       *)
(***************************************************************************)
CONSTANT Agents  \* the nodes with an edge from START

VARIABLES
  finished,  \* the nodes that have returned
  report,    \* there is a report
  raised     \* a node has raised, the run with it

vars == <<finished, report, raised>>

Nodes == Agents \cup {"aggregate", "guardrail"}

WaitsFor(n) == CASE n = "aggregate" -> Agents
                 [] n = "guardrail" -> {"aggregate"}
                 [] OTHER           -> {}

Init == finished = {} /\ report = FALSE /\ raised = FALSE

Finish(n) ==
  /\ ~raised /\ n \in Nodes \ finished /\ WaitsFor(n) \subseteq finished
  /\ finished' = finished \cup {n}
  /\ report' = (n = "guardrail")
  /\ UNCHANGED raised

Raise ==
  /\ ~raised /\ finished # Nodes
  /\ raised' = TRUE
  /\ UNCHANGED <<finished, report>>

Next == Raise \/ \E n \in Nodes : Finish(n)

Spec == Init /\ [][Next]_vars
=============================================================================
