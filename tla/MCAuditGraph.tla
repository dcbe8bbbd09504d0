---------------------------- MODULE MCAuditGraph ----------------------------
(***************************************************************************)
(* AuditGraph on a small instance.                                         *)
(***************************************************************************)
EXTENDS AuditGraph

\* Sums tell apart which calls they count.
Powers == [vulnerability_agent |-> 1, code_quality_agent |-> 2, secrets_agent |-> 4,
           aggregate |-> 8, guardrail |-> 0]

EveryOrNone == {{}, {"error", "usage", "line", "summary", "note"}}
=============================================================================
