----------------------------- MODULE Submission -----------------------------
(***************************************************************************)
(* POST /audits/zip and /audits/inline (api/routers/audits.py), for one    *)
(* user: authentication, the user's sliding window (RateLimit), ingestion, *)
(* the record, the response, and then the background task.                 *)
(*                                                                         *)
(* FastAPI runs the dependencies of the route before the endpoint, and     *)
(* what was given to BackgroundTasks after the response has been sent.     *)
(* From the start of that task on the audit is AuditJob's.                 *)
(***************************************************************************)
EXTENDS RateLimit

VARIABLES
  stage,   \* per request: "limiting", "creating", "replying", "over" or "gone"
  answer,  \* per request: the status code it was answered with, or 0
  record   \* per request: its audit's record, "none", "queued" or "taken"

limitVars == <<now, zset, expires, pc, stamp, oldest, retry>>
svars == <<limitVars, stage, answer, record>>

SInit ==
  /\ Init
  /\ stage = [r \in Requests |-> "limiting"]
  /\ answer = [r \in Requests |-> 0]
  /\ record = [r \in Requests |-> "none"]

Answered(r, code) ==
  /\ stage' = [stage EXCEPT ![r] = "over"]
  /\ answer' = [answer EXCEPT ![r] = code]

\* The generic limiter of the client's address rejects, or its Redis call raises.
Refuse(r) ==
  /\ stage[r] = "limiting" /\ pc[r] = "idle"
  /\ Answered(r, 429) \/ Answered(r, 500)
  /\ UNCHANGED <<limitVars, record>>

\* The body is no JSON or form; or the token is missing, expired or invalid.  Both
\* are found out before the user's window is looked at.
Unauthenticated(r) ==
  /\ stage[r] = "limiting" /\ pc[r] = "idle"
  /\ Answered(r, 422) \/ Answered(r, 401)
  /\ UNCHANGED <<limitVars, record>>

\* check_sliding_window.
Limiter(r) ==
  /\ stage[r] = "limiting"
  /\ ReadClock(r) \/ Pipeline(r) \/ ZRange(r) \/ ZRem(r)
  /\ UNCHANGED <<stage, answer, record>>

\* One of its calls raises.
LimiterRaises(r) ==
  /\ stage[r] = "limiting" /\ Dies(r) /\ Answered(r, 500)
  /\ UNCHANGED record

TooMany(r) ==
  /\ stage[r] = "limiting" /\ pc[r] = "rejected" /\ Answered(r, 429)
  /\ UNCHANGED <<limitVars, record>>

\* Mutant of Ingest: `allowed` is not looked at.
IngestAnyway(r) ==
  /\ stage[r] = "limiting" /\ pc[r] \in {"admitted", "rejected"}
  /\ \/ stage' = [stage EXCEPT ![r] = "creating"] /\ UNCHANGED answer
     \/ \E code \in {422, 400, 500} : Answered(r, code)
  /\ UNCHANGED <<limitVars, record>>

\* The endpoint: the body may lack files, ingestion may reject them or raise
\* something else.  The request has been counted all the same.
Ingest(r) ==
  /\ stage[r] = "limiting" /\ pc[r] = "admitted"
  /\ \/ stage' = [stage EXCEPT ![r] = "creating"] /\ UNCHANGED answer
     \/ \E code \in {422, 400, 500} : Answered(r, code)
  /\ UNCHANGED <<limitVars, record>>

\* Mutant of Create: the SET is not awaited.
CreateUnawaited(r) ==
  /\ stage[r] = "creating"
  /\ record' = [record EXCEPT ![r] = "queued"] \/ UNCHANGED record
  /\ stage' = [stage EXCEPT ![r] = "replying"] /\ UNCHANGED answer
  /\ UNCHANGED limitVars

\* Mutant of Create: the record is created with the status of a started audit.
CreateRunning(r) ==
  /\ stage[r] = "creating"
  /\ record' = [record EXCEPT ![r] = "running"]
  /\ stage' = [stage EXCEPT ![r] = "replying"] /\ UNCHANGED answer
  /\ UNCHANGED limitVars

\* _schedule: store.create, which may raise with or without the record saved;
\* then the task is noted and the response made, without an await.
Create(r) ==
  /\ stage[r] = "creating"
  /\ \/ /\ record' = [record EXCEPT ![r] = "queued"]
        /\ stage' = [stage EXCEPT ![r] = "replying"] /\ UNCHANGED answer
     \/ /\ record' = [record EXCEPT ![r] = "queued"] \/ UNCHANGED record
        /\ Answered(r, 500)
  /\ UNCHANGED limitVars

Reply(r) ==
  /\ stage[r] = "replying" /\ Answered(r, 202)
  /\ UNCHANGED <<limitVars, record>>

\* Mutant of StartTask: the task can only be started before the response is sent.
StartTaskBefore(r) ==
  /\ stage[r] = "replying" /\ record[r] = "queued"
  /\ record' = [record EXCEPT ![r] = "taken"]
  /\ UNCHANGED <<limitVars, stage, answer>>

\* The background task runs: run_audit's mark_running.
StartTask(r) ==
  /\ stage[r] = "over" /\ answer[r] = 202 /\ record[r] = "queued"
  /\ record' = [record EXCEPT ![r] = "taken"]
  /\ UNCHANGED <<limitVars, stage, answer>>

\* The request's worker process dies.
WorkerDies(r) ==
  /\ stage[r] # "gone" /\ record[r] # "taken" /\ answer[r] \in {0, 202}
  /\ stage' = [stage EXCEPT ![r] = "gone"]
  /\ IF pc[r] \in {"pipeline", "zrange", "zrem"} THEN Dies(r) ELSE UNCHANGED limitVars
  /\ UNCHANGED <<answer, record>>

Handler(r) == \/ Limiter(r) \/ LimiterRaises(r) \/ TooMany(r) \/ Ingest(r)
              \/ Create(r) \/ Reply(r) \/ StartTask(r)

SNext == \/ Tick /\ UNCHANGED <<stage, answer, record>>
         \/ \E r \in Requests : Refuse(r) \/ Unauthenticated(r) \/ Handler(r) \/ WorkerDies(r)

\* The event loop goes on with a request that has begun; workers need not die.
SSpec == SInit /\ [][SNext]_svars /\ \A r \in Requests : WF_svars(pc[r] # "idle" /\ Handler(r))

-----------------------------------------------------------------------------
(***************************************************************************)
(* Properties.                                                             *)
(***************************************************************************)

STypeOK ==
  /\ TypeOK
  /\ stage \in [Requests -> {"limiting", "creating", "replying", "over", "gone"}]
  /\ answer \in [Requests -> {0, 202, 400, 401, 422, 429, 500}]
  /\ record \in [Requests -> {"none", "queued", "taken"}]

\* The limit on submissions holds for what it protects: the audits that come into
\* being for one user in a window, whatever fails on the way, are no more than
\* Limit (by the clock of their requests, with RateLimit's allowance for delays).
AuditsPerWindow ==
  \A t \in 0..now :
    Cardinality({r \in Requests : /\ record[r] # "none"
                                  /\ stamp[r] \in t..(t + Window - MaxDelay - 1)}) <= Limit

\* A client that was told 202 can ask for its audit at once, and an audit runs
\* only for a client that was told so: a record nobody knows of, because the
\* response was an error or never came, stays queued and costs no model calls.
AcceptedAndOnlyThen ==
  \A r \in Requests : /\ answer[r] = 202 => record[r] # "none"
                      /\ record[r] = "taken" => answer[r] = 202

\* Every request that has begun is answered, and every audit that was promised is
\* started, unless a worker dies.
PromisesKept ==
  \A r \in Requests :
    /\ pc[r] # "idle" ~> answer[r] # 0 \/ stage[r] = "gone"
    /\ answer[r] = 202 ~> record[r] = "taken" \/ stage[r] = "gone"
=============================================================================
