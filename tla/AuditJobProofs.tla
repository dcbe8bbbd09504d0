--------------------------- MODULE AuditJobProofs ---------------------------
(***************************************************************************)
(* Proofs about AuditJob, for every set of agents and of streams: first    *)
(* that IInv's parts about the task, its record and the graph are          *)
(* inductive whatever faults the environment may have, and what follows    *)
(* from them.                                                              *)
(***************************************************************************)
EXTENDS AuditJobInv, SequenceLemmas

-----------------------------------------------------------------------------
(* Names and types.                                                        *)

\* A message is either the name of a node or a status, never both.
LEMMA Names ==
  /\ Nodes \cap Statuses = {}
  /\ Agents \cap {"aggregate", "guardrail"} = {}
  /\ Terminal \subseteq Statuses
  BY NamesAssumption DEF Nodes, Statuses, Terminal

LEMMA NoJobType == NoJob \in Job
  BY DEF NoJob, Job, Statuses, Terminal

LEMMA EditedType ==
  ASSUME pulled \in Seq(Nodes), op \in Operations,
         op = "append_progress" => pulled # <<>>,
         NEW j \in Job
  PROVE  Edited(j) \in Job
  <1>1. /\ j.progress \in Seq(Nodes)
        /\ {"running", "completed", "failed"} \subseteq Statuses
    BY DEF Job, Statuses, Terminal
  <1>2. CASE op = "append_progress"
    <2>1. Append(j.progress, Last(pulled)) \in Seq(Nodes)
      BY <1>1, <1>2, FrontFacts, AppendFacts
    <2> QED
      BY <1>2, <2>1 DEF Edited, Job
  <1>3. CASE op # "append_progress"
    BY <1>1, <1>3 DEF Edited, Job, Operations
  <1> QED
    BY <1>2, <1>3

LEMMA AnnouncementType ==
  ASSUME pulled \in Seq(Nodes), op \in Operations, op # "create",
         op = "append_progress" => pulled # <<>>
  PROVE  Announcement \in Messages
  <1>1. op = "append_progress" => Last(pulled) \in Nodes
    BY FrontFacts
  <1> QED
    BY <1>1 DEF Announcement, Operations, Messages, Statuses, Terminal

\* What a broadcast appends to the inbox of a subscribed stream.
Copies(n) == [i \in 1..n |-> Announcement]

LEMMA BroadcastFacts ==
  ASSUME inbox \in [Streams -> Seq(Messages)], Announcement \in Messages,
         NEW n \in Nat, Broadcast(n), NEW s \in Streams
  PROVE  /\ Copies(n) \in Seq(Messages) /\ Len(Copies(n)) = n
         /\ \A i \in 1..n : Copies(n)[i] = Announcement
         /\ inbox'[s] = IF subscribed[s] THEN inbox[s] \o Copies(n) ELSE inbox[s]
         /\ inbox'[s] \in Seq(Messages)
         /\ ToSet(inbox'[s]) \subseteq ToSet(inbox[s]) \cup {Announcement}
         /\ ToSet(inbox[s]) \subseteq ToSet(inbox'[s])
  <1>1. /\ Copies(n) \in Seq(Messages) /\ Len(Copies(n)) = n
        /\ \A i \in 1..n : Copies(n)[i] = Announcement
    BY ConstantSeq DEF Copies
  <1>2. inbox'[s] = IF subscribed[s] THEN inbox[s] \o Copies(n) ELSE inbox[s]
    BY DEF Broadcast, Copies
  <1>3. /\ inbox[s] \o Copies(n) \in Seq(Messages)
        /\ ToSet(inbox[s] \o Copies(n)) \subseteq ToSet(inbox[s]) \cup {Announcement}
        /\ ToSet(inbox[s]) \subseteq ToSet(inbox[s] \o Copies(n))
    <2>1. inbox[s] \in Seq(Messages)
      OBVIOUS
    <2>2. \A i \in 1..Len(Copies(n)) : Copies(n)[i] = Announcement
      BY <1>1
    <2>3. inbox[s] \o Copies(n) \in Seq(Messages)
      BY <1>1, <2>1
    <2>4. \A q, r \in Seq(Messages) : \A e \in Messages :
            (\A i \in 1..Len(r) : r[i] = e) =>
              /\ ToSet(q \o r) \subseteq ToSet(q) \cup {e}
              /\ ToSet(q) \subseteq ToSet(q \o r)
      BY RepeatFacts, Zenon
    <2>5. /\ ToSet(inbox[s] \o Copies(n)) \subseteq ToSet(inbox[s]) \cup {Announcement}
          /\ ToSet(inbox[s]) \subseteq ToSet(inbox[s] \o Copies(n))
      BY <1>1, <2>1, <2>2, <2>4, Zenon
    <2> QED
      BY <2>3, <2>5
  <1> QED
    BY <1>1, <1>2, <1>3

LEMMA BroadcastType ==
  ASSUME inbox \in [Streams -> Seq(Messages)], Announcement \in Messages,
         NEW n \in Nat, Broadcast(n)
  PROVE  inbox' \in [Streams -> Seq(Messages)]
  <1>1. \A s \in Streams : inbox'[s] \in Seq(Messages)
    BY BroadcastFacts
  <1> QED
    BY <1>1 DEF Broadcast

-----------------------------------------------------------------------------
(* The types and the task's control state.                                 *)

TypeInv == TypeOK /\ TaskInv

LEMMA TypeInit == Init => TypeInv
  <1> SUFFICES ASSUME Init PROVE TypeInv
    OBVIOUS
  <1>1. \A S : <<>> \in Seq(S)
    BY EmptySeq
  <1>2. local \in Job
    BY <1>1 DEF Init, NoJob, Job, Statuses
  <1>3. /\ inbox \in [Streams -> Seq(Messages)]
        /\ sent \in [Streams -> Seq(Messages)]
    BY <1>1 DEF Init
  <1> QED
    BY <1>1, <1>2, <1>3, NoJobType DEF Init, TypeInv, TypeOK, TaskInv, Operations

LEMMA TypeTask == TypeInv /\ TaskStep => TypeInv'
  <1> SUFFICES ASSUME TypeInv, TaskStep PROVE TypeInv'
    OBVIOUS
  <1> USE DEF vars, taskVars, graphVars, streamVars
  <1>1. CASE StoreGet
    BY <1>1 DEF TypeInv, TypeOK, TaskInv, StoreGet, Return, Operations
  <1>2. CASE StoreSave
    <2>1. Edited(local) \in Job
      BY EditedType DEF TypeInv, TypeOK, TaskInv
    <2> QED
      BY <1>2, <2>1 DEF TypeInv, TypeOK, TaskInv, StoreSave, Return, Operations
  <1>3. CASE StorePublish
    <2>1. Announcement \in Messages
      BY <1>3, AnnouncementType DEF TypeInv, TypeOK, TaskInv, StorePublish
    <2>2. inbox' \in [Streams -> Seq(Messages)]
      BY <1>3, <2>1, BroadcastType DEF TypeInv, TypeOK, StorePublish
    <2> QED
      BY <1>3, <2>2 DEF TypeInv, TypeOK, TaskInv, StorePublish, Return, Operations
  <1>4. CASE RunAudit
    BY <1>4 DEF TypeInv, TypeOK, TaskInv, RunAudit, Start, Operations
  <1>5. CASE PullUpdate
    <2>1. /\ Append(pulled, Head(updates)) \in Seq(Nodes)
          /\ Append(pulled, Head(updates)) # <<>>
          /\ Tail(updates) \in Seq(Nodes)
      BY <1>5, TailFacts, AppendProperties DEF TypeInv, TypeOK, PullUpdate
    <2> QED
      BY <1>5, <2>1 DEF TypeInv, TypeOK, TaskInv, PullUpdate, Start, Operations
  <1>6. CASE GraphRaises
    BY <1>6 DEF TypeInv, TypeOK, TaskInv, GraphRaises, Start, Operations
  <1>7. CASE GraphEnds
    BY <1>7 DEF TypeInv, TypeOK, TaskInv, GraphEnds, Start, Operations
  <1> QED
    BY <1>1, <1>2, <1>3, <1>4, <1>5, <1>6, <1>7 DEF TaskStep

LEMMA TypeOthers ==
  TypeInv /\ (NodeStep \/ Environment \/ UNCHANGED vars) => TypeInv'
  <1> SUFFICES ASSUME TypeInv, NodeStep \/ Environment \/ UNCHANGED vars
               PROVE  TypeInv'
    OBVIOUS
  <1> USE DEF vars, taskVars, graphVars, streamVars
  <1>1. CASE NodeStep
    <2>1. PICK n \in Nodes : NodeFinishes(n)
      BY <1>1 DEF NodeStep
    <2>2. Append(updates, n) \in Seq(Nodes)
      BY AppendFacts DEF TypeInv, TypeOK
    <2>3. op # "create"
      BY <2>1 DEF NodeFinishes, Running, InLoop, InStore, TypeInv, TaskInv
    <2> QED
      BY <2>1, <2>2, <2>3 DEF TypeInv, TypeOK, TaskInv, NodeFinishes
  <1>2. CASE NodeRaises
    BY <1>2 DEF TypeInv, TypeOK, TaskInv, NodeRaises
  <1>3. CASE RedisRaises
    <2>1. Edited(local) \in Job
      BY EditedType DEF TypeInv, TypeOK, TaskInv
    <2>2. pc = "publish" => Announcement \in Messages
      BY AnnouncementType DEF TypeInv, TypeOK, TaskInv
    <2>3. inbox' \in [Streams -> Seq(Messages)]
      BY <1>3, <2>2, BroadcastType DEF TypeInv, TypeOK, RedisRaises
    <2> QED
      BY <1>3, <2>1, <2>3 DEF TypeInv, TypeOK, TaskInv, RedisRaises, Start, Operations
  <1>4. CASE Crash
    BY <1>4 DEF TypeInv, TypeOK, TaskInv, Crash, Operations
  <1>5. CASE RecordLost
    BY <1>5, NoJobType DEF TypeInv, TypeOK, TaskInv, RecordLost
  <1>6. CASE UNCHANGED vars
    BY <1>6 DEF TypeInv, TypeOK, TaskInv
  <1> QED
    BY <1>1, <1>2, <1>3, <1>4, <1>5, <1>6 DEF Environment

LEMMA TypeStream ==
  ASSUME TypeInv, NEW s \in Streams, OpenStream(s) \/ StreamStep(s) \/ DropStream(s)
  PROVE  TypeInv'
  <1> USE DEF taskVars, graphVars
  <1>1. UNCHANGED <<job, op, pc, local, pulled, updates, raised>>
    BY DEF OpenStream, StreamStep, DropStream, RedisSubscribes, ReadAck, ReadSnapshot,
           ReadMessage
  <1> DEFINE SpcType  == spc' \in [Streams -> {"closed", "ack", "snapshot", "live", "ended", "dropped"}]
             SubType  == subscribed' \in [Streams -> BOOLEAN]
             InType   == inbox' \in [Streams -> Seq(Messages)]
             SeenType == seen' \in [Streams -> SUBSET Nodes]
             SentType == sent' \in [Streams -> Seq(Messages)]
  <1>2. SUFFICES SpcType /\ SubType /\ InType /\ SeenType /\ SentType
    BY <1>1 DEF TypeInv, TypeOK, TaskInv
  <1>3. <<>> \in Seq(Messages)
    BY EmptySeq
  <1>4. SpcType /\ SubType
    <2>1. /\ spc \in [Streams -> {"closed", "ack", "snapshot", "live", "ended", "dropped"}]
          /\ subscribed \in [Streams -> BOOLEAN]
      BY DEF TypeInv, TypeOK
    <2>2. SpcType
      BY <2>1 DEF OpenStream, StreamStep, DropStream, RedisSubscribes,
                  ReadAck, ReadSnapshot, ReadMessage, Close
    <2>3. SubType
      BY <2>1 DEF OpenStream, StreamStep, DropStream, RedisSubscribes,
                  ReadAck, ReadSnapshot, ReadMessage, Close
    <2> QED
      BY <2>2, <2>3
  <1>5. CASE OpenStream(s) \/ RedisSubscribes(s) \/ ReadAck(s) \/ DropStream(s)
    <2>1. UNCHANGED <<seen, sent>>
      BY <1>5 DEF OpenStream, RedisSubscribes, ReadAck, DropStream
    <2>2. inbox' = inbox \/ inbox' = [inbox EXCEPT ![s] = <<>>]
      BY <1>5 DEF OpenStream, RedisSubscribes, ReadAck, DropStream, Close
    <2> QED
      BY <1>3, <1>4, <2>1, <2>2 DEF TypeInv, TypeOK
  <1>6. CASE ReadSnapshot(s)
    <2>1. /\ job.progress \in Seq(Nodes) /\ ToSet(job.progress) \subseteq Nodes
      BY ToSetOfSeq DEF TypeInv, TypeOK, Job
    <2>2. job.progress \in Seq(Messages)
      BY <2>1, SeqMonotonic DEF Messages
    <2>3. job.status \in Terminal => Append(job.progress, job.status) \in Seq(Messages)
      BY <2>2, AppendProperties, Names DEF Messages
    <2>4. SeenType
      BY <1>6, <2>1 DEF TypeInv, TypeOK, ReadSnapshot
    <2>5. SentType
      BY <1>6, <2>2, <2>3 DEF TypeInv, TypeOK, ReadSnapshot
    <2>6. InType
      BY <1>3, <1>6 DEF TypeInv, TypeOK, ReadSnapshot, Close
    <2> QED
      BY <1>4, <2>4, <2>5, <2>6
  <1>7. CASE ReadMessage(s)
    <2>1. /\ Head(inbox[s]) \in Messages /\ Tail(inbox[s]) \in Seq(Messages)
          /\ Append(sent[s], Head(inbox[s])) \in Seq(Messages)
      BY <1>7, TailFacts, AppendProperties DEF TypeInv, TypeOK, ReadMessage
    <2>2. SeenType
      BY <1>7, <2>1 DEF TypeInv, TypeOK, ReadMessage
    <2>3. SentType
      BY <1>7, <2>1 DEF TypeInv, TypeOK, ReadMessage
    <2>4. InType
      BY <1>3, <1>7, <2>1 DEF TypeInv, TypeOK, ReadMessage, Close
    <2> QED
      BY <1>4, <2>2, <2>3, <2>4
  <1> QED
    BY <1>5, <1>6, <1>7 DEF StreamStep

LEMMA TypeNext == TypeInv /\ [Next]_vars => TypeInv'
  BY TypeTask, TypeOthers, TypeStream DEF Next

\* The type invariant holds in every reachable state.
THEOREM TypeCorrect == Spec => []TypeOK
  <1>1. TypeInv => TypeOK
    BY DEF TypeInv
  <1> QED
    BY <1>1, TypeInit, TypeNext, PTL DEF Spec

-----------------------------------------------------------------------------
(* The graph: no node finishes twice, or before its predecessors.          *)

LEMMA GraphStep == TypeInv /\ GraphInv /\ [Next]_vars => GraphInv'
  <1> SUFFICES ASSUME TypeInv, GraphInv, [Next]_vars PROVE GraphInv'
    OBVIOUS
  <1> USE DEF graphVars
  <1>1. CASE \E n \in Nodes : NodeFinishes(n)
    <2>1. PICK n \in Nodes : NodeFinishes(n)
      BY <1>1
    <2>2. /\ n \notin ToSet(pulled) /\ n \notin ToSet(updates)
          /\ n = "aggregate" => Agents \subseteq ToSet(pulled)
          /\ n = "guardrail" => "aggregate" \in ToSet(pulled)
      BY <2>1, Names DEF NodeFinishes, Running, Finished, Preds
    <2>3. /\ IsInjective(updates') /\ ToSet(updates') = ToSet(updates) \cup {n}
          /\ pulled' = pulled
      BY <2>1, <2>2, AppendFacts, InjectiveAppend
      DEF NodeFinishes, GraphInv, TypeInv, TypeOK
    <2> QED
      BY <2>2, <2>3 DEF GraphInv, Finished
  <1>2. CASE PullUpdate
    <2>1. /\ Head(updates) \in Nodes
          /\ ToSet(updates) = ToSet(Tail(updates)) \cup {Head(updates)}
          /\ IsInjective(Tail(updates)) /\ Head(updates) \notin ToSet(Tail(updates))
      BY <1>2, TailFacts, InjectiveTail DEF PullUpdate, GraphInv, TypeInv, TypeOK
    <2>2. /\ ToSet(pulled') = ToSet(pulled) \cup {Head(updates)}
          /\ IsInjective(pulled')
      BY <1>2, <2>1, AppendFacts, InjectiveAppend
      DEF PullUpdate, GraphInv, TypeInv, TypeOK
    <2>3. IsInjective(updates') /\ ToSet(pulled') \cap ToSet(updates') = {}
      BY <1>2, <2>1, <2>2 DEF PullUpdate, GraphInv
    <2>4. Finished' = Finished
      BY <1>2, <2>1, <2>2 DEF PullUpdate, Finished
    <2> QED
      BY <2>2, <2>3, <2>4 DEF GraphInv
  <1>3. CASE UNCHANGED <<pulled, updates>>
    BY <1>3 DEF GraphInv, Finished
  <1> QED
    BY <1>1, <1>2, <1>3
    DEF Next, TaskStep, NodeStep, Environment, StreamStep, vars, StoreGet, StoreSave,
        StorePublish, RunAudit, GraphRaises, GraphEnds, NodeRaises, RedisRaises, Crash,
        RecordLost, OpenStream, RedisSubscribes, ReadAck, ReadSnapshot, ReadMessage,
        DropStream

-----------------------------------------------------------------------------
(* The record in Redis.                                                    *)

\* What an operation saves is what the record has to say from then on.
LEMMA EditedWritten ==
  ASSUME TypeInv, pc = "save", local # NoJob, Written(local)
  PROVE  /\ Edited(local) \in Job /\ Edited(local) # NoJob
         /\ Edited(local).status = After
         /\ \/ Edited(local).progress = pulled
            \/ op = "mark_failed" /\ Edited(local).progress = Front(pulled)
         /\ Edited(local).report = (After = "completed")
         /\ Edited(local).error = (After = "failed")
  <1>1. op \in Operations /\ local \in Job /\ pulled \in Seq(Nodes)
    BY DEF TypeInv, TypeOK
  <1>2. /\ Edited(local) \in Job
        /\ local.status = Before /\ ~local.report /\ ~local.error
    BY <1>1, EditedType DEF Written, Status, Before, TypeInv, TaskInv, Job
  <1>3. Edited(local).status = After
    BY <1>1, <1>2 DEF Edited, Before, After, Job, Operations
  <1>4. /\ Edited(local).report = (After = "completed")
        /\ Edited(local).error = (After = "failed")
    BY <1>1, <1>2 DEF Edited, After, Job, Operations
  <1>5. \/ Edited(local).progress = pulled
        \/ op = "mark_failed" /\ Edited(local).progress = Front(pulled)
    <2>1. CASE op = "append_progress"
      <3>1. local.progress = Front(pulled)
        BY <2>1 DEF Written, Progress
      <3>2. Edited(local).progress = Append(Front(pulled), Last(pulled))
        BY <1>1, <2>1, <3>1 DEF Edited, Job
      <3>3. pulled # <<>>
        BY <2>1 DEF TypeInv, TaskInv
      <3>4. Append(Front(pulled), Last(pulled)) = pulled
        BY <1>1, <3>3, FrontFacts, Zenon
      <3> QED
        BY <3>2, <3>4
    <2>2. CASE op # "append_progress"
      <3>1. \A j \in Job : /\ [j EXCEPT !.status = "running"].progress = j.progress
                          /\ [j EXCEPT !.status = "completed", !.report = TRUE].progress = j.progress
                          /\ [j EXCEPT !.status = "failed", !.error = TRUE].progress = j.progress
        BY DEF Job
      <3>2. Edited(local).progress = local.progress
        <4>1. CASE op = "create" \/ op = "mark_running"
          BY <1>1, <4>1, <3>1 DEF Edited
        <4>2. CASE op = "mark_completed"
          BY <1>1, <4>2, <3>1 DEF Edited
        <4>3. CASE op = "mark_failed"
          BY <1>1, <4>3, <3>1 DEF Edited
        <4> QED
          BY <1>1, <2>2, <4>1, <4>2, <4>3 DEF Operations
      <3> QED
        BY <2>2, <3>2 DEF Written, Progress
    <2> QED
      BY <2>1, <2>2
  <1>6. Edited(local) # NoJob
    BY <1>1, <1>3 DEF After, NoJob, Operations
  <1> QED
    BY <1>2, <1>3, <1>4, <1>5, <1>6

LEMMA RecordInit == Init => RecordInv
  <1> SUFFICES ASSUME Init PROVE RecordInv
    OBVIOUS
  <1>1. /\ local.status = "queued" /\ local.progress = <<>>
        /\ local.report = FALSE /\ local.error = FALSE
        /\ NoJob.status = "absent"
    BY DEF Init, NoJob
  <1> QED
    BY <1>1 DEF Init, RecordInv, Written, Status, Progress, Before

LEMMA RecordTask == TypeInv /\ RecordInv /\ TaskStep => RecordInv'
  <1> SUFFICES ASSUME TypeInv, RecordInv, TaskStep PROVE RecordInv'
    OBVIOUS
  <1> USE DEF graphVars
  <1>0. op \in Operations /\ pulled \in Seq(Nodes) /\ TaskInv
    BY DEF TypeInv, TypeOK
  <1>1. CASE StoreGet
    BY <1>0, <1>1 DEF StoreGet, Return, RecordInv, Written, Status, Progress, Before, After,
                TaskInv, Operations
  <1>2. CASE StoreSave
    <2>1. pc' \in {"publish", "scheduled"} /\ job' = Edited(local)
          /\ UNCHANGED <<op, pulled>>
      BY <1>2 DEF StoreSave, Return
    <2>2. Written(job)'
      BY <1>2, <2>1, EditedWritten
      DEF StoreSave, RecordInv, Written, Status, Progress, After
    <2> QED
      BY <2>1, <2>2 DEF RecordInv
  <1>3. CASE StorePublish
    BY <1>0, <1>3 DEF StorePublish, Return, RecordInv, Written, Status, Progress, Before,
                      After, TaskInv, Operations
  <1>4. CASE RunAudit
    BY <1>0, <1>4 DEF RunAudit, Start, RecordInv, Written, Status, Progress, Before,
                      After, TaskInv
  <1>5. CASE PullUpdate
    <2>1. Head(updates) \in Nodes /\ pulled' = Append(pulled, Head(updates))
      BY <1>5, TailFacts DEF PullUpdate, TypeInv, TypeOK
    <2>2. Front(pulled') = pulled
      BY <1>0, <2>1, FrontOfAppend
    <2> QED
      BY <1>0, <1>5, <2>2 DEF PullUpdate, Start, RecordInv, Written, Status, Progress,
                              Before, After, TaskInv
  <1>6. CASE GraphRaises \/ GraphEnds
    BY <1>0, <1>6 DEF GraphRaises, GraphEnds, Start, RecordInv, Written, Status, Progress,
                      Before, After, TaskInv
  <1> QED
    BY <1>1, <1>2, <1>3, <1>4, <1>5, <1>6 DEF TaskStep

LEMMA RecordOthers ==
  ASSUME TypeInv, RecordInv, [Next]_vars, ~TaskStep
  PROVE  RecordInv'
  <1> USE DEF graphVars, taskVars
  <1>0. op \in Operations /\ pulled \in Seq(Nodes) /\ TaskInv
    BY DEF TypeInv, TypeOK
  <1>1. CASE RedisRaises
    <2>1. /\ pc' \in {"get", "dead"} /\ pulled' = pulled
          /\ pc \in {"get", "save", "publish"}
          /\ IF op = "append_progress" THEN op' = "mark_failed" /\ pc' = "get"
                                       ELSE op' = op /\ pc' = "dead"
      BY <1>1 DEF RedisRaises, Start
    <2>2. CASE job' = job
      BY <1>0, <2>1, <2>2 DEF RecordInv, Written, Status, Progress, Before, After,
                              Operations
    <2>3. CASE job' # job
      <3>1. pc = "save" /\ job' = Edited(local)
        BY <1>1, <2>3 DEF RedisRaises
      <3>2. Written(job)'
        BY <1>0, <2>1, <3>1, EditedWritten
        DEF RecordInv, Written, Status, Progress, Before, After, Operations
      <3> QED
        BY <2>1, <3>2 DEF RecordInv
    <2> QED
      BY <2>2, <2>3
  <1>2. CASE Crash
    BY <1>0, <1>2 DEF Crash, RecordInv, Written, Status, Progress, Before, After,
                      Operations, TypeInv, TypeOK
  <1>3. CASE RecordLost
    BY <1>3 DEF RecordLost, RecordInv, Written, Status, Progress, Before, After
  <1>4. CASE UNCHANGED <<job, op, pc, local, pulled>>
    BY <1>4 DEF RecordInv, Written, Status, Progress, Before, After
  <1> QED
    BY <1>1, <1>2, <1>3, <1>4
    DEF Next, NodeStep, Environment, StreamStep, vars, NodeFinishes, NodeRaises,
        OpenStream, RedisSubscribes, ReadAck, ReadSnapshot, ReadMessage, DropStream

\* The task's side of IInv: it is inductive under every fault.
TaskIInv == TypeInv /\ GraphInv /\ RecordInv

LEMMA TaskIInvInit == Init => TaskIInv
  <1>1. Init => GraphInv
    BY DEF Init, GraphInv, IsInjective, Finished, ToSet
  <1> QED
    BY <1>1, TypeInit, RecordInit DEF TaskIInv

LEMMA TaskIInvNext == TaskIInv /\ [Next]_vars => TaskIInv'
  BY TypeNext, GraphStep, RecordTask, RecordOthers DEF TaskIInv

\* The graph, the task and the record agree: a node finishes once and after its
\* predecessors, and the record lags behind the task by one node at most.
THEOREM TaskInvariant == Spec => []TaskIInv
  BY TaskIInvInit, TaskIInvNext, PTL DEF Spec

\* A record is never half-finished: RecordCoherent, whatever fails.
THEOREM RecordIsCoherent == Spec => []RecordCoherent
  <1>1. TaskIInv => RecordCoherent
    <2> SUFFICES ASSUME TaskIInv PROVE RecordCoherent
      OBVIOUS
    <2>0. /\ TypeInv /\ GraphInv /\ RecordInv
          /\ op \in Operations /\ pulled \in Seq(Nodes) /\ TaskInv
      BY DEF TaskIInv, TypeInv, TypeOK
    <2>1. CASE job = NoJob
      BY <2>1 DEF RecordCoherent, NoJob
    <2>2. CASE job # NoJob
      <3>1. /\ job.report = (job.status = "completed")
            /\ job.error = (job.status = "failed")
        BY <2>0, <2>2 DEF RecordInv, Written
      <3>2. ASSUME job.status = "completed"
            PROVE  ToSet(job.progress) = Nodes /\ IsInjective(job.progress)
        <4>1. op = "mark_completed"
          BY <2>0, <2>2, <3>2
          DEF RecordInv, Written, Status, Before, After, Operations
        <4>2. job.progress = pulled
          BY <2>0, <2>2, <4>1 DEF RecordInv, Written, Progress
        <4>3. "guardrail" \in ToSet(pulled)
          BY <2>0, <4>1 DEF TaskInv
        <4>4. Nodes \subseteq ToSet(pulled)
          BY <2>0, <4>3 DEF GraphInv, Finished, Nodes
        <4>5. ToSet(pulled) \subseteq Nodes
          BY <2>0, ToSetOfSeq
        <4> QED
          BY <2>0, <4>2, <4>4, <4>5 DEF GraphInv
      <3> QED
        BY <3>1, <3>2 DEF RecordCoherent
    <2> QED
      BY <2>1, <2>2
  <1> QED
    BY <1>1, TaskInvariant, PTL

-----------------------------------------------------------------------------
(* The record's history.                                                   *)

LEMMA SaveAdvances ==
  ASSUME TaskIInv, pc = "save"
  PROVE  \/ StatusRank(Edited(local)) > StatusRank(job)
         \/ /\ StatusRank(Edited(local)) = 2
            /\ IsPrefix(job.progress, Edited(local).progress)
  <1>0. /\ TypeInv /\ RecordInv /\ TaskInv
        /\ op \in Operations /\ pulled \in Seq(Nodes)
    BY DEF TaskIInv, TypeInv, TypeOK
  <1>1. local # NoJob /\ Written(local) /\ (job = NoJob \/ job = local)
    BY <1>0 DEF RecordInv
  <1>2. Edited(local).status = After /\ local.status = Before
    BY <1>0, <1>1, EditedWritten DEF Written, Status
  <1>3. CASE job = NoJob
    <2>1. job.status = "absent"
      BY <1>3 DEF NoJob
    <2> QED
      BY <1>0, <1>2, <2>1 DEF StatusRank, After, Operations, Terminal
  <1>4. CASE job = local /\ op = "append_progress"
    <2>1. pulled # <<>> /\ local.progress = Front(pulled)
      BY <1>0, <1>1, <1>4 DEF TaskInv, Written, Progress
    <2>2. Edited(local).progress = pulled
      BY <1>0, <1>1, <1>4, EditedWritten
    <2>3. IsPrefix(Front(pulled), pulled)
      <3>1. /\ Len(pulled) \in Nat \ {0} /\ Front(pulled) \in Seq(Nodes)
            /\ Len(Front(pulled)) = Len(pulled) - 1
        BY <1>0, <2>1, FrontFacts
      <3>2. SubSeq(Front(pulled), 1, Len(pulled) - 1) = Front(pulled)
        BY <3>1, SubSeqFull
      <3> QED
        BY <3>1, <3>2 DEF IsPrefix, Front
    <2>4. StatusRank(Edited(local)) = 2
      BY <1>2, <1>4 DEF StatusRank, After, Terminal
    <2> QED
      BY <1>4, <2>1, <2>2, <2>3, <2>4
  <1>5. CASE job = local /\ op # "append_progress"
    <2>1. op # "create"
      BY <1>0, <1>1, <1>5 DEF RecordInv, TaskIInv
    <2> QED
      BY <1>0, <1>2, <1>5, <2>1 DEF StatusRank, Before, After, Operations, Terminal
  <1> QED
    BY <1>1, <1>3, <1>4, <1>5

\* The status of a record only moves forward, and its progress only grows.
THEOREM StatusAdvances == Spec => StatusNeverRegresses
  <1> DEFINE Step == \/ job' = NoJob \/ StatusRank(job') > StatusRank(job)
                     \/ StatusRank(job') = 2 /\ IsPrefix(job.progress, job'.progress)
  <1>1. TaskIInv /\ [Next]_vars => [Step]_job
    <2> SUFFICES ASSUME TaskIInv, [Next]_vars, job' # job, job' # NoJob PROVE Step
      OBVIOUS
    <2>1. pc = "save" /\ job' = Edited(local)
      BY DEF Next, TaskStep, NodeStep, Environment, StreamStep, vars, taskVars, graphVars,
             NodeFinishes, NodeRaises, OpenStream, RedisSubscribes, ReadAck, ReadSnapshot,
             ReadMessage, DropStream, StoreGet, StoreSave, StorePublish, RunAudit,
             PullUpdate, GraphRaises, GraphEnds, RedisRaises, Crash, RecordLost
    <2> QED
      BY <2>1, SaveAdvances DEF StatusRank
  <1> QED
    BY <1>1, TaskInvariant, PTL DEF Spec, StatusNeverRegresses

-----------------------------------------------------------------------------
(* The verdict a stream is told is the one in the record.                  *)

\* The messages a stream has got or will get if it goes on reading.
Mail(s) == ToSet(inbox[s]) \cup ToSet(sent[s])

LEMMA BroadcastMail ==
  ASSUME TypeOK, Announcement \in Messages, NEW n \in Nat, Broadcast(n), sent' = sent,
         NEW s \in Streams
  PROVE  Mail(s)' \subseteq Mail(s) \cup {Announcement}
  BY BroadcastFacts DEF Mail, TypeOK

\* A stream gets a final status only from its mail or from the record.
LEMMA StreamMail ==
  ASSUME TypeOK, NEW r \in Streams, OpenStream(r) \/ StreamStep(r) \/ DropStream(r),
         NEW s \in Streams, NEW v \in Terminal, v \in Mail(s)'
  PROVE  v \in Mail(s) \/ v = job.status
  <1>1. /\ inbox[s] \in Seq(Messages) /\ sent[s] \in Seq(Messages)
        /\ job.progress \in Seq(Nodes) /\ ToSet(job.progress) \subseteq Nodes
        /\ v \notin Nodes
    BY ToSetOfSeq, Names DEF TypeOK, Job
  <1>2. ToSet(<<>>) = {}
    BY DEF ToSet
  <1>3. CASE s # r \/ OpenStream(r) \/ RedisSubscribes(r) \/ ReadAck(r) \/ DropStream(r)
    BY <1>2, <1>3
    DEF TypeOK, Mail, Close, OpenStream, StreamStep, RedisSubscribes, ReadAck, ReadSnapshot,
        ReadMessage, DropStream
  <1>4. CASE s = r /\ ReadSnapshot(r)
    <2>1. inbox'[s] \in {inbox[s], <<>>}
      BY <1>4 DEF ReadSnapshot, Close, TypeOK
    <2>2. sent'[s] = IF job.status \in Terminal THEN Append(job.progress, job.status)
                                                ELSE job.progress
      BY <1>4 DEF ReadSnapshot, TypeOK
    <2>3. job.status \in Terminal =>
            ToSet(Append(job.progress, job.status)) = ToSet(job.progress) \cup {job.status}
      <3> HAVE job.status \in Terminal
      <3>1. job.progress \in Seq(Messages) /\ job.status \in Messages
        BY <1>1, SeqMonotonic, Names DEF Messages
      <3> QED
        BY <3>1, AppendFacts
    <2>4. v \in ToSet(inbox[s]) \/ v \in ToSet(sent'[s])
      BY <1>2, <2>1 DEF Mail
    <2> QED
      BY <1>1, <2>2, <2>3, <2>4 DEF Mail
  <1>5. CASE s = r /\ ReadMessage(r)
    <2>1. /\ inbox[s] # <<>>
          /\ inbox'[s] \in {<<>>, Tail(inbox[s])}
          /\ sent'[s] \in {sent[s], Append(sent[s], Head(inbox[s]))}
      BY <1>5 DEF ReadMessage, Close, TypeOK
    <2>2. /\ Head(inbox[s]) \in Messages
          /\ ToSet(inbox[s]) = ToSet(Tail(inbox[s])) \cup {Head(inbox[s])}
      BY <1>1, <2>1, TailFacts
    <2>3. ToSet(Append(sent[s], Head(inbox[s]))) = ToSet(sent[s]) \cup {Head(inbox[s])}
      BY <1>1, <2>2, AppendFacts
    <2> QED
      BY <1>2, <2>1, <2>2, <2>3 DEF Mail
  <1> QED
    BY <1>3, <1>4, <1>5 DEF StreamStep

LEMMA VerdictInit == Init => VerdictInv
  BY DEF Init, VerdictInv, ToSet

LEMMA VerdictNext == TaskIInv /\ VerdictInv /\ [Next]_vars => VerdictInv'
  <1> SUFFICES ASSUME TaskIInv, VerdictInv, [Next]_vars, NEW s \in Streams,
                      NEW v \in Terminal, v \in Mail(s)'
               PROVE  /\ op' = MarkOf(v) /\ pc' \in {"publish", "done", "dead"}
                      /\ job' = NoJob \/ job'.status = v
    BY DEF VerdictInv, Mail
  <1> USE DEF taskVars, graphVars
  <1>0. /\ TypeInv /\ RecordInv /\ TypeOK /\ TaskInv
        /\ op \in Operations
    BY DEF TaskIInv, TypeInv, TypeOK
  <1>1. v \in Mail(s) => /\ op = MarkOf(v) /\ pc \in {"publish", "done", "dead"}
                         /\ job = NoJob \/ job.status = v
    BY DEF VerdictInv, Mail
  <1>2. CASE \E r \in Streams : OpenStream(r) \/ StreamStep(r) \/ DropStream(r)
    <2>1. PICK r \in Streams : OpenStream(r) \/ StreamStep(r) \/ DropStream(r)
      BY <1>2
    <2>2. UNCHANGED <<job, op, pc>>
      BY <2>1 DEF OpenStream, StreamStep, RedisSubscribes, ReadAck, ReadSnapshot,
                  ReadMessage, DropStream
    <2>3. v \in Mail(s) \/ v = job.status
      BY <1>0, <2>1, StreamMail
    <2>4. v = job.status => op = MarkOf(v) /\ pc \in {"publish", "done", "dead"}
      <3> HAVE v = job.status
      <3>1. job # NoJob
        BY DEF NoJob, Terminal
      <3>2. Written(job)
        BY <1>0, <3>1 DEF RecordInv
      <3> QED
        BY <1>0, <3>2 DEF Written, Status, Before, After, MarkOf, Terminal, Operations,
                          TypeOK, TaskInv
    <2> QED
      BY <1>1, <2>2, <2>3, <2>4
  <1>3. CASE StorePublish \/ (RedisRaises /\ pc = "publish")
    <2>1. /\ pc = "publish" /\ UNCHANGED <<job, sent>>
          /\ Broadcast(1) \/ Broadcast(2) \/ inbox' = inbox
      BY <1>3 DEF StorePublish, RedisRaises
    <2>2. Announcement \in Messages
      BY <1>0, <2>1, AnnouncementType DEF TaskInv, TypeOK
    <2>3. v \in Mail(s) \/ v = Announcement
      BY <1>0, <2>1, <2>2, BroadcastMail DEF Mail
    <2>4. v = Announcement => op = MarkOf(v) /\ (job = NoJob \/ job.status = v)
      <3> HAVE v = Announcement
      <3>1. op \notin {"append_progress", "mark_running", "create"}
        <4>1. op = "append_progress" => Announcement \in Nodes
          BY <1>0, FrontFacts DEF Announcement, TaskInv, TypeOK
        <4> QED
          BY <1>0, <2>1, <4>1, Names DEF Announcement, TaskInv, Terminal
      <3>2. op = MarkOf(v)
        BY <1>0, <3>1 DEF Announcement, MarkOf, Operations
      <3> QED
        BY <1>0, <2>1, <3>1, <3>2
        DEF RecordInv, Written, Status, After, MarkOf, Terminal, Operations
    <2>5. op' = op /\ pc' \in {"done", "dead"}
      <3>1. op = MarkOf(v)
        BY <1>1, <2>3, <2>4
      <3> QED
        BY <1>3, <3>1 DEF StorePublish, RedisRaises, Return, MarkOf, Start
    <2> QED
      BY <1>1, <2>1, <2>3, <2>4, <2>5
  <1>4. CASE UNCHANGED <<inbox, sent>>
    <2>1. v \in Mail(s)
      BY <1>4 DEF Mail
    <2>2. op' = op /\ pc' \in {pc, "done", "dead"} /\ job' \in {job, NoJob}
      BY <1>0, <1>1, <2>1
      DEF Next, TaskStep, NodeStep, Environment, StreamStep, vars, NodeFinishes, NodeRaises,
          OpenStream, RedisSubscribes, ReadAck, ReadSnapshot, ReadMessage, DropStream,
          StoreGet, StoreSave, StorePublish, RunAudit, PullUpdate, GraphRaises, GraphEnds,
          RedisRaises, Crash, RecordLost, Return, MarkOf, Start
    <2> QED
      BY <1>1, <2>1, <2>2
  <1>5. \/ UNCHANGED <<inbox, sent>>
        \/ StorePublish
        \/ RedisRaises /\ pc = "publish"
        \/ \E r \in Streams : OpenStream(r) \/ StreamStep(r) \/ DropStream(r)
    BY DEF Next, TaskStep, NodeStep, Environment, vars, streamVars, NodeFinishes, NodeRaises,
           StoreGet, StoreSave, RunAudit, PullUpdate, GraphRaises, GraphEnds, RedisRaises,
           Crash, RecordLost
  <1> QED
    BY <1>2, <1>3, <1>4, <1>5

\* A final status is on the channel or on a stream only once the record has it.
THEOREM VerdictInvariant == Spec => []VerdictInv
  BY TaskInvariant, VerdictInit, VerdictNext, PTL DEF Spec

\* Whoever polls after the last event of a stream sees the status it told.
THEOREM StreamsAgree == Spec => []StreamAgreesWithStore
  <1>1. VerdictInv => StreamAgreesWithStore
    BY DEF VerdictInv, StreamAgreesWithStore
  <1> QED
    BY <1>1, VerdictInvariant, PTL
=============================================================================
