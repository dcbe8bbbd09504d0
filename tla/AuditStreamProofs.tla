-------------------------- MODULE AuditStreamProofs --------------------------
(***************************************************************************)
(* Proofs about AuditJob's event streams, for every set of agents and of   *)
(* streams.  As long as Redis acknowledges a SUBSCRIBE in time, no stream  *)
(* misses, repeats or reorders an event; without that, what a stream shows *)
(* is still in order.  And AuditJob implements its two abstract            *)
(* specifications: GraphRun, under every fault - the task may fall behind  *)
(* its graph, fail or die, and the graph it sees is still the one          *)
(* AuditGraph describes - and AuditFeed, when acknowledgements are in time.*)
(***************************************************************************)
EXTENDS AuditJobProofs

\* get_message(timeout=1.0) does not return before the acknowledgement.
AckInTime == "late_ack" \notin Faults

-----------------------------------------------------------------------------
(* Prefixes of a sequence without repetition.                              *)

LEMMA PrefixTypes ==
  ASSUME NEW S, NEW s \in Seq(S), NEW t \in Seq(S), PrefixOf(s, t)
  PROVE  /\ Len(s) \in Nat /\ Len(t) \in Nat /\ Len(s) <= Len(t)
         /\ \A i \in 1..Len(s) : i \in 1..Len(t) /\ s[i] = t[i]
         /\ ToSet(s) = {t[i] : i \in 1..Len(s)}
         /\ ToSet(s) \subseteq ToSet(t)
  <1>1. /\ Len(s) \in Nat /\ ToSet(s) = {s[i] : i \in 1..Len(s)}
        /\ Len(t) \in Nat /\ ToSet(t) = {t[i] : i \in 1..Len(t)}
    BY ToSetOfSeq
  <1>2. Len(s) <= Len(t) /\ \A i \in 1..Len(s) : s[i] = t[i]
    BY DEF PrefixOf
  <1>3. \A i \in 1..Len(s) : i \in 1..Len(t)
    BY <1>1, <1>2
  <1> QED
    BY <1>1, <1>2, <1>3

LEMMA PrefixWhole == \A t : PrefixOf(t, t)
  BY DEF PrefixOf

LEMMA PrefixFront ==
  ASSUME NEW S, NEW t \in Seq(S), t # <<>>
  PROVE  PrefixOf(Front(t), t)
  BY FrontFacts DEF PrefixOf

\* A prefix stays one when the sequence grows.
LEMMA PrefixOfLonger ==
  ASSUME NEW S, NEW s \in Seq(S), NEW t \in Seq(S), NEW e \in S, PrefixOf(s, t)
  PROVE  PrefixOf(s, Append(t, e))
  BY PrefixTypes, AppendFacts DEF PrefixOf

\* The next element of a prefix is the first one that is not in it.
LEMMA PrefixGrows ==
  ASSUME NEW S, NEW s \in Seq(S), NEW t \in Seq(S), PrefixOf(s, t), IsInjective(t),
         NEW a \in 1..Len(t), t[a] \notin ToSet(s),
         \A b \in 1..(a - 1) : t[b] \in ToSet(s)
  PROVE  a = Len(s) + 1 /\ PrefixOf(Append(s, t[a]), t)
  <1>1. /\ Len(s) \in Nat /\ Len(t) \in Nat /\ Len(s) <= Len(t)
        /\ \A i \in 1..Len(s) : i \in 1..Len(t) /\ s[i] = t[i]
        /\ ToSet(s) = {t[i] : i \in 1..Len(s)}
    BY PrefixTypes
  <1>2. t[a] \in S /\ DOMAIN t = 1..Len(t)
    BY ToSetOfSeq, LenProperties
  <1>3. a > Len(s)
    BY <1>1
  <1>4. ~(a > Len(s) + 1)
    <2> SUFFICES ASSUME a > Len(s) + 1 PROVE FALSE
      OBVIOUS
    <2>1. /\ Len(s) + 1 \in 1..(a - 1)
          /\ Len(s) + 1 \in 1..Len(t)
          /\ Len(s) + 1 \notin 1..Len(s)
      BY <1>1
    <2>2. PICK i \in 1..Len(s) : t[Len(s) + 1] = t[i]
      BY <1>1, <2>1
    <2> QED
      BY <1>1, <1>2, <2>1, <2>2 DEF IsInjective
  <1>5. a = Len(s) + 1
    BY <1>1, <1>3, <1>4
  <1>6. PrefixOf(Append(s, t[a]), t)
    <2>1. /\ Len(Append(s, t[a])) = Len(s) + 1
          /\ \A i \in 1..Len(s) : Append(s, t[a])[i] = s[i]
          /\ Append(s, t[a])[Len(s) + 1] = t[a]
      BY <1>2, AppendFacts
    <2>2. \A i \in 1..(Len(s) + 1) : i \in 1..Len(s) \/ i = Len(s) + 1
      BY <1>1
    <2> QED
      BY <1>1, <1>5, <2>1, <2>2 DEF PrefixOf
  <1> QED
    BY <1>5, <1>6

\* A prefix with every element is the sequence itself.
LEMMA PrefixWithAll ==
  ASSUME NEW S, NEW s \in Seq(S), NEW t \in Seq(S), PrefixOf(s, t), IsInjective(t),
         ToSet(t) \subseteq ToSet(s)
  PROVE  Len(s) = Len(t)
  <1>1. /\ Len(s) \in Nat /\ Len(t) \in Nat /\ Len(s) <= Len(t)
        /\ \A i \in 1..Len(s) : i \in 1..Len(t)
        /\ ToSet(s) = {t[i] : i \in 1..Len(s)}
        /\ DOMAIN t = 1..Len(t) /\ ToSet(t) = {t[i] : i \in 1..Len(t)}
    BY PrefixTypes, ToSetOfSeq
  <1> SUFFICES ASSUME Len(s) < Len(t) PROVE FALSE
    BY <1>1
  <1>2. Len(s) + 1 \in 1..Len(t) /\ Len(s) + 1 \notin 1..Len(s)
    BY <1>1
  <1>3. PICK i \in 1..Len(s) : t[Len(s) + 1] = t[i]
    BY <1>1, <1>2
  <1> QED
    BY <1>1, <1>2, <1>3 DEF IsInjective

\* The operator of the community modules.
LEMMA PrefixIsSubSeq ==
  ASSUME NEW S, NEW s \in Seq(S), NEW t \in Seq(S), PrefixOf(s, t)
  PROVE  s = SubSeq(t, 1, Len(s)) /\ IsPrefix(s, t)
  <1>1. /\ Len(s) \in Nat /\ Len(t) \in Nat /\ Len(s) <= Len(t)
        /\ \A i \in 1..Len(s) : i \in 1..Len(t) /\ s[i] = t[i]
    BY PrefixTypes
  <1>2. \A i \in 1..Len(s) : t[i] \in S
    BY <1>1, LenProperties
  <1>3. /\ SubSeq(t, 1, Len(s)) \in Seq(S)
        /\ Len(SubSeq(t, 1, Len(s))) = IF 1 <= Len(s) THEN Len(s) - 1 + 1 ELSE 0
        /\ \A i \in 1..(Len(s) - 1 + 1) : SubSeq(t, 1, Len(s))[i] = t[1 + i - 1]
    BY <1>1, <1>2, SubSeqProperties, Z3
  <1>4. Len(SubSeq(t, 1, Len(s))) = Len(s)
    BY <1>1, <1>3
  <1>5. \A i \in 1..Len(s) : s[i] = SubSeq(t, 1, Len(s))[i]
    <2> TAKE i \in 1..Len(s)
    <2>1. i \in 1..(Len(s) - 1 + 1) /\ 1 + i - 1 = i
      BY <1>1
    <2> QED
      BY <1>1, <1>3, <2>1
  <1>6. s = SubSeq(t, 1, Len(s))
    BY <1>3, <1>4, <1>5, SeqEqual
  <1>7. SubSeq(s, 1, Len(s)) = s
    BY SubSeqFull
  <1> QED
    BY <1>1, <1>6, <1>7 DEF IsPrefix

-----------------------------------------------------------------------------
(* Steps, as a stream sees them.                                           *)

StreamMoves(r) == OpenStream(r) \/ StreamStep(r) \/ DropStream(r)

\* The task publishes, and Redis may pass that on although the call raises.
Publishes ==
  /\ StorePublish \/ RedisRaises
  /\ pc = "publish" /\ \E n \in {1, 2} : Broadcast(n)
  /\ UNCHANGED <<job, local, pulled, spc, subscribed, seen, sent>>

\* Every other step of the task and its environment.
Elsewhere ==
  /\ TaskStep \/ NodeStep \/ Environment \/ UNCHANGED vars
  /\ UNCHANGED streamVars

LEMMA StepKinds ==
  ASSUME [Next]_vars
  PROVE  Publishes \/ Elsewhere \/ \E r \in Streams : StreamMoves(r)
  <1> USE DEF vars, taskVars, graphVars, streamVars
  <1>1. CASE StorePublish
    BY <1>1 DEF StorePublish, Publishes
  <1>2. CASE RedisRaises
    <2>1. CASE inbox' = inbox
      BY <1>2, <2>1 DEF RedisRaises, Elsewhere, Environment
    <2>2. CASE inbox' # inbox
      BY <1>2, <2>2 DEF RedisRaises, Publishes
    <2> QED
      BY <2>1, <2>2
  <1>3. CASE \/ TaskStep /\ ~StorePublish
             \/ NodeStep \/ NodeRaises \/ Crash \/ RecordLost \/ UNCHANGED vars
    BY <1>3 DEF TaskStep, NodeStep, Environment, Elsewhere, StoreGet, StoreSave, RunAudit,
                PullUpdate, GraphRaises, GraphEnds, NodeFinishes, NodeRaises, Crash,
                RecordLost
  <1>4. CASE \E r \in Streams : OpenStream(r) \/ StreamStep(r) \/ DropStream(r)
    BY <1>4 DEF StreamMoves
  <1> QED
    BY <1>1, <1>2, <1>3, <1>4 DEF Next, Environment

\* A stream's own steps leave the task, the record and the other streams alone.
LEMMA StreamFrame ==
  ASSUME TypeOK, NEW r \in Streams, StreamMoves(r), NEW s \in Streams
  PROVE  /\ UNCHANGED <<job, op, pc, local, pulled>>
         /\ r # s => /\ spc'[s] = spc[s] /\ subscribed'[s] = subscribed[s]
                     /\ inbox'[s] = inbox[s] /\ seen'[s] = seen[s] /\ sent'[s] = sent[s]
  <1> USE DEF taskVars, graphVars
  <1>1. UNCHANGED <<job, op, pc, local, pulled>>
    BY DEF StreamMoves, OpenStream, StreamStep, DropStream, RedisSubscribes, ReadAck,
           ReadSnapshot, ReadMessage
  <1>2. ASSUME r # s
        PROVE  spc'[s] = spc[s] /\ subscribed'[s] = subscribed[s] /\ inbox'[s] = inbox[s]
    BY <1>2 DEF TypeOK, StreamMoves, OpenStream, StreamStep, DropStream, RedisSubscribes,
                ReadAck, ReadSnapshot, ReadMessage, Close
  <1>3. ASSUME r # s PROVE seen'[s] = seen[s] /\ sent'[s] = sent[s]
    BY <1>3 DEF TypeOK, StreamMoves, OpenStream, StreamStep, DropStream, RedisSubscribes,
                ReadAck, ReadSnapshot, ReadMessage, Close
  <1> QED
    BY <1>1, <1>2, <1>3

\* What the snapshot and a message do to the stream that reads it.
LEMMA SnapshotEffect ==
  ASSUME TypeOK, NEW s \in Streams, ReadSnapshot(s)
  PROVE  /\ spc[s] = "snapshot"
         /\ seen'[s] = ToSet(job.progress)
         /\ sent'[s] = IF job.status \in Terminal THEN Append(job.progress, job.status)
                                                  ELSE job.progress
         /\ IF job = NoJob \/ job.status \in Terminal
              THEN spc'[s] = "ended" /\ ~subscribed'[s] /\ inbox'[s] = <<>>
              ELSE /\ spc'[s] = "live" /\ subscribed'[s] = subscribed[s]
                   /\ inbox'[s] = inbox[s]
  BY DEF TypeOK, ReadSnapshot, Close

LEMMA MessageEffect ==
  ASSUME TypeOK, NEW s \in Streams, ReadMessage(s), NEW m, m = Head(inbox[s])
  PROVE  /\ spc[s] = "live" /\ inbox[s] # <<>> /\ m \in Messages
         /\ seen'[s] = IF m \in Nodes \ seen[s] THEN seen[s] \cup {m} ELSE seen[s]
         /\ sent'[s] = IF m \in (Nodes \ seen[s]) \cup Terminal THEN Append(sent[s], m)
                                                               ELSE sent[s]
         /\ IF m \in Terminal
              THEN spc'[s] = "ended" /\ ~subscribed'[s] /\ inbox'[s] = <<>>
              ELSE /\ spc'[s] = "live" /\ subscribed'[s] = subscribed[s]
                   /\ inbox'[s] = Tail(inbox[s])
  <1>1. inbox[s] # <<>> /\ m \in Messages
    BY TailFacts DEF TypeOK, ReadMessage
  <1> QED
    BY <1>1 DEF TypeOK, ReadMessage, Close

LEMMA CloseEffect ==
  ASSUME TypeOK, NEW s \in Streams, DropStream(s)
  PROVE  /\ IsOpen(s) /\ spc'[s] = "dropped" /\ ~subscribed'[s] /\ inbox'[s] = <<>>
         /\ seen'[s] = seen[s] /\ sent'[s] = sent[s]
  BY DEF TypeOK, DropStream, Close

\* Opening, subscribing and the acknowledgement.
LEMMA ConnectEffect ==
  ASSUME TypeOK, NEW s \in Streams,
         OpenStream(s) \/ RedisSubscribes(s) \/ ReadAck(s)
  PROVE  /\ inbox'[s] = inbox[s] /\ seen'[s] = seen[s] /\ sent'[s] = sent[s]
         /\ \/ spc[s] = "closed" /\ spc'[s] = "ack" /\ subscribed'[s] = subscribed[s]
            \/ IsOpen(s) /\ spc'[s] = spc[s] /\ ~subscribed[s] /\ subscribed'[s]
            \/ /\ spc[s] = "ack" /\ spc'[s] = "snapshot" /\ subscribed'[s] = subscribed[s]
               /\ AckInTime => subscribed[s]
  BY DEF TypeOK, AckInTime, OpenStream, RedisSubscribes, ReadAck

\* A broadcast reaches the streams that are subscribed.
LEMMA BroadcastEffect ==
  ASSUME TypeInv, Publishes, NEW s \in Streams
  PROVE  /\ Announcement \in Messages
         /\ \E n \in {1, 2} :
              /\ Copies(n) \in Seq(Messages) /\ Len(Copies(n)) = n
              /\ \A i \in 1..n : Copies(n)[i] = Announcement
              /\ inbox'[s] = IF subscribed[s] THEN inbox[s] \o Copies(n) ELSE inbox[s]
         /\ ToSet(inbox'[s]) \subseteq ToSet(inbox[s]) \cup {Announcement}
         /\ ToSet(inbox[s]) \subseteq ToSet(inbox'[s])
         /\ subscribed[s] => Announcement \in ToSet(inbox'[s])
  <1>1. Announcement \in Messages
    BY AnnouncementType DEF TypeInv, TypeOK, TaskInv, Publishes
  <1>2. PICK n \in {1, 2} : Broadcast(n)
    BY DEF Publishes
  <1>3. n \in Nat /\ n > 0
    OBVIOUS
  <1>4. inbox \in [Streams -> Seq(Messages)]
    BY DEF TypeInv, TypeOK
  <1>5. /\ Copies(n) \in Seq(Messages) /\ Len(Copies(n)) = n
        /\ \A i \in 1..n : Copies(n)[i] = Announcement
        /\ inbox'[s] = IF subscribed[s] THEN inbox[s] \o Copies(n) ELSE inbox[s]
        /\ ToSet(inbox'[s]) \subseteq ToSet(inbox[s]) \cup {Announcement}
        /\ ToSet(inbox[s]) \subseteq ToSet(inbox'[s])
    BY <1>1, <1>2, <1>3, <1>4, BroadcastFacts
  <1>6. Announcement \in ToSet(inbox[s] \o Copies(n))
    <2>1. inbox[s] \in Seq(Messages)
      BY <1>4
    <2> QED
      BY <1>1, <1>3, <1>5, <2>1, RepeatFacts
  <1> QED
    BY <1>1, <1>5, <1>6

-----------------------------------------------------------------------------
(* A stream before its snapshot.                                           *)

LEMMA IdleNext ==
  ASSUME AckInTime, TypeInv, NEW s \in Streams, Idle(s), [Next]_vars
  PROVE  Idle(s)'
  <1> USE DEF Idle, IsOpen
  <1>0. TypeOK
    BY DEF TypeInv
  <1>1. CASE Elsewhere
    BY <1>1 DEF Elsewhere, streamVars
  <1>2. CASE Publishes
    <2>1. ~subscribed[s] => inbox'[s] = inbox[s]
      BY <1>2, BroadcastEffect
    <2> QED
      BY <1>2, <2>1 DEF Publishes
  <1>3. ASSUME NEW r \in Streams, StreamMoves(r)
        PROVE  Idle(s)'
    <2>1. CASE r # s
      BY <1>0, <1>3, <2>1, StreamFrame
    <2>2. CASE OpenStream(s) \/ RedisSubscribes(s) \/ ReadAck(s)
      BY <1>0, <2>2, ConnectEffect
    <2>3. CASE ReadSnapshot(s)
      BY <1>0, <2>3, SnapshotEffect
    <2>4. CASE ReadMessage(s)
      BY <1>0, <2>4, MessageEffect
    <2>5. CASE DropStream(s)
      BY <1>0, <2>5, CloseEffect
    <2> QED
      BY <1>3, <2>1, <2>2, <2>3, <2>4, <2>5 DEF StreamMoves, StreamStep
  <1> QED
    BY <1>1, <1>2, <1>3, StepKinds

\* The record never loses a node but by being lost.
LEMMA RecordGrows ==
  ASSUME TaskIInv, Elsewhere, Record' # NoJob
  PROVE  Record # NoJob /\ ToSet(Record.progress) \subseteq ToSet(Record'.progress)
  <1> USE DEF taskVars, graphVars, streamVars
  <1>0. /\ TypeInv /\ RecordInv /\ TaskInv /\ op \in Operations /\ pulled \in Seq(Nodes)
        /\ job \in Job /\ local \in Job
    BY DEF TaskIInv, TypeInv, TypeOK
  <1>1. ASSUME pc = "save"
        PROVE  ToSet(local.progress) \subseteq ToSet(Edited(local).progress)
    <2>1. local # NoJob /\ Written(local)
      BY <1>0, <1>1 DEF RecordInv
    <2>2. local.progress = pulled \/ local.progress = Front(pulled)
      BY <2>1 DEF Written, Progress
    <2>3. CASE op = "append_progress"
      <3>1. Edited(local).progress = pulled /\ pulled # <<>>
        BY <1>0, <1>1, <2>1, <2>3, EditedWritten DEF TaskInv
      <3>2. ToSet(Front(pulled)) \subseteq ToSet(pulled)
        BY <1>0, <3>1, FrontFacts
      <3> QED
        BY <2>2, <3>1, <3>2
    <2>4. CASE op # "append_progress"
      BY <1>0, <2>4 DEF Edited, Operations, Job
    <2> QED
      BY <2>3, <2>4
  <1>2. CASE StoreGet
    BY <1>2 DEF StoreGet, Return, Record
  <1>3. CASE StoreSave
    <2>1. Record = local /\ Record' = Edited(local)
      BY <1>3 DEF StoreSave, Return, Record
    <2>2. local # NoJob
      BY <1>0, <1>3 DEF RecordInv, StoreSave
    <2> QED
      BY <1>1, <1>3, <2>1, <2>2 DEF StoreSave
  <1>4. CASE (RedisRaises \/ Crash) /\ pc = "save"
    <2>1. Record = local /\ Record' = job'
      BY <1>4 DEF RedisRaises, Crash, Start, Record
    <2>2. local # NoJob /\ (job = NoJob \/ job = local)
      BY <1>0, <1>4 DEF RecordInv
    <2>3. job' = job \/ job' = Edited(local)
      BY <1>4 DEF RedisRaises, Crash
    <2> QED
      BY <1>1, <1>4, <2>1, <2>2, <2>3
  <1>5. CASE pc # "save" /\ pc' # "save"
    <2>1. job' = job \/ job' = NoJob
      BY <1>5 DEF Elsewhere, TaskStep, NodeStep, Environment, StoreGet, StoreSave,
                  StorePublish, RunAudit, PullUpdate, GraphRaises, GraphEnds, NodeFinishes,
                  NodeRaises, RedisRaises, Crash, RecordLost, vars
    <2> QED
      BY <1>5, <2>1 DEF Record
  <1>6. CASE pc = "save" /\ UNCHANGED <<pc, local>>
    BY <1>0, <1>6 DEF Record, RecordInv
  <1>7. \/ StoreGet \/ StoreSave
        \/ (RedisRaises \/ Crash) /\ pc = "save"
        \/ pc # "save" /\ pc' # "save"
        \/ pc = "save" /\ UNCHANGED <<pc, local>>
    BY <1>0 DEF Elsewhere, TaskStep, NodeStep, Environment, StorePublish, Return, Start,
                RunAudit, PullUpdate, GraphRaises, GraphEnds, NodeFinishes, NodeRaises,
                RedisRaises, Crash, RecordLost, vars
  <1> QED
    BY <1>2, <1>3, <1>4, <1>5, <1>6, <1>7

\* A node is published once it is in the record.
LEMMA PublishedIsRecorded ==
  ASSUME TaskIInv, Publishes
  PROVE  /\ Record' = Record /\ Record = job
         /\ Announcement \in Nodes =>
              /\ op = "append_progress" /\ pulled # <<>> /\ Announcement = Last(pulled)
              /\ job # NoJob => job.progress = pulled
  <1>0. /\ RecordInv /\ TaskInv /\ op \in Operations /\ pulled \in Seq(Nodes)
        /\ pc = "publish" /\ job' = job
    BY DEF TaskIInv, TypeInv, TypeOK, Publishes
  <1>1. pc' # "save"
    BY DEF Publishes, StorePublish, RedisRaises, Return, Start
  <1>2. Announcement \in Nodes => op = "append_progress"
    BY <1>0, Names DEF Announcement, TaskInv, Operations, Statuses, Terminal
  <1>3. op = "append_progress" /\ job # NoJob => job.progress = pulled
    BY <1>0 DEF RecordInv, Written, Progress
  <1> QED
    BY <1>0, <1>1, <1>2, <1>3 DEF Record, Announcement, TaskInv

LEMMA PendingNext ==
  ASSUME AckInTime, TaskIInv, NEW s \in Streams, Idle(s), Pending(s), [Next]_vars
  PROVE  Pending(s)'
  <1>0. TypeInv /\ TypeOK /\ inbox[s] \in Seq(Messages) /\ pulled \in Seq(Nodes)
    BY DEF TaskIInv, TypeInv, TypeOK
  <1>1. CASE Elsewhere
    BY <1>1, RecordGrows DEF Elsewhere, streamVars, Pending
  <1>2. CASE Publishes
    <2>1. /\ Record' = Record /\ Record = job /\ spc' = spc
          /\ Announcement \in Nodes /\ job # NoJob => Announcement \in ToSet(job.progress)
      BY <1>0, <1>2, PublishedIsRecorded, FrontFacts DEF Publishes
    <2>2. ToSet(inbox'[s]) \subseteq ToSet(inbox[s]) \cup {Announcement}
      BY <1>0, <1>2, BroadcastEffect
    <2> QED
      BY <2>1, <2>2 DEF Pending
  <1>3. ASSUME NEW r \in Streams, StreamMoves(r)
        PROVE  Pending(s)'
    <2>0. Record' = Record
      BY <1>0, <1>3, StreamFrame DEF Record
    <2>1. CASE r # s
      BY <1>0, <1>3, <2>0, <2>1, StreamFrame DEF Pending
    <2>2. CASE OpenStream(s) \/ RedisSubscribes(s) \/ ReadAck(s)
      <3>1. spc[s] = "closed" => ToSet(inbox[s]) = {}
        BY DEF Idle, IsOpen, ToSet
      <3> QED
        BY <1>0, <2>0, <2>2, <3>1, ConnectEffect DEF Pending
    <2>3. CASE ReadSnapshot(s) \/ ReadMessage(s) \/ DropStream(s)
      <3>1. spc'[s] \notin {"ack", "snapshot"}
        BY <1>0, <2>3, SnapshotEffect, MessageEffect, CloseEffect
      <3> QED
        BY <3>1 DEF Pending
    <2> QED
      BY <1>3, <2>1, <2>2, <2>3 DEF StreamMoves, StreamStep
  <1> QED
    BY <1>1, <1>2, <1>3, StepKinds

-----------------------------------------------------------------------------
(* What a stream has sent.                                                 *)

\* What a snapshot replays: everything, or everything but the last node.
LEMMA ReplayFacts ==
  ASSUME TaskIInv
  PROVE  /\ job.progress \in Seq(Nodes) /\ PrefixOf(job.progress, pulled)
         /\ job.progress # pulled /\ job # NoJob =>
              /\ pulled # <<>> /\ job.progress = Front(pulled)
              /\ op = "mark_failed" \/ (op = "append_progress" /\ pc # "pull")
         /\ job.status = "completed" => job.progress = pulled
         /\ job = NoJob => job.progress = <<>> /\ job.status = "absent"
  <1>0. /\ RecordInv /\ TaskInv /\ op \in Operations /\ pulled \in Seq(Nodes)
        /\ job \in Job
    BY DEF TaskIInv, TypeInv, TypeOK
  <1>1. CASE job = NoJob
    <2>1. job.progress = <<>> /\ job.status = "absent"
      BY <1>1 DEF NoJob
    <2>2. PrefixOf(<<>>, pulled)
      BY <1>0, EmptySeq, LenProperties DEF PrefixOf
    <2> QED
      BY <1>1, <2>1, <2>2, EmptySeq
  <1>2. CASE job # NoJob
    <2>1. Written(job)
      BY <1>0, <1>2 DEF RecordInv
    <2>2. job.progress \in Seq(Nodes)
      BY <1>0 DEF Job
    <2>3. CASE job.progress = pulled
      BY <1>2, <2>2, <2>3, PrefixWhole
    <2>4. CASE job.progress # pulled
      <3>1. /\ job.progress = Front(pulled)
            /\ op = "mark_failed" \/ (op = "append_progress" /\ pc # "pull")
        BY <2>1, <2>4 DEF Written, Progress
      <3>2. pulled # <<>>
        <4>1. Front(<<>>) = <<>>
          BY DEF Front
        <4> QED
          BY <2>4, <3>1, <4>1
      <3>3. job.status # "completed"
        BY <2>1, <3>1 DEF Written, Status, Before, After
      <3>4. PrefixOf(Front(pulled), pulled)
        BY <1>0, <3>2, PrefixFront
      <3> QED
        BY <1>2, <2>2, <3>1, <3>2, <3>3, <3>4
    <2> QED
      BY <2>3, <2>4
  <1> QED
    BY <1>1, <1>2

\* The task gets another node only before there is a verdict.
LEMMA PulledGrows ==
  ASSUME TypeInv, Elsewhere
  PROVE  \/ pulled' = pulled
         \/ /\ PullUpdate /\ pc = "pull" /\ pc' = "get" /\ op' = "append_progress"
            /\ Head(updates) \in Nodes /\ pulled' = Append(pulled, Head(updates))
  <1>1. CASE PullUpdate
    BY <1>1, TailFacts DEF PullUpdate, Start, TypeInv, TypeOK
  <1>2. CASE ~PullUpdate
    BY <1>2 DEF Elsewhere, TaskStep, NodeStep, Environment, StoreGet, StoreSave,
                StorePublish, RunAudit, GraphRaises, GraphEnds, NodeFinishes,
                NodeRaises, RedisRaises, Crash, RecordLost, vars, graphVars
  <1> QED
    BY <1>1, <1>2

LEMMA MessageSeqs == Seq(Nodes) \subseteq Seq(Messages) /\ Terminal \subseteq Messages
  BY SeqMonotonic, Names DEF Messages

LEMMA ShownType ==
  ASSUME TypeOK, NEW s \in Streams
  PROVE  Shown(s) \in Seq(Messages) /\ (Told(s) => Last(sent[s]) \in ToSet(sent[s]))
  <1>1. sent[s] \in Seq(Messages)
    BY DEF TypeOK
  <1> QED
    BY <1>1, FrontFacts DEF Shown, Told

\* What a stream has shown and told after one more event.
LEMMA ShownAfter ==
  ASSUME NEW s \in Streams, NEW q \in Seq(Messages), NEW m \in Messages,
         sent'[s] = Append(q, m)
  PROVE  IF m \in Terminal THEN Told(s)' /\ Shown(s)' = q /\ Last(sent'[s]) = m
                           ELSE ~Told(s)' /\ Shown(s)' = Append(q, m)
  BY FrontOfAppend DEF Told, Shown

LEMMA ReplayNotTold ==
  ASSUME NEW s \in Streams, sent'[s] \in Seq(Nodes)
  PROVE  ~Told(s)' /\ Shown(s)' = sent'[s]
  <1>1. sent'[s] # <<>> => Last(sent'[s]) \in Nodes
    BY FrontFacts
  <1> QED
    BY <1>1, Names DEF Told, Shown

LEMMA SentSnapshot ==
  ASSUME TaskIInv, NEW s \in Streams, ReadSnapshot(s)
  PROVE  SentSoFar(s)'
  <1>0. /\ TypeOK /\ pulled' = pulled /\ pulled \in Seq(Nodes)
        /\ job.progress \in Seq(Messages)
    BY ReplayFacts, MessageSeqs DEF TaskIInv, TypeInv, TypeOK, ReadSnapshot, graphVars
  <1>1. CASE job.status \in Terminal
    <2>1. /\ Told(s)' /\ Shown(s)' = job.progress /\ Last(sent'[s]) = job.status
          /\ Len(sent'[s]) = Len(job.progress) + 1 /\ spc'[s] = "ended"
      BY <1>0, <1>1, SnapshotEffect, ShownAfter, AppendFacts, MessageSeqs
    <2> QED
      BY <1>0, <2>1, ReplayFacts DEF SentSoFar
  <1>2. CASE job.status \notin Terminal
    <2>1. sent'[s] = job.progress /\ seen'[s] = ToSet(job.progress)
      BY <1>0, <1>2, SnapshotEffect
    <2>2. ~Told(s)' /\ Shown(s)' = job.progress
      BY <2>1, ReplayFacts, ReplayNotTold
    <2> QED
      BY <1>0, <2>1, <2>2, ReplayFacts DEF SentSoFar
  <1> QED
    BY <1>1, <1>2

LEMMA SentMessage ==
  ASSUME TaskIInv, NEW s \in Streams, SentSoFar(s), Unread(s), ReadMessage(s)
  PROVE  SentSoFar(s)'
  <1> DEFINE m == Head(inbox[s])
  <1>0. /\ TypeOK /\ pulled' = pulled /\ pulled \in Seq(Messages) /\ IsInjective(pulled)
        /\ sent[s] \in Seq(Messages) /\ inbox[s] \in Seq(Messages)
    BY MessageSeqs DEF TaskIInv, TypeInv, TypeOK, GraphInv, ReadMessage, graphVars
  <1>1. /\ spc[s] = "live" /\ ~Told(s) /\ Shown(s) = sent[s]
        /\ PrefixOf(sent[s], pulled) /\ seen[s] = ToSet(sent[s])
    BY DEF ReadMessage, SentSoFar, Shown
  <1>2. /\ m \in Messages
        /\ m \in Nodes => \E a \in 1..Len(pulled) :
                            m = pulled[a] /\ \A b \in 1..(a - 1) : pulled[b] \in seen[s]
        /\ m = "completed" => ToSet(pulled) \subseteq seen[s]
    <2>1. inbox[s] # <<>>
      BY DEF ReadMessage
    <2>2. 1 \in 1..Len(inbox[s]) /\ m = inbox[s][1] /\ m \in Messages
      BY <1>0, <2>1, TailFacts
    <2>3. Known(seen[s], inbox[s], 1) = seen[s]
      BY DEF Known
    <2> QED
      BY <1>1, <2>2, <2>3 DEF Unread, Ready
  <1>3. CASE m \in Nodes \ seen[s]
    <2>1. PICK a \in 1..Len(pulled) :
            m = pulled[a] /\ \A b \in 1..(a - 1) : pulled[b] \in seen[s]
      BY <1>2, <1>3
    <2>2. PrefixOf(Append(sent[s], m), pulled)
      BY <1>0, <1>1, <1>3, <2>1, PrefixGrows
    <2>3. /\ sent'[s] = Append(sent[s], m) /\ seen'[s] = seen[s] \cup {m}
          /\ m \notin Terminal
      BY <1>0, <1>3, MessageEffect, Names
    <2>4. ~Told(s)' /\ Shown(s)' = Append(sent[s], m)
      BY <1>0, <1>2, <2>3, ShownAfter
    <2>5. ToSet(sent'[s]) = ToSet(sent[s]) \cup {m}
      BY <1>0, <1>2, <2>3, AppendFacts
    <2> QED
      BY <1>0, <1>1, <2>2, <2>3, <2>4, <2>5 DEF SentSoFar
  <1>4. CASE m \in Terminal
    <2>1. sent'[s] = Append(sent[s], m) /\ spc'[s] = "ended"
      BY <1>0, <1>4, MessageEffect
    <2>2. Told(s)' /\ Shown(s)' = sent[s] /\ Last(sent'[s]) = m
      BY <1>0, <1>2, <1>4, <2>1, ShownAfter
    <2>3. m = "completed" => Len(sent[s]) = Len(pulled)
      BY <1>0, <1>1, <1>2, PrefixWithAll
    <2>4. Len(sent'[s]) = Len(sent[s]) + 1
      BY <1>0, <1>2, <2>1, AppendFacts
    <2> QED
      BY <1>0, <1>1, <2>1, <2>2, <2>3, <2>4 DEF SentSoFar
  <1>5. CASE m \notin (Nodes \ seen[s]) \cup Terminal
    <2>1. sent'[s] = sent[s] /\ seen'[s] = seen[s] /\ spc'[s] = "live"
      BY <1>0, <1>5, MessageEffect
    <2> QED
      BY <1>0, <1>1, <2>1 DEF SentSoFar, Told, Shown
  <1> QED
    BY <1>3, <1>4, <1>5

LEMMA SentNext ==
  ASSUME AckInTime, TaskIInv, VerdictInv, NEW s \in Streams, Idle(s), SentSoFar(s),
         Unread(s), [Next]_vars
  PROVE  SentSoFar(s)'
  <1>0. /\ TypeInv /\ TypeOK /\ pulled \in Seq(Messages) /\ Shown(s) \in Seq(Messages)
    BY ShownType, MessageSeqs DEF TaskIInv, TypeInv, TypeOK
  <1>1. CASE Elsewhere
    <2>1. spc' = spc /\ seen' = seen /\ sent' = sent
      BY <1>1 DEF Elsewhere, streamVars
    <2>2. Told(s)' = Told(s) /\ Shown(s)' = Shown(s)
      BY <2>1 DEF Told, Shown
    <2>3. CASE pulled' = pulled
      BY <2>1, <2>2, <2>3 DEF SentSoFar
    <2>4. CASE pulled' # pulled
      <3>1. /\ pc = "pull" /\ Head(updates) \in Messages
            /\ pulled' = Append(pulled, Head(updates))
        BY <1>0, <1>1, <2>4, PulledGrows DEF Messages
      <3>2. PrefixOf(Shown(s), pulled')
        BY <1>0, <3>1, PrefixOfLonger DEF SentSoFar
      <3>3. ~(Told(s) /\ Last(sent[s]) = "completed")
        BY <1>0, <3>1, ShownType DEF VerdictInv, Terminal
      <3> QED
        BY <2>1, <2>2, <3>2, <3>3 DEF SentSoFar
    <2> QED
      BY <2>3, <2>4
  <1>2. CASE Publishes
    BY <1>2 DEF Publishes, SentSoFar, Told, Shown
  <1>3. ASSUME NEW r \in Streams, StreamMoves(r)
        PROVE  SentSoFar(s)'
    <2>0. pulled' = pulled
      BY <1>0, <1>3, StreamFrame
    <2>1. CASE r # s
      BY <1>0, <1>3, <2>0, <2>1, StreamFrame DEF SentSoFar, Told, Shown
    <2>2. CASE OpenStream(s) \/ RedisSubscribes(s) \/ ReadAck(s) \/ DropStream(s)
      <3>1. /\ sent'[s] = sent[s] /\ seen'[s] = seen[s]
            /\ spc'[s] = "live" => spc[s] = "live"
            /\ spc[s] # "ended"
        BY <1>0, <2>2, ConnectEffect, CloseEffect DEF IsOpen
      <3> QED
        BY <2>0, <3>1 DEF SentSoFar, Told, Shown
    <2>3. CASE ReadSnapshot(s)
      BY <2>3, SentSnapshot
    <2>4. CASE ReadMessage(s)
      BY <2>4, SentMessage
    <2> QED
      BY <1>3, <2>1, <2>2, <2>3, <2>4 DEF StreamMoves, StreamStep
  <1> QED
    BY <1>1, <1>2, <1>3, StepKinds

-----------------------------------------------------------------------------
(* What a stream has yet to read.                                          *)

\* Knowing of more nodes does no harm.
LEMMA ReadyMonotonic ==
  ASSUME pulled \in Seq(Nodes), NEW m, NEW known, NEW more,
         Ready(m, known, pulled), known \cap Nodes \subseteq more
  PROVE  Ready(m, more, pulled)
  <1>1. /\ Len(pulled) \in Nat /\ ToSet(pulled) \subseteq Nodes
        /\ \A b \in 1..Len(pulled) : pulled[b] \in Nodes
    BY ToSetOfSeq, LenProperties
  <1>2. ASSUME NEW a \in 1..Len(pulled), NEW b \in 1..(a - 1)
        PROVE  b \in 1..Len(pulled)
    BY <1>1, <1>2
  <1> QED
    BY <1>1, <1>2 DEF Ready

\* What a node's announcement says is right behind what has been announced.
LEMMA AnnouncementReady ==
  ASSUME TaskIInv, Publishes, NEW known, Announced \subseteq known
  PROVE  Ready(Announcement, known, pulled)
  <1>0. TaskInv /\ op \in Operations /\ pulled \in Seq(Nodes) /\ pc = "publish"
    BY DEF TaskIInv, TypeInv, TypeOK, Publishes
  <1>1. ASSUME Announcement \in Nodes
        PROVE  \E a \in 1..Len(pulled) :
                 /\ Announcement = pulled[a]
                 /\ \A b \in 1..(a - 1) : pulled[b] \in known
    <2>1. op = "append_progress" /\ pulled # <<>> /\ Announcement = Last(pulled)
      BY <1>1, PublishedIsRecorded
    <2>2. Announced = ToSet(Front(pulled))
      BY <1>0, <2>1 DEF Announced
    <2>3. /\ Len(pulled) \in Nat \ {0} /\ Last(pulled) = pulled[Len(pulled)]
          /\ Front(pulled) \in Seq(Nodes) /\ Len(Front(pulled)) = Len(pulled) - 1
          /\ \A b \in 1..(Len(pulled) - 1) : Front(pulled)[b] = pulled[b]
      BY <1>0, <2>1, FrontFacts
    <2>4. ToSet(Front(pulled)) = {Front(pulled)[b] : b \in 1..(Len(pulled) - 1)}
      BY <2>3, ToSetOfSeq
    <2>5. \A b \in 1..(Len(pulled) - 1) : pulled[b] \in known
      BY <2>2, <2>3, <2>4
    <2>6. Len(pulled) \in 1..Len(pulled)
      BY <2>3
    <2> QED
      BY <2>1, <2>3, <2>5, <2>6
  <1>2. ASSUME Announcement = "completed"
        PROVE  ToSet(pulled) \subseteq known
    <2>1. Announcement \notin Nodes
      BY <1>2, Names DEF Statuses, Terminal
    <2>2. op # "append_progress"
      BY <1>0, <2>1, FrontFacts DEF Announcement, TaskInv
    <2>3. op = "mark_completed"
      BY <1>0, <1>2, <2>2 DEF Announcement, Operations, TaskInv
    <2> QED
      BY <2>3 DEF Announced
  <1> QED
    BY <1>1, <1>2 DEF Ready

LEMMA UnreadBroadcast ==
  ASSUME TaskIInv, NEW s \in Streams, Idle(s), Unread(s), NotLost(s), Publishes
  PROVE  Unread(s)'
  <1> SUFFICES ASSUME spc'[s] = "live", NEW i \in 1..Len(inbox'[s])
               PROVE  Ready(inbox'[s][i], Known(seen'[s], inbox'[s], i), pulled')
    BY DEF Unread
  <1>0. /\ TypeInv /\ spc[s] = "live" /\ subscribed[s] /\ pulled \in Seq(Nodes)
        /\ inbox[s] \in Seq(Messages) /\ seen' = seen /\ pulled' = pulled
        /\ pc = "publish"
    BY DEF TaskIInv, TypeInv, TypeOK, Publishes, Idle
  <1>1. PICK n \in {1, 2} :
          /\ Copies(n) \in Seq(Messages) /\ Len(Copies(n)) = n
          /\ \A j \in 1..n : Copies(n)[j] = Announcement
          /\ inbox'[s] = inbox[s] \o Copies(n)
    BY <1>0, BroadcastEffect
  <1>2. Announcement \in Messages
    BY <1>0, BroadcastEffect
  <1> DEFINE L == Len(inbox[s])
  <1>3. /\ L \in Nat /\ ToSet(inbox[s]) = {inbox[s][j] : j \in 1..L}
        /\ Len(inbox'[s]) = L + n
        /\ \A j \in 1..L : inbox'[s][j] = inbox[s][j]
        /\ \A j \in (L + 1)..(L + n) : inbox'[s][j] = Announcement
    <2>1. \A j \in 1..Len(Copies(n)) : Copies(n)[j] = Announcement
      BY <1>1
    <2>2. /\ Len(inbox[s] \o Copies(n)) = L + Len(Copies(n))
          /\ \A j \in 1..L : (inbox[s] \o Copies(n))[j] = inbox[s][j]
          /\ \A j \in (L + 1)..Len(inbox[s] \o Copies(n)) :
               (inbox[s] \o Copies(n))[j] = Announcement
      BY <1>0, <1>1, <1>2, <2>1, RepeatFacts
    <2> QED
      BY <1>0, <1>1, <2>2, ToSetOfSeq
  <1>4. Known(seen'[s], inbox'[s], i) = seen[s] \cup {inbox'[s][j] : j \in 1..(i - 1)}
    BY <1>0 DEF Known
  <1>5. CASE i \in 1..L
    <2>1. \A j \in 1..(i - 1) : j \in 1..L
      BY <1>3, <1>5
    <2>2. Known(seen'[s], inbox'[s], i) = Known(seen[s], inbox[s], i)
      <3>1. \A j \in 1..(i - 1) : inbox'[s][j] = inbox[s][j]
        BY <1>3, <2>1
      <3>2. {inbox'[s][j] : j \in 1..(i - 1)} = {inbox[s][j] : j \in 1..(i - 1)}
        BY <3>1
      <3> QED
        BY <1>4, <3>2 DEF Known
    <2>3. inbox'[s][i] = inbox[s][i] /\ Ready(inbox[s][i], Known(seen[s], inbox[s], i), pulled)
      BY <1>0, <1>3, <1>5 DEF Unread
    <2> QED
      BY <1>0, <2>2, <2>3
  <1>6. CASE i \in (L + 1)..(L + n)
    <2>1. \A j \in 1..L : j \in 1..(i - 1)
      BY <1>3, <1>6
    <2>2. ToSet(inbox[s]) \subseteq Known(seen'[s], inbox'[s], i)
      BY <1>3, <1>4, <2>1
    <2>3. Announced \subseteq Known(seen'[s], inbox'[s], i)
      BY <1>0, <1>4, <2>2 DEF NotLost, Intact
    <2>4. Ready(Announcement, Known(seen'[s], inbox'[s], i), pulled)
      BY <2>3, AnnouncementReady
    <2> QED
      BY <1>0, <1>3, <1>6, <2>4
  <1> QED
    BY <1>1, <1>3, <1>5, <1>6

LEMMA UnreadSnapshot ==
  ASSUME TaskIInv, VerdictInv, NEW s \in Streams, Pending(s), ReadSnapshot(s)
  PROVE  Unread(s)'
  <1> SUFFICES ASSUME spc'[s] = "live", NEW i \in 1..Len(inbox'[s])
               PROVE  Ready(inbox'[s][i], Known(seen'[s], inbox'[s], i), pulled')
    BY DEF Unread
  <1>0. /\ TypeOK /\ RecordInv /\ pulled \in Seq(Nodes) /\ pulled' = pulled
        /\ inbox[s] \in Seq(Messages)
    BY DEF TaskIInv, TypeInv, TypeOK, ReadSnapshot, graphVars
  <1>1. /\ job # NoJob /\ job.status \notin Terminal /\ inbox'[s] = inbox[s]
        /\ seen'[s] = ToSet(job.progress) /\ spc[s] = "snapshot"
    BY <1>0, SnapshotEffect
  <1>2. Record # NoJob /\ Record.progress = job.progress
    BY <1>0, <1>1 DEF Record, RecordInv
  <1>3. /\ inbox[s][i] \in ToSet(inbox[s])
        /\ inbox[s][i] \in Nodes => inbox[s][i] \in seen'[s]
    BY <1>0, <1>1, <1>2, ToSetOfSeq DEF Pending
  <1>4. seen'[s] \subseteq Known(seen'[s], inbox'[s], i)
    BY DEF Known
  <1>5. inbox[s][i] # "completed"
    BY <1>1, <1>3 DEF VerdictInv, Terminal
  <1>6. ASSUME inbox[s][i] \in Nodes
        PROVE  \E a \in 1..Len(pulled) :
                 /\ inbox[s][i] = pulled[a]
                 /\ \A b \in 1..(a - 1) : pulled[b] \in seen'[s]
    <2>1. /\ Len(job.progress) \in Nat
          /\ ToSet(job.progress) = {pulled[a] : a \in 1..Len(job.progress)}
          /\ \A a \in 1..Len(job.progress) : a \in 1..Len(pulled)
      BY <1>0, ReplayFacts, PrefixTypes
    <2>2. PICK a \in 1..Len(job.progress) : inbox[s][i] = pulled[a]
      BY <1>1, <1>3, <1>6, <2>1
    <2>3. \A b \in 1..(a - 1) : b \in 1..Len(job.progress)
      BY <2>1
    <2>4. \A b \in 1..(a - 1) : pulled[b] \in seen'[s]
      BY <1>1, <2>1, <2>3
    <2> QED
      BY <2>1, <2>2, <2>4
  <1> QED
    BY <1>0, <1>1, <1>4, <1>5, <1>6 DEF Ready

LEMMA UnreadMessage ==
  ASSUME TaskIInv, NEW s \in Streams, Unread(s), ReadMessage(s)
  PROVE  Unread(s)'
  <1> SUFFICES ASSUME spc'[s] = "live", NEW i \in 1..Len(inbox'[s])
               PROVE  Ready(inbox'[s][i], Known(seen'[s], inbox'[s], i), pulled')
    BY DEF Unread
  <1> DEFINE m == Head(inbox[s])
  <1>0. /\ TypeOK /\ pulled \in Seq(Nodes) /\ pulled' = pulled
        /\ inbox[s] \in Seq(Messages) /\ inbox[s] # <<>>
    BY DEF TaskIInv, TypeInv, TypeOK, ReadMessage, graphVars
  <1>1. /\ m \notin Terminal /\ inbox'[s] = Tail(inbox[s]) /\ spc[s] = "live"
        /\ seen'[s] = IF m \in Nodes \ seen[s] THEN seen[s] \cup {m} ELSE seen[s]
    BY <1>0, MessageEffect
  <1>2. /\ Len(inbox[s]) \in Nat /\ m = inbox[s][1]
        /\ Len(inbox'[s]) = Len(inbox[s]) - 1
        /\ \A j \in 1..(Len(inbox[s]) - 1) : inbox'[s][j] = inbox[s][j + 1]
    BY <1>0, <1>1, TailFacts
  <1>3. i + 1 \in 1..Len(inbox[s]) /\ inbox'[s][i] = inbox[s][i + 1]
    BY <1>2
  <1>4. Ready(inbox[s][i + 1], Known(seen[s], inbox[s], i + 1), pulled)
    BY <1>1, <1>3 DEF Unread
  <1>5. Known(seen[s], inbox[s], i + 1) \cap Nodes \subseteq Known(seen'[s], inbox'[s], i)
    <2>1. /\ Known(seen'[s], inbox'[s], i) = seen'[s] \cup {inbox'[s][j] : j \in 1..(i - 1)}
          /\ Known(seen[s], inbox[s], i + 1) = seen[s] \cup {inbox[s][j] : j \in 1..i}
      BY <1>2 DEF Known
    <2>2. ASSUME NEW j \in 1..i, inbox[s][j] \in Nodes
          PROVE  inbox[s][j] \in Known(seen'[s], inbox'[s], i)
      <3>1. CASE j = 1
        BY <1>1, <1>2, <2>1, <2>2, <3>1
      <3>2. CASE j # 1
        <4>1. j - 1 \in 1..(i - 1) /\ j - 1 \in 1..(Len(inbox[s]) - 1) /\ (j - 1) + 1 = j
          BY <1>2, <3>2
        <4>2. inbox'[s][j - 1] = inbox[s][j]
          BY <1>2, <4>1
        <4> QED
          BY <2>1, <4>1, <4>2
      <3> QED
        BY <3>1, <3>2
    <2> QED
      BY <1>1, <2>1, <2>2
  <1>6. Ready(inbox[s][i + 1], Known(seen'[s], inbox'[s], i), pulled)
    BY <1>0, <1>4, <1>5, ReadyMonotonic
  <1> QED
    BY <1>0, <1>3, <1>6

LEMMA UnreadNext ==
  ASSUME AckInTime, TaskIInv, VerdictInv, NEW s \in Streams, Idle(s), Pending(s),
         Unread(s), NotLost(s), [Next]_vars
  PROVE  Unread(s)'
  <1>0. /\ TypeInv /\ TypeOK /\ pulled \in Seq(Nodes) /\ inbox[s] \in Seq(Messages)
    BY DEF TaskIInv, TypeInv, TypeOK
  <1>1. CASE Elsewhere
    <2>1. spc' = spc /\ seen' = seen /\ inbox' = inbox
      BY <1>1 DEF Elsewhere, streamVars
    <2>2. CASE pulled' = pulled
      BY <2>1, <2>2 DEF Unread, Known
    <2>3. CASE pulled' # pulled
      <3>1. /\ pc = "pull" /\ Head(updates) \in Nodes
            /\ pulled' = Append(pulled, Head(updates))
        BY <1>0, <1>1, <2>3, PulledGrows
      <3>2. /\ Len(pulled) \in Nat /\ Len(pulled') = Len(pulled) + 1
            /\ \A a \in 1..Len(pulled) : a \in 1..Len(pulled') /\ pulled'[a] = pulled[a]
        <4>1. Len(pulled) \in Nat /\ Len(pulled') = Len(pulled) + 1
          BY <1>0, <3>1, AppendFacts, LenProperties
        <4>2. \A a \in 1..Len(pulled) : pulled'[a] = pulled[a]
          BY <1>0, <3>1, AppendFacts
        <4> QED
          BY <4>1, <4>2
      <3>3. "completed" \notin ToSet(inbox[s])
        BY <3>1 DEF VerdictInv, Terminal
      <3> SUFFICES ASSUME spc[s] = "live", NEW i \in 1..Len(inbox[s])
                   PROVE  Ready(inbox[s][i], Known(seen[s], inbox[s], i), pulled')
        BY <2>1 DEF Unread
      <3>4. inbox[s][i] # "completed" /\ Ready(inbox[s][i], Known(seen[s], inbox[s], i), pulled)
        BY <1>0, <3>3, ToSetOfSeq DEF Unread
      <3>5. \A a \in 1..Len(pulled) : \A b \in 1..(a - 1) : b \in 1..Len(pulled)
        BY <3>2
      <3> QED
        BY <2>1, <3>2, <3>4, <3>5 DEF Ready
    <2> QED
      BY <2>2, <2>3
  <1>2. CASE Publishes
    BY <1>2, UnreadBroadcast
  <1>3. ASSUME NEW r \in Streams, StreamMoves(r)
        PROVE  Unread(s)'
    <2>0. pulled' = pulled
      BY <1>0, <1>3, StreamFrame
    <2>1. CASE r # s
      BY <1>0, <1>3, <2>0, <2>1, StreamFrame DEF Unread
    <2>2. CASE OpenStream(s) \/ RedisSubscribes(s) \/ ReadAck(s) \/ DropStream(s)
      <3>1. \/ spc'[s] # "live"
            \/ spc[s] = "live" /\ inbox'[s] = inbox[s] /\ seen'[s] = seen[s]
        BY <1>0, <2>2, ConnectEffect, CloseEffect
      <3> QED
        BY <2>0, <3>1 DEF Unread
    <2>3. CASE ReadSnapshot(s)
      BY <2>3, UnreadSnapshot
    <2>4. CASE ReadMessage(s)
      BY <2>4, UnreadMessage
    <2> QED
      BY <1>3, <2>1, <2>2, <2>3, <2>4 DEF StreamMoves, StreamStep
  <1> QED
    BY <1>1, <1>2, <1>3, StepKinds

-----------------------------------------------------------------------------
(* No event is lost.                                                       *)

LEMMA AnnouncedType ==
  ASSUME TypeInv
  PROVE  /\ Announced \subseteq ToSet(pulled) /\ ToSet(pulled) \subseteq Nodes
         /\ ToSet(Front(pulled)) \subseteq ToSet(pulled)
  <1>1. pulled \in Seq(Nodes)
    BY DEF TypeInv, TypeOK
  <1>2. ToSet(Front(pulled)) \subseteq ToSet(pulled)
    <2>1. Front(<<>>) = <<>>
      BY DEF Front
    <2> QED
      BY <1>1, <2>1, FrontFacts
  <1> QED
    BY <1>1, <1>2, ToSetOfSeq DEF Announced

\* Only a publish adds to what has been announced.
LEMMA AnnouncedElsewhere ==
  ASSUME TaskIInv, Elsewhere, ~StorePublish, Intact'
  PROVE  Intact /\ Announced' \subseteq Announced
  <1> USE DEF taskVars, graphVars
  <1>0. /\ TypeInv /\ RecordInv /\ TaskInv /\ op \in Operations /\ pulled \in Seq(Nodes)
        /\ ToSet(Front(pulled)) \subseteq ToSet(pulled)
    BY AnnouncedType DEF TaskIInv, TypeInv, TypeOK
  <1>1. CASE PullUpdate
    <2>1. /\ pc = "pull" /\ op' = "append_progress" /\ pc' = "get" /\ job' = job
          /\ op \in {"mark_running", "append_progress"}
      BY <1>0, <1>1 DEF PullUpdate, Start, TaskInv
    <2>2. pulled' = Append(pulled, Head(updates)) /\ Head(updates) \in Nodes
      BY <1>1, TailFacts DEF PullUpdate, TaskIInv, TypeInv, TypeOK
    <2>3. Front(pulled') = pulled
      BY <1>0, <2>2, FrontOfAppend
    <2> QED
      BY <2>1, <2>3 DEF Announced, Intact
  <1>2. CASE StoreGet \/ StoreSave
    BY <1>0, <1>2 DEF StoreGet, StoreSave, Return, Announced, Intact, TaskInv
  <1>3. CASE RunAudit \/ GraphRaises \/ GraphEnds
    BY <1>0, <1>3 DEF RunAudit, GraphRaises, GraphEnds, Start, Announced, Intact, TaskInv
  <1>4. CASE RedisRaises \/ Crash
    BY <1>0, <1>4 DEF RedisRaises, Crash, Start, Announced, Intact
  <1>5. CASE NodeStep \/ NodeRaises \/ RecordLost \/ UNCHANGED vars
    BY <1>5 DEF NodeStep, NodeFinishes, NodeRaises, RecordLost, vars, Announced, Intact
  <1> QED
    BY <1>1, <1>2, <1>3, <1>4, <1>5 DEF Elsewhere, TaskStep, Environment

LEMMA AnnouncedPublished ==
  ASSUME TaskIInv, Publishes
  PROVE  Intact /\ Announced' \subseteq Announced \cup {Announcement}
  <1>0. /\ TypeInv /\ TaskInv /\ op \in Operations /\ pulled \in Seq(Nodes)
        /\ pc = "publish" /\ pulled' = pulled
    BY DEF TaskIInv, TypeInv, TypeOK, Publishes
  <1>1. CASE op = "append_progress"
    <2>1. ToSet(pulled) = ToSet(Front(pulled)) \cup {Announcement}
      BY <1>0, <1>1, FrontFacts DEF TaskInv, Announcement
    <2>2. Announced = ToSet(Front(pulled))
      BY <1>0, <1>1 DEF Announced
    <2>3. Announced' \in {ToSet(pulled), ToSet(Front(pulled))}
      BY <1>0 DEF Announced
    <2> QED
      BY <1>0, <2>1, <2>2, <2>3 DEF Intact
  <1>2. CASE op # "append_progress"
    <2>1. op' = op
      BY <1>2 DEF Publishes, StorePublish, RedisRaises
    <2> QED
      BY <1>0, <1>2, <2>1 DEF Announced, Intact
  <1> QED
    BY <1>1, <1>2

LEMMA NotLostNext ==
  ASSUME AckInTime, TaskIInv, NEW s \in Streams, Idle(s), NotLost(s), [Next]_vars
  PROVE  NotLost(s)'
  <1>0. /\ TypeInv /\ TypeOK /\ pulled \in Seq(Nodes) /\ inbox[s] \in Seq(Messages)
        /\ Announced \subseteq Nodes
    BY AnnouncedType DEF TaskIInv, TypeInv, TypeOK
  <1>1. CASE Elsewhere /\ ~StorePublish
    BY <1>1, AnnouncedElsewhere DEF Elsewhere, streamVars, NotLost
  <1>2. CASE Publishes
    <2>1. /\ spc' = spc /\ seen' = seen
          /\ spc[s] = "live" => Announcement \in ToSet(inbox'[s])
          /\ ToSet(inbox[s]) \subseteq ToSet(inbox'[s])
      BY <1>0, <1>2, BroadcastEffect DEF Publishes, Idle
    <2> QED
      BY <1>2, <2>1, AnnouncedPublished DEF NotLost
  <1>3. ASSUME NEW r \in Streams, StreamMoves(r)
        PROVE  NotLost(s)'
    <2>0. Announced' = Announced /\ Intact' = Intact
      BY <1>0, <1>3, StreamFrame DEF Announced, Intact
    <2>1. CASE r # s
      BY <1>0, <1>3, <2>0, <2>1, StreamFrame DEF NotLost
    <2>2. CASE OpenStream(s) \/ RedisSubscribes(s) \/ ReadAck(s) \/ DropStream(s)
      <3>1. \/ spc'[s] # "live"
            \/ spc[s] = "live" /\ inbox'[s] = inbox[s] /\ seen'[s] = seen[s]
        BY <1>0, <2>2, ConnectEffect, CloseEffect
      <3> QED
        BY <2>0, <3>1 DEF NotLost
    <2>3. CASE ReadSnapshot(s)
      <3>1. /\ seen'[s] = ToSet(job.progress)
            /\ job = NoJob => spc'[s] # "live"
        BY <1>0, <2>3, SnapshotEffect
      <3>2. job # NoJob => Announced \subseteq ToSet(job.progress)
        BY <1>0, ReplayFacts, AnnouncedType DEF Announced
      <3> QED
        BY <2>0, <3>1, <3>2 DEF NotLost
    <2>4. CASE ReadMessage(s)
      <3> DEFINE m == Head(inbox[s])
      <3>1. /\ inbox[s] # <<>> /\ spc[s] = "live"
            /\ seen'[s] = IF m \in Nodes \ seen[s] THEN seen[s] \cup {m} ELSE seen[s]
            /\ spc'[s] = "live" => inbox'[s] = Tail(inbox[s])
        BY <1>0, <2>4, MessageEffect
      <3>2. ToSet(inbox[s]) = ToSet(Tail(inbox[s])) \cup {m}
        BY <1>0, <3>1, TailFacts
      <3> QED
        BY <1>0, <2>0, <3>1, <3>2 DEF NotLost
    <2> QED
      BY <1>3, <2>1, <2>2, <2>3, <2>4 DEF StreamMoves, StreamStep
  <1>4. StorePublish => Publishes
    BY DEF StorePublish, Publishes, taskVars, graphVars
  <1> QED
    BY <1>1, <1>2, <1>3, <1>4, StepKinds

-----------------------------------------------------------------------------
(* The inductive invariant and what it says.                               *)

LEMMA IInvParts == IInv <=> TaskIInv /\ VerdictInv /\ StreamSideInv
  BY DEF IInv, TaskSideInv, TaskIInv, TypeInv

LEMMA StreamSideInit == Init => StreamSideInv
  <1> SUFFICES ASSUME Init, NEW s \in Streams
               PROVE  Idle(s) /\ Pending(s) /\ SentSoFar(s) /\ Unread(s) /\ NotLost(s)
    BY DEF StreamSideInv
  <1>1. /\ spc[s] = "closed" /\ ~subscribed[s] /\ inbox[s] = <<>> /\ seen[s] = {}
        /\ sent[s] = <<>> /\ pulled = <<>>
    BY DEF Init
  <1>2. ~Told(s) /\ Shown(s) = pulled
    BY <1>1 DEF Told, Shown
  <1>3. Idle(s) /\ Pending(s) /\ Unread(s) /\ NotLost(s)
    BY <1>1 DEF Idle, IsOpen, Pending, Unread, NotLost
  <1>4. SentSoFar(s)
    BY <1>1, <1>2, PrefixWhole DEF SentSoFar
  <1> QED
    BY <1>3, <1>4

LEMMA IInvInit == Init => IInv
  BY TaskIInvInit, VerdictInit, StreamSideInit, IInvParts

LEMMA IInvNext == AckInTime /\ IInv /\ [Next]_vars => IInv'
  <1> SUFFICES ASSUME AckInTime, IInv, [Next]_vars
               PROVE  TaskIInv' /\ VerdictInv' /\ StreamSideInv'
    BY DEF IInv, TaskSideInv, TaskIInv, TypeInv
  <1>1. TaskIInv /\ VerdictInv /\ StreamSideInv /\ TypeInv
    BY IInvParts DEF TaskIInv
  <1>2. TaskIInv' /\ VerdictInv'
    BY <1>1, TaskIInvNext, VerdictNext
  <1>3. StreamSideInv'
    <2> SUFFICES ASSUME NEW s \in Streams
                 PROVE  /\ Idle(s)' /\ Pending(s)' /\ SentSoFar(s)' /\ Unread(s)'
                        /\ NotLost(s)'
      BY DEF StreamSideInv
    <2>1. Idle(s) /\ Pending(s) /\ SentSoFar(s) /\ Unread(s) /\ NotLost(s)
      BY <1>1 DEF StreamSideInv
    <2>2. Idle(s)'
      BY <1>1, <2>1, IdleNext
    <2>3. Pending(s)'
      BY <1>1, <2>1, PendingNext
    <2>4. SentSoFar(s)'
      BY <1>1, <2>1, SentNext
    <2>5. Unread(s)'
      BY <1>1, <2>1, UnreadNext
    <2>6. NotLost(s)'
      BY <1>1, <2>1, NotLostNext
    <2> QED
      BY <2>2, <2>3, <2>4, <2>5, <2>6
  <1> QED
    BY <1>2, <1>3

\* IInv, with all it says of the streams, is an invariant as long as SUBSCRIBE is
\* acknowledged before the generator reads its snapshot (events.py:40-67).
THEOREM StreamInvariant ==
  ASSUME AckInTime
  PROVE  Spec => []IInv
  <1>1. IInv /\ [Next]_vars => IInv'
    BY IInvNext
  <1> QED
    BY <1>1, IInvInit, PTL DEF Spec

\* NoEventLost: what is published between the subscription and the snapshot, or
\* after it, is in the snapshot or in the stream's inbox.
THEOREM NothingIsLost ==
  ASSUME AckInTime
  PROVE  Spec => []NoEventLost
  <1>1. IInv => NoEventLost
    BY DEF IInv, StreamSideInv, NotLost, NoEventLost
  <1>2. Spec => []IInv
    BY StreamInvariant
  <1> QED
    BY <1>1, <1>2, PTL

\* StreamIsPrefix: a stream shows the graph's nodes in the graph's own order,
\* none skipped and none twice.
THEOREM PrefixIsShown ==
  ASSUME AckInTime
  PROVE  Spec => []StreamIsPrefix
  <1>1. IInv => StreamIsPrefix
    <2> SUFFICES ASSUME IInv, NEW s \in Streams PROVE IsPrefix(Shown(s), pulled)
      BY DEF StreamIsPrefix
    <2>1. pulled \in Seq(Messages) /\ Shown(s) \in Seq(Messages)
      BY ShownType, MessageSeqs DEF IInv, TypeOK
    <2>2. PrefixOf(Shown(s), pulled)
      BY DEF IInv, StreamSideInv, SentSoFar
    <2> QED
      BY <2>1, <2>2, PrefixIsSubSeq
  <1>2. Spec => []IInv
    BY StreamInvariant
  <1> QED
    BY <1>1, <1>2, PTL

\* CompletedStreamIsComplete: before "completed" a stream has shown every node.
THEOREM CompletedIsComplete ==
  ASSUME AckInTime
  PROVE  Spec => []CompletedStreamIsComplete
  <1>1. IInv => CompletedStreamIsComplete
    <2> SUFFICES ASSUME IInv, NEW s \in Streams, "completed" \in ToSet(sent[s])
                 PROVE  ToSet(Shown(s)) = Nodes
      BY DEF CompletedStreamIsComplete
    <2>1. /\ TaskIInv /\ VerdictInv /\ SentSoFar(s) /\ TypeOK /\ TaskInv /\ GraphInv
          /\ pulled \in Seq(Nodes) /\ pulled \in Seq(Messages)
          /\ Shown(s) \in Seq(Messages) /\ sent[s] \in Seq(Messages)
      BY IInvParts, ShownType, MessageSeqs DEF IInv, TaskIInv, TypeInv, TypeOK, StreamSideInv
    <2>2. ToSet(pulled) = Nodes
      <3>1. "guardrail" \in ToSet(pulled)
        BY <2>1 DEF VerdictInv, Terminal, MarkOf, TaskInv
      <3> QED
        BY <2>1, <3>1, ToSetOfSeq DEF GraphInv, Finished, Nodes
    <2>3. Told(s) /\ Last(sent[s]) = "completed" /\ Shown(s) = Front(sent[s])
      <3>1. "completed" \notin ToSet(Shown(s))
        <4>1. ToSet(Shown(s)) \subseteq ToSet(pulled)
          BY <2>1, PrefixTypes DEF SentSoFar
        <4> QED
          BY <2>2, <4>1, Names DEF Statuses, Terminal
      <3>2. sent[s] # <<>> /\ Told(s)
        BY <3>1 DEF Shown, ToSet
      <3> QED
        BY <2>1, <3>1, <3>2, FrontFacts DEF Shown
    <2>4. sent[s] # <<>> /\ Len(Shown(s)) = Len(pulled)
      <3>1. sent[s] # <<>> /\ Len(sent[s]) = Len(pulled) + 1
        BY <2>1, <2>3 DEF SentSoFar, Told
      <3>2. Len(Front(sent[s])) = Len(sent[s]) - 1 /\ Len(pulled) \in Nat
        BY <2>1, <3>1, FrontFacts, LenProperties
      <3> QED
        BY <2>3, <3>1, <3>2
    <2>5. ToSet(Shown(s)) = {pulled[i] : i \in 1..Len(pulled)}
      BY <2>1, <2>4, PrefixTypes DEF SentSoFar
    <2> QED
      BY <2>1, <2>2, <2>5, ToSetOfSeq
  <1>2. Spec => []IInv
    BY StreamInvariant
  <1> QED
    BY <1>1, <1>2, PTL

-----------------------------------------------------------------------------
(* Order, however late the acknowledgement.  A stream that reads its       *)
(* snapshot before it is subscribed may miss nodes; an invariant of its    *)
(* own, which asks for no prefix, shows that the rest is still in order.   *)

\* The log has m before n.
InOrder(log, m, n) == \E a, b \in 1..Len(log) : a < b /\ m = log[a] /\ n = log[b]

Increasing(log, events) ==
  /\ ToSet(events) \subseteq ToSet(log)
  /\ \A i, j \in 1..Len(events) : i < j => InOrder(log, events[i], events[j])

\* Copies of a message may follow each other.
Queued(log, messages) ==
  /\ ToSet(messages) \cap Nodes \subseteq ToSet(log)
  /\ \A i, j \in 1..Len(messages) :
       i < j /\ messages[i] \in Nodes /\ messages[j] \in Nodes =>
         messages[i] = messages[j] \/ InOrder(log, messages[i], messages[j])

\* What a live stream would show next comes after all it has shown.
Ahead(log, known, messages) ==
  \A m \in known, n \in (ToSet(messages) \cap Nodes) \ known : InOrder(log, m, n)

Ordered(s) ==
  /\ Told(s) => spc[s] = "ended"
  /\ Increasing(pulled, Shown(s))
  /\ Queued(pulled, inbox[s])
  /\ spc[s] = "live" => /\ seen[s] = ToSet(sent[s])
                        /\ Ahead(pulled, seen[s], inbox[s])

OrderInv == \A s \in Streams : Ordered(s)

\* A longer log orders no less.
LEMMA InOrderLonger ==
  ASSUME NEW S, NEW log \in Seq(S), NEW e \in S
  PROVE  /\ ToSet(log) \subseteq ToSet(Append(log, e))
         /\ \A m, n : InOrder(log, m, n) => InOrder(Append(log, e), m, n)
  <1>1. /\ Len(log) \in Nat /\ Len(Append(log, e)) = Len(log) + 1
        /\ ToSet(log) \subseteq ToSet(Append(log, e))
        /\ \A i \in 1..Len(log) : Append(log, e)[i] = log[i]
    BY AppendFacts, LenProperties
  <1>2. \A i \in 1..Len(log) : i \in 1..Len(Append(log, e))
    BY <1>1
  <1> QED
    BY <1>1, <1>2 DEF InOrder

\* Everything in the log is before its last element, or is that.
LEMMA InOrderLast ==
  ASSUME NEW S, NEW log \in Seq(S), log # <<>>, NEW m \in ToSet(log)
  PROVE  m = Last(log) \/ InOrder(log, m, Last(log))
  <1>0. Len(log) \in Nat \ {0} /\ Last(log) = log[Len(log)]
    BY FrontFacts
  <1>1. ToSet(log) = {log[i] : i \in 1..Len(log)}
    BY ToSetOfSeq
  <1>2. PICK i \in 1..Len(log) : m = log[i]
    BY <1>1
  <1>3. i = Len(log) \/ i < Len(log)
    BY <1>0
  <1> QED
    BY <1>0, <1>2, <1>3 DEF InOrder

LEMMA IncreasingPrefix ==
  ASSUME NEW S, NEW s \in Seq(S), NEW log \in Seq(S), PrefixOf(s, log)
  PROVE  Increasing(log, s)
  <1>1. ToSet(s) \subseteq ToSet(log) /\ \A i \in 1..Len(s) : i \in 1..Len(log) /\ s[i] = log[i]
    BY PrefixTypes
  <1> QED
    BY <1>1 DEF Increasing, InOrder

LEMMA IncreasingAppend ==
  ASSUME NEW S, NEW s \in Seq(S), NEW log, NEW e \in S, Increasing(log, s),
         e \in ToSet(log), \A m \in ToSet(s) : InOrder(log, m, e)
  PROVE  Increasing(log, Append(s, e))
  <1>1. /\ Len(s) \in Nat /\ Len(Append(s, e)) = Len(s) + 1
        /\ \A i \in 1..Len(s) : Append(s, e)[i] = s[i]
        /\ Append(s, e)[Len(s) + 1] = e
        /\ ToSet(Append(s, e)) = ToSet(s) \cup {e}
    BY AppendFacts, LenProperties
  <1>2. ASSUME NEW i \in 1..(Len(s) + 1), NEW j \in 1..(Len(s) + 1), i < j
        PROVE  InOrder(log, Append(s, e)[i], Append(s, e)[j])
    <2>1. i \in 1..Len(s) /\ (j \in 1..Len(s) \/ j = Len(s) + 1)
      BY <1>1, <1>2
    <2>2. s[i] \in ToSet(s)
      BY <2>1, ToSetOfSeq
    <2> QED
      BY <1>1, <1>2, <2>1, <2>2 DEF Increasing
  <1> QED
    BY <1>1, <1>2 DEF Increasing

LEMMA QueuedTail ==
  ASSUME NEW S, NEW q \in Seq(S), NEW log, q # <<>>, Queued(log, q)
  PROVE  /\ Queued(log, Tail(q))
         /\ \A n \in ToSet(Tail(q)) \cap Nodes :
              Head(q) \in Nodes => Head(q) = n \/ InOrder(log, Head(q), n)
  <1>1. /\ Len(q) \in Nat \ {0} /\ Head(q) = q[1] /\ Tail(q) \in Seq(S)
        /\ Len(Tail(q)) = Len(q) - 1
        /\ \A i \in 1..(Len(q) - 1) : Tail(q)[i] = q[i + 1]
        /\ ToSet(Tail(q)) \subseteq ToSet(q)
    BY TailFacts
  <1>2. /\ \A i \in 1..(Len(q) - 1) : i + 1 \in 1..Len(q) /\ 1 < i + 1
        /\ \A i, j \in 1..(Len(q) - 1) : i < j => i + 1 < j + 1
        /\ 1 \in 1..Len(q)
    BY <1>1
  <1>3. Queued(log, Tail(q))
    <2>1. ASSUME NEW i \in 1..(Len(q) - 1), NEW j \in 1..(Len(q) - 1), i < j,
                 Tail(q)[i] \in Nodes, Tail(q)[j] \in Nodes
          PROVE  Tail(q)[i] = Tail(q)[j] \/ InOrder(log, Tail(q)[i], Tail(q)[j])
      BY <1>1, <1>2, <2>1 DEF Queued
    <2> QED
      BY <1>1, <2>1 DEF Queued
  <1>4. ASSUME NEW n \in ToSet(Tail(q)) \cap Nodes, Head(q) \in Nodes
        PROVE  Head(q) = n \/ InOrder(log, Head(q), n)
    <2>0. ToSet(Tail(q)) = {Tail(q)[i] : i \in 1..Len(Tail(q))}
      <3>1. \A t \in Seq(S) : ToSet(t) = {t[i] : i \in 1..Len(t)}
        BY ToSetOfSeq
      <3> QED
        BY <1>1, <3>1
    <2>1. PICK i \in 1..(Len(q) - 1) : n = Tail(q)[i]
      BY <1>1, <2>0
    <2> QED
      BY <1>1, <1>2, <1>4, <2>1 DEF Queued
  <1> QED
    BY <1>3, <1>4

\* Publishing the last node of the log, once or twice, keeps a queue in order.
LEMMA QueuedRepeat ==
  ASSUME NEW S, NEW log \in Seq(S), NEW q \in Seq(S), NEW r \in Seq(S), NEW e \in S,
         \A i \in 1..Len(r) : r[i] = e, Queued(log, q),
         e \in Nodes => log # <<>> /\ e = Last(log)
  PROVE  Queued(log, q \o r)
  <1>1. /\ Len(q) \in Nat /\ Len(r) \in Nat
        /\ Len(q \o r) = Len(q) + Len(r)
        /\ \A i \in 1..Len(q) : (q \o r)[i] = q[i] /\ q[i] \in ToSet(q)
        /\ \A i \in (Len(q) + 1)..(Len(q) + Len(r)) : (q \o r)[i] = e
        /\ ToSet(q \o r) \subseteq ToSet(q) \cup {e}
    BY RepeatFacts, ToSetOfSeq
  <1>2. e \in Nodes => e \in ToSet(log)
    BY FrontFacts
  <1>3. ASSUME NEW i \in 1..(Len(q) + Len(r)), NEW j \in 1..(Len(q) + Len(r)), i < j,
               (q \o r)[i] \in Nodes, (q \o r)[j] \in Nodes
        PROVE  (q \o r)[i] = (q \o r)[j] \/ InOrder(log, (q \o r)[i], (q \o r)[j])
    <2>1. CASE j \in 1..Len(q)
      <3>1. i \in 1..Len(q)
        BY <1>1, <1>3, <2>1
      <3> QED
        BY <1>1, <1>3, <2>1, <3>1 DEF Queued
    <2>2. CASE j \in (Len(q) + 1)..(Len(q) + Len(r))
      <3>1. i \in 1..Len(q) \/ i \in (Len(q) + 1)..(Len(q) + Len(r))
        BY <1>1
      <3>2. (q \o r)[i] \in ToSet(log)
        BY <1>1, <1>2, <1>3, <3>1 DEF Queued
      <3>3. (q \o r)[j] = Last(log) /\ log # <<>>
        BY <1>1, <1>3, <2>2
      <3> QED
        BY <3>2, <3>3, InOrderLast
    <2> QED
      BY <1>1, <2>1, <2>2
  <1> QED
    BY <1>1, <1>2, <1>3 DEF Queued

LEMMA OrderedSnapshot ==
  ASSUME TaskIInv, NEW s \in Streams, Ordered(s), ReadSnapshot(s)
  PROVE  Ordered(s)'
  <1>0. /\ TypeOK /\ pulled' = pulled /\ pulled \in Seq(Nodes) /\ pulled \in Seq(Messages)
        /\ job.progress \in Seq(Nodes) /\ job.progress \in Seq(Messages)
        /\ PrefixOf(job.progress, pulled)
    BY ReplayFacts, MessageSeqs DEF TaskIInv, TypeInv, TypeOK, ReadSnapshot, graphVars
  <1>1. Increasing(pulled, job.progress)
    BY <1>0, IncreasingPrefix
  <1>2. Queued(pulled, inbox'[s])
    <2>1. Queued(pulled, <<>>)
      BY DEF Queued, ToSet
    <2> QED
      BY <1>0, <2>1, SnapshotEffect DEF Ordered
  <1>3. CASE job.status \in Terminal
    <2>1. Told(s)' /\ Shown(s)' = job.progress /\ spc'[s] = "ended"
      BY <1>0, <1>3, SnapshotEffect, ShownAfter, MessageSeqs
    <2> QED
      BY <1>0, <1>1, <1>2, <2>1 DEF Ordered
  <1>4. CASE job.status \notin Terminal
    <2>1. sent'[s] = job.progress /\ seen'[s] = ToSet(job.progress)
      BY <1>0, <1>4, SnapshotEffect
    <2>2. ~Told(s)' /\ Shown(s)' = job.progress
      BY <1>0, <2>1, ReplayNotTold
    <2>3. ASSUME spc'[s] = "live" PROVE Ahead(pulled, ToSet(job.progress), inbox[s])
      <3> SUFFICES ASSUME NEW m \in ToSet(job.progress),
                          NEW n \in ToSet(inbox[s]) \cap Nodes, n \notin ToSet(job.progress)
                   PROVE  InOrder(pulled, m, n)
        BY DEF Ahead
      <3>1. job # NoJob
        BY <1>0, <2>3, SnapshotEffect
      <3>2. n \in ToSet(pulled) /\ m \in ToSet(pulled)
        BY <1>0, PrefixTypes DEF Ordered, Queued
      <3>3. job.progress # pulled
        BY <3>2
      <3>4. /\ pulled # <<>> /\ job.progress = Front(pulled)
            /\ ToSet(pulled) = ToSet(Front(pulled)) \cup {Last(pulled)}
        BY <1>0, <3>1, <3>3, ReplayFacts, FrontFacts
      <3>5. n = Last(pulled)
        BY <3>2, <3>4
      <3> QED
        BY <1>0, <3>2, <3>4, <3>5, InOrderLast
    <2>4. spc'[s] = "live" => inbox'[s] = inbox[s]
      BY <1>0, SnapshotEffect
    <2> QED
      BY <1>0, <1>1, <1>2, <2>1, <2>2, <2>3, <2>4 DEF Ordered
  <1> QED
    BY <1>3, <1>4

LEMMA OrderedMessage ==
  ASSUME TypeInv, NEW s \in Streams, Ordered(s), ReadMessage(s)
  PROVE  Ordered(s)'
  <1> DEFINE m == Head(inbox[s])
  <1>0. /\ TypeOK /\ pulled' = pulled /\ inbox[s] # <<>>
        /\ sent[s] \in Seq(Messages) /\ inbox[s] \in Seq(Messages)
    BY DEF TypeInv, TypeOK, ReadMessage, graphVars
  <1>1. /\ spc[s] = "live" /\ ~Told(s) /\ Shown(s) = sent[s]
        /\ Increasing(pulled, sent[s]) /\ Queued(pulled, inbox[s])
        /\ seen[s] = ToSet(sent[s]) /\ Ahead(pulled, seen[s], inbox[s])
    BY DEF ReadMessage, Ordered, Shown
  <1>2. /\ m \in Messages /\ ToSet(inbox[s]) = ToSet(Tail(inbox[s])) \cup {m}
        /\ Queued(pulled, Tail(inbox[s])) /\ Queued(pulled, <<>>)
        /\ \A n \in ToSet(Tail(inbox[s])) \cap Nodes :
             m \in Nodes => m = n \/ InOrder(pulled, m, n)
    <2>1. Queued(pulled, <<>>)
      BY DEF Queued, ToSet
    <2> QED
      BY <1>0, <1>1, <2>1, TailFacts, QueuedTail
  <1>3. CASE m \in Nodes \ seen[s]
    <2>1. /\ sent'[s] = Append(sent[s], m) /\ seen'[s] = seen[s] \cup {m}
          /\ m \notin Terminal /\ inbox'[s] = Tail(inbox[s])
      BY <1>0, <1>3, MessageEffect, Names
    <2>2. ~Told(s)' /\ Shown(s)' = Append(sent[s], m)
      BY <1>0, <1>2, <2>1, ShownAfter
    <2>3. ToSet(sent'[s]) = ToSet(sent[s]) \cup {m}
      BY <1>0, <1>2, <2>1, AppendFacts
    <2>4. m \in ToSet(pulled) /\ \A k \in ToSet(sent[s]) : InOrder(pulled, k, m)
      BY <1>1, <1>2, <1>3 DEF Queued, Ahead
    <2>5. Increasing(pulled, Append(sent[s], m))
      BY <1>0, <1>1, <1>2, <2>4, IncreasingAppend
    <2>6. Ahead(pulled, seen[s] \cup {m}, Tail(inbox[s]))
      BY <1>1, <1>2, <1>3 DEF Ahead
    <2> QED
      BY <1>0, <1>1, <1>2, <2>1, <2>2, <2>3, <2>5, <2>6 DEF Ordered
  <1>4. CASE m \in Terminal
    <2>1. sent'[s] = Append(sent[s], m) /\ spc'[s] = "ended" /\ inbox'[s] = <<>>
      BY <1>0, <1>4, MessageEffect
    <2>2. Told(s)' /\ Shown(s)' = sent[s]
      BY <1>0, <1>2, <1>4, <2>1, ShownAfter
    <2> QED
      BY <1>0, <1>1, <1>2, <2>1, <2>2 DEF Ordered
  <1>5. CASE m \notin (Nodes \ seen[s]) \cup Terminal
    <2>1. /\ sent'[s] = sent[s] /\ seen'[s] = seen[s] /\ spc'[s] = "live"
          /\ inbox'[s] = Tail(inbox[s])
      BY <1>0, <1>5, MessageEffect
    <2>2. Told(s)' = Told(s) /\ Shown(s)' = Shown(s)
      BY <2>1 DEF Told, Shown
    <2>3. Ahead(pulled, seen[s], Tail(inbox[s]))
      BY <1>1, <1>2 DEF Ahead
    <2> QED
      BY <1>0, <1>1, <1>2, <2>1, <2>2, <2>3 DEF Ordered
  <1> QED
    BY <1>3, <1>4, <1>5

LEMMA OrderedPublish ==
  ASSUME TaskIInv, NEW s \in Streams, Ordered(s), Publishes
  PROVE  Ordered(s)'
  <1>0. /\ TypeInv /\ pulled \in Seq(Nodes) /\ pulled \in Seq(Messages)
        /\ inbox[s] \in Seq(Messages) /\ sent[s] \in Seq(Messages)
        /\ pulled' = pulled /\ spc' = spc /\ seen' = seen /\ sent' = sent
    BY MessageSeqs DEF TaskIInv, TypeInv, TypeOK, Publishes
  <1>1. Told(s)' = Told(s) /\ Shown(s)' = Shown(s)
    BY <1>0 DEF Told, Shown
  <1>2. Announcement \in Messages /\ ToSet(inbox'[s]) \subseteq ToSet(inbox[s]) \cup {Announcement}
    BY <1>0, BroadcastEffect
  <1>3. Announcement \in Nodes => pulled # <<>> /\ Announcement = Last(pulled)
    BY PublishedIsRecorded
  <1>4. Queued(pulled, inbox'[s])
    <2>1. PICK n \in {1, 2} :
            /\ Copies(n) \in Seq(Messages) /\ Len(Copies(n)) = n
            /\ \A i \in 1..n : Copies(n)[i] = Announcement
            /\ inbox'[s] = IF subscribed[s] THEN inbox[s] \o Copies(n) ELSE inbox[s]
      BY <1>0, BroadcastEffect
    <2>2. \A i \in 1..Len(Copies(n)) : Copies(n)[i] = Announcement
      BY <2>1
    <2>3. Queued(pulled, inbox[s])
      BY DEF Ordered
    <2>4. Queued(pulled, inbox[s] \o Copies(n))
      BY <1>0, <1>2, <1>3, <2>1, <2>2, <2>3, QueuedRepeat
    <2> QED
      BY <2>1, <2>3, <2>4
  <1>5. ASSUME spc[s] = "live" PROVE Ahead(pulled, seen[s], inbox'[s])
    <2>1. seen[s] \subseteq ToSet(pulled) /\ Ahead(pulled, seen[s], inbox[s])
      BY <1>5 DEF Ordered, Increasing, Shown
    <2>2. ASSUME Announcement \in Nodes \ seen[s], NEW m \in seen[s]
          PROVE  InOrder(pulled, m, Announcement)
      BY <1>0, <1>3, <2>1, <2>2, InOrderLast
    <2> QED
      BY <1>2, <2>1, <2>2 DEF Ahead
  <1> QED
    BY <1>0, <1>1, <1>4, <1>5 DEF Ordered

LEMMA OrderedNext ==
  ASSUME TaskIInv, NEW s \in Streams, Ordered(s), [Next]_vars
  PROVE  Ordered(s)'
  <1>0. TypeInv /\ TypeOK /\ pulled \in Seq(Nodes)
    BY DEF TaskIInv, TypeInv, TypeOK
  <1>1. CASE Elsewhere
    <2>1. UNCHANGED <<spc, inbox, seen, sent>>
      BY <1>1 DEF Elsewhere, streamVars
    <2>2. Told(s)' = Told(s) /\ Shown(s)' = Shown(s)
      BY <2>1 DEF Told, Shown
    <2>3. /\ ToSet(pulled) \subseteq ToSet(pulled')
          /\ \A m, n : InOrder(pulled, m, n) => InOrder(pulled', m, n)
      BY <1>0, <1>1, PulledGrows, InOrderLonger
    <2> QED
      BY <2>1, <2>2, <2>3 DEF Ordered, Increasing, Queued, Ahead
  <1>2. CASE Publishes
    BY <1>2, OrderedPublish
  <1>3. ASSUME NEW r \in Streams, StreamMoves(r)
        PROVE  Ordered(s)'
    <2>0. pulled' = pulled
      BY <1>0, <1>3, StreamFrame
    <2>1. CASE r # s
      <3>1. Told(s)' = Told(s) /\ Shown(s)' = Shown(s)
        BY <1>0, <1>3, <2>1, StreamFrame DEF Told, Shown
      <3> QED
        BY <1>0, <1>3, <2>0, <2>1, <3>1, StreamFrame DEF Ordered
    <2>2. CASE OpenStream(s) \/ RedisSubscribes(s) \/ ReadAck(s) \/ DropStream(s)
      <3>1. /\ inbox'[s] \in {inbox[s], <<>>} /\ seen'[s] = seen[s] /\ sent'[s] = sent[s]
            /\ spc'[s] = "live" => spc[s] = "live" /\ inbox'[s] = inbox[s]
            /\ spc[s] # "ended"
        BY <1>0, <2>2, ConnectEffect, CloseEffect DEF IsOpen
      <3>2. Told(s)' = Told(s) /\ Shown(s)' = Shown(s)
        BY <3>1 DEF Told, Shown
      <3>3. Queued(pulled, <<>>)
        BY DEF Queued, ToSet
      <3> QED
        BY <2>0, <3>1, <3>2, <3>3 DEF Ordered
    <2>3. CASE ReadSnapshot(s)
      BY <2>3, OrderedSnapshot
    <2>4. CASE ReadMessage(s)
      BY <1>0, <2>4, OrderedMessage
    <2> QED
      BY <1>3, <2>1, <2>2, <2>3, <2>4 DEF StreamMoves, StreamStep
  <1> QED
    BY <1>1, <1>2, <1>3, StepKinds

LEMMA OrderedInit == Init => OrderInv
  <1> SUFFICES ASSUME Init, NEW s \in Streams PROVE Ordered(s)
    BY DEF OrderInv
  <1>1. spc[s] = "closed" /\ inbox[s] = <<>> /\ sent[s] = <<>> /\ pulled = <<>>
    BY DEF Init
  <1>2. ~Told(s) /\ Shown(s) = <<>> /\ ToSet(<<>>) = {} /\ Len(<<>>) = 0
    BY <1>1 DEF Told, Shown, ToSet
  <1> QED
    BY <1>1, <1>2 DEF Ordered, Increasing, Queued

\* OrderInv: whatever a stream misses when it is subscribed too late, it shows and
\* is about to show nodes in the order the task got them.
THEOREM OrderInvariant == Spec => []OrderInv
  <1>1. TaskIInv /\ OrderInv /\ [Next]_vars => OrderInv'
    BY OrderedNext DEF OrderInv
  <1> QED
    BY <1>1, OrderedInit, TaskInvariant, PTL DEF Spec

\* StreamInOrder: no node is shown twice or against the graph's order, and nothing
\* follows a status, under every fault, a late acknowledgement included.
THEOREM StreamsAreInOrder == Spec => []StreamInOrder
  <1>1. TypeOK /\ OrderInv => StreamInOrder
    <2> SUFFICES ASSUME TypeOK, OrderInv, NEW s \in Streams,
                        NEW i \in DOMAIN sent[s], NEW j \in DOMAIN sent[s], i < j
                 PROVE  \E a, b \in DOMAIN pulled :
                          /\ sent[s][i] = pulled[a]
                          /\ sent[s][j] \in Nodes => a < b /\ sent[s][j] = pulled[b]
      BY DEF StreamInOrder
    <2>1. /\ Increasing(pulled, Shown(s))
          /\ DOMAIN pulled = 1..Len(pulled) /\ ToSet(pulled) = {pulled[a] : a \in 1..Len(pulled)}
          /\ sent[s] \in Seq(Messages) /\ Shown(s) \in Seq(Messages)
          /\ DOMAIN sent[s] = 1..Len(sent[s]) /\ Len(sent[s]) \in Nat
          /\ Len(Shown(s)) \in Nat
      BY ToSetOfSeq, ShownType DEF OrderInv, Ordered, TypeOK
    <2>2. CASE j \in 1..Len(Shown(s)) /\ Shown(s)[i] = sent[s][i] /\ Shown(s)[j] = sent[s][j]
      <3>1. i \in 1..Len(Shown(s))
        BY <2>1, <2>2
      <3>2. InOrder(pulled, sent[s][i], sent[s][j])
        BY <2>1, <2>2, <3>1 DEF Increasing
      <3> QED
        BY <2>1, <3>2 DEF InOrder
    <2>3. CASE Told(s) /\ j = Len(sent[s])
      <3>1. /\ Shown(s) = Front(sent[s]) /\ sent[s] # <<>> /\ sent[s][j] \in Terminal
            /\ i \in 1..(Len(sent[s]) - 1)
        BY <2>1, <2>3, FrontFacts DEF Told, Shown
      <3>2. Shown(s)[i] = sent[s][i] /\ i \in 1..Len(Shown(s))
        BY <2>1, <3>1, FrontFacts
      <3>3. sent[s][i] \in ToSet(pulled)
        <4>1. ToSet(Shown(s)) = {Shown(s)[k] : k \in 1..Len(Shown(s))}
          BY <2>1, ToSetOfSeq
        <4> QED
          BY <2>1, <3>2, <4>1 DEF Increasing
      <3>4. sent[s][j] \notin Nodes
        BY <3>1, Names
      <3> QED
        BY <2>1, <3>3, <3>4
    <2>4. CASE Told(s) /\ j # Len(sent[s])
      <3>1. /\ Shown(s) = Front(sent[s]) /\ sent[s] # <<>>
            /\ i \in 1..(Len(sent[s]) - 1) /\ j \in 1..(Len(sent[s]) - 1)
        BY <2>1, <2>4 DEF Told, Shown
      <3> QED
        BY <2>1, <2>2, <3>1, FrontFacts
    <2>5. CASE ~Told(s)
      <3>1. Shown(s) = sent[s]
        BY <2>5 DEF Shown
      <3> QED
        BY <2>1, <2>2, <3>1
    <2> QED
      BY <2>3, <2>4, <2>5
  <1> QED
    BY <1>1, TypeCorrect, OrderInvariant, PTL

-----------------------------------------------------------------------------
(* GraphRun.                                                               *)

LEMMA RunNames == Run!Nodes = Nodes /\ \A n \in Nodes : Run!WaitsFor(n) = Preds(n)
  BY DEF Run!Nodes, Nodes, Run!WaitsFor, Preds

LEMMA RunInit == Init => Run!Init
  <1>1. ToSet(<<>>) = {}
    BY DEF ToSet
  <1> QED
    BY <1>1 DEF Init, Run!Init, Finished

\* Guardrail is the last node there is.
LEMMA GuardrailLast == GraphInv /\ "guardrail" \in Finished => Nodes = Finished \cap Nodes
  BY DEF GraphInv, Finished, Nodes

LEMMA RunFinish ==
  ASSUME TypeInv, GraphInv, NEW n \in Nodes, NodeFinishes(n)
  PROVE  Run!Finish(n)
  <1>1. /\ n \in Nodes \ Finished /\ ~raised /\ raised' = raised
        /\ pulled' = pulled
        /\ ToSet(updates') = ToSet(updates) \cup {n}
    BY AppendFacts DEF NodeFinishes, Running, TypeInv, TypeOK
  <1>2. Finished' = Finished \cup {n}
    BY <1>1 DEF Finished
  <1>3. Preds(n) \subseteq Finished
    BY Names DEF NodeFinishes, Running, Preds, Finished, Nodes
  <1>4. ("guardrail" \in Finished') = (n = "guardrail")
    BY <1>1, <1>2, GuardrailLast
  <1> QED
    BY <1>1, <1>2, <1>3, <1>4, RunNames DEF Run!Finish

LEMMA RunRaise ==
  ASSUME GraphInv, NodeRaises
  PROVE  Run!Raise
  <1>1. Finished' = Finished /\ Finished # Nodes
    BY DEF NodeRaises, Finished, Running
  <1> QED
    BY <1>1, RunNames DEF NodeRaises, Run!Raise

\* Handing an update to the task is no step of the graph.
LEMMA RunPull ==
  ASSUME TypeInv, PullUpdate
  PROVE  UNCHANGED Run!vars
  <1>1. /\ Head(updates) \in Nodes
        /\ ToSet(updates) = ToSet(Tail(updates)) \cup {Head(updates)}
    BY TailFacts DEF PullUpdate, TypeInv, TypeOK
  <1>2. ToSet(pulled') = ToSet(pulled) \cup {Head(updates)}
    BY <1>1, AppendFacts DEF PullUpdate, TypeInv, TypeOK
  <1>3. Finished' = Finished
    BY <1>1, <1>2 DEF PullUpdate, Finished
  <1> QED
    BY <1>3 DEF PullUpdate, Run!vars

LEMMA RunNext == TypeInv /\ GraphInv /\ [Next]_vars => [Run!Next]_Run!vars
  <1> SUFFICES ASSUME TypeInv, GraphInv, [Next]_vars PROVE [Run!Next]_Run!vars
    OBVIOUS
  <1>1. CASE \E n \in Nodes : NodeFinishes(n)
    BY <1>1, RunFinish, RunNames DEF Run!Next
  <1>2. CASE NodeRaises
    BY <1>2, RunRaise DEF Run!Next
  <1>3. CASE PullUpdate
    BY <1>3, RunPull
  <1>4. CASE UNCHANGED graphVars
    BY <1>4 DEF graphVars, Run!vars, Finished
  <1> QED
    BY <1>1, <1>2, <1>3, <1>4
    DEF Next, TaskStep, NodeStep, Environment, StreamStep, vars, graphVars, StoreGet,
        StoreSave, StorePublish, RunAudit, GraphRaises, GraphEnds, RedisRaises, Crash,
        RecordLost, OpenStream, RedisSubscribes, ReadAck, ReadSnapshot, ReadMessage,
        DropStream

\* ImplementsGraphRun: whatever fails around it, the task follows a run of the
\* graph in which nodes finish in an order the edges allow, none after one raised,
\* and there is a report exactly when guardrail has finished (runner.py:24-43).
THEOREM JobRunsGraph == Spec => ImplementsGraphRun
  <1>1. TaskIInv => TypeInv /\ GraphInv
    BY DEF TaskIInv
  <1> QED
    BY <1>1, RunInit, RunNext, TaskInvariant, PTL DEF Spec, ImplementsGraphRun, Run!Spec

-----------------------------------------------------------------------------
(* AuditFeed.                                                              *)

\* The verdict and what a stream has told, as AuditFeed sees them.
Verdict == CASE op = "mark_completed" -> "completed"
             [] op = "mark_failed"    -> "failed"
             [] OTHER                 -> "pending"
ToldVerdict(s) == IF Told(s) THEN Last(sent[s]) ELSE "pending"

LEMMA FeedToSet == \A q : Feed!ToSet(q) = ToSet(q)
  BY DEF ToSet, Feed!ToSet

LEMMA FeedInit == Init => Feed!Init
  <1> SUFFICES ASSUME Init PROVE Feed!Init
    OBVIOUS
  <1>1. pulled = <<>> /\ op = "create"
    BY DEF Init
  <1>2. \A s \in Streams : ~Told(s) /\ Shown(s) = <<>>
    BY DEF Init, Told, Shown
  <1> QED
    BY <1>1, <1>2 DEF Feed!Init

LEMMA FeedStutter ==
  ASSUME pulled' = pulled, Verdict' = Verdict,
         \A s \in Streams : Shown(s)' = Shown(s) /\ ToldVerdict(s)' = ToldVerdict(s)
  PROVE  UNCHANGED Feed!vars
  BY DEF Feed!vars, Verdict, ToldVerdict

\* No stream's client gets anything.
LEMMA SentUnchanged ==
  ASSUME sent' = sent
  PROVE  /\ \A s \in Streams : Shown(s)' = Shown(s) /\ ToldVerdict(s)' = ToldVerdict(s)
         /\ [s \in Streams |-> Shown(s)]' = [s \in Streams |-> Shown(s)]
         /\ [s \in Streams |-> ToldVerdict(s)]' = [s \in Streams |-> ToldVerdict(s)]
  <1>1. \A s \in Streams : Shown(s)' = Shown(s) /\ ToldVerdict(s)' = ToldVerdict(s)
    BY DEF Shown, Told, ToldVerdict
  <1> QED
    BY <1>1

LEMMA FeedRecord ==
  ASSUME TaskIInv, PullUpdate
  PROVE  Feed!Next
  <1>1. /\ Head(updates) \in Nodes /\ Head(updates) \notin ToSet(pulled)
        /\ pulled' = Append(pulled, Head(updates))
    BY TailFacts DEF PullUpdate, TaskIInv, TypeInv, TypeOK, GraphInv
  <1>2. Verdict = "pending" /\ Verdict' = "pending"
    BY DEF PullUpdate, Start, Verdict, TaskIInv, TypeInv, TaskInv
  <1>3. sent' = sent
    BY DEF PullUpdate, streamVars
  <1>4. Feed!Record(Head(updates))
    BY <1>1, <1>2, <1>3, FeedToSet, SentUnchanged DEF Feed!Record, Verdict, ToldVerdict
  <1> QED
    BY <1>1, <1>4 DEF Feed!Next

LEMMA FeedConclude ==
  ASSUME TaskIInv, sent' = sent, pulled' = pulled, NEW v \in Feed!Verdicts,
         op \notin {"mark_completed", "mark_failed"}, op' = MarkOf(v),
         v = "completed" => "guardrail" \in ToSet(pulled)
  PROVE  Feed!Next
  <1>1. Verdict = "pending" /\ Verdict' = v
    BY DEF Verdict, MarkOf, Feed!Verdicts
  <1>2. v = "completed" => ToSet(pulled) = Nodes
    BY ToSetOfSeq DEF TaskIInv, TypeInv, TypeOK, GraphInv, Finished, Nodes
  <1>3. Feed!Conclude(v)
    BY <1>1, <1>2, FeedToSet, SentUnchanged DEF Feed!Conclude, Verdict, ToldVerdict
  <1> QED
    BY <1>3 DEF Feed!Next

\* The task and its environment: another node, a verdict, or nothing to see.
LEMMA FeedTask ==
  ASSUME TaskIInv, Elsewhere \/ Publishes
  PROVE  [Feed!Next]_Feed!vars
  <1> USE DEF taskVars, graphVars, streamVars
  <1>0. TaskInv /\ op \in Operations /\ sent' = sent
    BY DEF TaskIInv, TypeInv, TypeOK, Elsewhere, Publishes
  <1>1. CASE PullUpdate
    BY <1>1, FeedRecord
  <1>2. CASE GraphRaises \/ GraphEnds
    <2>1. /\ pc = "pull" /\ pulled' = pulled
          /\ \/ op' = MarkOf("failed")
             \/ op' = MarkOf("completed") /\ "guardrail" \in ToSet(pulled)
      BY <1>2 DEF GraphRaises, GraphEnds, Start, MarkOf
    <2> QED
      BY <1>0, <2>1, FeedConclude DEF Feed!Verdicts, TaskInv
  <1>3. CASE RedisRaises /\ op = "append_progress"
    <2>1. pulled' = pulled /\ op' = MarkOf("failed")
      BY <1>3 DEF RedisRaises, Start, MarkOf
    <2> QED
      BY <1>0, <1>3, <2>1, FeedConclude DEF Feed!Verdicts
  <1>4. CASE /\ pulled' = pulled
             /\ op' = op \/ (op = "create" /\ op' = "mark_running")
    BY <1>0, <1>4, SentUnchanged, FeedStutter DEF Verdict
  <1>5. \/ PullUpdate \/ GraphRaises \/ GraphEnds
        \/ RedisRaises /\ op = "append_progress"
        \/ /\ pulled' = pulled
           /\ op' = op \/ (op = "create" /\ op' = "mark_running")
    BY <1>0 DEF Elsewhere, Publishes, TaskStep, NodeStep, Environment, StoreGet, StoreSave,
                StorePublish, RunAudit, Start, NodeFinishes, NodeRaises, RedisRaises, Crash,
                RecordLost, TaskInv, vars
  <1> QED
    BY <1>1, <1>2, <1>3, <1>4, <1>5

\* A stream's client gets more of the log, or the verdict.
LEMMA FeedDeliver ==
  ASSUME pulled' = pulled, Verdict' = Verdict, NEW s \in Streams,
         \A r \in Streams \ {s} :
           Shown(r)' = Shown(r) /\ ToldVerdict(r)' = ToldVerdict(r),
         ToldVerdict(s) = "pending", ToldVerdict(s)' \in {"pending", Verdict},
         ToldVerdict(s)' \in Feed!Verdicts \cup {"pending"},
         NEW n \in 0..Len(pulled), Len(Shown(s)) <= n,
         Shown(s)' = SubSeq(pulled, 1, n),
         ToldVerdict(s)' = "completed" => n = Len(pulled)
  PROVE  Feed!Next
  <1> DEFINE v == ToldVerdict(s)'
  <1>1. Feed!Deliver(s, n, v)
    <2>1. [r \in Streams |-> Shown(r)'] =
            [[r \in Streams |-> Shown(r)] EXCEPT ![s] = SubSeq(pulled, 1, n)]
      OBVIOUS
    <2>2. [r \in Streams |-> ToldVerdict(r)'] =
            [[r \in Streams |-> ToldVerdict(r)] EXCEPT ![s] = v]
      OBVIOUS
    <2> QED
      BY <2>1, <2>2 DEF Feed!Deliver, Verdict, ToldVerdict
  <1> QED
    BY <1>1 DEF Feed!Next

LEMMA FeedStream ==
  ASSUME AckInTime, IInv, IInv', NEW s \in Streams, StreamMoves(s)
  PROVE  [Feed!Next]_Feed!vars
  <1>0. /\ TypeOK /\ TypeOK' /\ VerdictInv' /\ Idle(s) /\ SentSoFar(s) /\ SentSoFar(s)'
        /\ sent[s] \in Seq(Messages) /\ pulled \in Seq(Messages)
        /\ Shown(s)' \in Seq(Messages)
    <2>1. TypeOK /\ TypeOK' /\ VerdictInv' /\ StreamSideInv /\ StreamSideInv'
      BY DEF IInv
    <2>2. Shown(s)' \in Seq(Messages)
      <3>1. sent'[s] \in Seq(Messages)
        BY <2>1 DEF TypeOK
      <3> QED
        BY <3>1, FrontFacts DEF Shown, Told
    <2> QED
      BY <2>1, <2>2, MessageSeqs DEF StreamSideInv, TypeOK
  <1>1. /\ pulled' = pulled /\ Verdict' = Verdict /\ op' = op
        /\ \A r \in Streams \ {s} :
             Shown(r)' = Shown(r) /\ ToldVerdict(r)' = ToldVerdict(r)
    BY <1>0, StreamFrame DEF Verdict, ToldVerdict, Shown, Told
  <1>2. CASE Told(s)
    <2>1. spc[s] = "ended"
      BY <1>0, <1>2 DEF SentSoFar
    <2>2. FALSE
      BY <2>1 DEF StreamMoves, StreamStep, OpenStream, RedisSubscribes, ReadAck,
                  ReadSnapshot, ReadMessage, DropStream, IsOpen
    <2> QED
      BY <2>2
  <1>3. CASE ~Told(s)
    <2> DEFINE n == Len(Shown(s)')
               v == ToldVerdict(s)'
    <2>1. Shown(s) = sent[s] /\ ToldVerdict(s) = "pending"
      BY <1>3 DEF Shown, ToldVerdict
    <2>2. /\ n \in 0..Len(pulled) /\ Shown(s)' = SubSeq(pulled, 1, n)
      <3>1. PrefixOf(Shown(s)', pulled)
        BY <1>0, <1>1 DEF SentSoFar
      <3> QED
        BY <1>0, <3>1, PrefixTypes, PrefixIsSubSeq
    <2>3. Len(sent[s]) <= n
      <3>1. CASE sent'[s] = sent[s]
        <4>1. Shown(s)' = sent[s]
          BY <1>3, <3>1 DEF Shown, Told
        <4> QED
          BY <1>0, <4>1, LenProperties
      <3>2. CASE ReadSnapshot(s)
        <4>1. Len(sent[s]) = 0
          BY <1>0, <3>2 DEF Idle, ReadSnapshot
        <4> QED
          BY <2>2, <4>1
      <3>3. CASE ReadMessage(s) /\ sent'[s] # sent[s]
        <4> DEFINE m == Head(inbox[s])
        <4>1. m \in Messages /\ sent'[s] = Append(sent[s], m)
          BY <1>0, <3>3, MessageEffect
        <4>2. Shown(s)' = sent[s] \/ Shown(s)' = Append(sent[s], m)
          BY <1>0, <4>1, ShownAfter
        <4> QED
          BY <1>0, <4>1, <4>2, AppendFacts, LenProperties
      <3> QED
        BY <1>0, <3>1, <3>2, <3>3, ConnectEffect, CloseEffect DEF StreamMoves, StreamStep
    <2>4. /\ v \in {"pending", Verdict} /\ v \in Feed!Verdicts \cup {"pending"}
          /\ v = "completed" => n = Len(pulled)
      <3>1. CASE ~Told(s)'
        BY <3>1 DEF ToldVerdict
      <3>2. CASE Told(s)'
        <4>1. /\ v \in Terminal /\ v = Last(sent'[s]) /\ Shown(s)' = Front(sent'[s])
              /\ sent'[s] \in Seq(Messages) /\ sent'[s] # <<>>
          BY <1>0, <3>2 DEF Told, ToldVerdict, Shown, TypeOK
        <4>2. v \in ToSet(sent'[s]) /\ Len(Shown(s)') = Len(sent'[s]) - 1
          BY <4>1, FrontFacts
        <4>3. op' = MarkOf(v)
          BY <1>0, <4>1, <4>2 DEF VerdictInv
        <4>4. v = Verdict
          BY <1>1, <4>1, <4>3 DEF MarkOf, Verdict, Terminal
        <4>5. v = "completed" => n = Len(pulled)
          BY <1>0, <1>1, <3>2, <4>1, <4>2, LenProperties DEF SentSoFar
        <4> QED
          BY <4>1, <4>4, <4>5 DEF Feed!Verdicts, Terminal
      <3> QED
        BY <3>1, <3>2
    <2>5. Feed!Next
      BY <1>1, <2>1, <2>2, <2>3, <2>4, FeedDeliver
    <2> QED
      BY <2>5
  <1> QED
    BY <1>2, <1>3

LEMMA FeedNext ==
  ASSUME AckInTime, IInv, IInv', [Next]_vars
  PROVE  [Feed!Next]_Feed!vars
  <1>1. TaskIInv
    BY IInvParts
  <1>2. CASE Elsewhere \/ Publishes
    BY <1>1, <1>2, FeedTask
  <1>3. CASE \E s \in Streams : StreamMoves(s)
    BY <1>3, FeedStream
  <1> QED
    BY <1>2, <1>3, StepKinds

\* ImplementsFeed: every step of the task, of Redis and of the generators is a
\* node recorded, a verdict, or a delivery of more of the log and then of the
\* verdict, as AuditFeed allows them, or none of them (events.py:40-79).
THEOREM JobImplementsFeed ==
  ASSUME AckInTime
  PROVE  Spec => ImplementsFeed
  <1>1. IInv /\ IInv' /\ [Next]_vars => [Feed!Next]_Feed!vars
    BY FeedNext
  <1>2. Spec => []IInv
    BY StreamInvariant
  <1> QED
    BY <1>1, <1>2, FeedInit, PTL DEF Spec, ImplementsFeed, Feed!Spec
=============================================================================
