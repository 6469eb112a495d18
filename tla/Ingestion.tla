------------------------------ MODULE Ingestion ------------------------------
(***************************************************************************)
(* Events from one Kafka partition through a server: KafkaQueue on the main *)
(* thread (src/src/main/ingestion-queues/kafka-queue.ts), ingestEvent       *)
(* (ingest-event.ts), the tasks it runs on the worker threads               *)
(* (worker/plugins/run.ts, worker/ingestion/ingest-event.ts) and the Kafka  *)
(* producers of the workers.  The server around it is PluginServer.tla's.   *)
(*                                                                          *)
(* The consumer library is external, modelled as the code relies on it: it  *)
(* fetches from the resolved offset, runs one eachBatch at a time, commits  *)
(* resolved offsets, fetches again after a failed batch or gives up with    *)
(* CRASH, and after a rebalance starts from the committed offset.           *)
(*                                                                          *)
(* Abstracted: the content of events (a message is its offset), what a task *)
(* does beside its answer and the message it queues, one producer for those *)
(* of all workers, batches of the producer by size (KafkaProducer.tla).     *)
(***************************************************************************)
EXTENDS Integers, FiniteSets, SequencesExt

CONSTANTS
  LogEnd,      \* offset of the last message in the partition
  Snapshots,   \* the messages that are $snapshot events
  GroupSize,   \* WORKER_CONCURRENCY * TASKS_PER_WORKER
  NumPlugins,  \* plugins with processEvent of the team
  MaxRounds,   \* bound: batches fetched, over all launches
  MaxFaults    \* bound: rejected tasks, failed sends, rebalances, failed launches

ASSUME IngestionAssumption ==
  /\ LogEnd \in Nat \ {0}
  /\ Snapshots \subseteq 1 .. LogEnd
  /\ GroupSize \in Nat \ {0}
  /\ NumPlugins \in Nat
  /\ MaxRounds \in Nat
  /\ MaxFaults \in Nat

VARIABLES
  committed,  \* the group's committed offset: the last message it covers
  resolved,   \* resolved offset of the consumer
  consumer,   \* state of the consumer
  batchEnd,   \* last message of the batch in hand
  group,      \* messages of the group being awaited
  stale,      \* isStale(): the partition was reassigned
  stopping,   \* consumer.stop() was called: isRunning() is false
  round,      \* number of the last batch fetched
  tasks,      \* calls of worker tasks that are not answered
  settled,    \* [message -> what has become of it so far]
  buffered,   \* messages in the workers' producers, not handed to Kafka
  sends,      \* batches of them handed to Kafka and not answered
  delivered,  \* messages Kafka has acknowledged
  retired,    \* history: rounds cut short by a failure, a rebalance, an exit
  faults      \* number of faults so far

consumerVars == <<committed, resolved, consumer, batchEnd, group, stale, stopping, round>>
producerVars == <<buffered, sends, delivered>>
ingestVars == <<consumerVars, tasks, settled, producerVars, retired, faults>>

Messages == 1 .. LogEnd
Rounds == 1 .. MaxRounds
TaskNames == {"processEvent", "ingestEvent", "onEvent", "onSnapshot"}
Task == [m : Messages, round : Rounds, task : TaskNames]
\* what a message leaves in a producer: the event, or a dead letter
Token == [m : Messages, round : Rounds]

ConsumerStates ==
  {"off", "joining", "idle", "batch", "failed", "crashed", "stopped"}

TypeOK ==
  /\ committed \in 0 .. LogEnd /\ resolved \in 0 .. LogEnd /\ batchEnd \in 0 .. LogEnd
  /\ consumer \in ConsumerStates
  /\ group \subseteq Messages
  /\ stale \in BOOLEAN /\ stopping \in BOOLEAN
  /\ round \in 0 .. MaxRounds
  /\ tasks \subseteq Task
  /\ settled \in [Messages -> SUBSET {"dropped", "ingested", "plugins"}]
  /\ buffered \subseteq Token /\ delivered \subseteq Token
  /\ \A s \in sends : s \subseteq Token
  /\ retired \subseteq Rounds
  /\ faults \in 0 .. MaxFaults

IngestInit ==
  /\ committed = 0 /\ resolved = 0 /\ batchEnd = 0 /\ round = 0
  /\ consumer = "off"
  /\ group = {} /\ stale = FALSE /\ stopping = FALSE
  /\ tasks = {} /\ retired = {} /\ faults = 0
  /\ settled = [m \in Messages |-> {}]
  /\ buffered = {} /\ sends = {} /\ delivered = {}

Fault == faults < MaxFaults /\ faults' = faults + 1

(***************************************************************************)
(* The tasks of one message                                                 *)
(***************************************************************************)
\* eachMessage calls ingestEvent: a $snapshot skips processEvent
FirstTasks(m, r) ==
  [m : {m}, round : {r},
   task : IF m \in Snapshots THEN {"ingestEvent", "onSnapshot"} ELSE {"processEvent"}]

\* after processEvent: both calls of the Promise.all
NextTasks(t) == {[t EXCEPT !.task = name] : name \in {"ingestEvent", "onEvent"}}

Settle(m, what) == settled' = [settled EXCEPT ![m] = @ \cup {what}]

\* one plugin's processEvent on the event the previous ones returned; a plugin
\* that throws, or changes team_id, leaves the event in place
RunPlugin(answer, returned) ==
  IF returned = "null" \/ answer = "null" THEN "null" ELSE "event"

RunProcessEvent(answers) == FoldLeft(LAMBDA e, a : RunPlugin(a, e), "event", answers)

PluginAnswers == [1 .. NumPlugins -> {"event", "null", "throws"}]

\* the task answers with an event or null; what it throws (storing a plugin's
\* error failed) createTaskRunner turns into an {error} value, and main goes on
\* with that in the event's place
ProcessEvent(t) ==
  /\ t.task = "processEvent"
  /\ \E answers \in PluginAnswers :
       IF RunProcessEvent(answers) = "null"
       THEN tasks' = tasks \ {t} /\ Settle(t.m, "dropped")
       ELSE tasks' = (tasks \ {t}) \cup NextTasks(t) /\ UNCHANGED settled
  /\ UNCHANGED <<consumerVars, producerVars, retired, faults>>

\* the event is queued; else a dead letter is, unless that fails too
IngestEvent(t) ==
  /\ t.task = "ingestEvent"
  /\ tasks' = tasks \ {t}
  /\ Settle(t.m, "ingested")
  /\ \/ buffered' = buffered \cup {[m |-> t.m, round |-> t.round]}
     \/ UNCHANGED buffered
  /\ UNCHANGED <<consumerVars, sends, delivered, retired, faults>>

\* runOnEvent, runOnSnapshot: what a plugin throws is stored, not passed on
RunOn(t) ==
  /\ t.task \in {"onEvent", "onSnapshot"}
  /\ tasks' = tasks \ {t}
  /\ Settle(t.m, "plugins")
  /\ UNCHANGED <<consumerVars, producerVars, retired, faults>>

\* piscina.run itself rejects, as when the worker thread dies: eachBatch throws
Reject(t) ==
  /\ Fault
  /\ tasks' = tasks \ {t}
  /\ IF t.round = round /\ consumer = "batch"
     THEN /\ consumer' = "failed" /\ group' = {}
          /\ retired' = retired \cup {round}
     ELSE UNCHANGED <<consumer, group, retired>>
  /\ UNCHANGED <<committed, resolved, batchEnd, stale, stopping, round, settled, producerVars>>

(***************************************************************************)
(* The consumer                                                             *)
(***************************************************************************)
Fetch ==
  /\ consumer = "idle" /\ ~stopping /\ resolved < LogEnd /\ round < MaxRounds
  /\ batchEnd' \in resolved + 1 .. LogEnd
  /\ round' = round + 1
  /\ consumer' = "batch"
  /\ UNCHANGED <<committed, resolved, group, stale, stopping, tasks, settled,
                 producerVars, retired, faults>>

NextGroup == {m \in resolved + 1 .. batchEnd : m <= resolved + GroupSize}

\* for (const messageBatch of messageBatches): the check and Promise.all
StartGroup ==
  /\ consumer = "batch" /\ group = {} /\ NextGroup # {}
  /\ ~stopping /\ ~stale
  /\ group' = NextGroup
  /\ tasks' = tasks \cup UNION {FirstTasks(m, round) : m \in NextGroup}
  /\ UNCHANGED <<committed, resolved, consumer, batchEnd, stale, stopping, round,
                 settled, producerVars, retired, faults>>

\* Mutant: onEvent and onSnapshot are not awaited.
GroupDoneBeforeOnEvent ==
  group # {} /\ \A t \in tasks : t.round # round \/ t.task \in {"onEvent", "onSnapshot"}

GroupDone == group # {} /\ \A t \in tasks : t.round # round

\* Mutant: the offset resolved is the batch's last.
FinishGroupResolvingBatch ==
  /\ consumer = "batch" /\ GroupDone
  /\ resolved' = batchEnd
  /\ group' = {}
  /\ committed' \in {committed, resolved'}
  /\ UNCHANGED <<consumer, batchEnd, stale, stopping, round, tasks, settled, producerVars,
                 retired, faults>>

\* Mutant: the offset committed is that of the next message.
FinishGroupCommittingNext ==
  /\ consumer = "batch" /\ GroupDone
  /\ resolved' = Max(group)
  /\ committed' = Max(group) + 1
  /\ group' = {}
  /\ UNCHANGED <<consumer, batchEnd, stale, stopping, round, tasks, settled, producerVars,
                 retired, faults>>

\* resolveOffset, then the commit, if one is due, and the heartbeat; either
\* throws when the group has moved on
FinishGroup ==
  /\ consumer = "batch" /\ GroupDone
  /\ resolved' = Max(group)
  /\ group' = {}
  /\ IF stale
     THEN /\ committed' = committed
          /\ consumer' \in {"batch", "failed"}
          /\ retired' = retired \cup {round}
     ELSE /\ committed' \in {committed, resolved'}
          /\ UNCHANGED <<consumer, retired>>
  /\ UNCHANGED <<batchEnd, stale, stopping, round, tasks, settled, producerVars, faults>>

\* Mutant: every batch starts from the offset that was committed before.
RejoinAlways == resolved' = committed /\ stale' = FALSE

\* a rejoining member starts from the committed offset
Rejoin == IF stale THEN resolved' = committed /\ stale' = FALSE
                   ELSE UNCHANGED <<resolved, stale>>

\* eachBatch returns, at the end or bailing out, and the library commits
EndBatch ==
  /\ consumer = "batch" /\ group = {}
  /\ NextGroup = {} \/ stopping \/ stale
  /\ consumer' = "idle"
  /\ committed' = IF stale THEN committed ELSE resolved
  /\ Rejoin
  /\ UNCHANGED <<batchEnd, group, stopping, round, tasks, settled, producerVars,
                 retired, faults>>

\* eachBatch threw: fetch again from the resolved offset, or CRASH
RetryBatch ==
  /\ consumer = "failed"
  /\ consumer' \in {"idle", "crashed"}
  /\ committed' = IF stale THEN committed ELSE resolved
  /\ Rejoin
  /\ UNCHANGED <<batchEnd, group, stopping, round, tasks, settled, producerVars,
                 retired, faults>>

\* the partition is reassigned, and comes back
Rebalance ==
  /\ consumer \in {"idle", "batch"} /\ ~stale /\ Fault
  /\ IF consumer = "idle" THEN resolved' = committed /\ UNCHANGED stale
                          ELSE stale' = TRUE /\ UNCHANGED resolved
  /\ retired' = retired \cup {r \in Rounds : r <= round}
  /\ UNCHANGED <<committed, consumer, batchEnd, group, stopping, round, tasks, settled,
                 producerVars>>

(***************************************************************************)
(* The workers' producers (in detail: KafkaProducer.tla)                    *)
(***************************************************************************)
Flush ==
  /\ buffered # {}
  /\ sends' = sends \cup {buffered}
  /\ buffered' = {}
  /\ UNCHANGED <<consumerVars, tasks, settled, delivered, retired, faults>>

Acknowledge(s) ==
  /\ sends' = sends \ {s}
  /\ delivered' = delivered \cup s
  /\ UNCHANGED <<consumerVars, tasks, settled, buffered, retired, faults>>

\* the messages of a batch whose send failed are dropped
SendFails(s) ==
  /\ Fault
  /\ sends' = sends \ {s}
  /\ UNCHANGED <<consumerVars, tasks, settled, buffered, delivered, retired>>

RunTask ==
  \E t \in tasks : ProcessEvent(t) \/ IngestEvent(t) \/ RunOn(t) \/ Reject(t)

Produce == Flush \/ \E s \in sends : Acknowledge(s) \/ SendFails(s)

IngestNext ==
  \/ Fetch \/ StartGroup \/ FinishGroup \/ EndBatch \/ RetryBatch \/ Rebalance
  \/ RunTask
  \/ Produce

(***************************************************************************)
(* Properties                                                               *)
(***************************************************************************)
Handled(m) == "dropped" \in settled[m] \/ {"ingested", "plugins"} \subseteq settled[m]

\* An offset is committed only when every message up to it has been dropped by
\* a plugin, or has gone through ingestEvent and the onEvent plugins, whatever
\* rejected, was rebalanced away or cut short (kafka-queue.ts:60-70).
CommittedIsHandled == \A m \in 1 .. committed : Handled(m)

\* A message reaches Kafka twice only when the round that handled it first was
\* cut short: a batch that runs to its end is never fetched again.
DuplicateHasCause ==
  \A a, b \in delivered \cup buffered \cup UNION sends :
    a.m = b.m /\ a.round < b.round => a.round \in retired

\* Worker tasks of two batches are in flight together only when the older
\* batch failed and left the calls of its Promise.all behind.
OverlapHasCause == \A t \in tasks : t.round # round => t.round \in retired

=============================================================================
