----------------------------- MODULE ExportEvents ------------------------------
(***************************************************************************)
(* What upgradeExportEvents (src/src/worker/vm/upgrades/export-events.ts)   *)
(* adds to a plugin with exportEvents: events are buffered, exported in     *)
(* batches, and a batch that failed with a RetryError is exported again by  *)
(* a job, which any thread may run.                                         *)
(*                                                                          *)
(* The buffer (createBuffer) and the job queue are external: the buffer is  *)
(* flushed by size, by a timer or by teardownPlugin, a job is run once or,  *)
(* as JobQueues shows, again.                                               *)
(*                                                                          *)
(* Abstracted: the length of events; a metric of the plugin, in which the   *)
(* code counts the events of a batch, is kept for each event of its own.    *)
(***************************************************************************)
EXTENDS Integers, FiniteSets

CONSTANTS
  OnEvent,            \* the events that onEvent is called with, each once
  ExportsToIgnore,    \* those of them that exportEventsToIgnore names
  MAXIMUM_RETRIES,
  MaxMishaps          \* bound: killed threads, lost and repeated jobs

ASSUME ExportEventsAssumption ==
  /\ ExportsToIgnore \subseteq OnEvent
  /\ MAXIMUM_RETRIES \in Nat /\ MaxMishaps \in Nat

VARIABLES
  seen,          \* events that onEvent was called with
  exportBuffer,  \* those in exportEventsBuffer
  batches,       \* batches on the way: in exportEvents, being enqueued as a job, a job
  counted,       \* [metric -> [event -> how often it was counted]]
  mishaps,
  forgotten,     \* history: events whose thread was killed or whose job was lost,
  repeated       \* and those whose job was run twice

exportVars == <<seen, exportBuffer, batches, counted, mishaps, forgotten, repeated>>

Metrics ==
  {"events_seen", "events_delivered_successfully", "retry_errors", "undelivered_events", "other_errors"}

Batch == [events : SUBSET OnEvent, retries : 0 .. MAXIMUM_RETRIES, at : {"export", "enqueue", "job"}]

ExportTypeOK ==
  /\ exportBuffer \subseteq seen \ ExportsToIgnore /\ seen \subseteq OnEvent
  /\ batches \subseteq Batch
  /\ \A b \in batches : b.events # {} /\ b.events \subseteq seen
  /\ counted \in [Metrics -> [OnEvent -> Nat]]
  /\ mishaps \in 0 .. MaxMishaps
  /\ forgotten \subseteq seen /\ repeated \subseteq seen

ExportInit ==
  /\ seen = {} /\ exportBuffer = {} /\ batches = {}
  /\ counted = [metric \in Metrics |-> [e \in OnEvent |-> 0]]
  /\ mishaps = 0 /\ forgotten = {} /\ repeated = {}

-----------------------------------------------------------------------------
BufferEvent(e) ==
  /\ e \in OnEvent \ seen
  /\ seen' = seen \cup {e}
  /\ exportBuffer' = IF e \in ExportsToIgnore THEN exportBuffer ELSE exportBuffer \cup {e}
  /\ UNCHANGED <<batches, counted, mishaps, forgotten, repeated>>

\* incrementMetric with the length of the batch, for each of the metrics
Counted(metrics, events) ==
  [metric \in Metrics |->
     [e \in OnEvent |-> counted[metric][e] + IF metric \in metrics /\ e \in events THEN 1 ELSE 0]]

(* Mutant: each attempt is counted. *)
SeenAlways(b) == {"events_seen"}

\* what exportEventsWithRetry counts before it calls exportEvents
SeenFirst(b) == IF b.retries = 0 THEN {"events_seen"} ELSE {}

\* exportEventsWithRetry up to exportEvents
Start(b) == counted' = Counted(SeenFirst(b), b.events)

\* onFlush: the first attempt, without a job
FlushBuffer ==
  /\ exportBuffer # {}
  /\ exportBuffer' = {}
  /\ LET b == [events |-> exportBuffer, retries |-> 0, at |-> "export"]
     IN batches' = batches \cup {b} /\ Start(b)
  /\ UNCHANGED <<seen, mishaps, forgotten, repeated>>

Exporting(b) == b \in batches /\ b.at = "export"
Ended(b, metrics) == batches' = batches \ {b} /\ counted' = Counted(metrics, b.events)

ExportSucceeds(b) ==
  /\ Exporting(b)
  /\ Ended(b, {"events_delivered_successfully"})
  /\ UNCHANGED <<seen, exportBuffer, mishaps, forgotten, repeated>>

(* Mutants: one attempt more, and one less. *)
RetriesLeftOnce(b) == b.retries <= MAXIMUM_RETRIES
RetriesLeftButOne(b) == b.retries + 1 < MAXIMUM_RETRIES

RetriesLeft(b) == b.retries < MAXIMUM_RETRIES

(* Mutant: what is given up is not counted. *)
RetryErrorUncounted(b) ==
  /\ Exporting(b)
  /\ IF RetriesLeft(b)
     THEN /\ batches' = (batches \ {b}) \cup {[b EXCEPT !.retries = @ + 1, !.at = "enqueue"]}
          /\ counted' = Counted({"retry_errors"}, b.events)
     ELSE Ended(b, {"retry_errors"})
  /\ UNCHANGED <<seen, exportBuffer, mishaps, forgotten, repeated>>

\* exportEvents throws a RetryError: enqueue a job, or drop the batch
RetryError(b) ==
  /\ Exporting(b)
  /\ IF RetriesLeft(b)
     THEN /\ batches' = (batches \ {b}) \cup {[b EXCEPT !.retries = @ + 1, !.at = "enqueue"]}
          /\ counted' = Counted({"retry_errors"}, b.events)
     ELSE Ended(b, {"retry_errors", "undelivered_events"})
  /\ UNCHANGED <<seen, exportBuffer, mishaps, forgotten, repeated>>

\* any other exception is thrown on, after it was counted
OtherError(b) ==
  /\ Exporting(b)
  /\ Ended(b, {"other_errors", "undelivered_events"})
  /\ UNCHANGED <<seen, exportBuffer, mishaps, forgotten, repeated>>

\* runIn returns
RetryEnqueued(b) ==
  /\ b \in batches /\ b.at = "enqueue"
  /\ batches' = (batches \ {b}) \cup {[b EXCEPT !.at = "job"]}
  /\ UNCHANGED <<seen, exportBuffer, counted, mishaps, forgotten, repeated>>

\* the job, on some thread
RunRetry(b) ==
  /\ b \in batches /\ b.at = "job"
  /\ batches' = (batches \ {b}) \cup {[b EXCEPT !.at = "export"]}
  /\ Start(b)
  /\ UNCHANGED <<seen, exportBuffer, mishaps, forgotten, repeated>>

-----------------------------------------------------------------------------
(* What may go wrong around it *)

Mishap == mishaps < MaxMishaps /\ mishaps' = mishaps + 1

\* runIn throws, which nothing counts, or no thread has the plugin any more
LoseRetry(b) ==
  /\ b \in batches /\ b.at \in {"enqueue", "job"} /\ Mishap
  /\ batches' = batches \ {b}
  /\ forgotten' = forgotten \cup b.events
  /\ UNCHANGED <<seen, exportBuffer, counted, repeated>>

\* the job is run, and stays in its queue
RepeatRetry(b) ==
  /\ b \in batches /\ b.at = "job" /\ Mishap
  /\ batches' = batches \cup {[b EXCEPT !.at = "export"]}
  /\ Start(b)
  /\ repeated' = repeated \cup b.events
  /\ UNCHANGED <<seen, exportBuffer, forgotten>>

KillExporter ==
  LET there == {b \in batches : b.at # "job"}
  IN /\ there # {} \/ exportBuffer # {}
     /\ Mishap
     /\ batches' = batches \ there
     /\ exportBuffer' = {}
     /\ forgotten' = forgotten \cup exportBuffer \cup UNION {b.events : b \in there}
     /\ UNCHANGED <<seen, counted, repeated>>

BatchStep(b) ==
  \/ ExportSucceeds(b) \/ RetryError(b) \/ OtherError(b) \/ RetryEnqueued(b) \/ RunRetry(b)

ExportNext ==
  \/ \E e \in OnEvent : BufferEvent(e)
  \/ FlushBuffer
  \/ \E b \in batches : BatchStep(b) \/ LoseRetry(b) \/ RepeatRetry(b)
  \/ KillExporter

-----------------------------------------------------------------------------
(* Properties *)

OnTheWay(e) == Cardinality({b \in batches : e \in b.events})

\* The plugin's metrics add up, as its users read them: every event that was seen
\* was delivered, or is undelivered, or is on its way, and is one of these once,
\* however often it was tried, unless its thread died or its job was lost or
\* repeated (export-events.ts:93-146).
SeenAddsUp ==
  \A e \in OnEvent \ (forgotten \cup repeated) :
    /\ counted["events_seen"][e] = counted["events_delivered_successfully"][e]
                                   + counted["undelivered_events"][e] + OnTheWay(e)
    /\ counted["events_seen"][e] <= 1

\* A batch that only met RetryErrors is given up after the first attempt and
\* MAXIMUM_RETRIES more, and not before (export-events.ts:111).
GivenUpAfterRetries ==
  \A e \in OnEvent \ repeated :
    counted["undelivered_events"][e] > counted["other_errors"][e] =>
      counted["retry_errors"][e] = MAXIMUM_RETRIES + 1

Settled(e) ==
  \/ e \in forgotten
  \/ counted["events_delivered_successfully"][e] + counted["undelivered_events"][e] > 0

\* No event stays in the buffer or in a job for good: it is delivered or given up.
EventsAreSettled == \A e \in OnEvent \ ExportsToIgnore : e \in seen ~> Settled(e)

\* The metrics of exportEvents tell what became of the events.
MetricsOK == ExportTypeOK /\ SeenAddsUp /\ GivenUpAfterRetries
=============================================================================
