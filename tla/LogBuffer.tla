------------------------------ MODULE LogBuffer -------------------------------
(***************************************************************************)
(* What a thread keeps of its plugins' log entries and metrics until it is  *)
(* written: PostgresLogsWrapper (src/src/utils/db/postgres-logs-wrapper.ts) *)
(* of a server without Kafka, and PluginMetricsManager                      *)
(* (src/src/utils/plugin-metrics.ts). Both await first and empty the        *)
(* buffer afterwards, whatever was added to it meanwhile.                   *)
(*                                                                          *)
(* Abstracted: an entry is its id; one metric of a plugin configuration,    *)
(* incremented by one.                                                      *)
(***************************************************************************)
EXTENDS Integers, FiniteSets, SequencesExt

CONSTANTS
  Entry,         \* log entries, each added once
  PluginConfig,
  MaxUpdates,    \* bound: updates of metrics
  MaxRejected    \* bound: statements and captures that fail

ASSUME LogBufferAssumption == MaxUpdates \in Nat /\ MaxRejected \in Nat

VARIABLES
  logs,          \* PostgresLogsWrapper.logs
  flushTimeout,  \* its timer is set
  inserts,       \* INSERTs under way: the entries of each
  written,       \* Postgres: ids in posthog_pluginlogentry, its primary key
  metrics,       \* [plugin configuration -> its metric, 0 if there is none]
  capturing,     \* the configuration whose capture sendPluginMetrics awaits: a set
  amount,        \* the metric that it sends
  uncaptured,    \* configurations sendPluginMetrics has still to capture
  captured,      \* [plugin configuration -> sum of the metrics captured]
  updates,       \* [plugin configuration -> updates of its metric]
  rejected,      \* failures so far
  added,         \* history: entries added,
  unlucky,       \* those added during an INSERT, or in one that failed,
  disturbed      \* configurations updated during a send, or captured in one that failed

logVars == <<logs, flushTimeout, inserts, written, added, unlucky>>
metricVars == <<metrics, capturing, amount, uncaptured, captured, updates, disturbed>>
bufferVars == <<logVars, metricVars, rejected>>

BufferTypeOK ==
  /\ logs \in Seq(Entry) /\ flushTimeout \in BOOLEAN /\ inserts \in Seq(Seq(Entry))
  /\ written \subseteq added /\ added \subseteq Entry /\ unlucky \subseteq added
  /\ metrics \in [PluginConfig -> Nat]
  /\ capturing \subseteq PluginConfig /\ uncaptured \subseteq PluginConfig \ capturing
  /\ (uncaptured # {} => capturing # {}) /\ amount \in Nat
  /\ captured \in [PluginConfig -> Nat] /\ updates \in [PluginConfig -> 0 .. MaxUpdates]
  /\ disturbed \subseteq PluginConfig /\ rejected \in 0 .. MaxRejected

Zero == [c \in PluginConfig |-> 0]

BufferInit ==
  /\ logs = <<>> /\ flushTimeout = FALSE /\ inserts = <<>> /\ written = {}
  /\ metrics = Zero /\ capturing = {} /\ amount = 0 /\ uncaptured = {}
  /\ captured = Zero /\ updates = Zero
  /\ rejected = 0 /\ added = {} /\ unlucky = {} /\ disturbed = {}

-----------------------------------------------------------------------------
(* PostgresLogsWrapper                                                      *)

AddLog(e) ==
  /\ e \notin added
  /\ added' = added \cup {e}
  /\ logs' = Append(logs, e)
  /\ flushTimeout' = TRUE
  /\ unlucky' = IF inserts # <<>> THEN unlucky \cup {e} ELSE unlucky
  /\ UNCHANGED <<inserts, written, metricVars, rejected>>

(* Mutant: the buffer is emptied before the statement is made from it. *)
FlushLogsEmptied ==
  /\ flushTimeout
  /\ flushTimeout' = FALSE
  /\ inserts' = IF logs # <<>> THEN Append(inserts, <<>>) ELSE inserts
  /\ logs' = <<>>
  /\ UNCHANGED <<written, added, unlucky, metricVars, rejected>>

\* the timer fires: flushLogs, up to the INSERT it awaits
FlushLogs ==
  /\ flushTimeout
  /\ flushTimeout' = FALSE
  /\ inserts' = IF logs # <<>> THEN Append(inserts, logs) ELSE inserts
  /\ UNCHANGED <<logs, written, added, unlucky, metricVars, rejected>>

\* the answer: an entry that is there already fails the statement, and the
\* failure is caught; the buffer is emptied in either case
LogsInserted(i) ==
  /\ inserts' = RemoveAt(inserts, i)
  /\ logs' = <<>>
  /\ written' = IF ToSet(inserts[i]) \cap written = {} THEN written \cup ToSet(inserts[i])
                                                       ELSE written
  /\ UNCHANGED <<flushTimeout, added, unlucky, metricVars, rejected>>

(* Mutant: the failure is thrown, so the buffer is not emptied. *)
InsertRejectedThrown(i) ==
  /\ rejected < MaxRejected
  /\ rejected' = rejected + 1
  /\ inserts' = RemoveAt(inserts, i)
  /\ unlucky' = unlucky \cup ToSet(inserts[i])
  /\ UNCHANGED <<logs, flushTimeout, written, added, metricVars>>

InsertRejected(i) ==
  /\ rejected < MaxRejected
  /\ rejected' = rejected + 1
  /\ inserts' = RemoveAt(inserts, i)
  /\ logs' = <<>>
  /\ unlucky' = unlucky \cup ToSet(inserts[i])
  /\ UNCHANGED <<flushTimeout, written, added, metricVars>>

-----------------------------------------------------------------------------
(* PluginMetricsManager                                                     *)

UpdateMetric(c) ==
  /\ updates[c] < MaxUpdates
  /\ updates' = [updates EXCEPT ![c] = @ + 1]
  /\ metrics' = [metrics EXCEPT ![c] = @ + 1]
  /\ disturbed' = IF capturing # {} THEN disturbed \cup {c} ELSE disturbed
  /\ UNCHANGED <<capturing, amount, uncaptured, captured, logVars, rejected>>

(* Mutant: the configuration is not taken from those that are left. *)
CaptureNextAgain(left) ==
  \E c \in left :
    /\ capturing' = {c} /\ uncaptured' = left
    /\ amount' = metrics[c]

\* the loop goes on with one of the configurations that are left
CaptureNext(left) ==
  \E c \in left :
    /\ capturing' = {c} /\ uncaptured' = left \ {c}
    /\ amount' = metrics[c]

\* every 30 minutes
SendPluginMetrics ==
  /\ capturing = {}
  /\ CaptureNext({c \in PluginConfig : metrics[c] > 0})
  /\ UNCHANGED <<metrics, captured, updates, disturbed, logVars, rejected>>

(* Mutant: the metrics are not reset. *)
CapturedKeeping(c) ==
  /\ c \in capturing
  /\ captured' = [captured EXCEPT ![c] = @ + amount]
  /\ IF uncaptured # {}
     THEN CaptureNext(uncaptured)
     ELSE capturing' = {} /\ UNCHANGED <<uncaptured, amount>>
  /\ UNCHANGED <<metrics, updates, disturbed, logVars, rejected>>

\* capture returns; after the last one all metrics are reset
Captured(c) ==
  /\ c \in capturing
  /\ captured' = [captured EXCEPT ![c] = @ + amount]
  /\ IF uncaptured # {}
     THEN CaptureNext(uncaptured) /\ UNCHANGED metrics
     ELSE capturing' = {} /\ metrics' = Zero /\ UNCHANGED <<uncaptured, amount>>
  /\ UNCHANGED <<updates, disturbed, logVars, rejected>>

\* capture throws: sendPluginMetrics ends, and what it captured is captured again
CaptureRejected(c) ==
  /\ c \in capturing /\ rejected < MaxRejected
  /\ rejected' = rejected + 1
  /\ capturing' = {} /\ uncaptured' = {}
  /\ disturbed' = disturbed \cup {d \in PluginConfig : metrics[d] > 0 /\ d \notin uncaptured \cup {c}}
  /\ UNCHANGED <<metrics, amount, captured, updates, logVars>>

LogNext ==
  \/ \E e \in Entry : AddLog(e)
  \/ FlushLogs
  \/ \E i \in DOMAIN inserts : LogsInserted(i) \/ InsertRejected(i)

MetricNext ==
  \/ \E c \in PluginConfig : UpdateMetric(c) \/ Captured(c) \/ CaptureRejected(c)
  \/ SendPluginMetrics

-----------------------------------------------------------------------------
(* Properties *)

\* An entry that is neither kept, on the way nor in Postgres was added while an
\* INSERT was awaited, which emptied the buffer or whose entries the next INSERT
\* repeated, or was in an INSERT that failed (postgres-logs-wrapper.ts:38-41).
LostLogHasCause ==
  added \ (written \cup ToSet(logs) \cup UNION {ToSet(inserts[i]) : i \in DOMAIN inserts})
    \subseteq unlucky

\* No entry stays in the buffer: there is a timer whenever one is added, also
\* one that an earlier INSERT, failed or not, has not waited for.
LogsAreFlushed == \A e \in Entry : e \in ToSet(logs) ~> e \notin ToSet(logs)

\* Between two sends each update of a metric has been captured once, or is kept,
\* unless it came during a send or a send failed (plugin-metrics.ts:24-36).
UpdatesCapturedOnce ==
  capturing = {} => \A c \in PluginConfig \ disturbed : captured[c] + metrics[c] = updates[c]

\* Nothing a plugin logs or counts is lost or written twice, unless it met the
\* INSERT or the send of the entries before it.
BufferOK == BufferTypeOK /\ LostLogHasCause /\ UpdatesCapturedOnce
=============================================================================
