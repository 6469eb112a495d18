------------------------------ MODULE MCServices ------------------------------
(***************************************************************************)
(* Small instances of KafkaProducer, LogBuffer, ExportEvents and GeoIP for    *)
(* TLC, in one run: they share no variable, and every behaviour is one of a *)
(* single part.                                                             *)
(***************************************************************************)
EXTENDS KafkaProducer, LogBuffer, ExportEvents, GeoIP

CONSTANTS m1, m2, m3, m4, x1, x2, x3

(* Sizes that fill a batch of three exactly, exceed it, leave room, or fit none. *)
Sizes == [m \in Message |-> IF m = m1 THEN 1 ELSE IF m = m2 THEN 2 ELSE IF m = m3 THEN 3 ELSE 4]

VARIABLE part

ServicesInit ==
  /\ Init /\ BufferInit /\ ExportInit /\ GeoIPInit
  /\ part \in {"producer", "logs", "metrics", "exports", "geoip"}
  /\ part # "geoip" => rows = {}

Producing == part = "producer" /\ UNCHANGED <<part, bufferVars, exportVars, geoipVars>>
Logging == part = "logs" /\ UNCHANGED <<part, vars, metricVars, exportVars, geoipVars>>
Counting == part = "metrics" /\ UNCHANGED <<part, vars, logVars, exportVars, geoipVars>>
Handing == part = "exports" /\ UNCHANGED <<part, vars, bufferVars, geoipVars>>
Locating == part = "geoip" /\ UNCHANGED <<part, vars, bufferVars, exportVars>>

ServicesNext ==
  \/ Producing /\ Next
  \/ Logging /\ LogNext
  \/ Counting /\ MetricNext
  \/ Handing /\ ExportNext
  \/ Locating /\ GeoIPNext

servicesVars == <<part, vars, bufferVars, exportVars, geoipVars>>

(* Timers fire, the broker, Postgres, Redis and plugins answer, jobs are     *)
(* run, keys expire.                                                         *)
ServicesSpec ==
  /\ ServicesInit /\ [][ServicesNext]_servicesVars
  /\ WF_vars(part = "producer" /\ IntervalFlush)
  /\ WF_vars(part = "producer" /\ \E b \in sends : Sent(b) \/ SendFails(b))
  /\ WF_bufferVars(part = "logs" /\ FlushLogs)
  /\ WF_bufferVars(part = "logs" /\ \E i \in DOMAIN inserts : LogsInserted(i) \/ InsertRejected(i))
  /\ WF_exportVars(part = "exports" /\ FlushBuffer)
  /\ WF_exportVars(part = "exports" /\ \E b \in batches : BatchStep(b))
  /\ WF_geoipVars(part = "geoip" /\ ExpireStatus)
  /\ \A h \in Host, s \in Slot : WF_geoipVars(part = "geoip" /\ RunStep(h, s))

(* Nothing waits for good: a queued message is sent, a log entry flushed, an *)
(* event exported or given up, and a run of the download ends.               *)
ServicesEnd == EveryMessageIsSent /\ LogsAreFlushed /\ EventsAreSettled /\ RunsEnd
=============================================================================
