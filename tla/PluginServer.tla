---------------------------- MODULE PluginServer -----------------------------
(***************************************************************************)
(* The life of a server process that ingests from Kafka: startPluginsServer *)
(* (src/src/main/pluginsServer.ts) starts its parts one after the other,    *)
(* closeJobs stops them one after the other, and either may run while the   *)
(* other has not ended.  Between them events flow as in Ingestion.tla.      *)
(*                                                                          *)
(* Abstracted: the parts other than ingestion run or do not run (their      *)
(* inside is in CeleryQueue, JobQueues, ScheduleLock and PluginVMs), and    *)
(* stop when asked; time (a timer that is set may fire any time later).     *)
(***************************************************************************)
EXTENDS Ingestion

VARIABLES
  launch,          \* the await startPluginsServer is at
  running,         \* parts that have been started and not stopped
  assigned,        \* parts in a variable that closeJobs sees
  shutdownStatus,  \* calls of closeJobs
  closer,          \* who made the call that closes: "signal" or "launch"
  closing,         \* the await closeJobs is at
  awaited,         \* the last send of the workers that stopPiscina awaits
  timers,          \* signals and exits to come from killProcess, killGracefully
  exited,          \* exit code, or "no"
  launchAtClose    \* history: launch when closeJobs was first called

lifeVars == <<launch, running, assigned, shutdownStatus, closer, closing, awaited,
              timers, exited, launchAtClose>>
vars == <<ingestVars, lifeVars>>

(***************************************************************************)
(* The awaits of startPluginsServer, with the parts that run and those that *)
(* are assigned once each is over (and the code up to the next has run)     *)
(***************************************************************************)
LaunchSteps == {"hub", "database", "mmdb", "schedule", "jobs", "kafka", "pubsub", "crons"}
Parts == {"hub", "mmdbUpdateJob", "mmdb", "pool", "schedule", "jobs", "celery", "kafka", "pubsub",
          "crons"}

NextLaunchStep ==
  [hub |-> "database", database |-> "mmdb", mmdb |-> "schedule", schedule |-> "jobs", jobs |-> "kafka",
   kafka |-> "pubsub", pubsub |-> "crons", crons |-> "up"]

\* prepareMmdb (database) is followed by the cron job of its update, and then by
\* the MMDB server; startQueues starts Celery before it awaits the Kafka consumer
Starts ==
  [hub |-> {"hub"}, database |-> {"mmdbUpdateJob"}, mmdb |-> {"mmdb", "pool"}, schedule |-> {"schedule"},
   jobs |-> {"jobs", "celery"}, kafka |-> {"kafka"}, pubsub |-> {"pubsub"},
   crons |-> {"crons"}]

\* Mutant: redisQueueForPluginJobs is null also when Kafka is enabled.
AssignsNoRedisQueue ==
  [hub |-> {"hub"}, database |-> {}, mmdb |-> {"mmdb", "pool"}, schedule |-> {"schedule"},
   jobs |-> {"jobs"}, kafka |-> {"kafka", "pubsub"}, pubsub |-> {}, crons |-> {"crons"}]

\* `queue' and `redisQueueForPluginJobs' are assigned when startQueues returns,
\* and then pubSub, before it is started; mmdbUpdateJob is a field of
\* serverInstance, which neither closeJobs nor closeHub has
Assigns ==
  [hub |-> {"hub"}, database |-> {}, mmdb |-> {"mmdb", "pool"}, schedule |-> {"schedule"},
   jobs |-> {"jobs"}, kafka |-> {"kafka", "celery", "pubsub"}, pubsub |-> {},
   crons |-> {"crons"}]

CloseSteps == {"kafka", "celery", "pubsub", "jobs", "schedule", "mmdb", "teardown",
               "flush", "hub", "delay"}

PluginServerTypeOK ==
  /\ TypeOK
  /\ launch \in LaunchSteps \cup {"up", "failed"}
  /\ running \subseteq Parts /\ assigned \subseteq Parts
  /\ shutdownStatus \in 0 .. 2
  /\ closer \in {"none", "signal", "launch"}
  /\ closing \in CloseSteps \cup {"none", "threw"}
  /\ awaited \subseteq Token
  /\ timers \subseteq {"sigterm", "sigterm2", "sigkill", "exit"}
  /\ exited \in {"no", "0", "1", "killed"}
  /\ launchAtClose \in LaunchSteps \cup {"up", "failed", "none"}

LifeStart ==
  /\ launch = "hub" /\ running = {} /\ assigned = {}
  /\ shutdownStatus = 0 /\ closer = "none" /\ closing = "none" /\ awaited = {}
  /\ timers = {} /\ exited = "no" /\ launchAtClose = "none"

Init == IngestInit /\ LifeStart

(***************************************************************************)
(* The end of the process: its memory is gone                               *)
(***************************************************************************)
Exit(code) ==
  /\ exited' = code
  /\ consumer' = "off" /\ resolved' = committed /\ batchEnd' = 0 /\ group' = {}
  /\ stale' = FALSE /\ stopping' = FALSE
  /\ tasks' = {} /\ buffered' = {} /\ sends' = {} /\ awaited' = {}
  /\ running' = {} /\ assigned' = {} /\ timers' = {}
  /\ UNCHANGED <<committed, round, settled, delivered, retired, closer, closing,
                 launchAtClose>>

\* closeJobs, called for the first time, up to its first await
BeginClosing(who) ==
  /\ shutdownStatus = 0
  /\ shutdownStatus' = 1
  /\ closer' = who
  /\ closing' = "kafka"
  /\ stopping' = ("kafka" \in assigned)
  /\ launchAtClose' = launch
  /\ UNCHANGED <<committed, resolved, batchEnd, group, stale, round, tasks, settled,
                 producerVars, retired, running, assigned, awaited, exited>>

\* Mutant: process.exit(0) also after a failed launch.
ExitCodeZero(who) == "0"

ExitCode(who) == IF who = "signal" THEN "0" ELSE "1"

\* called again it returns at once, and the caller goes on to process.exit: the
\* beforeExit handler with 0, the failed launch with 1
CloseAgain(who) ==
  /\ shutdownStatus = 1
  /\ shutdownStatus' = 2
  /\ Exit(ExitCode(who))

(***************************************************************************)
(* Launching                                                                *)
(***************************************************************************)
Launching == exited = "no" /\ launch \in LaunchSteps

LaunchStep ==
  /\ Launching
  /\ launch' = NextLaunchStep[launch]
  /\ running' = running \cup Starts[launch]
  /\ assigned' = assigned \cup Assigns[launch]
  /\ consumer' = CASE launch = "jobs" -> "joining"
                   [] launch = "kafka" -> "idle"
                   [] OTHER -> consumer
  /\ UNCHANGED <<committed, resolved, batchEnd, group, stale, stopping, round, tasks,
                 settled, producerVars, retired, faults, shutdownStatus, closer,
                 closing, awaited, timers, exited, launchAtClose>>

\* killGracefully: SIGTERM to itself, process.exit(1) after a while
KillGracefully == timers' = timers \cup {"sigterm", "exit"}

\* an await rejects, by itself or because closeJobs has closed what it needs;
\* the consumer's is rejected by CRASH, whose other listener calls killGracefully
LaunchFails ==
  /\ Launching
  /\ launch' = "failed"
  /\ \/ /\ Fault /\ BeginClosing("launch")
        /\ IF launch = "kafka" THEN consumer' = "crashed" /\ KillGracefully
                               ELSE UNCHANGED <<consumer, timers>>
     \/ CloseAgain("launch") /\ UNCHANGED faults

(***************************************************************************)
(* Signals and forced exits                                                 *)
(***************************************************************************)
\* SIGINT, SIGTERM or SIGHUP: the beforeExit handler runs
BeforeExit(left) ==
  \/ BeginClosing("signal") /\ timers' = left /\ UNCHANGED consumer
  \/ CloseAgain("signal")

Signal ==
  /\ exited = "no"
  /\ BeforeExit(timers)
  /\ UNCHANGED <<launch, faults>>

\* the staleness check calls killProcess: SIGTERM, SIGTERM again, SIGKILL
StalenessRestart ==
  /\ exited = "no" /\ "crons" \in running /\ shutdownStatus = 0 /\ Fault
  /\ timers' = timers \cup {"sigterm", "sigterm2", "sigkill"}
  /\ UNCHANGED <<consumerVars, tasks, settled, producerVars, retired, launch, running,
                 assigned, shutdownStatus, closer, closing, awaited, exited,
                 launchAtClose>>

Fire(timer) ==
  /\ exited = "no"
  /\ CASE timer = "sigkill" -> Exit("killed") /\ UNCHANGED shutdownStatus
       [] timer = "exit" -> Exit("1") /\ UNCHANGED shutdownStatus
       [] OTHER -> BeforeExit(timers \ {timer})
  /\ UNCHANGED <<launch, faults>>

(***************************************************************************)
(* Closing: closeJobs after its first await                                 *)
(***************************************************************************)
\* Mutant: consumer.stop is not awaited.
KafkaQueueStopsAtOnce ==
  /\ closing = "kafka"
  /\ IF stopping THEN running' = running \ {"kafka"} ELSE UNCHANGED running
  /\ closing' = "celery"
  /\ UNCHANGED <<consumerVars, tasks, settled, producerVars, retired, awaited>>

KafkaQueueStops ==
  /\ closing = "kafka"
  /\ stopping => consumer \notin {"batch", "failed"}
  /\ IF stopping THEN consumer' = "stopped" /\ running' = running \ {"kafka"}
                 ELSE UNCHANGED <<consumer, running>>
  /\ closing' = "celery"
  /\ UNCHANGED <<committed, resolved, batchEnd, group, stale, stopping, round, tasks,
                 settled, producerVars, retired, awaited>>

\* the parts whose stop is one await here, in their order; cancelling the cron
\* jobs goes with the job queues
StopOrder ==
  [celery |-> [parts |-> {"celery"}, next |-> "pubsub"],
   jobs |-> [parts |-> {"crons", "jobs"}, next |-> "schedule"],
   schedule |-> [parts |-> {"schedule"}, next |-> "mmdb"],
   mmdb |-> [parts |-> {"mmdb"}, next |-> "teardown"],
   hub |-> [parts |-> {"hub"}, next |-> "delay"]]

PartStops ==
  /\ closing \in DOMAIN StopOrder
  /\ running' = running \ (StopOrder[closing].parts \cap assigned)
  /\ closing' = StopOrder[closing].next
  /\ UNCHANGED <<consumerVars, tasks, settled, producerVars, retired, awaited>>

\* PubSub.stop throws when start has not finished
PubSubStops ==
  /\ closing = "pubsub"
  /\ running' = running \ {"pubsub"}
  /\ closing' = IF "pubsub" \in assigned \ running THEN "threw" ELSE "jobs"
  /\ UNCHANGED <<consumerVars, tasks, settled, producerVars, retired, awaited>>

\* Mutant: the workers' producers are not flushed.
FlushWorkersNot ==
  /\ closing = "teardown"
  /\ closing' = "flush"
  /\ UNCHANGED <<consumerVars, tasks, settled, producerVars, retired, running, awaited>>

\* stopPiscina: teardownPlugins has ended, or 5 s have passed; then
\* flushKafkaMessages is broadcast
FlushWorkers ==
  /\ closing = "teardown"
  /\ IF "pool" \in assigned
     THEN /\ closing' = "flush"
          /\ awaited' = buffered
          /\ buffered' = {}
          /\ sends' = IF buffered = {} THEN sends ELSE sends \cup {buffered}
     ELSE closing' = "hub" /\ UNCHANGED <<awaited, buffered, sends>>
  /\ UNCHANGED <<consumerVars, tasks, settled, delivered, retired, running>>

\* piscina.destroy: the calls of a batch that still runs reject
DestroyWorkers ==
  /\ closing = "flush" /\ awaited \notin sends
  /\ closing' = "hub"
  /\ running' = running \ {"pool"}
  /\ tasks' = {} /\ buffered' = {} /\ sends' = {} /\ awaited' = {}
  /\ IF consumer = "batch" /\ group # {} /\ ~GroupDone
     THEN consumer' = "failed" /\ group' = {} /\ retired' = retired \cup {round}
     ELSE UNCHANGED <<consumer, group, retired>>
  /\ UNCHANGED <<committed, resolved, batchEnd, stale, stopping, round, settled, delivered>>

CloseStep ==
  /\ exited = "no"
  /\ KafkaQueueStops \/ PartStops \/ PubSubStops \/ FlushWorkers \/ DestroyWorkers
  /\ UNCHANGED <<faults, launch, assigned, shutdownStatus, closer, timers, exited,
                 launchAtClose>>

\* `Over and out', the extra second, and process.exit of the caller
OverAndOut ==
  /\ exited = "no" /\ closing = "delay"
  /\ Exit(ExitCode(closer))
  /\ UNCHANGED <<launch, faults, shutdownStatus>>

(***************************************************************************)
(* Ingestion while the process runs                                         *)
(***************************************************************************)
\* worker tasks need the pool; a CRASH of the consumer calls killGracefully
Ingest ==
  /\ exited = "no"
  /\ IngestNext
  /\ "pool" \notin running => tasks' = {}
  /\ IF consumer # "crashed" /\ consumer' = "crashed" THEN KillGracefully
                                                     ELSE UNCHANGED timers
  /\ UNCHANGED <<launch, running, assigned, shutdownStatus, closer, closing, awaited,
                 exited, launchAtClose>>

Next ==
  \/ LaunchStep \/ LaunchFails
  \/ Signal \/ StalenessRestart \/ \E timer \in timers : Fire(timer)
  \/ CloseStep \/ OverAndOut
  \/ Ingest

Spec == Init /\ [][Next]_vars

(***************************************************************************)
(* Properties                                                               *)
(***************************************************************************)
\* When closeJobs gets past closeHub, a server that was up has stopped all it
\* started but the cron job of the MMDB update, its consumer and worker tasks
\* included: no offset is committed any more, and nothing else uses the closed
\* database (pluginsServer.ts:72-100). That job is cancelled by nobody, as closeHub
\* looks for it in the hub (hub.ts:220), where it is not.
ShutdownIsComplete ==
  closing = "delay" /\ exited = "no" /\ launchAtClose = "up"
  => running = {"mmdbUpdateJob"} /\ consumer = "stopped" /\ tasks = {}

\* Stopping the queue waits for the batch: once closeJobs is past it, the only
\* worker tasks of events left are those a failed batch did not wait for.
StopWaitsForBatch ==
  closing \notin {"none", "kafka"} /\ launchAtClose = "up"
  => \A t \in tasks : t.round \in retired

\* Destroying the workers of a server that was up loses no message that waits
\* in a producer, unless a batch that failed left its task behind: the flush
\* before it has taken everything the batches queued.
DestroyLosesNoBatch ==
  [][launchAtClose = "up" /\ exited' = "no" /\ "pool" \in running \ running'
     => \A message \in buffered : message.round \in retired]_vars

\* The process exits with 0 after a failed launch, or before closeJobs has run
\* to its end, only when closeJobs was called twice.
ZeroMeansClosed ==
  exited = "0" => shutdownStatus = 2 \/ (closing = "delay" /\ closer = "signal")

\* The rounds of events and the calls of closeJobs stay in order, whatever
\* failed, was rebalanced or signalled meanwhile (pluginsServer.ts:59-133).
ServerOK == PluginServerTypeOK /\ OverlapHasCause /\ StopWaitsForBatch /\ ZeroMeansClosed
=============================================================================
