# PostHog plugin server: specification, model checking and proofs

This directory models the plugin server (`src/`) in TLA+: the parts of it whose
correctness depends on the order in which concurrent tasks, threads, servers and
failures act. The modules are translated from the TypeScript source; `PROJECT.json`
maps each definition to the lines it stands for.

- [The system](#the-system)
- [What is hard about it](#what-is-hard-about-it)
- [Modules](#modules)
- [Runs and bounds](#runs-and-bounds)
- [Proofs](#proofs)
- [Where code and comments disagree](#where-code-and-comments-disagree)
- [Not modelled](#not-modelled)

## The system

The server is one main thread and several worker threads (piscina), in possibly many
processes that share Postgres, Redis, Kafka and ClickHouse.

| component | state it keeps | operations | what must hold |
| --- | --- | --- | --- |
| Person identity (`worker/ingestion/process-event.ts`, `person-manager.ts`, `utils/db/db.ts`) | tables of persons and distinct IDs; per thread a cache of seen IDs; per event the persons fetched | `alias`, `mergePeople`, `setIsIdentified`, `createPersonIfDistinctIdIsNew` | distinct IDs share a person only if aliased; no person without distinct IDs; `is_identified` is not lost; every event ends |
| Kafka producer (`utils/db/kafka-producer-wrapper.ts`) | current batch and its size, time of the last flush | `queueMessage`, `flush`, the interval | nothing lost, duplicated or reordered on the way to `sendBatch`; batches within limits |
| Kafka consumer (`main/ingestion-queues/kafka-queue.ts`, `queue.ts`) | resolved and committed offsets, the group of messages in hand | `eachBatch`, start, stop | an offset is committed only when every message up to it has been handled |
| Celery queue (`utils/celery/broker.ts`, `main/ingestion-queues/celery-queue.ts`) | subscriptions, polling loops, `paused`, `closing`, active tasks | subscribe, pause, resume, stop | one loop per subscription; nothing is taken after stop |
| Schedule (`main/services/schedule.ts`, `utils/redlock.ts`) | the lock in Redis; whether this server believes it has it; running tasks | acquire, extend, release, run every minute/hour/day | scheduled tasks run on one server at a time |
| Job queues (`main/job-queues/`) | queued jobs, paused or not, the polling timer | enqueue with fall-back, poll, pause, resume | a job that was accepted runs at least once |
| Server lifecycle (`main/pluginsServer.ts`, `utils/db/hub.ts`, `utils/pubsub.ts`, `utils/kill.ts`) | which parts run, which variables are assigned, `shutdownStatus`, timers | start, staleness restart, graceful and forced shutdown | everything started is stopped, in order, after the batch in hand |
| Event pipeline (`main/ingestion-queues/ingest-event.ts`, `worker/plugins/run.ts`, `worker/ingestion/ingest-event.ts`) | calls of worker tasks | `processEvent` of each plugin in order, then ingestion and `onEvent` in parallel | a dropped event is not ingested; a failing plugin stops nothing |
| Plugin VMs (`worker/plugins/`, `worker/vm/lazy.ts`, `vm.ts`) | per plugin config a lazy VM, its retries and timer; the schedule | load, initialise, retry, reload, tear down | the VM in use is the configured one, not torn down, and torn down once |
| Exports (`worker/vm/upgrades/`) | buffered events and their batches; a cursor, a range and a flag in plugin storage | export, retry with back-off, go on with the next page | no event skipped; none counted twice or never; one export at a time |
| Actions and hooks (`worker/ingestion/action-*.ts`, `hooks.ts`) | a cache of actions per thread | reload one or all, drop, match | the cache follows the database; a matcher that agrees with CSS and with itself |
| Teams, event definitions, group types (`team-manager.ts`, `group-type-manager.ts`) | caches with an age | fetch, insert what is new | what an event needs is defined; columns of group types without a gap, one each |
| Logs and metrics (`postgres-logs-wrapper.ts`, `plugin-metrics.ts`, `internal-metrics.ts`) | a buffer and a timer | add, flush | entries and updates are written once |
| GeoIP database (`main/services/mmdb.ts`) | the file in Postgres, a Redis key while it is fetched | fetch, wait for another fetch, staleness check | one server fetches at a time; the file is never missing again; nobody waits for good |

They interact in these ways. The main thread takes events from Kafka or Celery and gives
each to a worker (`piscina.run`), which runs plugins, then `EventsProcessor`, then hooks. The
workers of all servers meet only in the databases: two events of one distinct ID may be
handled at the same time by two tasks of one thread, two threads or two servers. Pub/sub
messages in Redis reload plugins and actions in every worker. Person changes are written to
Postgres first and announced on Kafka topics afterwards.

## What is hard about it

- *Stale reads.* Every `await` of a query lets other tasks in. `alias()` decides from two
  fetched persons which of five things to do, and by then both may have been merged away.
- *Half a transaction.* `mergePeople` opens a transaction, but `moveDistinctIds` inside it
  goes through the pool and commits at once.
- *Retries that start elsewhere.* A failed merge calls `alias()` again inside the callback of
  its own failed transaction; a failed insert calls `alias()` again without another retry.
- *Finite resources.* A transaction keeps one pool client while its statements, and those of
  nested retries, ask for more.
- *Caches* that are written before the database answers.
- *Timers* that race with stop, pause and the answers they wait for (polling loops, lock
  extension, VM retries, flush intervals).
- *Shutdown* that begins while the start has not ended, and steps of it that wait or throw.
- *Promise.all* that rejects early and leaves its other calls running.
- *Crashes* between a commit and its announcement, and between running a job and removing it.

`PROJECT.json` lists each hazard with its line and the properties that would catch it.

## Modules

### PersonIdentity

`PersonIdentity.tla` is `EventsProcessor` from the arrival of an event to the end of
`createPersonIfDistinctIdIsNew`. A *task* is one run of `processEvent`; `task[t]` holds its
program point (`pc`), its parameters and what it fetched, and `depth` counts the `alias()` calls
still waiting for a nested one. The tables are `pdi` (posthog_persondistinctid), `live` and
`identified` (posthog_person). Each query is one action, so other tasks act between any two;
the code between two queries belongs to the action before it.

| action | code |
| --- | --- |
| `StartEvent` | `processEvent` up to the first query of `alias()`: illegal IDs, aliasing to itself |
| `FetchOld`, `FetchNew` | the two `fetchPerson` of `alias()` and the choice of a branch |
| `AddDistinctId`, `CreatePerson`, `InsertFailed` | the three inserting branches and their `catch` |
| `Begin`, `UpdatePerson`, `MoveDistinctIds`, `DeletePerson`, `Commit` | `mergePeople` inside `postgresTransaction` |
| `MergeFailed` | its `catch`: give up after `MAX_FAILED_PERSON_MERGE_ATTEMPTS`, else `alias()` again |
| `IdentifyFetch`, `IdentifyWait`, `IdentifyUpdate` | `setIsIdentified` |
| `Publish`, `PublishNew` | `queueMessage` after the commit |
| `IsNewPerson`, `CountDistinctId`, `CreatePersonIfNew` | `createPersonIfDistinctIdIsNew`, with `personSeen` |
| `ForgetSeen`, `LoseConnection`, `LoseCommitReply`, `KillThread` | cache eviction and failures |

Postgres is external and modelled by what the code relies on: row locks held until commit, an
UPDATE or DELETE of a locked row waits, a cycle of waits has a victim, unique distinct IDs, a
foreign key from distinct IDs to persons checked by the statement (the comment in `mergePeople`
says it is `deletePerson` that fails), read-committed visibility, and keys that are not reused.

Left out: the team (events of different teams touch different rows), person properties and
`created_at` (written from the same stale snapshots as `is_identified`, which stands for them),
cohort rows except that moving them may violate a foreign key, and logging.

### PersonPartition

The abstract specification: distinct IDs partitioned into persons by atomic *create*, *attach*,
*merge* and *identify*. `PersonIdentity` implements it as long as one event is handled at a
time and nothing fails (`ImplementsPartition`); a merge takes effect at `moveDistinctIds`, and
its `is_identified` counts from then on. The properties of several tasks say what is
left of it when events are concurrent.

### MCPersonIdentity, PersonIdentityProofs

Constants and symmetry for TLC; the proofs. Each module below has an MC module or shares one; what
is proved of it is in a module with `Proofs` in its name.

### KafkaProducer

`KafkaProducerWrapper` of one worker thread, up to `sendBatch`. `QueueMessage` is the whole of
`queueMessage` including the `flush` it may call, which runs without interruption until it
awaits `sendBatch`; `Sent` and `SendFails` are the broker's answers, in any order. `IntervalFlush`
is the timer, `FlushKafkaMessages` and `Destroy` the end of the thread in `stopPiscina`. A message is
a model value with a size; `late` says that `flushFrequencyMs` has passed since the last flush.

### ScheduleLock

The scheduling of several servers over one Redis key. Per server: the timer or request of
`startRedlock` (`pc`), what its variable `lock` denotes, both variables called
`weHaveTheLock` (`believes` in redlock, `have` in schedule), the steps of `stopSchedule` (`phase`), and
the tasks of `pluginSchedulePromises` (`running`). `TryLock`, `Acquire`, `Refused`, `ExtendLock`,
`Extended`, `ExtendFails` are `startRedlock`; `RunEveryMinute`, `ReloadSchedule`, `LoadPluginSchedule`,
`TaskDone` the jobs; `StopSchedule`, `Unlock`, `Quit`, `WaitForTasksToFinish` the stop. The key expires
freely if nobody extends it (`Expire`), and as a fault if somebody does (`ExpireLate`).

### CeleryQueue, CeleryQueueProofs

`Broker` and `CeleryQueue`. A loop is a chain of `receiveOneOnNextTick` calls with the promise
that `channels` holds for it: `Receive` tests `closing` and `paused`, `Pop`, `PopNothing` and `PopFails` are
the answers to BRPOP. `Pause`, `Resume`, and `Stop`, `Disconnect`, `Disconnected` may come at any
point between them. A message is good or `Bad`: one that `receiveOne` or the task handler
throws for.

### JobQueues, JobQueuesProofs

`JobQueueManager` over `S3Queue` and `GraphileQueue`, and the consumer that has the lock of
`startJobQueueConsumer`. A call of `S3Queue.syncState` is a *chain*, from `Fire` (its timer) over `Listed`,
`Get`, `JobDone` and `Deleted` back to a timer; `handle` is the chain whose timer `S3Queue.timeout` denotes, so that
`ClearTimeout` clears that one only. A Graphile worker is a *runner*: `PoolCreated`, `RunnerCreated`, `Stopped`,
with the variables `current` and `pool` apart from what they once denoted. `StartConsumer`, `ResumeConsumer`,
`StopConsumer` and `PauseIfWorkerFull` set the flags and call `syncState` of both; none of these calls waits for
another. `Enqueue` and `EnqueueFails` are the manager's fall-back from queue to queue, and a queue that fails may
have stored the job. `overtaken` and `died` record what the properties except: a `syncState` called while one
awaited, and queues an exception ended.

### PluginVMs, PluginVMsProofs

One worker thread. `setupPlugins` is `Start`, `Query`, `Compare` and `Swap`, one for each await, and may run
several times at once, as every pub/sub message starts one; each has its own `rows` and `vms` until it stores
them. `VMStep` is `LazyPluginVM`: loading, creating, the retry timer, giving up and disabling the configuration, and
`teardownPlugin`, which awaits the VM it tears down. `loadSchedule` (`Watch`, `Scheduled`) goes through
the VMs one await each (`loader`). It is called at the end of a setup (`Swap`) and again by the `reloadSchedule` task that the main
thread broadcasts after every reload (`Nudge`), so that two of them run at the same time as a rule. The `teardownPlugins` task of the
shutdown, which names no configuration, is `TearDownAll`, `TearDownNext` and `TearDownFails`: it goes through the VMs that were in use when it
began, whatever setups go on beside it.

### Ingestion, PluginServer, PluginServerProofs

`Ingestion` is the way of a message: `Fetch`, `StartGroup`, `FinishGroup`, `EndBatch`, `RetryBatch` are `eachBatch`
and kafkajs around it, `ProcessEvent`, `IngestEvent`, `RunOn` and `Reject` the calls of worker tasks that `ingestEvent` on the main
thread makes, in order or in parallel, and `Flush`, `Acknowledge`, `SendFails` the workers' producers, whose detail is in `KafkaProducer`.
`Rebalance` takes the partition away and gives it back. What becomes of a message is in `settled`.

`PluginServer` puts the process around it. `LaunchStep` passes one await of `startPluginsServer`: parts begin to run
(`Starts`), and the variables `closeJobs` looks at are assigned (`Assigns`), which is not the same moment; the cron job of the MMDB update
(`mmdbUpdateJob`) is never in one of them. `BeginClosing` is the first
call of `closeJobs`, from a signal, a failed launch or a timer of `killProcess`, and may come at any of these awaits;
`KafkaQueueStops`, `PartStops`, `PubSubStops`, `FlushWorkers`, `DestroyWorkers` and `OverAndOut` are its awaits. A second call
(`CloseAgain`) returns at once, and its caller exits. `StalenessRestart` and a `CRASH` of the consumer set the timers
of `kill.ts`.

### HistoricalExport, HistoricalExportProofs

The jobs that export a team's past events. `Start` to `EnqueueFirst` are the interface job, one action for each
storage command; `RunJob` to `EndExport` and `Fetch` to `Retry` are `exportEventsFromTheBeginning`. The job queues are a bag of
jobs any thread takes from: `RunJob` may leave a copy of the job it takes, which is then delivered again, and `LoseJob` loses one, as `JobQueues`
shows of S3 and Graphile. Each await may reject (`Throw`, and `PageFails`, `ExportFails` where it is caught), and the process may die (`Crash`). A
page that fails is enqueued again next to the job of the page after it, which is already enqueued. `meta.global` is per thread, plugin
storage shared; `outdated` records that a thread went by the end of an earlier range.

A query has its bounds truncated to `Precision` (`Floor`): to seconds with ClickHouse, not at all with Postgres. Its answer is any of `Pages`: `ORDER BY`
gives events with the same key any order, another one in each query, as `_offset` is unique within a partition of the topic only. With Postgres the key is
the `id`, and no two events tie.

### ActionMatching

`action-matcher.ts` as operators. `Replaced` and `Without` are the two `replace` calls that take stars away, `SelectorParts` what is left between
the blanks, and `MatchParts` the loop of `checkElementsAgainstSelector` with its moving base, as a recursive function of part and base. `MatchesCSS`
is the reference, on the tokens of the selector as it was written: some assignment of elements to tags that respects descendants and children. A
star is a token of its own; one with a class (`> *.c`), which the code cuts in two, is not represented. `CastingCompare`, `Passes` and `CheckProperties`
are the comparison of property values with JavaScript's casts, where a value is a record of what each cast makes of it, and whether RE2 takes it for
a pattern: `new RE2` throws at one that is none, a cohort that is no number throws, and so does a cohort query that fails (`failing`); the step throws
with them. The module has no steps: a run starts with every input (`MatchingSpec`).

### Actions

`ActionManager` of each thread, from a message of the web application (`Save`, `Delete`), by way of Redis and the main
thread (`OnMessage`), to a task (`StartTask`). A fetch is two queries and a late answer (`FetchRows`, `FetchSteps`, `Answer`), and
several may be under way. `doubt` is the history of what the five-minute reload has to put right.

### TeamDefinitions

`TeamManager.updateEventNamesAndProperties` (`FetchTeam` to `Report`) and `GroupTypeManager` with `insertGroupType`
(`FetchGroupTypes` to `GroupTypeInserted`). Tasks of a thread share its caches, all share Postgres. The look-up of a definition, the INSERT and the
update of the cache are apart (`Define`, `Defined`), and so are the query for the group types and its answer, which is stored over a cache that was
emptied meanwhile (`GroupTypesFetched`). An INSERT that
meets a concurrent one of the same row returns no row, after `InsertGroupType` has decided that from what was
committed. `unreported` is set by a task that fails between the flag of the team and its report.

### LogBuffer

`PostgresLogsWrapper` (`AddLog`, `FlushLogs`, `LogsInserted`, `InsertRejected`) and `PluginMetricsManager` (`UpdateMetric`,
`SendPluginMetrics`, `Captured`, `CaptureRejected`): the request and the answer are separate actions, and the buffer is
emptied at the answer.

### ExportEvents

`upgradeExportEvents`: `BufferEvent` is `onEvent`, `FlushBuffer` the first attempt of a batch, `ExportSucceeds`, `RetryError`,
`OtherError` its three ends, `RetryEnqueued` and `RunRetry` the job. The metrics count per event what the code counts per
batch, so that events whose job was lost or repeated can be told apart.

### GeoIP

`prepareMmdb` of several servers: a *run* of it is at one of its awaits, for a launch, a check or in the
background. The Redis key is read (`GetStatus`) and set (`SetFetching`) by two commands, expires by itself
(`ExpireStatus`), or under a slow download (`ExpireEarly`). A failure is caught and leads to `FetchFailed`, or is thrown outside the `try` (`Throw`):
then the launch fails, or nobody hears of it. `CrashHost` leaves the key and whatever rows there are.

### MCServices, MCWorkerCaches, ServicesProofs, SharedStateProofs

The first two check several modules in one run. The modules share no variable, and `part` picks one of them for a
whole behaviour: the state space is the sum of the parts' and not their product. `ServicesProofs` (`LogBuffer`, `ExportEvents`, `GeoIP`,
`KafkaProducer`) and `SharedStateProofs` (`ScheduleLock`, `Actions`, `TeamDefinitions`, `ActionMatching`) hold the proofs of modules that share no
variable either, about a specification of each.

Definitions marked *Mutant* in the modules are wrong variants of the definition they stand
before, each a plausible slip in the code. Substituting one makes the property it is paired
with in `PROJECT.json` fail, which shows that the property looks at that code.

## Runs and bounds

| run | instance | shows |
| --- | --- | --- |
| `identity_two` | two tasks in two threads, three IDs, every kind of event, any initial assignment of persons, two events, one fault, an evicting cache | `NoSpuriousMerge`, `EmptyPersonHasCause`, `SeenIdHasPerson` |
| `identity_one` | one task, four events, no fault | `MirrorAgrees`, `ImplementsPartition` |
| `identity_live` | two tasks, two IDs, three events, three clients | `EventsAreHandled` |
| `schedule_cluster` | two servers, two faults | `OneActiveServer`, `SomeServerSchedules`, `StopEnds` |
| `schedule_expired` | two servers, one fault | one violated statement, see below |
| `celery_loops` | three messages, one bad, three loops, one connection failure | `LoopsOK` (one loop, which polls unless paused), `MessagesAreTaken`, `StopReturns` |
| `job_queues` | both queues, two jobs, two chains and two runners, one fault | `AcceptedIsKept`, `RunsOnce`, `ConsumersOK` (one chain of timers, S3 is polled, the runner follows the flags) |
| `plugin_vms` | one configuration, one edit, the shutdown, three executions of `setupPlugins` and `loadSchedule` at a time, two VMs, two attempts, one failing query | `VMsOK` (the VMs in use agree with their rows, none is torn down twice), `NoTornVMInUse`, `NoStrayVM`, `ScheduleAgrees` |
| `server` | two messages, one of them a `$snapshot`, groups of one, one plugin, two batches fetched, one fault; launch, signals and shutdown at any point | `ServerOK` (`OverlapHasCause`, `StopWaitsForBatch`, `ZeroMeansClosed`), `CommittedIsHandled`, `DuplicateHasCause`, `ShutdownIsComplete`, `DestroyLosesNoBatch` |
| `exports` | two threads, two ranges, seconds of two units, six events of which two tie and one is cut off, two intervals, pages of one event, two attempts; three starts of exports and faults together | `ExportOK` (`ExportedInRange`, `RunningHasJob`), `ChainsHaveCause`, `TwiceHasCause`, `EndMeansExported` |
| `caches` | matching: every input of a bounded set (up to four elements, selectors of up to four parts with and without stars); patterns that are none, cohort queries that fail; actions: one thread, one action of two versions, one loss; team: three tasks, two of them of one thread, three events, two columns of which one is taken, one failure | `MatcherAgrees` (with CSS, with its own negation, with steps as alternatives), `ActionsOK` (`AgreesWhenQuiet`), `EventuallyAgrees`, `DefinitionsOK` (`HandledIsDefined`, `FirstEventIsReported`), `ColumnsAgree` (`ColumnsAreDense`, `ColumnAgrees`, `NoColumnMeansFull`) |
| `services` | producer: four messages of sizes 1 to 4, batches of size and length 3, two failures; logs and metrics: three entries, two configurations, two updates, one failure; exports: three events, one ignored, two retries, one mishap; GeoIP: two servers, two runs each, two checks, one staleness, one trouble | `ProducerOK` (`FittingInOrder`, `BatchesWithinLimits`, `AccountedOnce`), `BufferOK` (`LostLogHasCause`, `UpdatesCapturedOnce`), `MetricsOK` (`SeenAddsUp`, `GivenUpAfterRetries`), `DownloadsOK` (`FetchersHaveCause`), `AttachmentIsKept`, `ServicesEnd` (`EveryMessageIsSent`, `LogsAreFlushed`, `EventsAreSettled`, `RunsEnd`) |

A property named `...OK`, and `ColumnsAgree`, `MatcherAgrees`, `ServicesEnd`, is a conjunction, at the end of its module, of
parts that are defined and explained one by one; each part has a mutant that breaks it. The type
invariant of a module is one of them, except for `PersonIdentity` and `ScheduleLock`, where `TypeOK` is proved and
no run repeats it.

In the runs of `PersonIdentity`, two events that act at the same time are enough for each hazard of the list;
row-lock cycles are then of length two. Three distinct IDs are the least for
a merge (two of them) and an uninvolved one; with three IDs there are three person keys at most,
because every `createPerson` uses up an ID without a person. `MaxCalls` bounds the events of a
behaviour and `MaxFaults` its faults; a second fault only ends a second task early, which the
other task cannot tell from an event that has not started. Symmetry over IDs and keys is used in
runs without liveness only, where the calls and databases are closed under permutation.

A batch of three fills up in every way with the messages of `services`, one of which fits none. Two servers are
enough for `OneActiveServer` and `FetchersHaveCause`, which relate two of them; a server has a second slot because a launch
leaves a run in the background. Three Celery loops are one more than a
resume can leak while the pause before it is still awaited; `Loop` guards `Resume`, but a loop whose
promise nobody awaits is used again, so the number of resumes is not bounded. Two chains and two runners
are one more than the code means to have; three slots in `plugin_vms` let a setup run beside two `loadSchedule`, or two setups
beside one. Two messages and groups of one
make a batch of two groups, the least in which an offset is committed in the middle of a batch. The
first range of `exports` starts in the middle of a second. Its events lie before it in that second, at its start, inside, in the part of its end that
the truncation cuts off, and after it; the first two tie, so that each of the two pages of their interval may have either. The second range is later, so that
an end that is out of date shows either way. Once two exports overlap, every property but the flag's is excused; three starts, or two and a fault, are
therefore followed only while none did (the constraint `Bounded`). One
thread is enough for `Actions`, as threads do not read each other's caches; three group types for two
columns overflow a team. Two tasks of different threads are what a unique constraint tells apart, and two of one thread share a cache that one of
them fills.

*Fairness.* `PersonIdentity`'s `FairSpec` has weak fairness of `Step(t)` for each task: a runnable promise runs
and Postgres answers a query that waits for no lock. Weak fairness is enough although lock
waits may be disabled and enabled again, because transactions are finite in number. No fairness
is assumed of new events, faults or cache eviction. `identity_live` leaves out faults: they
only shorten tasks. `ScheduleLock`'s has
timers fire, Redis answer, unattended keys expire and tasks end; nobody is made to stop, crash or
reload. `CeleryQueue`'s has BRPOP answered (it times out after 5 s), tasks end, and `Resume` when
the workers have drained. `ServicesSpec` has intervals and timers fire, the broker, Postgres and plugins answer, retry jobs run, and each run of
`prepareMmdb` go on. `MCWorkerCaches`'s has queries answered, tasks started and the five-minute timer fire. All of it is
weak: what it is about stays enabled until it happens. No failure is ever forced. These systems may end with nothing left to do, so
their configurations switch the deadlock check off.

`EventsAreHandled` needs more clients than tasks that hold one: with `PoolSize` equal to
the number of tasks it fails (`MCPersonIdentity_pool.cfg`).

## Proofs

Each theorem holds for all values of the constants that satisfy the module's `...Assumption`, and rests on nothing else: any sets of
tasks, threads, IDs, messages, jobs and servers, and any bounds. The assumptions say that model values such as `NoPerson` are not among
the values they stand beside, that limits are natural numbers (attempts, pool, group size, columns and intervals positive ones), that timestamps are positive, that the types of groups
are finitely many, and that there are a job, an action (which may not have been created yet) and a slot for a run to speak of; and, for the matcher, that elements and
tokens are lists and that a selector is one in CSS as far as `>` goes (it neither begins nor ends with one, and has no two in a row). Every inductive invariant below was checked with TLC on the
run's instance before it was proved. What follows is why the properties need them.

### Persons: PersonIdentityProofs

`TypeCorrect`, `NoSpuriousMergeHolds`. `NoSpuriousMerge` is not inductive: it says nothing of what tasks remember. `IInv` adds that
a distinct ID *claims* a person if its row says so or a task fetched the person by it, however
long ago (`Claim`); that all claims to one person are connected by aliases issued
(`ClaimsAgree`); that claimed persons were created, so that a new key is claimed by nobody
(`ClaimedAreUsed`); and that each program point has what it needs (`TasksConsistent`). Most
steps are *quiet*: the new local state claims nothing its old one, or the committed row of one of
its IDs, did not claim (`Follows`, `QuietPreserves`). The three steps that write rows give the rows of a set of
connected IDs to a person whose claims they are connected with (`GivenTo`,
`GivenToPreserves`): for `createPerson` because nothing claims the new key, for
`addDistinctId` and `moveDistinctIds` because the task's own stale fetches are claims.

`EmptyPersonHasCauseHolds`: inductive next to `IInv`. A person that loses its last ID loses it to `moveDistinctIds` (`EmptyMerging`), and the
task that ran it is in the merge until the person is deleted or the merge has failed, for whatever reason. `SeenIdHasPersonHolds`
rests on rows never losing their person (`PersonsStay`).

`PoolExactHolds`, `HoldingsBoundedHolds`, `NoClientLeaks`, `ExhaustedPoolHasHolders`. A failed merge calls `alias()` while its aborted transaction still keeps
a client, so a task may hold several. `PoolExact` counts them one by one (`Slots`): the number in use is the number held, whatever
fails. `HeldWithin` bounds what one task holds twice: by the failed merges, of which there are fewer than
`MAX_FAILED_PERSON_MERGE_ATTEMPTS`, and by the calls of `alias()` that have not returned, so that nothing is held when the outermost
one has. Hence a query waits for a client only while enough tasks hold some: with the ten clients of `utils.ts:462` and three
attempts at least four of them, where nothing but `TASKS_PER_WORKER` (ten) bounds how many are in failed merges at once. These have no run of their own; TLC found the counts and bounds true of two tasks in one thread with five
clients, three events and a fault.

`MirrorAgreesOneByOne` and `ImplementsPartitionOneByOne` are about the instance of the run `identity_one`: one task and no fault, whatever
the other constants. With two tasks both are false of the code: announcements overtake each other, and a merge
overwrites what it fetched. The invariant `Serial` is what concurrency breaks: what a task fetched is still so
(`Fresh`), and Kafka knows all but what the task is about to announce (`Announced`). The refinement is proved step by step: each step of the task is one
operation of `PersonPartition`, or none.

### Schedule: SharedStateProofs

`ScheduleTypeCorrect` and `OneActiveServerHolds`: a server that is active holds
the lock while no fault has occurred, so there is one at most. The strengthening is that an
active server that is not stopping holds the key and has a timer or request to extend it
(`ActiveAttends`), and that what is about to be unlocked is the server's own key
(`LockIsOwners`), so that no unlock removes another server's.

### Celery: CeleryQueueProofs

`OneLoop`, `PollsUnlessPaused` and the type invariant (`LoopsOK`). The
strengthening is that at most one loop is awaited, by `channels` or by the last pause, and that every
living loop that was not resumed over is that one.

### Job queues: JobQueuesProofs

`AcceptedIsKeptHolds`, `RunsOnceHolds`, `ConsumersOKHolds`. An object is deleted only by a chain that has run its job (`RanBeforeDelete`). While no `syncState` was
overtaken there is one chain, and the variable `timeout` denotes it whenever it waits (`OnlyChain`), so that a call that clears
the timer leaves none; likewise one runner, which is made or runs exactly while it is wanted, with `current` and `pool`
denoting it (`OneRunner`). A job runs once because each is in one place, and one that has run is
only waiting for its deletion (`OnePlace`).

### Server: PluginServerProofs

Every property of the `server` run: `CommittedIsHandled`, `DuplicateHasCause`, `ShutdownIsComplete`, `ServerOK` and the action property
`DestroyLosesNoBatch`. None of them is inductive, as they do not say what makes an offset safe to commit. The invariant
follows the batch: what is resolved is handled (`ResolvedIsHandled`); the group awaited is the next stretch of the
log after the resolved offset (`GroupIsNext`), and what a message of it still lacks, a call under way will bring
(`GroupIsPending`); other calls belong to rounds that were cut short (`TasksHaveCause`, `StaleIsRetired`); a round not cut short has come
as far as the resolved offset and the group, and later rounds start after it (`SeenWithinReach`,
`RoundsInOrder`). For the life cycle: nothing consumes before the Kafka queue is assigned, and each step of the launch leaves its
parts assigned (`LaunchIsEarly`, `LaunchAssigns`); a shutdown of a server that was up has stopped all that `closeJobs` has
come to (`ClosingStops`); an exited process runs no task (`GoneIsIdle`). The cron job of the MMDB update runs on from its launch
(`LaunchAssigns`), and is what `ShutdownIsComplete` says is left.

### Caches: SharedStateProofs

`ActionsOKHolds`. That caches agree when nothing is on the way says nothing of how they come to. `ThreadsRight` does: whenever a thread that is not in doubt
differs from Postgres about an action, a message on the way will have it reloaded, or the only fetch under way, which
nothing disturbed, will bring what Postgres has (`OnlyFetch`, `Coming`); and an action about to be dropped is not there or
is about to be reloaded after that (`DropsRight`), which is what the order of messages is good for.

`DefinitionsOKHolds` (the type invariant, `HandledIsDefined`, `FirstEventIsReported`) and `ColumnsAgreeHolds`. The strengthening (`TaskOK`) is that of the
definitions an event needs those before its next one are in Postgres, that a task's snapshot of the group types is
a part of Postgres's, and that it never tries a column beyond their number unless its type is there already. Why that
column is then free, or taken by its own type, is the theorem: an old cache only makes the search longer. `ColumnsAreDense` itself is a part of
the invariant, as the search relies on it. That a group without a column means that all columns are taken (`NoColumnMeansFull`) needs
in addition that an index tried is within the number of types its statement may see (`SearchesOK`), so that an
index past the last has passed every column.

### Matching: SharedStateProofs

`MatcherAgreesHolds`, for elements, selectors, values and steps of any number; `LoopDecides`. A selector is matched in three steps. Taking stars away
leaves a selector, and weakens it (`ReplacementWeakens`): an assignment of elements to the tags before is one to the tags that are kept, as a `>` that
is kept stands between the same two tags. This holds of the second pattern only after the first, which leaves no `> * >` (`NoChildStarChild`); if
no star follows a `>` nothing is replaced (`NothingReplaced`). Matching tokens is finding an `Embedding` of the parts (`CSSAsEmbedding`). The loop is
related to one by two invariants of its state, the part and the base. If there is an embedding, the base never comes to be further in than the
embedding's element for the part, although the loop goes back by one part only (`LoopFindsEmbedding`): it
takes the outermost element for a part, and when a child is not found the embedding's parent of it is still within the base. Conversely the elements matched so far are
always an embedding of the parts so far (`Reached`, `LoopFoundIsEmbedding`); when it goes back, the last is dropped. It is here that
`a > b > c` fails: the part gone back to would have to be the child of its own parent, and the loop no longer knows which
element that was. Hence the exception in `SelectorSound`, and `SingleChildren` in the lemma.

No library induction is used: each claim is refuted at its least counterexample (`LeastNat`, from the well-foundedness of `<`), base first and then part. A recursive function
in TLA+ is a `CHOOSE`, of which nothing is known unless there is a function that solves its equation. `LoopExists` gives one, TRUE in
the least set of states closed under the steps, without asking whether the loop ends; that it does end is `LoopDecides`.

### Plugin VMs: PluginVMsProofs

`VMsOKHolds`, `NoTornVMInUseHolds`, `NoStrayVMHolds`, `ScheduleAgreesHolds`. What a thread ends up with is decided by what its setups hold
while they wait. As long as nothing overlapped a setup and no reload is waiting, the rows it read are still what is in force, or a VM gave up and
disabled its configuration meanwhile (`RowsStand`), and the VMs it is about to store were made for those rows (`LoadingAgrees`). As long as
no setup ever overlapped another or the shutdown, or failed, there is one at most (`SetupAlone`), what will be in use next is not torn down (`NotTorn`), and what it replaces is torn down,
being torn down, or known to be left (`ReplacedIsGone`): the time between `teardownPlugins` and the swap is where `NoTornVMInUse`, stated only between
reloads, says nothing. `NewVM` counts the VMs made, so that it gives an unused one needs that they were made in order
(`MadeInOrder`). A shutdown that met no setup goes through VMs that are not torn down, and none is set up any more (`ClosingWhole`): that is why a
second teardown needs a reload at the shutdown. Any number of `loadSchedule` may run; each has, for the configurations it
is done with, a VM that is ready or will not be so at its first attempt (`LookedAt`), of the VMs in use when it began. The schedule is of the last one to
end, and agrees with what is in use unless that changed meanwhile (`hasty`, `ScheduleStands`); so two that run over the same VMs do no harm.

### Historical exports: HistoricalExportProofs

`ExportHasOneChain` (`ChainsHaveCause`), `EventsAreExportedOnce` (`TwiceHasCause`), `EndOfExport` (`EndMeansExported`) and
`ExportKeepsRange` (`ExportOK`). The properties count jobs and exported events; the invariant says where each page of an interval is. A job
with a retry behind it, or one that is there twice, has left its interval in `again` (`RetriesRemembered`). While the
flag is set and no job was lost or threw, a thread is at work on the export, or a job that was not tried before waits (`FlagHasJob`). Nothing is under way while an export
starts, unless two starts raced (`StartsAlone`), so that there is one chain until a page is tried again (`OneUnlessAgain`). The export under way goes over
the range it was started with, its cursor and pages within it (`RangeOK`), and while only one was started there is nothing left of
another (`FirstOK`).

As the length of an interval is a multiple of `Precision`, all intervals of an export are as far past a second as its range is (`InPhase`); truncated, they still
follow each other (`FloorMoves`), and what truncation adds at the start it cuts off at the end. Hence the two exceptions, `range[1] % Precision` in
`EndMeansExported` and `Floor` in `ExportedInRange`.

An event is exported once because the intervals placed do not overlap (`SpacedOK`), one job goes through the pages of an
interval unless one of them was tried again (`SoleOK`), and an event in hand or exported is on no page still to fetch (`OnceOK`). It is exported at all
because each event of the range is still to come, on a page to fetch, in hand, exported, or excused by a page given up
(`CoverOK`). Both are said of events that tie with no other: such an event has one place, and is on the pages with that place and no others
(`UntiedPage`), whatever order the events around it are given. The job that meets an empty page leaves its interval: that nothing is missed there is
`PageNotEmpty`, which counts the events before one that is past the page, and finds one of them, or their ties, on it.

### Producer, logs, metrics, exports, GeoIP: ServicesProofs

`ProducerOKHolds`. For the order, an empty batch has size zero (`EmptyHasNoSize`): otherwise a message that fits could be taken
for one that does not, and `flush` on an empty batch would drop it. For the limits, `currentBatchSize` is the sum of the batch's sizes
(`SizeIsKept`) and a batch that is kept has room for a message (`BatchHasRoom`). The sum is given by its running
totals (`RunningSizes`) and not by recursion, so that what a message adds to it needs no induction. That a
message is in flight, arrived or failed, in one of them only, needs that the batch holds nothing that was handed over (`BatchIsNew`).

`BufferOKHolds`. The buffer holds nothing that was written (`OnlyAdded`); entries no INSERT has missed are together in the buffer and in
every INSERT of its time (`LuckyTogether`), so that a duplicate key fails an INSERT only of entries that are
written (`LuckyIsWritten`); a capture sends each metric as it is (`CaptureAgrees`).

`MetricsOKHolds`. An event that was not repeated is in one batch (`OneBatch`), and its counts are a function of where that is: nothing before (`NotCountedBefore`), one retry
error for each attempt but the current one within (`CountedInBatch`), one end after (`CountedAfter`).

`DownloadsOKHolds`, and `AttachmentIsKeptHolds`, an action property. Unless runs overlapped there is one that fetches, or is about to (`OneFetches`), and
the key says so (`KeySaysSo`), which keeps the next from joining it. `deleteOthers` then meets the row its
own run has inserted (`InsertedIsThere`).

### Only model-checked

Liveness under fairness, which is out of the provers' reach: `EventsAreHandled`, `SomeServerSchedules`, `StopEnds`, `MessagesAreTaken`,
`StopReturns`, `EventuallyAgrees`, `ServicesEnd`. Every other property of a passing run is a theorem; `MirrorAgrees` and `ImplementsPartition` for
one task without faults, as said above.

## Where code and comments disagree

`schedule_expired`: `README.md` of the repository says scheduled tasks run on one server only; a failed extension is
not passed on to `onUnlock`, and the server goes on starting tasks. TLC finds `StartsWithLock` violated.

Five more statements are violated in instances kept beside the runs, each with a configuration to run by hand:

- `MCPersonIdentity_race.cfg`: `db.ts` says a `RaceConditionError` "will trigger a retry with updated
  persons"; the `catch` in `mergePeople` retries `DatabaseError` only.
- `MCPersonIdentity_pool.cfg`: the comment promises that merging bails out in the worst case; with
  `max: 10` clients and ten tasks per thread the tasks can wait for clients forever.
- `MCCeleryQueue_hang.cfg`: `disconnect` should return when Redis is disconnected; it never returns after an
  exception in a loop.
- `MCCeleryQueue_pause.cfg`: `pause` should wait for all channels; a loop that was resumed over is in none.
- `MCHistoricalExport_second.cfg`: a comment means all threads to have "global state in sync"
  (`export-historical-events.ts:196`); a thread that ran a job of an earlier export goes by the end of that one (`241`).

The models show further behaviours that readers of the code may not expect. The properties name them as
exceptions (`... HasCause`, `doubt`, `overtaken`, `messy`), or leave them out for the reason given:

*Persons.* A merge whose `deletePerson` fails is not completed by the retry: `moveDistinctIds` has
committed, so the retry finds one person for both IDs, and the emptied person stays. An `$identify` merges away
a person identified after the fetch, and a merge overwrites an `is_identified` set after the fetch.

*Producers and shutdown.* A message too large for a batch is dropped when it meets an empty one (`kafka-producer-wrapper.ts:53,67`). `stopPiscina` destroys a
thread while a batch of an earlier flush is unanswered. A second signal exits at once, although the log says "Try again
to shut down forcibly"; `shutdownStatus >= 3` is never reached (`pluginsServer.ts:64`, `111`). The second SIGTERM of `killProcess` has
the same effect on a shutdown that takes a minute. The cron job of the MMDB update is started (`pluginsServer.ts:125`) and never cancelled: `closeHub` looks for it in
`hub.mmdbUpdateJob` (`hub.ts:220`), and it is in `serverInstance`. `closeJobs` during the launch leaves running what is started after its turn, and
`PubSub.stop` throws when `start` has not ended (`pubsub.ts:49`). If Kafka does not start, the Celery queue started before it is
not stopped (`queue.ts:57-63`).

*Ingestion.* A rejected call leaves the other calls of its group running while the group is handled again
(`kafka-queue.ts:66`). A task that throws answers with `{error}`, which is ingested in the event's place (`worker.ts:46`).

*Schedule and queues.* `stopSchedule` unlocks before it waits for running tasks, so two servers may run the same task. `stop` during a
pause of the Celery queue returns while a loop still waits for a message. A resume that overtakes `syncState` starts
a second chain of timers for good (`job-queue-base.ts:67`), and one that overtakes a Graphile start leaves a runner without a
variable. Graphile deletes a job before a worker has run it (`graphile-queue.ts:83`). An exception in a chain of S3 ends its polling.

*Plugins.* VMs are torn down before a setup is over, so that a setup that fails leaves torn ones in use
(`setup.ts:29`). The shutdown tears those down a second time that a setup beside it has torn down and not yet replaced (`teardown.ts:5`). A VM whose
creation succeeds at a retry may miss from the schedule until the next reload. Of the two `loadSchedule` of a reload (`setup.ts:44`, `tasks.ts:42`), and those of the reload
before, the last one to end stores the schedule it found, also if it began with VMs that were replaced since (`setup.ts:106-129`).

*Exports.* A failed page starts a second chain of jobs (`export-historical-events.ts:138`), although a comment means each interval to
be processed once (`106`). The flag is set before an initialisation that may throw, and then no export can be started
(`69`, `78`), and likewise when a job is lost or throws. Two starts may pass the flag at once. With ClickHouse the bounds of a query are truncated to seconds
(`utils.ts:93-100`): the events of up to a second before the range are exported, and as much of its end may not be. The events of an interval are paged by `LIMIT` and
`OFFSET` in the order of `_offset` (`utils.ts:107-109`), which events of different partitions share: such an event may be on two pages, or on none. A job that a queue
delivers twice starts a second chain. The last interval is exported beyond the end of the range; a second export may
go on to the end of the first, or stop there before its own (`241`). A retry job whose
enqueueing throws is counted neither delivered nor undelivered (`export-events.ts:113`).

*Caches.* A fetch that ends after a drop or a later fetch brings an old action back until the five-minute reload
(`action-manager.ts:37`). Messages before the subscription are lost. The first-event report is lost if a query after the UPDATE
fails, and repeated while the cached team is old (`team-manager.ts:74-96`). Two concurrent inserts of the same group type
may yield no column (`db.ts:1168`, `1189`).

*Matching.* `a > b > c` also matches `a > b > b > c` (`action-matcher.ts:482`), which is the only way in which a selector without stars matches
too much; `> *` is removed although it stands for a level (`435-438`); `is_not` with a list matches unless every value of it is equal. A
filter whose value is no pattern makes the step throw, with `not_regex` as with `regex` (`405-408`), where a step's URL pattern of that kind just does not match
(`199-203`).

*Buffers and files.* Log entries added during an INSERT are lost, or make the next INSERT fail by the primary key
(`postgres-logs-wrapper.ts:38`). Updates of metrics during a send are lost, and captures repeated after a failing one (`plugin-metrics.ts:24-36`).
Two runs that fetch the GeoIP file may each delete the other's attachment, and one's end hides the other
(`mmdb.ts:72-127`); a comment says an hour where the key lives for 120 seconds (`123`).

## Not modelled

- *Event, element and recording creation*: each builds one message and hands it to the producer or an INSERT that
  ignores conflicts. Nothing later reads state it leaves behind.
- *Person properties*: a fetch and an UPDATE that overwrites; the lost update it allows is the
  one `PersonIdentity` shows for `is_identified`, and the code promises nothing weaker.
- *VM sandbox and transforms*: rewriting of syntax trees, without state.
- *hooks.ts*: formatting and two HTTP requests for each match.
- *Storage, cache, API and console extensions, organizations, internal metrics*: wrappers without state, a cache that is only read, and
  counters that are taken before anything is awaited.
- *FsQueue*: for tests.
- *Configuration, status, database wrappers*: what the modelled callers need of them is in the callers' modules.
- *Time*: a timer that is set may fire at any later step; how long a back-off or an interval is makes no difference to the
  properties.
