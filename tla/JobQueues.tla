------------------------------ MODULE JobQueues ------------------------------
(***************************************************************************)
(* The job queues of a plugin server: JobQueueManager over S3Queue, which   *)
(* JobQueueBase polls by a timer, and GraphileQueue, which runs a Graphile  *)
(* worker (src/src/main/job-queues/).  Plugins enqueue jobs; the server     *)
(* that has the lock of startJobQueueConsumer runs them in worker threads,  *)
(* whose full queue pauses and whose drain event resumes the consumer.      *)
(*                                                                          *)
(* syncState is not reentrant: every call of it, by a timer, a resume or a  *)
(* start, is a chain of its own while it awaits S3 or a job.                *)
(*                                                                          *)
(* Abstracted: payloads, key and file formats (a job is its due time, and   *)
(* S3 lists keys in that order), the length of polling intervals, the lock  *)
(* (ScheduleLock shows who holds one), the other threads of the server.     *)
(***************************************************************************)
EXTENDS Integers, Sequences, FiniteSets, FiniteSetsExt

CONSTANTS
  Job,        \* the jobs plugins enqueue, each once: their due times
  Chain,      \* bound: concurrent executions of S3Queue.syncState
  Runner,     \* bound: Graphile workers
  None,       \* no chain, no runner
  JOB_QUEUES, \* the configured queues, in order
  MaxFaults   \* bound: failing requests, crashes and stops

ASSUME JobQueuesAssumption ==
  /\ Job \subseteq Nat \ {0} /\ Job # {}
  /\ None \notin Chain \cup Runner
  /\ JOB_QUEUES \in Seq({"s3", "graphile"})
  /\ MaxFaults \in Nat

VARIABLES
  now,
  s3,         \* jobs with an object in the bucket
  graphile,   \* jobs with a row in Postgres
  tried,      \* per job, the queues whose enqueue threw
  accepted,   \* jobs whose enqueue returned
  phase,      \* "down", "up", "stopping"
  consuming,  \* jobQueues of the main thread's manager
  started,
  paused,
  chain,      \* per chain, where it is ("free", "armed": its timer is set) and
              \* the rest of the list it has read
  handle,     \* the chain whose timer S3Queue.timeout denotes
  runner,     \* per Graphile worker: "unused", "connecting", "starting",
              \* "running", "stopping"
  current,    \* GraphileQueue.runner
  pool,       \* GraphileQueue.consumerPool, named for the runner it was made for
  ended,      \* runners whose pool has been ended under them
  handed,     \* Graphile jobs, acknowledged, in piscina
  ran,        \* history: how often each job was run, up to 2
  lost,       \* history: jobs handed when the server went down
  overtaken,  \* history: queues whose syncState was called while one awaited
  died,       \* history: queues that do not work since connecting or an
              \* exception of syncState
  faults

stores == <<now, s3, graphile>>
enqueueing == <<tried, accepted>>
flags == <<phase, consuming, started, paused>>
polling == <<chain, handle>>
workers == <<runner, current, pool, ended>>
jobs == <<handed, ran, lost>>
histories == <<overtaken, died, faults>>
vars == <<stores, enqueueing, flags, polling, workers, jobs, histories>>

Queue == {"s3", "graphile"}
Free == [at |-> "free", todo |-> {}]
Working == {"listing", "getting", "running", "deleting"}
Due == {j \in s3 : j <= now}

TypeOK ==
  /\ now \in Nat
  /\ s3 \subseteq Job /\ graphile \subseteq Job /\ accepted \subseteq Job
  /\ tried \in [Job -> SUBSET Queue]
  /\ phase \in {"down", "up", "stopping"}
  /\ consuming \subseteq Queue
  /\ started \in BOOLEAN /\ paused \in BOOLEAN
  /\ chain \in [Chain -> [at : Working \cup {"free", "armed"}, todo : SUBSET Job]]
  /\ \A c \in Chain : chain[c].at \in {"getting", "running", "deleting"} <=> chain[c].todo # {}
  /\ handle \in Chain \cup {None}
  /\ runner \in [Runner -> {"unused", "connecting", "starting", "running", "stopping"}]
  /\ current \in Runner \cup {None} /\ pool \in Runner \cup {None}
  /\ ended \subseteq Runner
  /\ handed \subseteq Job /\ lost \subseteq Job
  /\ ran \in [Job -> 0..2]
  /\ overtaken \subseteq Queue /\ died \subseteq Queue
  /\ faults \in 0..MaxFaults

Init ==
  /\ now = Min(Job)
  /\ s3 = {} /\ graphile = {} /\ accepted = {}
  /\ tried = [j \in Job |-> {}]
  /\ phase = "down"
  /\ consuming = {}
  /\ started = FALSE /\ paused = FALSE
  /\ chain = [c \in Chain |-> Free] /\ handle = None
  /\ runner = [r \in Runner |-> "unused"]
  /\ current = None /\ pool = None /\ ended = {}
  /\ handed = {} /\ lost = {}
  /\ ran = [j \in Job |-> 0]
  /\ overtaken = {} /\ died = {}
  /\ faults = 0

Fault == faults < MaxFaults /\ faults' = faults + 1

Tick ==
  /\ now < Max(Job)
  /\ now' = now + 1
  /\ UNCHANGED <<s3, graphile, enqueueing, flags, polling, workers, jobs, histories>>

-----------------------------------------------------------------------------
(* Producing *)

(* The queue that enqueue asks next: the first it has not tried. *)
NextQueue(j) ==
  {q \in Queue \ tried[j] : \E i \in DOMAIN JOB_QUEUES :
     JOB_QUEUES[i] = q /\ \A k \in 1 .. i - 1 : JOB_QUEUES[k] \in tried[j]}

Upload(j) == s3' = s3 \cup {j} /\ UNCHANGED graphile

AddJob(j) == graphile' = graphile \cup {j} /\ UNCHANGED s3

Store(j, q) == IF q = "s3" THEN Upload(j) ELSE AddJob(j)

Enqueue(j) ==
  /\ phase = "up" /\ j \notin accepted
  /\ \E q \in NextQueue(j) : Store(j, q)
  /\ accepted' = accepted \cup {j}
  /\ UNCHANGED <<now, tried, flags, polling, workers, jobs, histories>>

(* A queue's enqueue throws, perhaps after it stored the job. *)
EnqueueFails(j) ==
  /\ phase = "up" /\ j \notin accepted
  /\ \E q \in NextQueue(j) :
       /\ tried' = [tried EXCEPT ![j] = @ \cup {q}]
       /\ Store(j, q) \/ UNCHANGED <<s3, graphile>>
  /\ Fault
  /\ UNCHANGED <<now, accepted, flags, polling, workers, jobs, overtaken, died>>

-----------------------------------------------------------------------------
(* syncState of both queues, for the values started and paused get *)

On == started' /\ ~paused'

(* Mutant: the timer is forgotten, not cleared. *)
ForgetTimeout(ch) == ch

(* clearTimeout(this.timeout) *)
ClearTimeout(ch) ==
  IF handle # None /\ ch[handle].at = "armed" THEN [ch EXCEPT ![handle] = Free] ELSE ch

(* The call up to listObjectsV2, executed by a free chain (any: they differ  *)
(* in nothing else).                                                        *)
SyncS3 ==
  /\ IF On /\ "s3" \in consuming
     THEN /\ \E c \in Chain : chain[c].at = "free"
          /\ LET c == CHOOSE c \in Chain : chain[c].at = "free"
             IN  chain' = [ClearTimeout(chain) EXCEPT ![c].at = "listing"]
     ELSE chain' = ClearTimeout(chain)
  /\ UNCHANGED handle

(* Mutant: the runner is kept for later. *)
KeepRunner == UNCHANGED workers

StopRunner ==
  /\ current' = None
  /\ runner' = IF current = None THEN runner ELSE [runner EXCEPT ![current] = "stopping"]
  /\ UNCHANGED <<pool, ended>>

(* A call that sees no runner makes one. *)
SyncGraphile ==
  IF ~On THEN StopRunner
  ELSE /\ UNCHANGED <<current, pool, ended>>
       /\ IF current = None /\ "graphile" \in consuming
          THEN /\ \E r \in Runner : runner[r] = "unused"
               /\ runner' = [runner EXCEPT ![CHOOSE r \in Runner : runner[r] = "unused"] = "connecting"]
          ELSE UNCHANGED runner

Overtakes ==
  {q \in Queue :
     \/ q = "s3" /\ On /\ \E c \in Chain : chain[c].at \in Working
     \/ q = "graphile" /\ \E r \in Runner :
          runner[r] \in {"connecting", "starting"} \cup IF On THEN {"stopping"} ELSE {}}

SyncState ==
  /\ SyncS3
  /\ SyncGraphile
  /\ overtaken' = overtaken \cup Overtakes

-----------------------------------------------------------------------------
(* The server *)

(* getS3Wrapper, or the migration of Graphile, throws.  Bound: for the      *)
(* first queue, in the main thread (in a worker thread it is like           *)
(* EnqueueFails).                                                           *)
MayNotConnect == {Head(JOB_QUEUES)}

Configured == {JOB_QUEUES[i] : i \in DOMAIN JOB_QUEUES}

(* createHub: connectProducer drops the queues it cannot connect to. *)
Launch ==
  /\ phase = "down"
  /\ phase' = "up"
  /\ consuming' \in {Configured, Configured \ MayNotConnect}
  /\ died' = Configured \ consuming'
  /\ UNCHANGED <<stores, enqueueing, started, paused, polling, workers, jobs, overtaken, faults>>

(* onLock, each time the lock is acquired *)
StartConsumer ==
  /\ phase = "up" /\ ~started
  /\ started' = TRUE
  /\ UNCHANGED paused
  /\ SyncState
  /\ UNCHANGED <<stores, enqueueing, phase, consuming, jobs, died, faults>>

(* Mutant: resuming leaves it to the next timer to read. *)
ResumeOnTimer ==
  /\ phase = "up" /\ paused
  /\ paused' = FALSE
  /\ UNCHANGED <<stores, enqueueing, phase, consuming, started, polling, workers, jobs, histories>>

(* piscina's drain event *)
ResumeConsumer ==
  /\ phase = "up" /\ paused
  /\ paused' = FALSE
  /\ UNCHANGED started
  /\ SyncState
  /\ UNCHANGED <<stores, enqueueing, phase, consuming, jobs, died, faults>>

(* stop, of closeJobs: onUnlock *)
StopConsumer ==
  /\ phase = "up" /\ started
  /\ phase' = "stopping"
  /\ started' = FALSE
  /\ UNCHANGED paused
  /\ SyncState
  /\ Fault
  /\ UNCHANGED <<stores, enqueueing, consuming, jobs, died>>

(* The process ends: exit after closeJobs, or a crash. *)
Down ==
  /\ phase # "down"
  /\ IF phase = "up" THEN Fault ELSE UNCHANGED faults
  /\ phase' = "down"
  /\ started' = FALSE /\ paused' = FALSE
  /\ chain' = [c \in Chain |-> Free] /\ handle' = None
  /\ runner' = [r \in Runner |-> "unused"]
  /\ current' = None /\ pool' = None /\ ended' = {}
  /\ lost' = lost \cup handed /\ handed' = {}
  /\ overtaken' = {}
  /\ UNCHANGED <<stores, enqueueing, consuming, ran, died>>

(* pauseQueueIfWorkerFull, at the start of onJob *)
PauseIfWorkerFull(chains) ==
  \/ /\ paused' = TRUE
     /\ chain' = ClearTimeout(chains)
     /\ UNCHANGED started
     /\ StopRunner
     /\ overtaken' = overtaken \cup Overtakes
  \/ /\ chain' = chains
     /\ UNCHANGED <<started, paused, workers, overtaken>>

-----------------------------------------------------------------------------
(* S3Queue *)

At(c, place) == chain' = [chain EXCEPT ![c].at = place]

(* this.timeout = setTimeout(syncState) *)
Rearm(c) ==
  /\ chain' = [chain EXCEPT ![c] = [at |-> "armed", todo |-> {}]]
  /\ handle' = c

(* Mutant: an object is deleted as soon as it has been read. *)
ReadAndDelete(c) == s3' = s3 \ {Min(chain[c].todo)}

(* What getObject does to the bucket. *)
Read(c) == UNCHANGED s3

(* The timer fires. *)
Fire(c) ==
  /\ chain[c].at = "armed"
  /\ chain' = [(IF started /\ ~paused
                THEN [ClearTimeout(chain) EXCEPT ![c].at = "listing"]
                ELSE [ClearTimeout(chain) EXCEPT ![c] = Free]) EXCEPT ![c].todo = {}]
  /\ UNCHANGED <<stores, enqueueing, flags, handle, workers, jobs, histories>>

(* Mutant: an empty list is read like any other. *)
ListedAlways(c) ==
  /\ chain[c].at = "listing"
  /\ chain' = [chain EXCEPT ![c] = [at |-> "getting", todo |-> Due]]
  /\ UNCHANGED <<stores, enqueueing, flags, handle, workers, jobs, histories>>

Listed(c) ==
  /\ chain[c].at = "listing"
  /\ IF Due = {} THEN Rearm(c)
     ELSE /\ chain' = [chain EXCEPT ![c] = [at |-> "getting", todo |-> Due]]
          /\ UNCHANGED handle
  /\ UNCHANGED <<stores, enqueueing, flags, workers, jobs, histories>>

(* getObject, JSON.parse, onJob up to piscina.run *)
Get(c) ==
  /\ chain[c].at = "getting"
  /\ Min(chain[c].todo) \in s3
  /\ PauseIfWorkerFull([chain EXCEPT ![c].at = "running"])
  /\ Read(c)
  /\ UNCHANGED <<now, graphile, enqueueing, phase, consuming, handle, jobs, died, faults>>

(* Another chain has deleted the object: NoSuchKey ends this one. *)
GetNothing(c) ==
  /\ chain[c].at = "getting"
  /\ Min(chain[c].todo) \notin s3
  /\ chain' = [chain EXCEPT ![c] = Free]
  /\ died' = died \cup {"s3"}
  /\ UNCHANGED <<stores, enqueueing, flags, handle, workers, jobs, overtaken, faults>>

Ran(j) == ran' = [ran EXCEPT ![j] = Min({2, @ + 1})]

JobDone(c) ==
  /\ chain[c].at = "running"
  /\ Ran(Min(chain[c].todo))
  /\ At(c, "deleting")
  /\ UNCHANGED <<stores, enqueueing, flags, handle, workers, handed, lost, histories>>

(* Mutant: an object is deleted with the next list. *)
DeleteLater(c) ==
  /\ chain[c].at = "deleting"
  /\ Rearm(c)
  /\ UNCHANGED <<stores, enqueueing, flags, workers, jobs, histories>>

Deleted(c) ==
  /\ chain[c].at = "deleting"
  /\ s3' = s3 \ {Min(chain[c].todo)}
  /\ LET rest == chain[c].todo \ {Min(chain[c].todo)}
     IN  IF rest = {} THEN Rearm(c)
         ELSE /\ chain' = [chain EXCEPT ![c] = [at |-> "getting", todo |-> rest]]
              /\ UNCHANGED handle
  /\ UNCHANGED <<now, graphile, enqueueing, flags, workers, jobs, histories>>

(* A request to S3 fails; nothing catches the exception of a timer. *)
S3Fails(c) ==
  /\ chain[c].at \in {"listing", "getting", "deleting"}
  /\ chain' = [chain EXCEPT ![c] = Free]
  /\ died' = died \cup {"s3"}
  /\ Fault
  /\ UNCHANGED <<stores, enqueueing, flags, handle, workers, jobs, overtaken>>

-----------------------------------------------------------------------------
(* GraphileQueue *)

Step(r, from, to) == runner[r] = from /\ runner' = [runner EXCEPT ![r] = to]

PoolCreated(r) ==
  /\ Step(r, "connecting", "starting")
  /\ pool' = r
  /\ UNCHANGED <<stores, enqueueing, flags, polling, current, ended, jobs, histories>>

(* run resolves: a runner that another call made meanwhile is forgotten. *)
RunnerCreated(r) ==
  /\ Step(r, "starting", "running")
  /\ current' = r
  /\ UNCHANGED <<stores, enqueueing, flags, polling, pool, ended, jobs, histories>>

CreationFails(r) ==
  /\ runner[r] \in {"connecting", "starting"}
  /\ runner' = [runner EXCEPT ![r] = "unused"]
  /\ ended' = ended \ {r}
  /\ pool' = IF pool = r THEN None ELSE pool
  /\ died' = died \cup {"graphile"}
  /\ Fault
  /\ UNCHANGED <<stores, enqueueing, flags, polling, current, jobs, overtaken>>

(* oldRunner.stop resolves, and consumerPool.end is called on the pool that *)
(* is there now.                                                            *)
Stopped(r) ==
  /\ Step(r, "stopping", "unused")
  /\ ended' = (IF pool = None THEN ended ELSE ended \cup {pool}) \ {r}
  /\ pool' = IF pool = r THEN None ELSE pool
  /\ UNCHANGED <<stores, enqueueing, flags, polling, current, jobs, histories>>

(* The handler does not await onJob: the job is acknowledged at once. *)
Take(r, j) ==
  /\ runner[r] = "running" /\ r \notin ended
  /\ j \in graphile /\ j <= now
  /\ graphile' = graphile \ {j}
  /\ handed' = handed \cup {j}
  /\ PauseIfWorkerFull(chain)
  /\ UNCHANGED <<now, s3, enqueueing, phase, consuming, handle, ran, lost, died, faults>>

HandedDone(j) ==
  /\ j \in handed
  /\ handed' = handed \ {j}
  /\ Ran(j)
  /\ UNCHANGED <<stores, enqueueing, flags, polling, workers, lost, histories>>

-----------------------------------------------------------------------------
Next ==
  \/ Tick
  \/ \E j \in Job : Enqueue(j) \/ EnqueueFails(j) \/ HandedDone(j)
  \/ Launch \/ StartConsumer \/ ResumeConsumer \/ StopConsumer \/ Down
  \/ \E c \in Chain :
       \/ Fire(c) \/ Listed(c) \/ Get(c) \/ GetNothing(c) \/ JobDone(c)
       \/ Deleted(c) \/ S3Fails(c)
  \/ \E r \in Runner :
       \/ PoolCreated(r) \/ RunnerCreated(r) \/ CreationFails(r) \/ Stopped(r)
       \/ \E j \in Job : Take(r, j)

Spec == Init /\ [][Next]_vars

-----------------------------------------------------------------------------
(* A job that a queue accepted is stored, in the worker threads or has been *)
(* run, unless the server went down with a Graphile job in its threads: S3  *)
(* deletes an object only after its job (s3-queue.ts:65-66).                *)
AcceptedIsKept ==
  \A j \in accepted : j \in s3 \cup graphile \cup handed \cup lost \/ ran[j] > 0

(* A job runs twice only if a resume overtook syncState, or a request       *)
(* failed, or the server went down (s3-queue.ts:52-74).                     *)
RunsOnce ==
  \A j \in Job : ran[j] > 1 => "s3" \in overtaken \/ faults > 0

(* Unless a resume overtook one, one syncState of S3Queue reads or waits    *)
(* for its timer, however often the consumer was paused and resumed         *)
(* (job-queue-base.ts:78-91).                                               *)
OneChain ==
  "s3" \in overtaken \/ Cardinality({c \in Chain : chain[c].at # "free"}) <= 1

(* A consumer that is started and not paused polls S3, or some syncState of *)
(* it ended with an exception.                                              *)
PollsS3 ==
  started /\ ~paused /\ "s3" \in consuming \ died =>
    \E c \in Chain : chain[c].at # "free"

(* Unless a call overtook syncState: a runner that is not being started or  *)
(* stopped runs exactly while the consumer is started and not paused, alone *)
(* and with a pool that is open (graphile-queue.ts:67-96).                  *)
RunnerFollowsFlags ==
  LET live == {r \in Runner : runner[r] = "running"}
  IN  "graphile" \notin overtaken \cup died
      /\ (\A r \in Runner : runner[r] \in {"unused", "running", "stopping"}) =>
        /\ ended \cap live = {}
        /\ live = IF current = None THEN {} ELSE {current}
        /\ (started /\ ~paused /\ "graphile" \in consuming) <=> live # {}

(* Both consumers go on, alone, while the server wants them to: one chain of *)
(* reads of S3, one runner of Graphile (job-queue-base.ts:46-91).           *)
ConsumersOK == TypeOK /\ OneChain /\ PollsS3 /\ RunnerFollowsFlags
=============================================================================
