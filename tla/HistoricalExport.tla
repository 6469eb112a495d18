-------------------------- MODULE HistoricalExport ---------------------------
(***************************************************************************)
(* The export of a team's past events by a plugin with exportEvents         *)
(* (src/src/worker/vm/upgrades/historical-export/): jobs that run on any    *)
(* worker thread walk a cursor in the plugin's storage over intervals of    *)
(* time, one page of events per job, each job enqueueing the next one and,  *)
(* when its own page failed, itself again.                                  *)
(*                                                                          *)
(* Abstracted: what happens within the job queues (JobQueues): they deliver *)
(* jobs in any order, some of them twice or never; the start of the range   *)
(* in storage, the progress bar that is drawn from it, the logs and the     *)
(* metrics.                                                                 *)
(***************************************************************************)
EXTENDS Integers, FiniteSets, Bags

CONSTANTS
  JobThread,     \* worker threads, each running one of the jobs at a time
  Events,        \* the team's events in the database
  timestamp,     \* [event -> its timestamp]
  orderKey,      \* [event -> its id, or its _offset, which other events may have]
  Precision,     \* of the bounds of a query: milliseconds, or seconds in ClickHouse
  Interval,      \* EVENTS_TIME_INTERVAL
  EventsPerRun,  \* EVENTS_PER_RUN
  Ranges,        \* <<from, to>>: dates an export is started with
  MaxRetries,    \* attempts after which a job is given up (15)
  MaxActs        \* bound, together: exports started from the interface; failed
                 \* fetches, exports, commands and enqueues, jobs lost or delivered
                 \* twice, crashes

ASSUME ExportAssumption ==
  /\ IsFiniteSet(Events) /\ timestamp \in [Events -> Nat \ {0}] /\ orderKey \in [Events -> Nat]
  /\ Interval \in Nat \ {0} /\ EventsPerRun \in Nat \ {0}
  /\ Precision \in Nat \ {0} /\ Interval % Precision = 0
  /\ Ranges \subseteq (Nat \ {0}) \X (Nat \ {0})
  /\ MaxRetries \in Nat \ {0} /\ MaxActs \in Nat

VARIABLES
  isExportRunning,  \* plugin storage: EXPORT_RUNNING_KEY
  cursor,           \* plugin storage: TIMESTAMP_CURSOR_KEY, or None
  storedMax,        \* plugin storage: MAX_UNIX_TIMESTAMP_KEY, 0 when not there
  maxTimestamp,     \* [thread -> meta.global.maxTimestamp], 0 when not set
  jobs,             \* bag of enqueued jobs
  task,             \* [thread -> the job it runs and where it is]
  exported,         \* [event -> times exportEvents succeeded with it, up to 2]
  starts,           \* exports started so far
  faults,           \* faults so far
  again,            \* history: intervals with a page tried or a job delivered again
  givenUp,          \* history: intervals with a page that is given up
  races,            \* history: a job was started while another one of the export ran
  stuck,            \* history: a job was lost, or threw before it had enqueued the next
  outdated          \* history: a thread went by the end of an earlier range

storage == <<isExportRunning, cursor, storedMax>>
history == <<again, givenUp, races, stuck, outdated>>
vars == <<storage, maxTimestamp, jobs, task, exported, starts, faults, history>>

\* no value, and less than every value: an export starts at range[1] - Interval
None == -Interval
NoTask == [at |-> "idle"]

StepJob(c, offset, retries, increment) ==
  [timestampCursor |-> c, intraIntervalOffset |-> offset,
   retriesPerformedSoFar |-> retries, incrementTimestampCursor |-> increment]

StartPlaces == {"check", "claim", "reset", "resetLimit", "resetStart", "init", "limit", "first"}
StepPlaces == {"bounds", "advance", "past", "fetch", "export", "retry"}

InterfaceTask(at, range) == [at |-> at, range |-> range]
StepTask(at, job, events) == [at |-> at, job |-> job, events |-> events]

Fault == starts + faults < MaxActs /\ faults' = faults + 1

TypeOK ==
  /\ isExportRunning \in BOOLEAN
  /\ cursor \in Int /\ storedMax \in Nat
  /\ maxTimestamp \in [JobThread -> Nat]
  /\ \A j \in DOMAIN jobs :
       /\ j.retriesPerformedSoFar \in 0 .. MaxRetries
       /\ j.intraIntervalOffset \in Nat
       /\ j.timestampCursor \in Int
  /\ \A t \in JobThread : task[t].at \in StartPlaces \cup StepPlaces \cup {"idle"}
  /\ exported \in [Events -> 0 .. 2]
  /\ starts \in Nat /\ faults \in Nat /\ starts + faults <= MaxActs

Init ==
  /\ isExportRunning = FALSE /\ cursor = None /\ storedMax = 0
  /\ maxTimestamp = [t \in JobThread |-> 0]
  /\ jobs = EmptyBag
  /\ task = [t \in JobThread |-> NoTask]
  /\ exported = [e \in Events |-> 0]
  /\ starts = 0 /\ faults = 0
  /\ again = {} /\ givenUp = {} /\ races = FALSE /\ stuck = FALSE
  /\ outdated = FALSE

\* a copy of a job more in the queues, or less
Added(queue, job) == queue (+) SetToBag({job})
Taken(queue, job) == queue (-) SetToBag({job})

\* meta.jobs.exportEventsFromTheBeginning(...).runNow(), or runIn()
Enqueue(job) == jobs' = Added(jobs, job)

\* utils.cursor.init: a value that is there stays
SetOnce(value, initial) == IF value = None THEN initial ELSE value

\* utils.cursor.increment: one statement; without a value it starts at the increment
Incremented(value, by) == IF value = None THEN by ELSE value + by

MoveTo(t, at) == task' = [task EXCEPT ![t].at = at]
EndTask(t) == task' = [task EXCEPT ![t] = NoTask]

\* the chains of jobs an export consists of: the jobs that wait, with their
\* copies, and the threads whose job has not enqueued the next one yet
WorkPlaces ==
  {"claim", "reset", "resetLimit", "resetStart", "init", "limit", "first",
   "bounds", "advance", "past", "fetch"}
Working == {t \in JobThread : task[t].at \in WorkPlaces}
Waiting == UNION {{<<j, copy>> : copy \in 1 .. jobs[j]} : j \in DOMAIN jobs}
Chains == Waiting \cup {<<t, 0>> : t \in Working}

\* nothing of an export is under way on another thread than t, or enqueued
Quiet(t) ==
  jobs = EmptyBag /\ \A u \in JobThread \ {t} : task[u].at \in {"idle", "check"}

(***************************************************************************)
(* 'Export historical events', started from the interface                   *)
(***************************************************************************)
Start(t) ==
  /\ task[t] = NoTask /\ starts + faults < MaxActs
  /\ starts' = starts + 1
  /\ \E range \in Ranges : task' = [task EXCEPT ![t] = InterfaceTask("check", range)]
  /\ UNCHANGED <<storage, maxTimestamp, jobs, exported, faults, history>>

\* storage.get(EXPORT_RUNNING_KEY): only let one export run at a time
Check(t) ==
  /\ task[t].at = "check"
  /\ IF isExportRunning THEN EndTask(t) /\ UNCHANGED races
                        ELSE MoveTo(t, "claim") /\ races' = (races \/ ~Quiet(t))
  /\ UNCHANGED <<storage, maxTimestamp, jobs, exported, starts, faults, again, givenUp, stuck, outdated>>

\* storage.set(EXPORT_RUNNING_KEY, true)
Claim(t) ==
  /\ task[t].at = "claim"
  /\ isExportRunning' = TRUE
  /\ MoveTo(t, "reset")
  /\ UNCHANGED <<cursor, storedMax, maxTimestamp, jobs, exported, starts, faults, history>>

\* the state of the previous export is deleted, a command for each part of it
ResetCursor(t) ==
  /\ task[t].at = "reset"
  /\ cursor' = None
  /\ MoveTo(t, "resetLimit")
  /\ UNCHANGED <<isExportRunning, storedMax, maxTimestamp, jobs, exported, starts, faults, history>>

(* Mutant: the limit is set to nothing instead of being deleted. *)
ResetLimitToNone(t) ==
  /\ task[t].at = "resetLimit"
  /\ storedMax' = None
  /\ MoveTo(t, "resetStart")
  /\ UNCHANGED <<isExportRunning, cursor, maxTimestamp, jobs, exported, starts, faults, history>>

ResetLimit(t) ==
  /\ task[t].at = "resetLimit"
  /\ storedMax' = 0
  /\ MoveTo(t, "resetStart")
  /\ UNCHANGED <<isExportRunning, cursor, maxTimestamp, jobs, exported, starts, faults, history>>

\* MIN_UNIX_TIMESTAMP_KEY, and what this thread has read
ResetStart(t) ==
  /\ task[t].at = "resetStart"
  /\ maxTimestamp' = [maxTimestamp EXCEPT ![t] = 0]
  /\ MoveTo(t, "init")
  /\ UNCHANGED <<storage, jobs, exported, starts, faults, history>>

\* initTimestampsAndCursor: postgresSetOnce keeps a cursor that is there
InitCursor(t) ==
  /\ task[t].at = "init"
  /\ cursor' = SetOnce(cursor, task[t].range[1] - Interval)
  /\ MoveTo(t, "limit")
  /\ UNCHANGED <<isExportRunning, storedMax, maxTimestamp, jobs, exported, starts, faults, history>>

SetLimit(t) ==
  /\ task[t].at = "limit"
  /\ storedMax' = task[t].range[2]
  /\ MoveTo(t, "first")
  /\ UNCHANGED <<isExportRunning, cursor, maxTimestamp, jobs, exported, starts, faults, history>>

EnqueueFirst(t) ==
  /\ task[t].at = "first"
  /\ Enqueue(StepJob(None, 0, 0, TRUE))
  /\ EndTask(t)
  /\ UNCHANGED <<storage, maxTimestamp, exported, starts, faults, history>>

(***************************************************************************)
(* exportEventsFromTheBeginning: one page                                   *)
(***************************************************************************)
NextInterval(job) == job.incrementTimestampCursor \/ job.timestampCursor = None

\* a queue hands out a job; when it does not come to deleting it, the job stays
\* and is handed out again. One with 15 retries behind it returns at once
RunJob(t) ==
  /\ task[t] = NoTask
  /\ \E j \in DOMAIN jobs :
       /\ \/ jobs' = Taken(jobs, j) /\ UNCHANGED <<again, faults>>
          \/ /\ Fault /\ UNCHANGED jobs
             /\ again' = again \cup {IF NextInterval(j) THEN None ELSE j.timestampCursor}
       /\ IF j.retriesPerformedSoFar >= MaxRetries
          THEN UNCHANGED task /\ givenUp' = givenUp \cup {j.timestampCursor}
          ELSE task' = [task EXCEPT ![t] = StepTask("bounds", j, {})] /\ UNCHANGED givenUp
  /\ UNCHANGED <<storage, maxTimestamp, exported, starts, races, stuck, outdated>>

\* setTimestampBoundaries: read from storage when the thread has no value; one
\* that ran a job of an earlier export has that export's
SetTimestampBoundaries(t) ==
  /\ task[t].at = "bounds"
  /\ maxTimestamp' = [maxTimestamp EXCEPT ![t] = IF @ = 0 THEN storedMax ELSE @]
  /\ outdated' = (outdated \/ maxTimestamp[t] \notin {0, storedMax})
  /\ MoveTo(t, "advance")
  /\ UNCHANGED <<storage, jobs, exported, starts, faults, again, givenUp, races, stuck>>

(* Mutant: the offset is kept when the interval is done. *)
PlacedAtOffset(job) ==
  IF NextInterval(job) THEN [job EXCEPT !.timestampCursor = Incremented(cursor, Interval)] ELSE job

\* the job in hand, once it knows its interval
Placed(job) ==
  IF NextInterval(job)
  THEN [job EXCEPT !.timestampCursor = Incremented(cursor, Interval), !.intraIntervalOffset = 0]
  ELSE job

\* past the limit the export is over; otherwise go on to the page
Advance(t) ==
  /\ task[t].at = "advance"
  /\ LET job == Placed(task[t].job)
         place == IF job.timestampCursor > maxTimestamp[t] THEN "past" ELSE "fetch"
     IN /\ cursor' = IF NextInterval(task[t].job) THEN Incremented(cursor, Interval) ELSE cursor
        /\ task' = [task EXCEPT ![t] = StepTask(place, job, {})]
  /\ UNCHANGED <<isExportRunning, storedMax, maxTimestamp, jobs, exported, starts, faults, history>>

(* Mutant: the flag of the export is left when it is over. *)
EndExportKeepingFlag(t) ==
  /\ task[t].at = "past"
  /\ EndTask(t)
  /\ UNCHANGED <<storage, maxTimestamp, jobs, exported, starts, faults, history>>

\* storage.del(EXPORT_RUNNING_KEY)
EndExport(t) ==
  /\ task[t].at = "past"
  /\ isExportRunning' = FALSE
  /\ EndTask(t)
  /\ UNCHANGED <<cursor, storedMax, maxTimestamp, jobs, exported, starts, faults, history>>

\* a bound as the query has it
Floor(time) == time - (time % Precision)

(* Mutant: no upper bound in the query. *)
InIntervalUnbounded(from) == {e \in Events : Floor(from) <= timestamp[e]}

\* the events of an interval
InInterval(from) ==
  {e \in Events : Floor(from) <= timestamp[e] /\ timestamp[e] < Floor(from + Interval)}

\* ORDER BY: the places an event may have among those of its interval, any of
\* them in each query when others have the same key
Place(from, e) == Cardinality({d \in InInterval(from) : orderKey[d] < orderKey[e]})
Tied(from, e) == {d \in InInterval(from) : orderKey[d] = orderKey[e]}
Places(from, e) == Place(from, e) .. Place(from, e) + Cardinality(Tied(from, e)) - 1

\* LIMIT eventsPerRun OFFSET offset: the answers the query may have
Pages(from, offset) ==
  LET onPage == offset .. offset + EventsPerRun - 1
  IN {page \in SUBSET InInterval(from) : \A e \in InInterval(from) :
        Cardinality(page \cap Tied(from, e)) = Cardinality(Places(from, e) \cap onPage)}

(* Mutant: the offset of the next page is not moved. *)
NextJobSamePage(job, events) ==
  StepJob(job.timestampCursor, job.intraIntervalOffset, 0, events = {})

\* what happens after a page of the job: the next page, or the next interval
NextJob(job, events) ==
  StepJob(job.timestampCursor, job.intraIntervalOffset + EventsPerRun, 0, events = {})

\* the job itself, once more
RetryJob(job) ==
  StepJob(job.timestampCursor, job.intraIntervalOffset, job.retriesPerformedSoFar + 1, FALSE)

\* fetchEventsForInterval and the enqueueing of the next job
Fetch(t) ==
  /\ task[t].at = "fetch"
  /\ LET job == task[t].job
     IN \E events \in Pages(job.timestampCursor, job.intraIntervalOffset) :
          /\ Enqueue(NextJob(job, events))
          /\ task' = [task EXCEPT ![t] = StepTask("export", job, events)]
  /\ UNCHANGED <<storage, maxTimestamp, exported, starts, faults, history>>

\* the fetch fails: to the next job it looks like an empty page
PageFails(t) ==
  /\ task[t].at = "fetch" /\ Fault
  /\ LET job == task[t].job
     IN /\ Enqueue(NextJob(job, {}))
        /\ task' = [task EXCEPT ![t] = StepTask("retry", job, {})]
        /\ again' = again \cup {job.timestampCursor}
  /\ UNCHANGED <<storage, maxTimestamp, exported, starts, givenUp, races, stuck, outdated>>

(* Mutant: the job is enqueued again whatever exportEvents did. *)
ExportAndRetry(t) ==
  /\ task[t].at = "export"
  /\ exported' = [e \in Events |-> IF e \in task[t].events /\ exported[e] < 2
                                   THEN exported[e] + 1 ELSE exported[e]]
  /\ Enqueue(RetryJob(task[t].job))
  /\ EndTask(t)
  /\ UNCHANGED <<storage, maxTimestamp, starts, faults, history>>

\* methods.exportEvents succeeds
Export(t) ==
  /\ task[t].at = "export"
  /\ exported' = [e \in Events |-> IF e \in task[t].events /\ exported[e] < 2
                                   THEN exported[e] + 1 ELSE exported[e]]
  /\ EndTask(t)
  /\ UNCHANGED <<storage, maxTimestamp, jobs, starts, faults, history>>

\* it throws, with an empty page or not: only a RetryError makes the page one to
\* try again
ExportFails(t) ==
  /\ task[t].at = "export" /\ Fault
  /\ LET job == task[t].job
     IN \/ /\ task' = [task EXCEPT ![t] = StepTask("retry", job, {})]
           /\ again' = again \cup {job.timestampCursor}
           /\ UNCHANGED givenUp
        \/ /\ EndTask(t)
           /\ givenUp' = givenUp \cup {job.timestampCursor}
           /\ UNCHANGED again
  /\ UNCHANGED <<storage, maxTimestamp, jobs, exported, starts, races, stuck, outdated>>

Retry(t) ==
  /\ task[t].at = "retry"
  /\ Enqueue(RetryJob(task[t].job))
  /\ EndTask(t)
  /\ UNCHANGED <<storage, maxTimestamp, exported, starts, faults, history>>

(***************************************************************************)
(* Failures                                                                 *)
(***************************************************************************)
\* what becomes of the rest of a task: once the next job is enqueued only the
\* page is given up
Abandon(t) ==
  /\ EndTask(t)
  /\ givenUp' = IF task[t].at \in {"export", "retry"}
                THEN givenUp \cup {task[t].job.timestampCursor} ELSE givenUp
  /\ stuck' = (stuck \/ task[t].at \in WorkPlaces)

\* a storage command, the initialisation or an enqueue throws; a command that
\* was carried out although it throws looks as if the next one had thrown
Throw(t) ==
  /\ task[t] # NoTask /\ Fault
  /\ Abandon(t)
  /\ UNCHANGED <<storage, maxTimestamp, jobs, exported, starts, again, races, outdated>>

\* the server of the thread dies, and is started again
Crash(t) ==
  /\ task[t] # NoTask \/ maxTimestamp[t] # 0
  /\ Fault
  /\ Abandon(t)
  /\ maxTimestamp' = [maxTimestamp EXCEPT ![t] = 0]
  /\ UNCHANGED <<storage, jobs, exported, starts, again, races, outdated>>

\* a job is lost with the server that had taken it, or cannot be fetched any more
LoseJob ==
  /\ Fault
  /\ \E j \in DOMAIN jobs : jobs' = Taken(jobs, j)
  /\ stuck' = TRUE
  /\ UNCHANGED <<storage, maxTimestamp, task, exported, starts, again, givenUp, races, outdated>>

Next ==
  \/ \E t \in JobThread :
       \/ Start(t) \/ Check(t) \/ Claim(t) \/ ResetCursor(t) \/ ResetLimit(t) \/ ResetStart(t)
       \/ InitCursor(t) \/ SetLimit(t) \/ EnqueueFirst(t)
       \/ RunJob(t) \/ SetTimestampBoundaries(t) \/ Advance(t) \/ EndExport(t)
       \/ Fetch(t) \/ PageFails(t) \/ Export(t) \/ ExportFails(t) \/ Retry(t)
       \/ Throw(t) \/ Crash(t)
  \/ LoseJob

Spec == Init /\ [][Next]_vars

(***************************************************************************)
(* Properties                                                               *)
(***************************************************************************)
\* One job of an export is alive at a time, as the guard of the interface job
\* promises, unless a page was tried again, whose job starts a chain of its own, a
\* queue delivered a job twice, or two exports were started over each other.
ChainsHaveCause == again # {} \/ races \/ \A a, b \in Chains : a = b

\* no other event that could be in an interval with this one has its key
Untied(e) ==
  \A d \in Events \ {e} : orderKey[d] = orderKey[e] =>
    timestamp[d] - timestamp[e] \notin 1 - Interval .. Interval - 1

\* An event that no other one ties with goes through exportEvents twice only when
\* a page of its interval failed, or a job for one was delivered twice, or more
\* than one export was started.
TwiceHasCause ==
  starts = 1 => \A e \in Events : Untied(e) /\ exported[e] > 1 => \E c \in again : e \in InInterval(c)

\* Once nothing of the first export is left, each event between its dates that no
\* other one ties with has been exported, unless a page of its interval was given
\* up, or a job was lost or threw. Of the end of the range as much may be cut as
\* its start lies beyond the bound that the query has for it.
EndMeansExported ==
  starts = 1 /\ Chains = {} /\ storedMax > 0 /\ (\A t \in JobThread : task[t] = NoTask) /\ ~stuck =>
    \E range \in Ranges : range[2] = storedMax /\
      \A e \in Events :
        /\ Untied(e) /\ exported[e] = 0
        /\ range[1] <= timestamp[e] /\ timestamp[e] + (range[1] % Precision) <= range[2]
        => \E c \in givenUp : e \in InInterval(c)

\* Events after the end of the range are exported up to the end of the interval
\* the range ends in, and before its start those that the bound of the query lets
\* in, unless exports overlapped or a thread went by the end of an earlier range.
ExportedInRange ==
  races \/ outdated \/ \A e \in Events : exported[e] > 0 =>
    \E range \in Ranges : Floor(range[1]) <= timestamp[e] /\ timestamp[e] < range[2] + Interval

\* While the flag says that an export runs, a job of it is enqueued or runs,
\* unless a job was lost or threw: otherwise no export can be started any more.
RunningHasJob == isExportRunning /\ ~stuck => Chains # {}

\* 'so all threads have global state in sync' (line 196): the end of the range a
\* job goes by is the one of its export. A thread that ran a job of an earlier
\* export goes by that one's (line 241), also if no two exports overlapped.
ThreadsInSync ==
  \A t \in JobThread : task[t].at = "advance" /\ ~races => maxTimestamp[t] = storedMax

\* What the export keeps between its jobs agrees with what they do: the flag with
\* the jobs there are, the range with the events exported (lines 99-205).
ExportOK == TypeOK /\ ExportedInRange /\ RunningHasJob
=============================================================================
