----------------------- MODULE HistoricalExportProofs ------------------------
(***************************************************************************)
(* Proofs about HistoricalExport, for any threads, events, ranges and        *)
(* bounds.  The properties speak of jobs, of the flag, of what was exported;  *)
(* they are inductive together with where each page of an interval is: to    *)
(* come, in a job that waits or that a thread runs, or in hand.              *)
(***************************************************************************)
EXTENDS HistoricalExport, FiniteSetTheorems, WellFoundedInduction, TLAPS

(* The types of jobs and tasks, and of the rest of the state.                *)
JobRecs ==
  [timestampCursor : Int, intraIntervalOffset : Nat,
   retriesPerformedSoFar : 0 .. MaxRetries, incrementTimestampCursor : BOOLEAN]
PageTasks ==
  {k \in [at : StepPlaces, job : JobRecs, events : SUBSET Events] :
     k.job.retriesPerformedSoFar < MaxRetries}
Tasks == {NoTask} \cup [at : StartPlaces, range : Ranges] \cup PageTasks

HistoryTyping ==
  /\ isExportRunning \in BOOLEAN /\ cursor \in Int /\ storedMax \in Nat
  /\ maxTimestamp \in [JobThread -> Nat]
  /\ DOMAIN jobs \subseteq JobRecs /\ IsABag(jobs)
  /\ task \in [JobThread -> Tasks]
  /\ exported \in [Events -> 0 .. 2]
  /\ starts \in Nat /\ faults \in Nat /\ starts + faults <= MaxActs
  /\ again \subseteq Int /\ givenUp \subseteq Int
  /\ races \in BOOLEAN /\ stuck \in BOOLEAN /\ outdated \in BOOLEAN

(* An action of thread t.                                                    *)
Acts(t) ==
  \/ Start(t) \/ Check(t) \/ Claim(t) \/ ResetCursor(t) \/ ResetLimit(t) \/ ResetStart(t)
  \/ InitCursor(t) \/ SetLimit(t) \/ EnqueueFirst(t)
  \/ RunJob(t) \/ SetTimestampBoundaries(t) \/ Advance(t) \/ EndExport(t)
  \/ Fetch(t) \/ PageFails(t) \/ Export(t) \/ ExportFails(t) \/ Retry(t)
  \/ Throw(t) \/ Crash(t)

(* One more of x, one less of x.                                             *)
LEMMA Copies ==
  ASSUME NEW B, IsABag(B), NEW x
  PROVE  /\ DOMAIN Added(B, x) = (DOMAIN B) \cup {x}
         /\ IsABag(Added(B, x))
         /\ Added(B, x)[x] = IF x \in DOMAIN B THEN B[x] + 1 ELSE 1
         /\ \A y \in DOMAIN B : y # x => Added(B, x)[y] = B[y]
<1> DEFINE D == DOMAIN B
<1>1. B \in [D -> Nat \ {0}]
  BY DEF IsABag
<1>2. Added(B, x) = [e \in D \cup {x} |-> (IF e \in D THEN B[e] ELSE 0) + (IF e \in {x} THEN 1 ELSE 0)]
  <2>1. SetToBag({x}) = [e \in {x} |-> 1]
    BY DEF SetToBag
  <2> QED
    BY <2>1 DEF Added, (+)
<1> HIDE DEF D
<1>3. /\ DOMAIN Added(B, x) = D \cup {x}
      /\ Added(B, x) \in [D \cup {x} -> Nat \ {0}]
      /\ Added(B, x)[x] = IF x \in D THEN B[x] + 1 ELSE 1
      /\ \A y \in D : y # x => Added(B, x)[y] = B[y]
  BY <1>1, <1>2
<1> QED
  BY <1>3 DEF D, IsABag

(* The same, a job at a time.                                                *)
LEMMA OneMore ==
  ASSUME NEW B, IsABag(B), NEW x
  PROVE  /\ IsABag(Added(B, x))
         /\ x \in DOMAIN Added(B, x)
         /\ \A y \in DOMAIN B : y \in DOMAIN Added(B, x)
         /\ \A y \in DOMAIN Added(B, x) : y = x \/ y \in DOMAIN B
<1>1. DOMAIN Added(B, x) = (DOMAIN B) \cup {x} /\ IsABag(Added(B, x))
  BY Copies
<1> QED
  BY <1>1

LEMMA OneLess ==
  ASSUME NEW B, IsABag(B), NEW x \in DOMAIN B
  PROVE  /\ IsABag(Taken(B, x))
         /\ \A y \in DOMAIN Taken(B, x) : y \in DOMAIN B
         /\ \A y \in DOMAIN B : y # x => y \in DOMAIN Taken(B, x)
         /\ x \in DOMAIN Taken(B, x) => B[x] # 1
         /\ \A y \in DOMAIN Taken(B, x) : y # x => Taken(B, x)[y] = B[y]
<1> DEFINE D == DOMAIN B
           F == [e \in D |-> IF e \in {x} THEN B[e] - 1 ELSE B[e]]
           E == {d \in D : F[d] > 0}
<1>1. B \in [D -> Nat \ {0}] /\ x \in D
  BY DEF IsABag
<1>2. Taken(B, x) = [e \in E |-> F[e]]
  <2>1. SetToBag({x}) = [e \in {x} |-> 1]
    BY DEF SetToBag
  <2>2. [e \in DOMAIN B |-> IF e \in {x} THEN B[e] - SetToBag({x})[e] ELSE B[e]] = F
    BY <2>1
  <2> QED
    BY <2>1, <2>2 DEF Taken, (-)
<1> HIDE DEF D
<1>3. \A e \in D : e \in E <=> e # x \/ B[x] # 1
  BY <1>1
<1>4. \A e \in E : e \in D /\ F[e] \in Nat \ {0} /\ (e # x => F[e] = B[e])
  BY <1>1
<1> HIDE DEF E, F
<1>5. /\ DOMAIN Taken(B, x) = E /\ Taken(B, x) \in [E -> Nat \ {0}]
      /\ \A y \in E : Taken(B, x)[y] = F[y]
  BY <1>2, <1>4
<1>6. IsABag(Taken(B, x))
  BY <1>5 DEF IsABag
<1> QED
  BY <1>1, <1>3, <1>4, <1>5, <1>6 DEF D

(* What each action makes of the task of its thread.                         *)
LEMMA Moved ==
  ASSUME HistoryTyping, NEW t \in JobThread, NEW at
  PROVE  /\ MoveTo(t, at) /\ task[t].at \in StartPlaces =>
              task' = [task EXCEPT ![t] = InterfaceTask(at, task[t].range)]
         /\ MoveTo(t, at) /\ task[t].at \in StepPlaces =>
              task' = [task EXCEPT ![t] = StepTask(at, task[t].job, task[t].events)]
         /\ task[t].at \in StartPlaces => task[t].range \in Ranges
         /\ task[t].at \in StepPlaces =>
              /\ task[t].job \in JobRecs /\ task[t].job.retriesPerformedSoFar < MaxRetries
              /\ task[t].events \subseteq Events
<1> USE DEF HistoryTyping, Tasks, PageTasks, NoTask, StartPlaces, StepPlaces
<1>1. task[t] \in Tasks
  OBVIOUS
<1>2. task[t].at \in StartPlaces => task[t] \in [at : StartPlaces, range : Ranges]
  BY <1>1
<1>3. task[t].at \in StepPlaces => task[t] \in PageTasks
  BY <1>1
<1>4. ASSUME task[t].at \in StartPlaces
      PROVE  [task[t] EXCEPT !.at = at] = InterfaceTask(at, task[t].range)
  BY <1>2, <1>4 DEF InterfaceTask
<1>5. ASSUME task[t].at \in StepPlaces
      PROVE  [task[t] EXCEPT !.at = at] = StepTask(at, task[t].job, task[t].events)
  BY <1>3, <1>5 DEF StepTask
<1>6. MoveTo(t, at) => task' = [task EXCEPT ![t] = [task[t] EXCEPT !.at = at]]
  BY DEF MoveTo
<1> QED
  BY <1>2, <1>3, <1>4, <1>5, <1>6

(* The jobs the code makes of a job are jobs.                                *)
LEMMA JobTypes ==
  ASSUME NEW job \in JobRecs, NEW events, cursor \in Int
  PROVE  /\ Placed(job) \in JobRecs
         /\ Placed(job).retriesPerformedSoFar = job.retriesPerformedSoFar
         /\ NextJob(job, events) \in JobRecs
         /\ job.retriesPerformedSoFar < MaxRetries => RetryJob(job) \in JobRecs
<1>2. Placed(job) \in JobRecs /\ Placed(job).retriesPerformedSoFar = job.retriesPerformedSoFar
  <2>1. Incremented(cursor, Interval) \in Int
    BY ExportAssumption DEF Incremented
  <2>2. \A c \in Int : [job EXCEPT !.timestampCursor = c, !.intraIntervalOffset = 0] \in JobRecs
                     /\ [job EXCEPT !.timestampCursor = c, !.intraIntervalOffset = 0].retriesPerformedSoFar
                          = job.retriesPerformedSoFar
    BY DEF JobRecs
  <2> QED
    BY <2>1, <2>2 DEF Placed
<1>3. NextJob(job, events) \in JobRecs
  BY ExportAssumption DEF NextJob, StepJob, JobRecs
<1>4. job.retriesPerformedSoFar < MaxRetries => RetryJob(job) \in JobRecs
  BY ExportAssumption DEF RetryJob, StepJob, JobRecs
<1> QED
  BY <1>2, <1>3, <1>4

(* Every step keeps the types.                                               *)
LEMMA TypingStep ==
  ASSUME HistoryTyping, [Next]_vars
  PROVE  HistoryTyping'
<1> USE ExportAssumption
<1>0. CASE UNCHANGED vars
  BY <1>0 DEF HistoryTyping, vars, storage, history
<1>00. CASE LoseJob
  <2>1. IsABag(jobs') /\ DOMAIN jobs' \subseteq JobRecs
    BY <1>00, OneLess DEF LoseJob, HistoryTyping
  <2> QED
    BY <1>00, <2>1 DEF LoseJob, Fault, storage, HistoryTyping
<1> SUFFICES ASSUME NEW t \in JobThread,
                    Acts(t)
             PROVE  HistoryTyping'
  BY <1>0, <1>00 DEF Next, Acts
<1>a. \A task1 : task1 \in Tasks /\ task' = [task EXCEPT ![t] = task1] => task' \in [JobThread -> Tasks]
  BY DEF HistoryTyping
<1>b. NoTask \in Tasks /\ \A at \in StartPlaces, r \in Ranges : InterfaceTask(at, r) \in Tasks
  BY DEF Tasks, InterfaceTask
<1>c. \A at \in StepPlaces, job \in JobRecs, events \in SUBSET Events :
        job.retriesPerformedSoFar < MaxRetries => StepTask(at, job, events) \in Tasks
  BY DEF Tasks, StepTask, PageTasks
<1>d. \A j \in JobRecs : IsABag(Added(jobs, j)) /\ DOMAIN Added(jobs, j) \subseteq JobRecs
  <2> SUFFICES ASSUME NEW j \in JobRecs
               PROVE  IsABag(Added(jobs, j)) /\ DOMAIN Added(jobs, j) \subseteq JobRecs
    OBVIOUS
  <2>1. IsABag(jobs) /\ DOMAIN jobs \subseteq JobRecs
    BY DEF HistoryTyping
  <2> QED
    BY <2>1, OneMore
<1>1. CASE Start(t)
  <2>1. task' \in [JobThread -> Tasks]
    BY <1>1, <1>a, <1>b DEF Start, StartPlaces
  <2> QED
    BY <1>1, <2>1 DEF Start, storage, history, HistoryTyping
<1>2. CASE Check(t)
  <2>1. task' \in [JobThread -> Tasks]
    BY <1>2, <1>a, <1>b, Moved DEF Check, EndTask, StartPlaces
  <2> QED
    BY <1>2, <2>1 DEF Check, storage, history, HistoryTyping, Quiet
<1>3. CASE Claim(t)
  <2>1. task' \in [JobThread -> Tasks]
    BY <1>3, <1>a, <1>b, Moved DEF Claim, StartPlaces
  <2> QED
    BY <1>3, <2>1 DEF Claim, history, HistoryTyping
<1>4. CASE ResetCursor(t) \/ ResetLimit(t) \/ ResetStart(t)
  <2>1. task' \in [JobThread -> Tasks]
    BY <1>4, <1>a, <1>b, Moved DEF ResetCursor, ResetLimit, ResetStart, StartPlaces
  <2>2. cursor' \in Int /\ storedMax' \in Nat /\ maxTimestamp' \in [JobThread -> Nat]
    BY <1>4 DEF ResetCursor, ResetLimit, ResetStart, storage, None, HistoryTyping
  <2> QED
    BY <1>4, <2>1, <2>2 DEF ResetCursor, ResetLimit, ResetStart, storage, history, HistoryTyping
<1>5. CASE InitCursor(t)
  <2>1. task' \in [JobThread -> Tasks]
    BY <1>5, <1>a, <1>b, Moved DEF InitCursor, StartPlaces
  <2>2. cursor' \in Int
    BY <1>5, Moved DEF InitCursor, SetOnce, None, HistoryTyping, StartPlaces
  <2> QED
    BY <1>5, <2>1, <2>2 DEF InitCursor, history, HistoryTyping
<1>6. CASE SetLimit(t)
  <2>1. task' \in [JobThread -> Tasks]
    BY <1>6, <1>a, <1>b, Moved DEF SetLimit, StartPlaces
  <2>2. storedMax' \in Nat
    BY <1>6, Moved DEF SetLimit, HistoryTyping, StartPlaces
  <2> QED
    BY <1>6, <2>1, <2>2 DEF SetLimit, history, HistoryTyping
<1>7. CASE EnqueueFirst(t)
  <2>1. task' \in [JobThread -> Tasks]
    BY <1>7, <1>a, <1>b DEF EnqueueFirst, EndTask
  <2>2. StepJob(None, 0, 0, TRUE) \in JobRecs
    BY DEF StepJob, JobRecs, None
  <2> QED
    BY <1>7, <2>1, <2>2, <1>d DEF EnqueueFirst, Enqueue, storage, history, HistoryTyping
<1>8. CASE RunJob(t)
  <2> PICK j \in DOMAIN jobs :
        /\ \/ jobs' = Taken(jobs, j) /\ UNCHANGED <<again, faults>>
           \/ /\ Fault /\ UNCHANGED jobs
              /\ again' = again \cup {IF NextInterval(j) THEN None ELSE j.timestampCursor}
        /\ IF j.retriesPerformedSoFar >= MaxRetries
           THEN UNCHANGED task /\ givenUp' = givenUp \cup {j.timestampCursor}
           ELSE task' = [task EXCEPT ![t] = StepTask("bounds", j, {})] /\ UNCHANGED givenUp
    BY <1>8 DEF RunJob
  <2>0. j \in JobRecs /\ j.timestampCursor \in Int /\ j.retriesPerformedSoFar \in 0 .. MaxRetries
    BY DEF HistoryTyping, JobRecs
  <2>1. task' \in [JobThread -> Tasks] /\ givenUp' \subseteq Int
    <3>1. givenUp \subseteq Int /\ task \in [JobThread -> Tasks]
      BY DEF HistoryTyping
    <3>3. CASE j.retriesPerformedSoFar >= MaxRetries
      BY <3>1, <2>0, <3>3
    <3>4. CASE j.retriesPerformedSoFar < MaxRetries
      <4>1. StepTask("bounds", j, {}) \in Tasks
        BY <2>0, <3>4, <1>c DEF StepPlaces
      <4>2. task' = [task EXCEPT ![t] = StepTask("bounds", j, {})] /\ UNCHANGED givenUp
        BY <2>0, <3>4
      <4> QED
        BY <4>1, <4>2, <3>1, <1>a
    <3> QED
      BY <2>0, <3>3, <3>4
  <2>2. IsABag(jobs') /\ DOMAIN jobs' \subseteq JobRecs
    <3>1. IsABag(jobs) /\ DOMAIN jobs \subseteq JobRecs
      BY DEF HistoryTyping
    <3> QED
      BY <3>1, OneLess
  <2>3. again' \subseteq Int /\ faults' \in Nat /\ starts' + faults' <= MaxActs
    <3>1. again \subseteq Int /\ starts \in Nat /\ faults \in Nat /\ starts + faults <= MaxActs /\ starts' = starts
      BY <1>8 DEF HistoryTyping, RunJob
    <3>2. None \in Int
      BY DEF None
    <3>3. \/ again' = again /\ faults' = faults
          \/ Fault /\ again' = again \cup {IF NextInterval(j) THEN None ELSE j.timestampCursor}
      OBVIOUS
    <3>4. again' \subseteq Int
      BY <2>0, <3>1, <3>2, <3>3
    <3>5. faults' \in Nat /\ starts' + faults' <= MaxActs
      BY <3>1, <3>3 DEF Fault
    <3> QED
      BY <3>4, <3>5
  <2> QED
    BY <1>8, <2>1, <2>2, <2>3 DEF RunJob, storage, HistoryTyping
<1>9. CASE SetTimestampBoundaries(t)
  <2>1. task' \in [JobThread -> Tasks]
    <3>1. task[t].at = "bounds" /\ MoveTo(t, "advance")
      BY <1>9 DEF SetTimestampBoundaries
    <3>2. task' = [task EXCEPT ![t] = StepTask("advance", task[t].job, task[t].events)]
      BY <3>1, Moved DEF StepPlaces
    <3> QED
      BY <3>1, <3>2, <1>a, <1>c, Moved DEF StepPlaces
  <2> QED
    BY <1>9, <2>1 DEF SetTimestampBoundaries, storage, HistoryTyping
<1>10. CASE Advance(t)
  <2>1. task' \in [JobThread -> Tasks]
    BY <1>10, <1>a, <1>c, Moved, JobTypes DEF Advance, StepPlaces, HistoryTyping
  <2>2. cursor' \in Int
    BY <1>10 DEF Advance, Incremented, HistoryTyping
  <2> QED
    BY <1>10, <2>1, <2>2 DEF Advance, history, HistoryTyping
<1>11. CASE EndExport(t)
  <2>1. task' \in [JobThread -> Tasks]
    BY <1>11, <1>a, <1>b DEF EndExport, EndTask
  <2> QED
    BY <1>11, <2>1 DEF EndExport, history, HistoryTyping
<1>12. CASE Fetch(t)
  <2> DEFINE job == task[t].job
  <2> PICK events \in Pages(job.timestampCursor, job.intraIntervalOffset) :
        /\ Enqueue(NextJob(job, events))
        /\ task' = [task EXCEPT ![t] = StepTask("export", job, events)]
    BY <1>12 DEF Fetch
  <2>1. events \subseteq Events
    BY DEF Pages, InInterval
  <2>2. task[t].at \in StepPlaces /\ jobs' = Added(jobs, NextJob(job, events))
    BY <1>12 DEF Fetch, Enqueue, StepPlaces
  <2>3. task' \in [JobThread -> Tasks]
    BY <2>2, <2>1, <1>a, <1>c, Moved DEF StepPlaces
  <2>4. NextJob(job, events) \in JobRecs
    BY <2>2, Moved, JobTypes DEF HistoryTyping
  <2> QED
    BY <1>12, <2>2, <2>3, <2>4, <1>d DEF Fetch, storage, history, HistoryTyping
<1>13. CASE PageFails(t)
  <2> DEFINE job == task[t].job
  <2>1. task[t].at \in StepPlaces
    BY <1>13 DEF PageFails, StepPlaces
  <2>2. NextJob(job, {}) \in JobRecs /\ job \in JobRecs /\ job.timestampCursor \in Int
    BY <2>1, Moved, JobTypes DEF HistoryTyping, JobRecs
  <2>3. task' \in [JobThread -> Tasks]
    BY <1>13, <2>1, <1>a, <1>c, Moved DEF PageFails, StepPlaces
  <2>4. again' \subseteq Int
    BY <1>13, <2>2 DEF PageFails, HistoryTyping
  <2> QED
    BY <1>13, <2>2, <2>3, <2>4, <1>d DEF PageFails, Enqueue, Fault, storage, HistoryTyping
<1>14. CASE Export(t)
  <2>1. task' \in [JobThread -> Tasks]
    BY <1>14, <1>a, <1>b DEF Export, EndTask
  <2>2. exported' \in [Events -> 0 .. 2]
    BY <1>14 DEF Export, HistoryTyping
  <2> QED
    BY <1>14, <2>1, <2>2 DEF Export, storage, history, HistoryTyping
<1>15. CASE ExportFails(t)
  <2> DEFINE job == task[t].job
  <2>1. task[t].at \in StepPlaces
    BY <1>15 DEF ExportFails, StepPlaces
  <2>2. job \in JobRecs /\ job.timestampCursor \in Int
    BY <2>1, Moved DEF JobRecs
  <2>3. task' \in [JobThread -> Tasks]
    BY <1>15, <2>1, <1>a, <1>b, <1>c, Moved DEF ExportFails, EndTask, StepPlaces
  <2>4. again' \subseteq Int /\ givenUp' \subseteq Int
    BY <1>15, <2>2 DEF ExportFails, HistoryTyping
  <2>5. faults' \in Nat /\ starts' + faults' <= MaxActs /\ starts' = starts
    BY <1>15 DEF ExportFails, Fault, HistoryTyping
  <2>6. races' = races /\ stuck' = stuck /\ outdated' = outdated /\ UNCHANGED <<storage, maxTimestamp, jobs, exported, starts>>
    BY <1>15 DEF ExportFails
  <2> QED
    BY <2>3, <2>4, <2>5, <2>6 DEF storage, HistoryTyping
<1>16. CASE Retry(t)
  <2>1. task' \in [JobThread -> Tasks]
    BY <1>16, <1>a, <1>b DEF Retry, EndTask
  <2>2. RetryJob(task[t].job) \in JobRecs
    BY <1>16, Moved, JobTypes DEF Retry, StepPlaces, HistoryTyping
  <2> QED
    BY <1>16, <2>1, <2>2, <1>d DEF Retry, Enqueue, storage, history, HistoryTyping
<1>17. CASE Throw(t) \/ Crash(t)
  <2>0. Abandon(t) /\ Fault
    BY <1>17 DEF Throw, Crash
  <2>1. task' \in [JobThread -> Tasks]
    BY <2>0, <1>a, <1>b DEF Abandon, EndTask
  <2>2. givenUp' \subseteq Int
    <3>1. task[t].at \in {"export", "retry"} => task[t].job.timestampCursor \in Int
      BY Moved DEF StepPlaces, JobRecs
    <3> QED
      BY <2>0, <3>1 DEF Abandon, HistoryTyping
  <2>3. stuck' \in BOOLEAN
    BY <2>0 DEF Abandon, HistoryTyping
  <2>4. faults' \in Nat /\ starts' + faults' <= MaxActs /\ starts' = starts
    BY <1>17, <2>0 DEF Fault, Throw, Crash, HistoryTyping
  <2>5. maxTimestamp' \in [JobThread -> Nat]
    BY <1>17 DEF Throw, Crash, HistoryTyping
  <2> QED
    BY <1>17, <2>1, <2>2, <2>3, <2>4, <2>5 DEF Throw, Crash, storage, HistoryTyping
<1> QED
  BY <1>1, <1>2, <1>3, <1>4, <1>5, <1>6, <1>7, <1>8, <1>9, <1>10, <1>11, <1>12, <1>13, <1>14, <1>15,
     <1>16, <1>17 DEF Acts

(* The places of a thread before and after each action.                      *)
Becomes(t, before, after) == task[t].at = before /\ task' = [task EXCEPT ![t] = after]

(* A task that is replaced, and the others.                                  *)
LEMMA Became ==
  ASSUME HistoryTyping, NEW t \in JobThread, NEW before, NEW after, Becomes(t, before, after)
  PROVE  /\ task[t].at = before /\ task'[t] = after
         /\ \A u \in JobThread : u # t => task'[u] = task[u]
  BY DEF Becomes, HistoryTyping

(* What the new tasks are.                                                   *)
LEMMA NewTasks ==
  /\ NoTask.at = "idle"
  /\ \A at, r : InterfaceTask(at, r).at = at /\ InterfaceTask(at, r).range = r
  /\ \A at, j, events : /\ StepTask(at, j, events).at = at
                        /\ StepTask(at, j, events).job = j
                        /\ StepTask(at, j, events).events = events
  BY DEF NoTask, InterfaceTask, StepTask

(* What each action of an interface job does to its task.                    *)
LEMMA StartEffects ==
  ASSUME HistoryTyping, NEW t \in JobThread
  PROVE  /\ Start(t) => \E r \in Ranges : Becomes(t, "idle", InterfaceTask("check", r))
         /\ Check(t) => IF isExportRunning THEN Becomes(t, "check", NoTask)
                        ELSE Becomes(t, "check", InterfaceTask("claim", task[t].range))
         /\ Claim(t) => Becomes(t, "claim", InterfaceTask("reset", task[t].range))
         /\ ResetCursor(t) => Becomes(t, "reset", InterfaceTask("resetLimit", task[t].range))
         /\ ResetLimit(t) => Becomes(t, "resetLimit", InterfaceTask("resetStart", task[t].range))
         /\ ResetStart(t) => Becomes(t, "resetStart", InterfaceTask("init", task[t].range))
         /\ InitCursor(t) => Becomes(t, "init", InterfaceTask("limit", task[t].range))
         /\ SetLimit(t) => Becomes(t, "limit", InterfaceTask("first", task[t].range))
         /\ EnqueueFirst(t) => Becomes(t, "first", NoTask)
<1> USE DEF Becomes, EndTask
<1>1. Start(t) => \E r \in Ranges : Becomes(t, "idle", InterfaceTask("check", r))
  <2>1. task[t] = NoTask => task[t].at = "idle"
    BY DEF NoTask
  <2> QED
    BY <2>1 DEF Start
<1>2. Check(t) => IF isExportRunning THEN Becomes(t, "check", NoTask)
                  ELSE Becomes(t, "check", InterfaceTask("claim", task[t].range))
  BY Moved DEF Check, StartPlaces
<1>3. Claim(t) => Becomes(t, "claim", InterfaceTask("reset", task[t].range))
  BY Moved DEF Claim, StartPlaces
<1>4. /\ ResetCursor(t) => Becomes(t, "reset", InterfaceTask("resetLimit", task[t].range))
      /\ ResetLimit(t) => Becomes(t, "resetLimit", InterfaceTask("resetStart", task[t].range))
      /\ ResetStart(t) => Becomes(t, "resetStart", InterfaceTask("init", task[t].range))
  BY Moved DEF ResetCursor, ResetLimit, ResetStart, StartPlaces
<1>5. InitCursor(t) => Becomes(t, "init", InterfaceTask("limit", task[t].range))
  BY Moved DEF InitCursor, StartPlaces
<1>6. SetLimit(t) => Becomes(t, "limit", InterfaceTask("first", task[t].range))
  BY Moved DEF SetLimit, StartPlaces
<1>7. EnqueueFirst(t) => Becomes(t, "first", NoTask)
  BY DEF EnqueueFirst
<1> QED
  BY <1>1, <1>2, <1>3, <1>4, <1>5, <1>6, <1>7

(* The same for the actions of a job: what is enqueued and what is left.     *)
Given(j) == j.retriesPerformedSoFar >= MaxRetries
IntervalOf(j) == IF NextInterval(j) THEN None ELSE j.timestampCursor

LEMMA StepEffects ==
  ASSUME HistoryTyping, NEW t \in JobThread
  PROVE  /\ RunJob(t) => \E j \in DOMAIN jobs :
              /\ task[t].at = "idle"
              /\ \/ jobs' = Taken(jobs, j) /\ again' = again
                 \/ jobs' = jobs /\ again' = again \cup {IntervalOf(j)}
              /\ IF Given(j) THEN task' = task /\ givenUp' = givenUp \cup {j.timestampCursor}
                 ELSE Becomes(t, "idle", StepTask("bounds", j, {})) /\ givenUp' = givenUp
         /\ SetTimestampBoundaries(t) =>
              Becomes(t, "bounds", StepTask("advance", task[t].job, task[t].events))
         /\ Advance(t) =>
              IF Placed(task[t].job).timestampCursor > maxTimestamp[t]
              THEN Becomes(t, "advance", StepTask("past", Placed(task[t].job), {}))
              ELSE Becomes(t, "advance", StepTask("fetch", Placed(task[t].job), {}))
         /\ EndExport(t) => Becomes(t, "past", NoTask)
         /\ Fetch(t) => \E events \in Pages(task[t].job.timestampCursor, task[t].job.intraIntervalOffset) :
              /\ Becomes(t, "fetch", StepTask("export", task[t].job, events))
              /\ jobs' = Added(jobs, NextJob(task[t].job, events))
         /\ PageFails(t) => /\ Becomes(t, "fetch", StepTask("retry", task[t].job, {}))
                            /\ jobs' = Added(jobs, NextJob(task[t].job, {}))
         /\ Export(t) => Becomes(t, "export", NoTask)
         /\ ExportFails(t) =>
              \/ Becomes(t, "export", NoTask)
              \/ /\ Becomes(t, "export", StepTask("retry", task[t].job, {}))
                 /\ again' = again \cup {task[t].job.timestampCursor}
         /\ Retry(t) => Becomes(t, "retry", NoTask) /\ jobs' = Added(jobs, RetryJob(task[t].job))
<1> USE DEF Becomes, EndTask
<1>1. RunJob(t) => \E j \in DOMAIN jobs :
        /\ task[t].at = "idle"
        /\ \/ jobs' = Taken(jobs, j) /\ again' = again
           \/ jobs' = jobs /\ again' = again \cup {IntervalOf(j)}
        /\ IF Given(j) THEN task' = task /\ givenUp' = givenUp \cup {j.timestampCursor}
           ELSE Becomes(t, "idle", StepTask("bounds", j, {})) /\ givenUp' = givenUp
  BY DEF RunJob, NoTask, Given, IntervalOf
<1>2. SetTimestampBoundaries(t) =>
        Becomes(t, "bounds", StepTask("advance", task[t].job, task[t].events))
  BY Moved DEF SetTimestampBoundaries, StepPlaces
<1>3. Advance(t) =>
        IF Placed(task[t].job).timestampCursor > maxTimestamp[t]
        THEN Becomes(t, "advance", StepTask("past", Placed(task[t].job), {}))
        ELSE Becomes(t, "advance", StepTask("fetch", Placed(task[t].job), {}))
  BY DEF Advance
<1>4. EndExport(t) => Becomes(t, "past", NoTask)
  BY DEF EndExport
<1>5. Fetch(t) => \E events \in Pages(task[t].job.timestampCursor, task[t].job.intraIntervalOffset) :
        /\ Becomes(t, "fetch", StepTask("export", task[t].job, events))
        /\ jobs' = Added(jobs, NextJob(task[t].job, events))
  BY DEF Fetch, Enqueue
<1>6. PageFails(t) => /\ Becomes(t, "fetch", StepTask("retry", task[t].job, {}))
                      /\ jobs' = Added(jobs, NextJob(task[t].job, {}))
  BY DEF PageFails, Enqueue
<1>7. Export(t) => Becomes(t, "export", NoTask)
  BY DEF Export
<1>8. ExportFails(t) =>
        \/ Becomes(t, "export", NoTask)
        \/ /\ Becomes(t, "export", StepTask("retry", task[t].job, {}))
           /\ again' = again \cup {task[t].job.timestampCursor}
  BY DEF ExportFails
<1>9. Retry(t) => Becomes(t, "retry", NoTask) /\ jobs' = Added(jobs, RetryJob(task[t].job))
  BY DEF Retry, Enqueue
<1> QED
  BY <1>1, <1>2, <1>3, <1>4, <1>5, <1>6, <1>7, <1>8, <1>9

(* A task that throws, or whose server dies, is over; the rest stays.        *)
LEMMA AbandonEffects ==
  ASSUME NEW t \in JobThread, Throw(t) \/ Crash(t)
  PROVE  /\ Becomes(t, task[t].at, NoTask)
         /\ isExportRunning' = isExportRunning /\ cursor' = cursor /\ storedMax' = storedMax
         /\ jobs' = jobs /\ exported' = exported /\ starts' = starts
         /\ again' = again /\ races' = races /\ outdated' = outdated
         /\ task[t].at \in WorkPlaces => stuck'
         /\ stuck => stuck'
         /\ givenUp' = IF task[t].at \in {"export", "retry"}
                       THEN givenUp \cup {task[t].job.timestampCursor} ELSE givenUp
         /\ maxTimestamp' = maxTimestamp \/ maxTimestamp' = [maxTimestamp EXCEPT ![t] = 0]
<1>1. Abandon(t) /\ UNCHANGED <<storage, jobs, exported, starts, again, races, outdated>>
  BY DEF Throw, Crash
<1>2. Becomes(t, task[t].at, NoTask)
  BY <1>1 DEF Abandon, EndTask, Becomes
<1>3. /\ task[t].at \in WorkPlaces => stuck'
      /\ stuck => stuck'
  BY <1>1 DEF Abandon
<1>4. givenUp' = IF task[t].at \in {"export", "retry"}
                 THEN givenUp \cup {task[t].job.timestampCursor} ELSE givenUp
  BY <1>1 DEF Abandon
<1>5. maxTimestamp' = maxTimestamp \/ maxTimestamp' = [maxTimestamp EXCEPT ![t] = 0]
  BY DEF Throw, Crash
<1> QED
  BY <1>1, <1>2, <1>3, <1>4, <1>5 DEF storage

(* What happened stays so.                                                   *)
LEMMA OnlyGrow ==
  ASSUME [Next]_vars
  PROVE  /\ again \subseteq again' /\ givenUp \subseteq givenUp' /\ starts' \in {starts, starts + 1}
         /\ (races => races') /\ (stuck => stuck') /\ (outdated => outdated')
<1>0. CASE UNCHANGED vars
  BY <1>0 DEF vars, history
<1>00. CASE LoseJob
  BY <1>00 DEF LoseJob
<1> SUFFICES ASSUME NEW t \in JobThread, Acts(t)
             PROVE  /\ again \subseteq again' /\ givenUp \subseteq givenUp' /\ starts' \in {starts, starts + 1}
                    /\ (races => races') /\ (stuck => stuck') /\ (outdated => outdated')
  BY <1>0, <1>00 DEF Next, Acts
<1>1. CASE Start(t)
  BY <1>1 DEF Start, history
<1>2. CASE Check(t)
  <2>1. races => races'
    BY <1>2, Zenon DEF Check
  <2> QED
    BY <1>2, <2>1 DEF Check
<1>3. CASE Claim(t) \/ ResetCursor(t) \/ ResetLimit(t) \/ ResetStart(t)
  BY <1>3 DEF Claim, ResetCursor, ResetLimit, ResetStart, history
<1>4. CASE InitCursor(t) \/ SetLimit(t) \/ EnqueueFirst(t)
  <2>1. UNCHANGED <<history, starts>>
    BY <1>4, Zenon DEF InitCursor, SetLimit, EnqueueFirst
  <2> QED
    BY <2>1 DEF history
<1>5. CASE RunJob(t)
  <2>1. again \subseteq again' /\ givenUp \subseteq givenUp'
    BY <1>5 DEF RunJob
  <2> QED
    BY <1>5, <2>1 DEF RunJob
<1>6. CASE SetTimestampBoundaries(t)
  <2>1. outdated => outdated'
    BY <1>6, Zenon DEF SetTimestampBoundaries
  <2> QED
    BY <1>6, <2>1 DEF SetTimestampBoundaries
<1>7. CASE Advance(t) \/ EndExport(t) \/ Fetch(t)
  BY <1>7 DEF Advance, EndExport, Fetch, history
<1>8. CASE PageFails(t) \/ Export(t) \/ ExportFails(t) \/ Retry(t)
  BY <1>8 DEF PageFails, Export, ExportFails, Retry, history
<1>9. CASE Throw(t) \/ Crash(t)
  BY <1>9, AbandonEffects
<1> QED
  BY <1>1, <1>2, <1>3, <1>4, <1>5, <1>6, <1>7, <1>8, <1>9 DEF Acts

(* While the flag is set a thread is at work, or a job that was not tried    *)
(* before waits, which is going to be run.                                   *)
FlagHasJob ==
  isExportRunning /\ ~ stuck =>
    \/ \E t \in JobThread : task[t].at \in WorkPlaces
    \/ \E j \in DOMAIN jobs : j.retriesPerformedSoFar = 0

(* No step loses the last job while the flag is set, but one that throws.    *)
LEMMA FlagHasJobStep ==
  ASSUME HistoryTyping, FlagHasJob, [Next]_vars
  PROVE  FlagHasJob'
<1> USE ExportAssumption
<1>0. CASE UNCHANGED vars
  BY <1>0 DEF FlagHasJob, vars, storage, history
<1>00. CASE LoseJob
  BY <1>00 DEF LoseJob, FlagHasJob
<1> SUFFICES ASSUME NEW t \in JobThread,
                    Acts(t)
             PROVE  FlagHasJob'
  BY <1>0, <1>00 DEF Next, Acts
<1>a. \A job, events : NextJob(job, events).retriesPerformedSoFar = 0
  BY DEF NextJob, StepJob
<1>b. IsABag(jobs)
  BY DEF HistoryTyping
<1>c. ASSUME NEW before, NEW after, Becomes(t, before, after), after.at \in WorkPlaces
      PROVE  FlagHasJob'
  BY <1>c, Became DEF FlagHasJob
<1>1. CASE Start(t)
  <2>1. isExportRunning' = isExportRunning /\ stuck' = stuck /\ jobs' = jobs
    BY <1>1 DEF Start, storage, history
  <2>2. PICK r \in Ranges : Becomes(t, "idle", InterfaceTask("check", r))
    BY <1>1, StartEffects
  <2> QED
    BY <2>1, <2>2, Became, NewTasks DEF FlagHasJob, WorkPlaces
<1>2. CASE Check(t)
  BY <1>2, Became, NewTasks, StartEffects DEF Check, storage, FlagHasJob, WorkPlaces
<1>3. CASE Claim(t)
  BY <1>3, <1>c, NewTasks, StartEffects DEF WorkPlaces
<1>4. CASE ResetCursor(t)
  BY <1>4, <1>c, NewTasks, StartEffects DEF WorkPlaces
<1>41. CASE ResetLimit(t)
  BY <1>41, <1>c, NewTasks, StartEffects DEF WorkPlaces
<1>42. CASE ResetStart(t)
  BY <1>42, <1>c, NewTasks, StartEffects DEF WorkPlaces
<1>5. CASE InitCursor(t)
  BY <1>5, <1>c, NewTasks, StartEffects DEF WorkPlaces
<1>6. CASE SetLimit(t)
  BY <1>6, <1>c, NewTasks, StartEffects DEF WorkPlaces
<1>7. CASE EnqueueFirst(t)
  <2>1. jobs' = Added(jobs, StepJob(None, 0, 0, TRUE))
    BY <1>7 DEF EnqueueFirst, Enqueue
  <2>2. StepJob(None, 0, 0, TRUE) \in DOMAIN jobs'
    BY <2>1, <1>b, OneMore
  <2> QED
    BY <2>2 DEF StepJob, FlagHasJob
<1>8. CASE RunJob(t)
  <2> PICK j \in DOMAIN jobs :
         /\ jobs' = Taken(jobs, j) \/ jobs' = jobs
         /\ IF Given(j) THEN task' = task ELSE Becomes(t, "idle", StepTask("bounds", j, {}))
    BY <1>8, StepEffects
  <2>1. \A k \in DOMAIN jobs : k # j => k \in DOMAIN jobs'
    BY <1>b, OneLess
  <2>2. j \in JobRecs
    BY DEF HistoryTyping
  <2>3. isExportRunning' = isExportRunning /\ stuck' = stuck
    BY <1>8 DEF RunJob, storage
  <2>4. CASE Given(j)
    <3>1. j.retriesPerformedSoFar # 0
      BY <2>4, <2>2 DEF Given, JobRecs
    <3> QED
      BY <2>1, <2>3, <2>4, <3>1 DEF FlagHasJob
  <2>5. CASE ~ Given(j)
    BY <2>5, <1>c, NewTasks DEF WorkPlaces
  <2> QED
    BY <2>4, <2>5
<1>9. CASE SetTimestampBoundaries(t)
  BY <1>9, <1>c, NewTasks, StepEffects DEF WorkPlaces
<1>10. CASE Advance(t)
  <2>1. PICK at \in {"past", "fetch"} : Becomes(t, "advance", StepTask(at, Placed(task[t].job), {}))
    BY <1>10, StepEffects
  <2> QED
    BY <2>1, <1>c, NewTasks DEF WorkPlaces
<1>11. CASE EndExport(t)
  BY <1>11 DEF EndExport, FlagHasJob
<1>12. CASE Fetch(t) \/ PageFails(t)
  <2>1. PICK events : jobs' = Added(jobs, NextJob(task[t].job, events))
    BY <1>12, StepEffects
  <2>2. NextJob(task[t].job, events) \in DOMAIN jobs'
    BY <2>1, <1>b, OneMore
  <2> QED
    BY <2>2, <1>a DEF FlagHasJob
<1>d. ASSUME NEW before, NEW after, Becomes(t, before, after), before \notin WorkPlaces,
             \A j \in DOMAIN jobs : j \in DOMAIN jobs', isExportRunning' = isExportRunning, stuck => stuck'
      PROVE  FlagHasJob'
  BY <1>d, Became DEF FlagHasJob
<1>13. CASE Export(t)
  BY <1>13, <1>d, StepEffects DEF Export, storage, history, WorkPlaces
<1>14. CASE ExportFails(t)
  <2>1. PICK after : Becomes(t, "export", after)
    BY <1>14, StepEffects
  <2> QED
    BY <1>14, <1>d, <2>1 DEF ExportFails, storage, WorkPlaces
<1>15. CASE Retry(t)
  <2>1. \A j \in DOMAIN jobs : j \in DOMAIN jobs'
    BY <1>15, <1>b, OneMore, StepEffects
  <2> QED
    BY <1>15, <1>d, <2>1, StepEffects DEF Retry, storage, history, WorkPlaces
<1>16. CASE Throw(t) \/ Crash(t)
  <2>1. CASE task[t].at \in WorkPlaces
    BY <1>16, <2>1, AbandonEffects DEF FlagHasJob
  <2>2. CASE task[t].at \notin WorkPlaces
    BY <1>16, <2>2, <1>d, AbandonEffects
  <2> QED
    BY <2>1, <2>2
<1> QED
  BY <1>1, <1>2, <1>3, <1>4, <1>41, <1>42, <1>5, <1>6, <1>7, <1>8, <1>9, <1>10, <1>11, <1>12, <1>13,
     <1>14, <1>15, <1>16 DEF Acts

(* A job is only tried again after a failure the history remembers.          *)
RetriesRemembered ==
  \A t \in JobThread : task[t].at = "retry" => task[t].job.timestampCursor \in again

LEMMA RetriesRememberedStep ==
  ASSUME HistoryTyping, RetriesRemembered, [Next]_vars
  PROVE  RetriesRemembered'
<1>a. again \subseteq again'
  BY OnlyGrow
<1>0. CASE UNCHANGED vars
  BY <1>0 DEF RetriesRemembered, vars, history
<1>00. CASE LoseJob
  BY <1>00 DEF RetriesRemembered, LoseJob
<1> SUFFICES ASSUME NEW t \in JobThread, Acts(t)
             PROVE  RetriesRemembered'
  BY <1>0, <1>00 DEF Next, Acts
<1>b. ASSUME NEW before, NEW after, Becomes(t, before, after),
             after.at = "retry" => after.job.timestampCursor \in again'
      PROVE  RetriesRemembered'
  BY <1>a, <1>b, Became DEF RetriesRemembered
<1>1. CASE Start(t)
  <2>1. PICK r \in Ranges : Becomes(t, "idle", InterfaceTask("check", r))
    BY <1>1, StartEffects
  <2> QED
    BY <2>1, <1>b, NewTasks
<1>2. CASE Check(t) \/ Claim(t) \/ ResetCursor(t) \/ ResetLimit(t) \/ ResetStart(t)
           \/ InitCursor(t) \/ SetLimit(t) \/ EnqueueFirst(t)
  <2>1. PICK before, at, r :
          /\ before \in StartPlaces /\ at \in StartPlaces
          /\ Becomes(t, before, InterfaceTask(at, r)) \/ Becomes(t, before, NoTask)
    BY <1>2, StartEffects DEF StartPlaces
  <2> QED
    BY <2>1, <1>b, NewTasks DEF StartPlaces
<1>3. CASE RunJob(t)
  <2>1. PICK j : task' = task \/ Becomes(t, "idle", StepTask("bounds", j, {}))
    BY <1>3, StepEffects
  <2>2. CASE task' = task
    BY <2>2, <1>a DEF RetriesRemembered
  <2> QED
    BY <2>1, <2>2, <1>b, NewTasks
<1>4. CASE SetTimestampBoundaries(t) \/ Advance(t) \/ Fetch(t)
  <2>1. CASE SetTimestampBoundaries(t)
    BY <2>1, <1>b, NewTasks, StepEffects
  <2>2. CASE Advance(t)
    <3>1. PICK at \in {"past", "fetch"} : Becomes(t, "advance", StepTask(at, Placed(task[t].job), {}))
      BY <2>2, StepEffects
    <3> QED
      BY <3>1, <1>b, NewTasks
  <2>3. CASE Fetch(t)
    <3>1. PICK events : Becomes(t, "fetch", StepTask("export", task[t].job, events))
      BY <2>3, StepEffects
    <3> QED
      BY <3>1, <1>b, NewTasks
  <2> QED
    BY <1>4, <2>1, <2>2, <2>3
<1>5. CASE PageFails(t)
  <2>1. again' = again \cup {task[t].job.timestampCursor}
    BY <1>5 DEF PageFails
  <2> QED
    BY <2>1, <1>5, <1>b, NewTasks, StepEffects
<1>6. CASE ExportFails(t)
  BY <1>6, <1>b, NewTasks, StepEffects
<1>7. CASE EndExport(t) \/ Export(t) \/ Retry(t) \/ Throw(t) \/ Crash(t)
  <2>1. PICK before : Becomes(t, before, NoTask)
    BY <1>7, StepEffects, AbandonEffects
  <2> QED
    BY <2>1, <1>b, NewTasks
<1> QED
  BY <1>1, <1>2, <1>3, <1>4, <1>5, <1>6, <1>7 DEF Acts

(* All there is of an export is one thread at work, or one job that waits.   *)
Works(t) == task[t].at \in WorkPlaces

OneChain ==
  /\ \A t, u \in JobThread : Works(t) /\ Works(u) => t = u
  /\ \A j, k \in DOMAIN jobs : j = k
  /\ \A j \in DOMAIN jobs : jobs[j] = 1
  /\ \A t \in JobThread, j \in DOMAIN jobs : ~ Works(t)
OneUnlessAgain == again # {} \/ races \/ OneChain

(* A thread that finds nothing else under way,                               *)
LEMMA QuietMeans ==
  ASSUME NEW t \in JobThread, Quiet(t)
  PROVE  /\ DOMAIN jobs = {}
         /\ \A u \in JobThread : u # t => task[u].at \in {"idle", "check"}
<1>1. DOMAIN EmptyBag = {}
  BY DEF EmptyBag, SetToBag
<1> QED
  BY <1>1 DEF Quiet

(* and what a step may add to a single chain of jobs.                        *)
LEMMA OneChainStep ==
  ASSUME HistoryTyping, RetriesRemembered, OneUnlessAgain, [Next]_vars
  PROVE  OneUnlessAgain'
<1>0. CASE UNCHANGED vars
  BY <1>0 DEF OneUnlessAgain, OneChain, Works, vars, storage, history
<1>b. IsABag(jobs)
  BY DEF HistoryTyping
<1>c. (again # {} => again' # {}) /\ (races => races')
  BY OnlyGrow
<1> SUFFICES ASSUME OneChain, again = {}, again' = {}, ~ races', ~ UNCHANGED vars
             PROVE  OneChain'
  BY <1>0, <1>c DEF OneUnlessAgain
<1>00. CASE LoseJob
  <2>1. PICK j \in DOMAIN jobs : jobs' = Taken(jobs, j) /\ task' = task
    BY <1>00 DEF LoseJob
  <2>2. DOMAIN jobs' = {}
    BY <2>1, <1>b, OneLess DEF OneChain
  <2> QED
    BY <2>1, <2>2 DEF OneChain, Works
<1> SUFFICES ASSUME NEW t \in JobThread, Acts(t)
             PROVE  OneChain'
  BY <1>00 DEF Next, Acts
<1>d. ASSUME NEW before, NEW after, Becomes(t, before, after), jobs' = jobs,
             before \in WorkPlaces \/ after.at \notin WorkPlaces
      PROVE  OneChain'
  <2>1. Works(t) \/ ~ Works(t)'
    BY <1>d, Became DEF Works
  <2>2. \A u \in JobThread : u # t => task'[u] = task[u]
    BY <1>d, Became
  <2> QED
    BY <2>1, <2>2, <1>d DEF OneChain, Works
<1>e. ASSUME NEW before, NEW after, Becomes(t, before, after), NEW j, jobs' = Added(jobs, j),
             before \in WorkPlaces, after.at \notin WorkPlaces
      PROVE  OneChain'
  <2>0. Works(t) /\ ~ Works(t)' /\ \A u \in JobThread : u # t => task'[u] = task[u]
    BY <1>e, Became DEF Works
  <2>1. DOMAIN jobs = {}
    BY <2>0 DEF OneChain
  <2>2. \A u \in JobThread : ~ Works(u)'
    BY <2>0 DEF OneChain, Works
  <2>3. \A k \in DOMAIN jobs' : k = j
    BY <2>1, <1>e, <1>b, OneMore
  <2>4. jobs'[j] = 1
    BY <2>1, <1>e, <1>b, Copies
  <2> QED
    BY <2>2, <2>3, <2>4 DEF OneChain
<1> USE DEF WorkPlaces
<1>1. CASE Start(t)
  <2>1. PICK r \in Ranges : Becomes(t, "idle", InterfaceTask("check", r))
    BY <1>1, StartEffects
  <2> QED
    BY <1>1, <1>d, <2>1, NewTasks DEF Start
<1>2. CASE Check(t)
  <2>1. CASE isExportRunning
    BY <1>2, <2>1, <1>d, StartEffects, NewTasks DEF Check
  <2>2. CASE ~ isExportRunning
    <3>1. Quiet(t) /\ jobs' = jobs
      BY <1>2, <2>2 DEF Check
    <3>2. \A u \in JobThread : u # t => task'[u] = task[u]
      BY <1>2, <2>2, StartEffects, Became
    <3>3. \A u \in JobThread : u # t => ~ Works(u)'
      BY <3>1, <3>2, QuietMeans DEF Works
    <3>4. DOMAIN jobs' = {}
      BY <3>1, QuietMeans
    <3> QED
      BY <3>3, <3>4 DEF OneChain
  <2> QED
    BY <2>1, <2>2
<1>3. CASE Claim(t)
  BY <1>3, <1>d, StartEffects DEF Claim
<1>4. CASE ResetCursor(t)
  BY <1>4, <1>d, StartEffects DEF ResetCursor
<1>41. CASE ResetLimit(t)
  BY <1>41, <1>d, StartEffects DEF ResetLimit
<1>42. CASE ResetStart(t)
  BY <1>42, <1>d, StartEffects DEF ResetStart
<1>5. CASE InitCursor(t)
  BY <1>5, <1>d, StartEffects DEF InitCursor
<1>6. CASE SetLimit(t)
  BY <1>6, <1>d, StartEffects DEF SetLimit
<1>7. CASE EnqueueFirst(t)
  <2> DEFINE first == StepJob(None, 0, 0, TRUE)
  <2>1. Becomes(t, "first", NoTask) /\ jobs' = Added(jobs, first)
    BY <1>7, StartEffects DEF EnqueueFirst, Enqueue
  <2> HIDE DEF first
  <2>2. NoTask.at \notin WorkPlaces
    BY NewTasks
  <2> HIDE DEF WorkPlaces
  <2>3. "first" \in WorkPlaces
    BY DEF WorkPlaces
  <2> QED
    BY <2>1, <2>2, <2>3, <1>e
<1>8. CASE RunJob(t)
  <2> PICK j \in DOMAIN jobs :
         /\ jobs' = Taken(jobs, j)
         /\ IF Given(j) THEN task' = task ELSE Becomes(t, "idle", StepTask("bounds", j, {}))
    BY <1>8, StepEffects
  <2>1. DOMAIN jobs' = {}
    BY <1>b, OneLess DEF OneChain
  <2>2. \A u \in JobThread : u # t => task'[u] = task[u]
    BY Became
  <2>3. \A u \in JobThread : u # t => ~ Works(u)'
    BY <2>2 DEF OneChain, Works
  <2> QED
    BY <2>1, <2>3 DEF OneChain
<1>9. CASE SetTimestampBoundaries(t)
  BY <1>9, <1>d, StepEffects DEF SetTimestampBoundaries
<1>10. CASE Advance(t)
  <2>1. PICK after : Becomes(t, "advance", after)
    BY <1>10, StepEffects
  <2> QED
    BY <1>10, <2>1, <1>d DEF Advance
<1>11. CASE EndExport(t)
  BY <1>11, <1>d, StepEffects DEF EndExport
<1>12. CASE Fetch(t) \/ PageFails(t)
  <2>1. PICK at, events :
          /\ at \in {"export", "retry"}
          /\ Becomes(t, "fetch", StepTask(at, task[t].job, events))
          /\ jobs' = Added(jobs, NextJob(task[t].job, events))
    BY <1>12, StepEffects
  <2>2. StepTask(at, task[t].job, events).at \notin WorkPlaces
    BY <2>1, NewTasks DEF WorkPlaces
  <2> QED
    BY <2>1, <2>2, <1>e
<1>13. CASE Export(t)
  BY <1>13, <1>d, StepEffects, NewTasks DEF Export
<1>14. CASE ExportFails(t)
  <2>1. PICK after : Becomes(t, "export", after) /\ after.at \in {"idle", "retry"}
    BY <1>14, StepEffects, NewTasks
  <2> QED
    BY <1>14, <2>1, <1>d DEF ExportFails
<1>15. CASE Retry(t)
  BY <1>15 DEF Retry, RetriesRemembered
<1>16. CASE Throw(t) \/ Crash(t)
  BY <1>16, <1>d, AbandonEffects, NewTasks
<1> QED
  BY <1>1, <1>2, <1>3, <1>4, <1>41, <1>42, <1>5, <1>6, <1>7, <1>8, <1>9, <1>10, <1>11, <1>12, <1>13,
     <1>14, <1>15, <1>16 DEF Acts

(* Nothing else of an export is under way while it starts.                   *)
Starts(t) == task[t].at \in StartPlaces \ {"check"}
StartsAlone == races \/ \A t \in JobThread : Starts(t) => Quiet(t)

(* No thread runs a job, and none is enqueued, while another one starts.     *)
LEMMA StartsAloneStep ==
  ASSUME HistoryTyping, StartsAlone, [Next]_vars
  PROVE  StartsAlone'
<1> USE DEF StartPlaces
<1>0. CASE UNCHANGED vars
  BY <1>0 DEF StartsAlone, Starts, Quiet, vars, storage, history
<1>c. races => races'
  BY OnlyGrow
<1> SUFFICES ASSUME ~ races, ~ races', \A u \in JobThread : Starts(u) => Quiet(u),
                    NEW w \in JobThread, Starts(w)', ~ UNCHANGED vars
             PROVE  Quiet(w)'
  BY <1>0, <1>c DEF StartsAlone
<1>00. CASE LoseJob
  <2>1. DOMAIN jobs # {} /\ Starts(w)
    BY <1>00 DEF LoseJob, Starts
  <2> QED
    BY <2>1, QuietMeans
<1> SUFFICES ASSUME NEW t \in JobThread, Acts(t)
             PROVE  Quiet(w)'
  BY <1>00 DEF Next, Acts
<1>d. ASSUME NEW before, NEW after, Becomes(t, before, after), jobs' = jobs,
             w = t => Starts(t), w # t => after.at \in {"idle", "check"}
      PROVE  Quiet(w)'
  <2>1. /\ \A u \in JobThread : u # t => task'[u] = task[u]
        /\ task'[t] = after
    BY <1>d, Became
  <2> QED
    BY <1>d, <2>1 DEF Quiet, Starts
<1>e. ASSUME NEW before, NEW after, Becomes(t, before, after),
             before \in StepPlaces, after.at \notin StartPlaces
      PROVE  FALSE
  <2>1. /\ \A u \in JobThread : u # t => task'[u] = task[u]
        /\ task'[t] = after
    BY <1>e, Became
  <2>2. w # t /\ Starts(w)
    BY <2>1, <1>e DEF Starts
  <2> QED
    BY <1>e, <2>2 DEF Quiet, StepPlaces, Becomes
<1>s. ASSUME NEW before, NEW after, Becomes(t, before, after), before \in StartPlaces \ {"check"}
      PROVE  w = t /\ Starts(t)
  <2>1. Starts(t) /\ \A u \in JobThread : u # t => task'[u] = task[u]
    BY <1>s, Became DEF Starts
  <2> QED
    BY <2>1 DEF Quiet, Starts
<1>1. CASE Start(t)
  <2>1. PICK r \in Ranges : Becomes(t, "idle", InterfaceTask("check", r))
    BY <1>1, StartEffects
  <2>2. w # t
    BY <2>1, Became, NewTasks DEF Starts
  <2> QED
    BY <1>1, <1>d, <2>1, <2>2, NewTasks DEF Start
<1>2. CASE Check(t)
  <2>1. CASE isExportRunning
    <3>1. Becomes(t, "check", NoTask) /\ jobs' = jobs
      BY <1>2, <2>1, StartEffects DEF Check
    <3>2. w # t
      BY <3>1, Became, NewTasks DEF Starts
    <3> QED
      BY <3>1, <3>2, <1>d, NewTasks
  <2>2. CASE ~ isExportRunning
    <3>1. Quiet(t) /\ jobs' = jobs
      BY <1>2, <2>2 DEF Check
    <3>2. \A u \in JobThread : u # t => task'[u] = task[u]
      BY <1>2, <2>2, StartEffects, Became
    <3>3. w = t
      BY <3>1, <3>2 DEF Quiet, Starts
    <3> QED
      BY <3>1, <3>2, <3>3 DEF Quiet
  <2> QED
    BY <2>1, <2>2
<1>3. CASE Claim(t)
  BY <1>3, <1>d, <1>s, StartEffects DEF Claim
<1>4. CASE ResetCursor(t)
  BY <1>4, <1>d, <1>s, StartEffects DEF ResetCursor
<1>41. CASE ResetLimit(t)
  BY <1>41, <1>d, <1>s, StartEffects DEF ResetLimit
<1>42. CASE ResetStart(t)
  BY <1>42, <1>d, <1>s, StartEffects DEF ResetStart
<1>5. CASE InitCursor(t)
  BY <1>5, <1>d, <1>s, StartEffects DEF InitCursor
<1>6. CASE SetLimit(t)
  BY <1>6, <1>d, <1>s, StartEffects DEF SetLimit
<1>7. CASE EnqueueFirst(t)
  BY <1>7, <1>s, StartEffects, Became, NewTasks DEF Starts
<1>8. CASE RunJob(t)
  <2> PICK j \in DOMAIN jobs :
         IF Given(j) THEN task' = task ELSE Becomes(t, "idle", StepTask("bounds", j, {}))
    BY <1>8, StepEffects
  <2>1. Starts(w)
    BY Became, NewTasks DEF Starts
  <2>2. Quiet(w)
    BY <2>1
  <2> QED
    BY <2>2, QuietMeans
<1>9. CASE SetTimestampBoundaries(t)
  BY <1>9, <1>e, StepEffects, NewTasks DEF StepPlaces
<1>10. CASE Advance(t)
  <2>1. PICK at \in {"past", "fetch"} : Becomes(t, "advance", StepTask(at, Placed(task[t].job), {}))
    BY <1>10, StepEffects
  <2> QED
    BY <2>1, <1>e, NewTasks DEF StepPlaces
<1>11. CASE EndExport(t) \/ Export(t) \/ Retry(t)
  <2>1. PICK before \in {"past", "export", "retry"} : Becomes(t, before, NoTask)
    BY <1>11, StepEffects
  <2> QED
    BY <2>1, <1>e, NewTasks DEF StepPlaces
<1>12. CASE Fetch(t) \/ PageFails(t)
  <2>1. PICK at, events : at \in {"export", "retry"} /\ Becomes(t, "fetch", StepTask(at, task[t].job, events))
    BY <1>12, StepEffects
  <2> QED
    BY <2>1, <1>e, NewTasks DEF StepPlaces
<1>13. CASE ExportFails(t)
  <2>1. PICK after : Becomes(t, "export", after) /\ after.at \in {"idle", "retry"}
    BY <1>13, StepEffects, NewTasks
  <2> QED
    BY <2>1, <1>e DEF StepPlaces
<1>14. CASE Throw(t) \/ Crash(t)
  <2>1. Becomes(t, task[t].at, NoTask) /\ jobs' = jobs
    BY <1>14, AbandonEffects
  <2>2. w # t
    BY <2>1, Became, NewTasks DEF Starts
  <2> QED
    BY <2>1, <2>2, <1>d, NewTasks
<1> QED
  BY <1>1, <1>2, <1>3, <1>4, <1>41, <1>42, <1>5, <1>6, <1>7, <1>8, <1>9, <1>10, <1>11, <1>12, <1>13,
     <1>14 DEF Acts

(* Jobs that know the page they will fetch, waiting or in hand.              *)
HasPage(job) == ~ NextInterval(job)
Holds(t) ==
  task[t].at \in {"fetch", "retry"} \/ (task[t].at \in {"bounds", "advance"} /\ HasPage(task[t].job))
Paged(j) ==
  \/ j \in DOMAIN jobs /\ HasPage(j)
  \/ \E t \in JobThread : Holds(t) /\ task[t].job = j

(* They stay when no such job is enqueued, taken, begun or ended.            *)
LEMMA SamePages ==
  ASSUME HistoryTyping, NEW t \in JobThread, NEW before, NEW after, Becomes(t, before, after),
         \A j : HasPage(j) => (j \in DOMAIN jobs' <=> j \in DOMAIN jobs),
         Holds(t)' <=> Holds(t), Holds(t) => after.job = task[t].job
  PROVE  \A j : Paged(j)' <=> Paged(j)
<1>1. \A u \in JobThread : u # t => (Holds(u)' <=> Holds(u)) /\ task'[u] = task[u]
  BY Became DEF Holds
<1>2. task'[t] = after
  BY Became
<1> QED
  BY <1>1, <1>2 DEF Paged

(* The pages to fetch after the actions of an interface job,                 *)
LEMMA StartPages ==
  ASSUME HistoryTyping, NEW t \in JobThread,
         \/ Start(t) \/ Check(t) \/ Claim(t) \/ ResetCursor(t) \/ ResetLimit(t) \/ ResetStart(t)
         \/ InitCursor(t) \/ SetLimit(t) \/ EnqueueFirst(t)
  PROVE  /\ \A j : Paged(j)' <=> Paged(j)
         /\ task[t].at \in StartPlaces \cup {"idle"} /\ task'[t].at \in StartPlaces \cup {"idle"}
         /\ \A u \in JobThread : u # t => task'[u] = task[u]
<1>1. PICK before, after :
        /\ before \in StartPlaces \cup {"idle"}
        /\ Becomes(t, before, after) /\ after.at \in StartPlaces \cup {"idle"}
  <2> USE NewTasks DEF StartPlaces
  <2>1. CASE Start(t)
    <3>1. PICK r \in Ranges : Becomes(t, "idle", InterfaceTask("check", r))
      BY <2>1, StartEffects
    <3> QED
      BY <3>1
  <2>2. CASE Check(t)
    <3>1. Becomes(t, "check", NoTask) \/ Becomes(t, "check", InterfaceTask("claim", task[t].range))
      BY <2>2, StartEffects
    <3> QED
      BY <3>1
  <2>3. CASE Claim(t)
    BY <2>3, StartEffects
  <2>4. CASE ResetCursor(t)
    BY <2>4, StartEffects
  <2>5. CASE ResetLimit(t)
    BY <2>5, StartEffects
  <2>6. CASE ResetStart(t)
    BY <2>6, StartEffects
  <2>7. CASE InitCursor(t)
    BY <2>7, StartEffects
  <2>8. CASE SetLimit(t)
    BY <2>8, StartEffects
  <2>9. CASE EnqueueFirst(t)
    BY <2>9, StartEffects
  <2> QED
    BY <2>1, <2>2, <2>3, <2>4, <2>5, <2>6, <2>7, <2>8, <2>9
<1>2. \A place \in StartPlaces \cup {"idle"} : place \notin {"fetch", "retry", "bounds", "advance"}
  BY DEF StartPlaces
<1>3. /\ task[t].at \in StartPlaces \cup {"idle"} /\ task'[t].at \in StartPlaces \cup {"idle"}
      /\ \A u \in JobThread : u # t => task'[u] = task[u]
  BY <1>1, Became
<1>4. ~ Holds(t) /\ ~ Holds(t)'
  BY <1>2, <1>3 DEF Holds
<1>5. \A j : HasPage(j) => (j \in DOMAIN jobs' <=> j \in DOMAIN jobs)
  <2>1. CASE EnqueueFirst(t)
    <3>1. jobs' = Added(jobs, StepJob(None, 0, 0, TRUE)) /\ IsABag(jobs)
      BY <2>1 DEF EnqueueFirst, Enqueue, HistoryTyping
    <3>2. ~ HasPage(StepJob(None, 0, 0, TRUE))
      BY DEF HasPage, NextInterval, StepJob
    <3> QED
      BY <3>1, <3>2, OneMore
  <2>2. CASE ~ EnqueueFirst(t)
    <3>1. jobs' = jobs
      BY <2>2 DEF Start, Check, Claim, ResetCursor, ResetLimit, ResetStart, InitCursor, SetLimit
    <3> QED
      BY <3>1
  <2> QED
    BY <2>1, <2>2
<1> QED
  BY <1>1, <1>3, <1>4, <1>5, SamePages

(* What each action of a job makes of them.                                  *)
LEMMA RunJobPages ==
  ASSUME HistoryTyping, NEW t \in JobThread, RunJob(t)
  PROVE  /\ \A j : Paged(j)' => Paged(j)
         /\ \A j : Paged(j) => Paged(j)' \/ j.timestampCursor \in givenUp'
<1> PICK k \in DOMAIN jobs :
       /\ task[t].at = "idle" /\ (jobs' = Taken(jobs, k) \/ jobs' = jobs)
       /\ IF Given(k) THEN task' = task /\ givenUp' = givenUp \cup {k.timestampCursor}
          ELSE Becomes(t, "idle", StepTask("bounds", k, {})) /\ givenUp' = givenUp
  BY StepEffects
<1>1. /\ \A j \in DOMAIN jobs' : j \in DOMAIN jobs
      /\ \A j \in DOMAIN jobs : j # k => j \in DOMAIN jobs'
  BY OneLess DEF HistoryTyping
<1>2. ~ Holds(t)
  BY DEF Holds
<1>3. CASE Given(k)
  <2>1. \A u \in JobThread : Holds(u)' <=> Holds(u)
    BY <1>3 DEF Holds
  <2>2. k.timestampCursor \in givenUp' /\ task' = task
    BY <1>3
  <2> QED
    BY <1>1, <2>1, <2>2 DEF Paged
<1>4. CASE ~ Given(k)
  <2>1. Becomes(t, "idle", StepTask("bounds", k, {}))
    BY <1>4
  <2>2. \A u \in JobThread : u # t => task'[u] = task[u] /\ (Holds(u)' <=> Holds(u))
    BY <2>1, Became DEF Holds
  <2>3. task'[t].job = k /\ (Holds(t)' <=> HasPage(k))
    BY <2>1, Became, NewTasks DEF Holds
  <2> QED
    BY <1>1, <1>2, <2>2, <2>3 DEF Paged
<1> QED
  BY <1>3, <1>4

(* after it is given its interval,                                           *)
LEMMA AdvancePages ==
  ASSUME HistoryTyping, NEW t \in JobThread, Advance(t)
  PROVE  LET job == task[t].job
             past == Placed(job).timestampCursor > maxTimestamp[t]
         IN  /\ \A j : Paged(j)' => Paged(j) \/ (~ past /\ j = Placed(job))
             /\ \A j : Paged(j) => Paged(j)' \/ (past /\ HasPage(job) /\ j = job)
             /\ \A j : ~ past /\ j = Placed(job) => Paged(j)'
             /\ HasPage(job) => Placed(job) = job /\ Paged(job)
<1> DEFINE job == task[t].job
           past == Placed(job).timestampCursor > maxTimestamp[t]
<1>1. task[t].at = "advance" /\ jobs' = jobs
  BY DEF Advance
<1>2. HasPage(job) => Placed(job) = job /\ Paged(job)
  BY <1>1 DEF HasPage, Placed, Paged, Holds
<1>3. CASE past
  <2>1. Becomes(t, "advance", StepTask("past", Placed(job), {}))
    BY <1>3, StepEffects
  <2>2. \A u \in JobThread : u # t => task'[u] = task[u] /\ (Holds(u)' <=> Holds(u))
    BY <2>1, Became DEF Holds
  <2>3. ~ Holds(t)' /\ (Holds(t) => HasPage(job))
    BY <2>1, Became, NewTasks DEF Holds
  <2> QED
    BY <1>1, <1>2, <1>3, <2>2, <2>3 DEF Paged
<1>4. CASE ~ past
  <2>1. Becomes(t, "advance", StepTask("fetch", Placed(job), {}))
    BY <1>4, StepEffects
  <2>2. \A u \in JobThread : u # t => task'[u] = task[u] /\ (Holds(u)' <=> Holds(u))
    BY <2>1, Became DEF Holds
  <2>3. Holds(t)' /\ task'[t].job = Placed(job) /\ (Holds(t) => HasPage(job))
    BY <2>1, Became, NewTasks DEF Holds
  <2> HIDE DEF past
  <2>4. \A j : Paged(j)' => Paged(j) \/ j = Placed(job)
    BY <1>1, <2>2, <2>3 DEF Paged
  <2>5. \A j : Paged(j) => Paged(j)'
    BY <1>1, <1>2, <2>2, <2>3 DEF Paged
  <2>6. \A j : j = Placed(job) => Paged(j)'
    BY <2>3 DEF Paged
  <2> QED
    BY <1>2, <1>4, <2>4, <2>5, <2>6 DEF past
<1> QED
  BY <1>3, <1>4

(* after a page is fetched and the next job enqueued,                        *)
LEMMA FetchPages ==
  ASSUME HistoryTyping, NEW t \in JobThread, NEW events,
         Becomes(t, "fetch", StepTask("export", task[t].job, events)),
         jobs' = Added(jobs, NextJob(task[t].job, events))
  PROVE  LET job == task[t].job
             next == NextJob(job, events)
         IN  /\ Paged(job)
             /\ \A j : Paged(j)' =>
                  \/ j = next /\ HasPage(next)
                  \/ j \in DOMAIN jobs /\ HasPage(j)
                  \/ \E u \in JobThread : u # t /\ Holds(u) /\ task[u].job = j
             /\ \A j : Paged(j) => Paged(j)' \/ j = job
             /\ \A j : j = next /\ HasPage(next) => Paged(j)'
<1> DEFINE job == task[t].job
           next == NextJob(job, events)
<1>2. \A u \in JobThread : u # t => task'[u] = task[u] /\ (Holds(u)' <=> Holds(u))
  BY Became DEF Holds
<1>3. ~ Holds(t)' /\ Holds(t)
  BY Became, NewTasks DEF Holds
<1> HIDE DEF next
<1>4. /\ next \in DOMAIN jobs' /\ \A y \in DOMAIN jobs : y \in DOMAIN jobs'
      /\ \A y \in DOMAIN jobs' : y = next \/ y \in DOMAIN jobs
  BY OneMore DEF HistoryTyping, next
<1>5. Paged(job) /\ (\A j : j = next /\ HasPage(next) => Paged(j)')
  BY <1>3, <1>4 DEF Paged
<1>6. \A j : Paged(j) => Paged(j)' \/ j = job
  BY <1>2, <1>3, <1>4 DEF Paged
<1>7. \A j : Paged(j)' =>
        \/ j = next /\ HasPage(next)
        \/ j \in DOMAIN jobs /\ HasPage(j)
        \/ \E u \in JobThread : u # t /\ Holds(u) /\ task[u].job = j
  BY <1>2, <1>3, <1>4 DEF Paged
<1> QED
  BY <1>5, <1>6, <1>7 DEF next

(* after the actions that leave them as they are,                            *)
LEMMA QuietPages ==
  ASSUME HistoryTyping, NEW t \in JobThread,
         SetTimestampBoundaries(t) \/ EndExport(t) \/ PageFails(t) \/ Export(t)
  PROVE  \A j : Paged(j)' <=> Paged(j)
<1>1. CASE SetTimestampBoundaries(t)
  <2>1. Becomes(t, "bounds", StepTask("advance", task[t].job, task[t].events)) /\ jobs' = jobs
    BY <1>1, StepEffects DEF SetTimestampBoundaries
  <2>2. Holds(t)' <=> Holds(t)
    BY <2>1, Became, NewTasks DEF Holds
  <2> QED
    BY <2>1, <2>2, NewTasks, SamePages
<1>2. CASE EndExport(t) \/ Export(t)
  <2>1. PICK before \in {"past", "export"} : Becomes(t, before, NoTask) /\ jobs' = jobs
    BY <1>2, StepEffects DEF EndExport, Export
  <2>2. ~ Holds(t)' /\ ~ Holds(t)
    BY <2>1, Became, NewTasks DEF Holds
  <2> QED
    BY <2>1, <2>2, SamePages
<1>3. CASE PageFails(t)
  <2> DEFINE next == NextJob(task[t].job, {})
  <2>1. Becomes(t, "fetch", StepTask("retry", task[t].job, {})) /\ jobs' = Added(jobs, next)
    BY <1>3, StepEffects
  <2>2. Holds(t)' /\ Holds(t)
    BY <2>1, Became, NewTasks DEF Holds
  <2>3. ~ HasPage(next)
    BY DEF HasPage, NextInterval, NextJob, StepJob
  <2> HIDE DEF next
  <2>4. \A j : HasPage(j) => (j \in DOMAIN jobs' <=> j \in DOMAIN jobs)
    BY <2>1, <2>3, OneMore DEF HistoryTyping
  <2> QED
    BY <2>1, <2>2, <2>4, NewTasks, SamePages
<1> QED
  BY <1>1, <1>2, <1>3

(* after exportEvents threw,                                                 *)
LEMMA ExportFailsPages ==
  ASSUME HistoryTyping, NEW t \in JobThread, ExportFails(t)
  PROVE  LET job == task[t].job
         IN  /\ \A j : Paged(j)' => Paged(j) \/ (j = job /\ job.timestampCursor \in again')
             /\ \A j : Paged(j) => Paged(j)'
             /\ job.timestampCursor \in givenUp' \/ \A j : j = job => Paged(j)'
<1> DEFINE job == task[t].job
<1>1. task[t].at = "export" /\ jobs' = jobs
  BY DEF ExportFails
<1>2. CASE Becomes(t, "export", NoTask) /\ job.timestampCursor \in givenUp'
  <2>1. ~ Holds(t)' /\ ~ Holds(t)
    BY <1>2, Became, NewTasks DEF Holds
  <2> QED
    BY <1>1, <1>2, <2>1, SamePages
<1>3. CASE Becomes(t, "export", StepTask("retry", job, {})) /\ job.timestampCursor \in again'
  <2>1. task'[t].job = job /\ Holds(t)' /\ ~ Holds(t)
    BY <1>3, Became, NewTasks DEF Holds
  <2>2. \A u \in JobThread : u # t => task'[u] = task[u] /\ (Holds(u)' <=> Holds(u))
    BY <1>3, Became DEF Holds
  <2> HIDE DEF job
  <2>3. \A j : Paged(j)' <=> Paged(j) \/ j = job
    BY <1>1, <2>1, <2>2 DEF Paged
  <2> QED
    BY <1>3, <2>3 DEF job
<1> QED
  BY <1>2, <1>3 DEF ExportFails, EndTask, Becomes

(* after the job is enqueued once more,                                      *)
LEMMA RetryPages ==
  ASSUME HistoryTyping, NEW t \in JobThread, Retry(t)
  PROVE  LET job == task[t].job
         IN  /\ Paged(job)
             /\ \A j : Paged(j)' => Paged(j) \/ (j = RetryJob(job) /\ HasPage(j))
             /\ \A j : Paged(j) => Paged(j)' \/ j = job
             /\ \A j : j = RetryJob(job) /\ HasPage(j) => Paged(j)'
<1> DEFINE job == task[t].job
           next == RetryJob(job)
<1>1. Becomes(t, "retry", NoTask) /\ jobs' = Added(jobs, next)
  BY StepEffects
<1>2. \A u \in JobThread : u # t => task'[u] = task[u] /\ (Holds(u)' <=> Holds(u))
  BY <1>1, Became DEF Holds
<1>3. ~ Holds(t)' /\ Holds(t)
  BY <1>1, Became, NewTasks DEF Holds
<1> HIDE DEF next
<1>4. /\ next \in DOMAIN jobs' /\ \A y \in DOMAIN jobs : y \in DOMAIN jobs'
      /\ \A y \in DOMAIN jobs' : y = next \/ y \in DOMAIN jobs
  BY <1>1, OneMore DEF HistoryTyping
<1>5. Paged(job) /\ (\A j : j = next /\ HasPage(j) => Paged(j)')
  BY <1>3, <1>4 DEF Paged
<1>6. \A j : Paged(j) => Paged(j)' \/ j = job
  BY <1>2, <1>3, <1>4 DEF Paged
<1>7. \A j : Paged(j)' => Paged(j) \/ (j = next /\ HasPage(j))
  BY <1>2, <1>3, <1>4 DEF Paged
<1> QED
  BY <1>5, <1>6, <1>7 DEF next

(* after a task that threw, or whose server died,                            *)
LEMMA AbandonPages ==
  ASSUME HistoryTyping, NEW t \in JobThread, Throw(t) \/ Crash(t)
  PROVE  /\ \A j : Paged(j)' => Paged(j)
         /\ \A j : Paged(j) => Paged(j)' \/ stuck' \/ j.timestampCursor \in givenUp'
<1>1. Becomes(t, task[t].at, NoTask) /\ jobs' = jobs
  BY AbandonEffects
<1>2. \A u \in JobThread : u # t => task'[u] = task[u] /\ (Holds(u)' <=> Holds(u))
  BY <1>1, Became DEF Holds
<1>3. ~ Holds(t)'
  BY <1>1, Became, NewTasks DEF Holds
<1>4. Holds(t) => stuck' \/ task[t].job.timestampCursor \in givenUp'
  <2>1. task[t].at \in WorkPlaces => stuck'
    BY AbandonEffects
  <2>2. task[t].at = "retry" => task[t].job.timestampCursor \in givenUp'
    BY AbandonEffects
  <2> QED
    BY <2>1, <2>2 DEF Holds, WorkPlaces
<1> QED
  BY <1>1, <1>2, <1>3, <1>4 DEF Paged

(* and after a job was lost.                                                 *)
LEMMA LosePages ==
  ASSUME HistoryTyping, LoseJob
  PROVE  \A j : Paged(j)' => Paged(j)
<1>1. PICK k \in DOMAIN jobs : jobs' = Taken(jobs, k) /\ task' = task
  BY DEF LoseJob
<1>2. \A j \in DOMAIN jobs' : j \in DOMAIN jobs
  BY <1>1, OneLess DEF HistoryTyping
<1> QED
  BY <1>1, <1>2 DEF Paged, Holds

(* Division: what is left over, and that it is nothing only for a multiple.  *)
LEMMA Divided ==
  ASSUME NEW P \in Nat \ {0}, NEW x \in Int
  PROVE  /\ x % P \in 0 .. P - 1
         /\ \E q \in Int : x = P * q + (x % P)
<1> DEFINE quotient == x \div P
<1>1. x % P \in 0 .. P - 1
  OBVIOUS
<1>2. quotient \in Int
  OBVIOUS
<1>3. x = P * quotient + (x % P)
  OBVIOUS
<1> HIDE DEF quotient
<1>4. \E q \in Int : x = P * q + (x % P)
  <2> WITNESS quotient \in Int
  <2> QED
    BY <1>3
<1> QED
  BY <1>1, <1>4

LEMMA SmallMultiple ==
  ASSUME NEW P \in Nat \ {0}, NEW d \in Int, -P < P * d, P * d < P
  PROVE  d = 0
<1>1. ~ (d >= 1)
  OBVIOUS
<1>2. ~ (d <= -1)
  OBVIOUS
<1> QED
  BY <1>1, <1>2

LEMMA SameRest ==
  ASSUME NEW P \in Nat \ {0}, NEW c \in Int, NEW i \in Int, i % P = 0
  PROVE  (c + i) % P = c % P
<1> DEFINE m == c % P
           n == (c + i) % P
<1>1. m \in 0 .. P - 1 /\ n \in 0 .. P - 1
  BY Divided
<1>2. PICK q \in Int : c = P * q + m
  BY Divided
<1>3. PICK k \in Int : i = P * k
  <2>1. PICK k \in Int : i = P * k + (i % P)
    BY Divided
  <2> QED
    BY <2>1
<1>4. PICK s \in Int : c + i = P * s + n
  <2>1. c + i \in Int
    OBVIOUS
  <2> HIDE DEF m
  <2> DEFINE x == c + i
  <2>2. x \in Int
    BY <2>1
  <2> HIDE DEF x
  <2>3. PICK s \in Int : x = P * s + (x % P)
    BY <2>2, Divided
  <2> QED
    BY <2>3 DEF x
<1> HIDE DEF m, n
<1>5. m \in Int /\ n \in Int /\ P * q + m + P * k = P * s + n
  BY <1>1, <1>2, <1>3, <1>4
<1>6. P * q + P * k - P * s = P * (q + k - s)
  OBVIOUS
<1> DEFINE d == q + k - s
<1>7. d \in Int /\ n - m = P * d
  BY <1>5, <1>6
<1> HIDE DEF d
<1>8. -P < P * d /\ P * d < P
  BY <1>1, <1>7
<1>9. d = 0
  BY <1>7, <1>8, SmallMultiple
<1>10. P * d = 0
  BY <1>9
<1>11. n = m
  BY <1>5, <1>7, <1>10
<1> QED
  BY <1>11 DEF m, n

(* The bounds of a query: intervals that follow one another in time do in the *)
(* queries too, and a bound is not after the time it stands for.             *)
LEMMA FloorMoves ==
  ASSUME NEW c \in Int
  PROVE  /\ Floor(c) \in Int /\ Floor(c) <= c
         /\ c % Precision = c - Floor(c)
         /\ Floor(c + Interval) = Floor(c) + Interval
<1>1. Precision \in Nat \ {0} /\ Interval \in Int /\ Interval % Precision = 0
  BY ExportAssumption
<1>2. c % Precision \in 0 .. Precision - 1
  BY <1>1, Divided
<1>3. (c + Interval) % Precision = c % Precision
  BY <1>1, SameRest
<1> QED
  BY <1>1, <1>2, <1>3 DEF Floor

(* The export under way goes over the range it was started with: each of its *)
(* intervals lies as many intervals after the start.                         *)
InPhase(c, r) == c - Floor(c) = r[1] - Floor(r[1])
CursorIn(r) == cursor >= r[1] - Interval /\ InPhase(cursor, r)
Within(j, r) ==
  /\ r[1] <= j.timestampCursor /\ j.timestampCursor <= r[2] /\ j.timestampCursor <= cursor
  /\ InPhase(j.timestampCursor, r)
InRangeAt(t, r) ==
  /\ Starts(t) => task[t].range = r
  /\ task[t].at \in {"resetLimit", "resetStart", "init"} => cursor = None
  /\ task[t].at \in {"limit", "first"} => cursor = r[1] - Interval
  /\ task[t].at \in {"first"} \cup StepPlaces => storedMax = r[2]
  /\ task[t].at \in StepPlaces => CursorIn(r)
  /\ task[t].at = "advance" => maxTimestamp[t] = storedMax
  /\ task[t].at = "past" => cursor > r[2]
  /\ task[t].at = "export" =>
       /\ Within(task[t].job, r)
       /\ task[t].events \in Pages(task[t].job.timestampCursor, task[t].job.intraIntervalOffset)
InRange(r) ==
  /\ \A t \in JobThread : InRangeAt(t, r)
  /\ DOMAIN jobs # {} => storedMax = r[2] /\ CursorIn(r)
  /\ \A j : Paged(j) => Within(j, r)

NothingRuns == DOMAIN jobs = {} /\ \A t \in JobThread : task[t].at \in {"idle", "check"}
RangeOK == races \/ outdated \/ NothingRuns \/ \E r \in Ranges : InRange(r)

(* The start of a range, and each interval after one that is in phase with it. *)
LEMMA Phases ==
  ASSUME NEW r \in Ranges
  PROVE  /\ r[1] \in Nat \ {0} /\ r[2] \in Nat \ {0} /\ Floor(r[1]) \in Int /\ Floor(r[1]) <= r[1]
         /\ InPhase(r[1] - Interval, r)
         /\ \A c \in Int : InPhase(c, r) => InPhase(c + Interval, r)
<1>1. r[1] \in Nat \ {0} /\ r[2] \in Nat \ {0} /\ Interval \in Nat \ {0}
  BY ExportAssumption
<1>2. \A c \in Int : Floor(c) \in Int /\ Floor(c) <= c /\ Floor(c + Interval) = Floor(c) + Interval
  BY FloorMoves
<1>3. Floor(r[1]) = Floor(r[1] - Interval) + Interval
  <2> DEFINE c == r[1] - Interval
  <2>1. c \in Int /\ c + Interval = r[1]
    BY <1>1
  <2> HIDE DEF c
  <2>2. Floor(c + Interval) = Floor(c) + Interval
    BY <2>1, <1>2
  <2> QED
    BY <2>1, <2>2 DEF c
<1>4. r[1] - Interval \in Int /\ r[1] \in Int
  BY <1>1
<1>5. \A c \in Int : InPhase(c, r) => InPhase(c + Interval, r)
  BY <1>1, <1>2, <1>4 DEF InPhase
<1>6. InPhase(r[1] - Interval, r)
  BY <1>1, <1>2, <1>3, <1>4 DEF InPhase
<1> QED
  BY <1>1, <1>2, <1>4, <1>5, <1>6

(* A page to fetch is that of a job.                                         *)
LEMMA PagedTypes ==
  ASSUME HistoryTyping, NEW j, Paged(j)
  PROVE  j \in JobRecs /\ j.timestampCursor \in Int /\ j.intraIntervalOffset \in Nat
<1>1. CASE j \in DOMAIN jobs
  BY <1>1 DEF HistoryTyping, JobRecs
<1>2. CASE \E t \in JobThread : Holds(t) /\ task[t].job = j
  <2> PICK t \in JobThread : Holds(t) /\ task[t].job = j
    BY <1>2
  <2>1. task[t].at \in StepPlaces
    BY DEF Holds, StepPlaces
  <2> QED
    BY <2>1, Moved DEF JobRecs
<1> QED
  BY <1>1, <1>2 DEF Paged

(* Every step goes on in the range, for each place a thread may be at.       *)
LEMMA RangeStep ==
  ASSUME HistoryTyping, StartsAlone, RangeOK, [Next]_vars
  PROVE  RangeOK'
<1> USE DEF StartPlaces, StepPlaces
<1>0. CASE UNCHANGED vars
  BY <1>0 DEF RangeOK, NothingRuns, InRange, InRangeAt, CursorIn, Starts, Within, Paged, Holds, vars, storage, history
<1> SUFFICES ASSUME ~ races, ~ outdated, ~ races', ~ outdated', ~ UNCHANGED vars
             PROVE  RangeOK'
  BY <1>0, OnlyGrow DEF RangeOK
<1>b. Interval \in Nat \ {0} /\ cursor \in Int /\ storedMax \in Nat
  BY ExportAssumption DEF HistoryTyping
<1>00. CASE LoseJob
  <2>1. PICK j \in DOMAIN jobs : jobs' = Taken(jobs, j) /\ task' = task
    BY <1>00 DEF LoseJob
  <2>2. cursor' = cursor /\ storedMax' = storedMax /\ maxTimestamp' = maxTimestamp
    BY <1>00 DEF LoseJob, storage
  <2>3. PICK r \in Ranges : InRange(r)
    BY DEF RangeOK, NothingRuns
  <2>4. \A u \in JobThread : InRangeAt(u, r)'
    BY <2>1, <2>2, <2>3 DEF InRange, InRangeAt, CursorIn, Starts, Within
  <2>5. \A k : Paged(k)' => Within(k, r)'
    BY <1>00, <2>2, <2>3, LosePages DEF InRange, Within
  <2>6. storedMax = r[2] /\ CursorIn(r)
    BY <2>3 DEF InRange
  <2>7. InRange(r)'
    BY <2>2, <2>4, <2>5, <2>6 DEF InRange, CursorIn
  <2> QED
    BY <2>7 DEF RangeOK
<1> SUFFICES ASSUME NEW t \in JobThread, Acts(t)
             PROVE  RangeOK'
  BY <1>00 DEF Next, Acts
<1>c. ASSUME NEW u \in JobThread, Starts(u)
      PROVE  DOMAIN jobs = {} /\ \A w \in JobThread : w # u => task[w].at \in {"idle", "check"}
  BY <1>c, QuietMeans DEF StartsAlone
<1>k. ASSUME NEW before, NEW after, Becomes(t, before, after), NEW r \in Ranges, InRange(r), InRangeAt(t, r)',
             cursor' = cursor, storedMax' = storedMax,
             \A u \in JobThread : u # t => maxTimestamp'[u] = maxTimestamp[u],
             DOMAIN jobs' # {} => DOMAIN jobs # {} \/ (storedMax = r[2] /\ CursorIn(r)),
             \A j : Paged(j)' => Within(j, r)
      PROVE  InRange(r)'
  <2>1. \A u \in JobThread : u # t => task'[u] = task[u] /\ InRangeAt(u, r)
    BY <1>k, Became DEF InRange
  <2>2. \A u \in JobThread : InRangeAt(u, r)'
    BY <1>k, <2>1 DEF InRangeAt, CursorIn, Starts, Within
  <2>3. DOMAIN jobs' # {} => storedMax' = r[2] /\ CursorIn(r)'
    BY <1>k DEF InRange, CursorIn
  <2>4. \A j : Paged(j)' => Within(j, r)'
    BY <1>k DEF Within
  <2> QED
    BY <2>2, <2>3, <2>4 DEF InRange
<1>i. ASSUME task'[t].at \in {"idle", "check"}, NEW r
      PROVE  InRangeAt(t, r)'
  BY <1>i DEF InRangeAt, Starts
<1>l. ASSUME NEW r \in Ranges, InRange(r)
      PROVE  \A j : Paged(j) => Within(j, r)
  BY <1>l DEF InRange
<1>1. CASE Start(t) \/ (Check(t) /\ isExportRunning)
  <2>1. PICK before, after :
          before \in {"idle", "check"} /\ Becomes(t, before, after) /\ after.at \in {"idle", "check"}
    <3>1. CASE Start(t)
      <4>1. PICK s \in Ranges : Becomes(t, "idle", InterfaceTask("check", s))
        BY <3>1, StartEffects
      <4> QED
        BY <4>1, NewTasks
    <3>2. CASE Check(t) /\ isExportRunning
      BY <3>2, StartEffects, NewTasks
    <3> QED
      BY <1>1, <3>1, <3>2
  <2>2. /\ task'[t].at \in {"idle", "check"} /\ task[t].at \in {"idle", "check"}
        /\ \A u \in JobThread : u # t => task'[u] = task[u]
    BY <2>1, Became
  <2>3. jobs' = jobs /\ cursor' = cursor /\ storedMax' = storedMax /\ maxTimestamp' = maxTimestamp
    BY <1>1 DEF Start, Check, storage
  <2>4. CASE NothingRuns
    BY <2>2, <2>3, <2>4 DEF NothingRuns, RangeOK
  <2>5. ASSUME NEW r \in Ranges, InRange(r)
        PROVE  InRange(r)'
    <3>1. \A j : Paged(j)' => Within(j, r)
      BY <1>1, <2>5, <1>l, StartPages
    <3> QED
      BY <1>i, <1>k, <2>1, <2>2, <2>3, <2>5, <3>1
  <2> QED
    BY <2>4, <2>5 DEF RangeOK
<1>3. CASE Check(t) /\ ~ isExportRunning
  <2>1. Becomes(t, "check", InterfaceTask("claim", task[t].range)) /\ Quiet(t) /\ jobs' = jobs
    <3>1. Quiet(t) /\ jobs' = jobs
      BY <1>3 DEF Check
    <3> QED
      BY <1>3, <3>1, StartEffects
  <2>2. /\ task'[t].at = "claim" /\ task'[t].range = task[t].range /\ task[t].at = "check"
        /\ \A u \in JobThread : u # t => task'[u] = task[u]
    BY <2>1, Became, NewTasks
  <2>3. DOMAIN jobs' = {} /\ \A u \in JobThread : u # t => task'[u].at \in {"idle", "check"}
    BY <2>1, <2>2, QuietMeans
  <2>4. task[t].range \in Ranges
    BY <2>2, Moved
  <2>5. \A j : ~ Paged(j)'
    BY <2>2, <2>3 DEF Paged, Holds
  <2>6. \A r : r = task[t].range => InRange(r)'
    BY <2>2, <2>3, <2>5 DEF InRange, InRangeAt, Starts
  <2> QED
    BY <2>4, <2>6 DEF RangeOK
<1>d. CASE NothingRuns /\ ~ Start(t) /\ ~ Check(t)
  <2>1. task[t].at \in {"idle", "check"} /\ DOMAIN jobs = {}
    BY <1>d DEF NothingRuns
  <2>2. ~ RunJob(t)
    BY <2>1 DEF RunJob
  <2>3. Throw(t) \/ Crash(t)
    BY <1>d, <2>1, <2>2 DEF Acts, Claim, ResetCursor, ResetLimit, ResetStart, InitCursor, SetLimit, EnqueueFirst,
       SetTimestampBoundaries, Advance, EndExport, Fetch, PageFails, Export, ExportFails, Retry
  <2>4. \A u \in JobThread : task'[u].at \in {"idle", "check"}
    BY <1>d, <2>3, AbandonEffects, Became, NewTasks DEF NothingRuns
  <2> QED
    BY <2>1, <2>3, <2>4, AbandonEffects DEF RangeOK, NothingRuns
<1> SUFFICES ASSUME ~ Start(t), ~ Check(t), NEW r \in Ranges, InRange(r)
             PROVE  InRange(r)'
  BY <1>1, <1>3, <1>d DEF RangeOK
<1>e. r[1] \in Nat \ {0} /\ r[2] \in Nat \ {0}
  BY Phases
<1>f. ASSUME NEW before, NEW after, Becomes(t, before, after), before \in StartPlaces \ {"check"},
             cursor' = cursor \/ after.at \in StartPlaces, InRangeAt(t, r)',
             \/ Claim(t) \/ ResetCursor(t) \/ ResetLimit(t) \/ ResetStart(t) \/ InitCursor(t) \/ SetLimit(t)
      PROVE  InRange(r)'
  <2>0. Starts(t) /\ \A w \in JobThread : w # t => task'[w] = task[w]
    BY <1>f, Became DEF Starts
  <2>1. DOMAIN jobs = {} /\ \A w \in JobThread : w # t => task[w].at \in {"idle", "check"}
    BY <1>c, <2>0
  <2>2. DOMAIN jobs' = {}
    BY <2>1, <1>f DEF Claim, ResetCursor, ResetLimit, ResetStart, InitCursor, SetLimit
  <2>3. \A j : ~ Paged(j)
    BY <2>1, <1>f, <2>0 DEF Paged, Holds, Starts
  <2>4. \A j : ~ Paged(j)'
    BY <1>f, <2>3, StartPages
  <2>5. \A w \in JobThread : InRangeAt(w, r)'
    BY <2>0, <2>1, <1>f DEF InRangeAt, Starts
  <2> QED
    BY <2>2, <2>4, <2>5 DEF InRange
<1>g. ASSUME task[t].at \in StartPlaces \ {"check"}
      PROVE  InRangeAt(t, r) /\ task[t].range = r
  BY <1>g DEF InRange, InRangeAt, Starts
<1>m. ASSUME NEW before, NEW at, Becomes(t, before, InterfaceTask(at, task[t].range)), before \in StartPlaces \ {"check"}
      PROVE  task'[t].at = at /\ task'[t].range = r /\ InRangeAt(t, r) /\ task[t].at = before
             /\ task[t].range = r /\ InterfaceTask(at, task[t].range).at = at
  BY <1>g, <1>m, Became, NewTasks
<1>4. CASE Claim(t)
  <2>1. Becomes(t, "claim", InterfaceTask("reset", task[t].range))
    BY <1>4, StartEffects
  <2>2. InRangeAt(t, r)' /\ cursor' = cursor
    BY <1>4, <2>1, <1>m DEF InRangeAt, Claim
  <2> QED
    BY <1>4, <1>f, <2>1, <2>2
<1>5. CASE ResetCursor(t)
  <2>1. Becomes(t, "reset", InterfaceTask("resetLimit", task[t].range)) /\ cursor' = None
    BY <1>5, StartEffects DEF ResetCursor
  <2>2. InRangeAt(t, r)'
    BY <2>1, <1>m DEF InRangeAt, None
  <2> QED
    BY <1>5, <1>f, <1>m, <2>1, <2>2
<1>6. CASE ResetLimit(t)
  <2>1. Becomes(t, "resetLimit", InterfaceTask("resetStart", task[t].range)) /\ cursor' = cursor
    BY <1>6, StartEffects DEF ResetLimit
  <2>2. InRangeAt(t, r)'
    BY <2>1, <1>m DEF InRangeAt, None
  <2> QED
    BY <1>6, <1>f, <2>1, <2>2
<1>7. CASE ResetStart(t)
  <2>1. Becomes(t, "resetStart", InterfaceTask("init", task[t].range)) /\ cursor' = cursor
    BY <1>7, StartEffects DEF ResetStart, storage
  <2>2. InRangeAt(t, r)'
    BY <2>1, <1>m DEF InRangeAt, None
  <2> QED
    BY <1>7, <1>f, <2>1, <2>2
<1>8. CASE InitCursor(t)
  <2>1. Becomes(t, "init", InterfaceTask("limit", task[t].range))
        /\ cursor' = SetOnce(cursor, task[t].range[1] - Interval)
    BY <1>8, StartEffects DEF InitCursor
  <2>2. cursor = None
    BY <2>1, <1>m DEF InRangeAt
  <2>3. cursor' = r[1] - Interval
    BY <2>1, <2>2, <1>m DEF SetOnce
  <2>4. InRangeAt(t, r)'
    BY <2>1, <2>3, <1>m DEF InRangeAt
  <2> QED
    BY <1>8, <1>f, <1>m, <2>1, <2>4
<1>9. CASE SetLimit(t)
  <2>1. Becomes(t, "limit", InterfaceTask("first", task[t].range)) /\ cursor' = cursor
        /\ storedMax' = task[t].range[2]
    BY <1>9, StartEffects DEF SetLimit
  <2>2. InRangeAt(t, r)'
    BY <2>1, <1>m DEF InRangeAt
  <2> QED
    BY <1>9, <1>f, <2>1, <2>2
<1>10. CASE EnqueueFirst(t)
  <2>1. Becomes(t, "first", NoTask)
    BY <1>10, StartEffects
  <2>2. task'[t].at = "idle" /\ task[t].at = "first"
    BY <2>1, Became, NewTasks
  <2>3. cursor' = cursor /\ storedMax' = storedMax /\ maxTimestamp' = maxTimestamp
    BY <1>10 DEF EnqueueFirst, storage
  <2>4. storedMax = r[2] /\ cursor = r[1] - Interval
    BY <2>2, <1>g DEF InRangeAt
  <2>5. CursorIn(r)
    BY <2>4, <1>b, <1>e, Phases DEF CursorIn
  <2>6. \A j : Paged(j)' => Within(j, r)
    BY <1>10, <1>l, StartPages
  <2> QED
    BY <1>i, <1>k, <2>1, <2>2, <2>3, <2>4, <2>5, <2>6
<1>h. \A u \in JobThread : InRangeAt(u, r)
  BY DEF InRange
<1>n. ASSUME NEW before, NEW after, Becomes(t, before, after), before \in StepPlaces
      PROVE  storedMax = r[2] /\ CursorIn(r) /\ InRangeAt(t, r) /\ task[t].at = before
  BY <1>h, <1>n DEF InRangeAt, Becomes
<1>11. CASE RunJob(t)
  <2> PICK k \in DOMAIN jobs :
         /\ task[t].at = "idle"
         /\ IF Given(k) THEN task' = task
            ELSE Becomes(t, "idle", StepTask("bounds", k, {}))
    BY <1>11, StepEffects
  <2>1. \A u \in JobThread : u # t => task'[u] = task[u]
    BY Became
  <2>2. cursor' = cursor /\ storedMax' = storedMax /\ maxTimestamp' = maxTimestamp
    BY <1>11 DEF RunJob, storage
  <2>3. storedMax = r[2] /\ CursorIn(r)
    BY DEF InRange
  <2>4. task'[t].at \in {"idle", "bounds"}
    BY Became, NewTasks
  <2>5. \A u \in JobThread : InRangeAt(u, r)'
    BY <2>1, <2>2, <2>3, <2>4, <1>h DEF InRangeAt, CursorIn, Starts, Within
  <2>6. \A j : Paged(j)' => Within(j, r)'
    BY <1>11, <1>l, <2>2, RunJobPages DEF Within
  <2> QED
    BY <2>2, <2>3, <2>5, <2>6 DEF InRange, CursorIn
<1>12. CASE SetTimestampBoundaries(t)
  <2>1. Becomes(t, "bounds", StepTask("advance", task[t].job, task[t].events))
    BY <1>12, StepEffects
  <2>2. task[t].at = "bounds" /\ task'[t].at = "advance"
    BY <2>1, Became, NewTasks
  <2>3. cursor' = cursor /\ storedMax' = storedMax /\ jobs' = jobs
    BY <1>12 DEF SetTimestampBoundaries, storage
  <2>4. storedMax = r[2] /\ CursorIn(r)
    BY <2>1, <1>n
  <2>5. maxTimestamp' = [maxTimestamp EXCEPT ![t] = IF @ = 0 THEN storedMax ELSE @]
        /\ maxTimestamp[t] \in {0, storedMax}
    BY <1>12 DEF SetTimestampBoundaries
  <2>6. maxTimestamp'[t] = storedMax /\ \A u \in JobThread : u # t => maxTimestamp'[u] = maxTimestamp[u]
    BY <2>5 DEF HistoryTyping
  <2>7. InRangeAt(t, r)'
    BY <2>2, <2>3, <2>4, <2>6 DEF InRangeAt, CursorIn, Starts
  <2>8. \A j : Paged(j)' => Within(j, r)
    BY <1>12, <1>l, QuietPages
  <2> QED
    BY <1>k, <2>1, <2>3, <2>6, <2>7, <2>8
<1>13. CASE Advance(t)
  <2> DEFINE job == task[t].job
             past == Placed(job).timestampCursor > maxTimestamp[t]
  <2>1. IF past THEN Becomes(t, "advance", StepTask("past", Placed(job), {}))
                ELSE Becomes(t, "advance", StepTask("fetch", Placed(job), {}))
    BY <1>13, StepEffects
  <2>2. /\ task[t].at = "advance" /\ task'[t].at = IF past THEN "past" ELSE "fetch"
        /\ \A u \in JobThread : u # t => task'[u] = task[u]
    BY <2>1, Became, NewTasks
  <2>3. storedMax' = storedMax /\ jobs' = jobs /\ maxTimestamp' = maxTimestamp
    BY <1>13 DEF Advance
  <2>4. storedMax = r[2] /\ CursorIn(r) /\ maxTimestamp[t] = r[2] /\ cursor # None
    BY <2>2, <1>h, <1>b, <1>e DEF InRangeAt, CursorIn, None
  <2>5. /\ cursor' = IF NextInterval(job) THEN cursor + Interval ELSE cursor
        /\ NextInterval(job) => Placed(job).timestampCursor = cursor + Interval
    <3>1. Incremented(cursor, Interval) = cursor + Interval
      BY <2>4 DEF Incremented
    <3>2. job \in JobRecs
      BY <2>2, Moved
    <3>3. NextInterval(job) => Placed(job).timestampCursor = cursor + Interval
      BY <3>1, <3>2 DEF Placed, JobRecs
    <3> QED
      BY <1>13, <3>1, <3>3 DEF Advance
  <2>6. cursor' \in Int /\ cursor <= cursor' /\ CursorIn(r)'
    <3>1. InPhase(cursor, r) /\ InPhase(cursor + Interval, r)
      BY <2>4, <1>b, Phases DEF CursorIn
    <3>2. InPhase(cursor', r)
      BY <2>5, <3>1
    <3> QED
      BY <2>4, <2>5, <3>2, <1>b, <1>e DEF CursorIn
  <2>7. \A j : Within(j, r) /\ j.timestampCursor \in Int => Within(j, r)'
    BY <2>6, <1>b DEF Within
  <2>8. past => cursor' > r[2]
    <3> SUFFICES ASSUME past
                 PROVE  cursor' > r[2]
      OBVIOUS
    <3>1. NextInterval(job)
      <4> SUFFICES ASSUME HasPage(job)
                   PROVE  FALSE
        BY DEF HasPage
      <4>1. Paged(job) /\ Placed(job) = job
        BY <1>13, AdvancePages
      <4>2. job.timestampCursor \in Int /\ job.timestampCursor <= r[2]
        BY <4>1, <1>l, PagedTypes DEF Within
      <4> QED
        BY <4>1, <4>2, <2>4, <1>e
    <3> QED
      BY <3>1, <2>4, <2>5
  <2>9. ASSUME NEW u \in JobThread
        PROVE  InRangeAt(u, r)'
    <3>1. CASE u = t
      BY <3>1, <2>2, <2>3, <2>4, <2>6, <2>8 DEF InRangeAt, Starts
    <3>2. CASE u # t
      <4>1. task'[u] = task[u] /\ InRangeAt(u, r)
        BY <2>2, <1>h, <3>2
      <4>2. ~ Starts(u)
        BY <1>c, <2>2, <3>2
      <4>3. task[u].at = "export" => Within(task[u].job, r)'
        BY <4>1, <2>7, Moved DEF InRangeAt, JobRecs, Within
      <4>4. task[u].at = "past" => cursor' > r[2]
        BY <4>1, <2>6, <1>b, <1>e DEF InRangeAt
      <4> QED
        BY <4>1, <4>2, <4>3, <4>4, <2>3, <2>4, <2>6 DEF InRangeAt, Starts
    <3> QED
      BY <3>1, <3>2
  <2>10. ASSUME NEW j, Paged(j)'
        PROVE  Within(j, r)'
    <3>1. CASE Paged(j)
      BY <3>1, <1>l, <2>7, PagedTypes
    <3>2. CASE ~ Paged(j)
      <4>1. j = Placed(job) /\ ~ past /\ NextInterval(job)
        BY <1>13, <2>10, <3>2, AdvancePages DEF HasPage
      <4>2. j.timestampCursor = cursor + Interval /\ cursor' = cursor + Interval
        BY <4>1, <2>5
      <4>3. InPhase(j.timestampCursor, r)
        BY <4>2, <2>4, <1>b, Phases DEF CursorIn
      <4>4. j.timestampCursor <= r[2] /\ r[1] <= j.timestampCursor
        BY <4>1, <4>2, <2>4, <1>b, <1>e DEF CursorIn
      <4> QED
        BY <4>2, <4>3, <4>4, <1>b DEF Within
    <3> QED
      BY <3>1, <3>2
  <2> QED
    BY <2>3, <2>4, <2>6, <2>9, <2>10 DEF InRange
<1>14. CASE Fetch(t)
  <2> DEFINE job == task[t].job
  <2>1. PICK events \in Pages(job.timestampCursor, job.intraIntervalOffset) :
          /\ Becomes(t, "fetch", StepTask("export", job, events))
          /\ jobs' = Added(jobs, NextJob(job, events))
    BY <1>14, StepEffects
  <2>2. task[t].at = "fetch" /\ task'[t].at = "export" /\ task'[t].job = job /\ task'[t].events = events
    BY <2>1, Became, NewTasks
  <2>3. storedMax' = storedMax /\ cursor' = cursor /\ maxTimestamp' = maxTimestamp
    BY <1>14 DEF Fetch, storage
  <2>4. storedMax = r[2] /\ CursorIn(r)
    BY <2>1, <1>n
  <2>5. Paged(job) /\ \A j : Paged(j)' => Paged(j) \/ j = NextJob(job, events)
    BY <2>1, FetchPages DEF Paged
  <2>6. InRangeAt(t, r)'
    BY <2>1, <2>2, <2>3, <2>4, <2>5, <1>l DEF InRangeAt, CursorIn, Within, Starts
  <2>7. NextJob(job, events).timestampCursor = job.timestampCursor
    BY DEF NextJob, StepJob
  <2>8. \A j : Paged(j)' => Within(j, r)
    BY <1>l, <2>5, <2>7 DEF Within
  <2> QED
    BY <1>k, <2>1, <2>3, <2>4, <2>6, <2>8
<1>15. CASE PageFails(t)
  <2>1. Becomes(t, "fetch", StepTask("retry", task[t].job, {}))
    BY <1>15, StepEffects
  <2>2. task'[t].at = "retry"
    BY <2>1, Became, NewTasks
  <2>3. storedMax' = storedMax /\ cursor' = cursor /\ maxTimestamp' = maxTimestamp
    BY <1>15 DEF PageFails, storage
  <2>4. storedMax = r[2] /\ CursorIn(r)
    BY <2>1, <1>n
  <2>5. InRangeAt(t, r)'
    BY <2>2, <2>3, <2>4 DEF InRangeAt, CursorIn, Starts
  <2>6. \A j : Paged(j)' => Within(j, r)
    BY <1>15, <1>l, QuietPages
  <2> QED
    BY <1>k, <2>1, <2>3, <2>4, <2>5, <2>6
<1>16. CASE ExportFails(t)
  <2>1. PICK after : Becomes(t, "export", after) /\ after.at \in {"idle", "retry"}
    BY <1>16, StepEffects, NewTasks
  <2>2. task'[t].at \in {"idle", "retry"}
    BY <2>1, Became
  <2>3. storedMax' = storedMax /\ cursor' = cursor /\ maxTimestamp' = maxTimestamp /\ jobs' = jobs
    BY <1>16 DEF ExportFails, storage
  <2>4. storedMax = r[2] /\ CursorIn(r) /\ Within(task[t].job, r)
    BY <2>1, <1>n DEF InRangeAt
  <2>5. InRangeAt(t, r)'
    BY <2>2, <2>3, <2>4 DEF InRangeAt, CursorIn, Starts
  <2>6. \A j : Paged(j)' => Paged(j) \/ j = task[t].job
    BY <1>16, ExportFailsPages
  <2>7. \A j : Paged(j)' => Within(j, r)
    BY <1>l, <2>4, <2>6
  <2> QED
    BY <1>k, <2>1, <2>3, <2>5, <2>7
<1>17. CASE EndExport(t) \/ Export(t) \/ Retry(t)
  <2>1. PICK before \in {"past", "export", "retry"} : Becomes(t, before, NoTask)
    BY <1>17, StepEffects
  <2>2. task'[t].at = "idle"
    BY <2>1, Became, NewTasks
  <2>3. storedMax' = storedMax /\ cursor' = cursor /\ maxTimestamp' = maxTimestamp
    BY <1>17 DEF EndExport, Export, Retry, storage
  <2>4. storedMax = r[2] /\ CursorIn(r)
    BY <2>1, <1>n
  <2>5. \A j : Paged(j)' => Within(j, r)
    <3>1. CASE EndExport(t) \/ Export(t)
      BY <1>l, <3>1, QuietPages
    <3>2. CASE Retry(t)
      <4>1. RetryJob(task[t].job).timestampCursor = task[t].job.timestampCursor
        BY DEF RetryJob, StepJob
      <4>2. Within(task[t].job, r) /\ \A j : Paged(j)' => Paged(j) \/ j = RetryJob(task[t].job)
        BY <3>2, <1>l, RetryPages
      <4> QED
        BY <1>l, <4>1, <4>2 DEF Within
    <3> QED
      BY <1>17, <3>1, <3>2
  <2> QED
    BY <1>i, <1>k, <2>1, <2>2, <2>3, <2>4, <2>5
<1>18. CASE Throw(t) \/ Crash(t)
  <2>1. Becomes(t, task[t].at, NoTask) /\ jobs' = jobs /\ cursor' = cursor /\ storedMax' = storedMax
    BY <1>18, AbandonEffects
  <2>2. task'[t].at = "idle"
    BY <2>1, Became, NewTasks
  <2>3. \A u \in JobThread : u # t => maxTimestamp'[u] = maxTimestamp[u]
    BY <1>18, AbandonEffects DEF HistoryTyping
  <2>4. \A j : Paged(j)' => Within(j, r)
    BY <1>18, <1>l, AbandonPages
  <2> QED
    BY <1>i, <1>k, <2>1, <2>2, <2>3, <2>4
<1> QED
  BY <1>4, <1>5, <1>6, <1>7, <1>8, <1>9, <1>10, <1>11, <1>12, <1>13, <1>14, <1>15, <1>16, <1>17, <1>18 DEF Acts

(* So what it exports is in the range.                                       *)
LEMMA ExportedInRangeStep ==
  ASSUME HistoryTyping, RangeOK, ExportedInRange, [Next]_vars
  PROVE  ExportedInRange'
<1> SUFFICES ASSUME ~ races, ~ outdated, NEW e \in Events, exported'[e] > 0
             PROVE  \E range \in Ranges : Floor(range[1]) <= timestamp[e] /\ timestamp[e] < range[2] + Interval
  BY OnlyGrow DEF ExportedInRange
<1>1. CASE exported' = exported
  BY <1>1 DEF ExportedInRange
<1>2. ASSUME NEW t \in JobThread, Export(t)
      PROVE  \E range \in Ranges : Floor(range[1]) <= timestamp[e] /\ timestamp[e] < range[2] + Interval
  <2>1. CASE e \notin task[t].events
    <3>1. exported'[e] = exported[e]
      BY <1>2, <2>1 DEF Export
    <3> QED
      BY <3>1 DEF ExportedInRange
  <2>2. CASE e \in task[t].events
    <3> DEFINE c == task[t].job.timestampCursor
    <3>1. task[t].at = "export"
      BY <1>2 DEF Export
    <3>2. PICK r \in Ranges : InRange(r)
      BY <3>1 DEF RangeOK, NothingRuns
    <3>3. Within(task[t].job, r) /\ e \in InInterval(c)
      BY <2>2, <3>1, <3>2 DEF InRange, InRangeAt, Pages
    <3>4. c \in Int
      BY <3>1, Moved DEF StepPlaces, JobRecs
    <3>5. r[1] \in Nat /\ r[2] \in Nat /\ Interval \in Nat /\ timestamp[e] \in Nat
      BY ExportAssumption
    <3> HIDE DEF c
    <3>6. r[1] <= c /\ c <= r[2] /\ c - Floor(c) = r[1] - Floor(r[1])
      BY <3>3 DEF Within, InPhase, c
    <3>7. Floor(c) \in Int /\ Floor(c) <= c /\ Floor(c + Interval) = Floor(c) + Interval /\ Floor(r[1]) \in Int
      BY <3>4, <3>5, FloorMoves
    <3>8. Floor(c) <= timestamp[e] /\ timestamp[e] < Floor(c) + Interval
      BY <3>3, <3>7 DEF InInterval
    <3>9. Floor(r[1]) <= timestamp[e] /\ timestamp[e] < r[2] + Interval
      BY <3>4, <3>5, <3>6, <3>7, <3>8
    <3> QED
      BY <3>9
  <2> QED
    BY <2>1, <2>2
<1>3. CASE \A t \in JobThread : ~ Export(t)
  <2>1. CASE UNCHANGED vars \/ LoseJob
    BY <1>1, <2>1 DEF vars, LoseJob
  <2>2. ASSUME NEW t \in JobThread, Acts(t)
        PROVE  exported' = exported
    BY <1>3, <2>2 DEF Acts, Start, Check, Claim, ResetCursor, ResetLimit, ResetStart, InitCursor, SetLimit,
                    EnqueueFirst, RunJob, SetTimestampBoundaries, Advance, EndExport, Fetch, PageFails,
                    ExportFails, Retry, Throw, Crash
  <2> QED
    BY <1>1, <2>1, <2>2 DEF Next, Acts
<1> QED
  BY <1>2, <1>3

(* While only one export was started nothing is left of another one.         *)
FirstOK == starts <= 1 =>
  /\ ~ races /\ ~ outdated
  /\ starts = 0 => jobs = EmptyBag /\ \A t \in JobThread : task[t].at = "idle"
  /\ \A t \in JobThread : task[t].at \in StartPlaces =>
       jobs = EmptyBag /\ \A u \in JobThread : u # t => task[u].at = "idle"
  /\ \A t \in JobThread : maxTimestamp[t] \in {0, storedMax}
  /\ \A t \in JobThread : task[t].at \in {"check", "claim", "reset", "resetLimit", "resetStart", "init", "limit"} => storedMax = 0
  /\ starts = 0 => storedMax = 0
  /\ starts = 0 \/ (\E t \in JobThread : task[t].at \in StartPlaces) =>
       again = {} /\ givenUp = {} /\ \A e \in Events : exported[e] = 0
  /\ \A t \in JobThread : task[t].at \in {"reset", "resetLimit", "resetStart", "init", "limit", "first"} => isExportRunning
  /\ starts = 0 \/ (\E t \in JobThread : task[t].at = "check") => ~ isExportRunning

(* The first export is the only one until another one is started.            *)
LEMMA FirstStep ==
  ASSUME HistoryTyping, FirstOK, [Next]_vars
  PROVE  FirstOK'
<1> USE DEF StartPlaces
<1>0. CASE UNCHANGED vars
  BY <1>0 DEF FirstOK, vars, storage, history
<1>e. DOMAIN EmptyBag = {}
  BY DEF EmptyBag, SetToBag
<1>00. CASE LoseJob
  <2>1. jobs # EmptyBag
    BY <1>00, <1>e DEF LoseJob
  <2>2. /\ storedMax' = storedMax /\ maxTimestamp' = maxTimestamp /\ task' = task /\ starts' = starts
        /\ races' = races /\ outdated' = outdated
    BY <1>00 DEF LoseJob, storage
  <2>3. starts <= 1 => starts # 0 /\ \A u \in JobThread : task[u].at \notin StartPlaces
    BY <2>1 DEF FirstOK
  <2> QED
    BY <2>2, <2>3 DEF FirstOK
<1> SUFFICES ASSUME NEW t \in JobThread, Acts(t)
             PROVE  FirstOK'
  BY <1>0, <1>00 DEF Next, Acts
<1> SUFFICES ASSUME starts' <= 1
             PROVE  FirstOK'
  BY DEF FirstOK
<1>a. starts \in Nat /\ starts <= 1 /\ starts' \in Nat
  BY OnlyGrow DEF HistoryTyping
<1>1. CASE Start(t)
  <2>1. PICK r \in Ranges : Becomes(t, "idle", InterfaceTask("check", r))
    BY <1>1, StartEffects
  <2>2. task'[t].at = "check" /\ \A u \in JobThread : u # t => task'[u] = task[u]
    BY <2>1, Became, NewTasks
  <2>3. starts = 0 /\ starts' = 1
    BY <1>1, <1>a DEF Start
  <2>4. /\ jobs' = jobs /\ storedMax' = storedMax /\ maxTimestamp' = maxTimestamp /\ exported' = exported
        /\ again' = again /\ givenUp' = givenUp /\ races' = races /\ outdated' = outdated
        /\ isExportRunning' = isExportRunning
    BY <1>1 DEF Start, storage, history
  <2> QED
    BY <2>2, <2>3, <2>4 DEF FirstOK
<1>2. CASE task[t].at \in StartPlaces
  <2>1. /\ jobs = EmptyBag /\ \A u \in JobThread : u # t => task[u].at = "idle"
        /\ again = {} /\ givenUp = {} /\ \A e \in Events : exported[e] = 0
        /\ ~ races /\ ~ outdated /\ starts = 1 /\ \A u \in JobThread : maxTimestamp[u] \in {0, storedMax}
    BY <1>2, <1>a DEF FirstOK
  <2>2. \/ Check(t) \/ Claim(t) \/ ResetCursor(t) \/ ResetLimit(t) \/ ResetStart(t)
        \/ InitCursor(t) \/ SetLimit(t) \/ EnqueueFirst(t) \/ Throw(t) \/ Crash(t)
    BY <1>2 DEF Acts, Start, RunJob, NoTask, SetTimestampBoundaries, Advance, EndExport, Fetch, PageFails,
                Export, ExportFails, Retry
  <2>3. /\ exported' = exported /\ again' = again /\ outdated' = outdated /\ starts' = starts
    <3>1. CASE Throw(t) \/ Crash(t)
      BY <3>1, AbandonEffects
    <3>2. CASE ~ (Throw(t) \/ Crash(t))
      BY <2>2, <3>2 DEF Check, Claim, ResetCursor, ResetLimit, ResetStart, InitCursor, SetLimit, EnqueueFirst, history
    <3> QED
      BY <3>1, <3>2
  <2>31. givenUp' = givenUp
    <3>1. CASE Throw(t) \/ Crash(t)
      BY <3>1, <1>2, AbandonEffects
    <3>2. CASE ~ (Throw(t) \/ Crash(t))
      BY <2>2, <3>2 DEF Check, Claim, ResetCursor, ResetLimit, ResetStart, InitCursor, SetLimit, EnqueueFirst, history
    <3> QED
      BY <3>1, <3>2
  <2>4. ~ races'
    <3>1. Quiet(t)
      BY <2>1 DEF Quiet
    <3>2. CASE Check(t)
      BY <2>1, <3>1, <3>2 DEF Check
    <3>3. CASE Throw(t) \/ Crash(t)
      BY <2>1, <3>3, AbandonEffects
    <3>4. CASE ~ Check(t) /\ ~ Throw(t) /\ ~ Crash(t)
      BY <2>1, <2>2, <3>4 DEF Claim, ResetCursor, ResetLimit, ResetStart, InitCursor, SetLimit, EnqueueFirst, history
    <3> QED
      BY <3>2, <3>3, <3>4
  <2>5. ASSUME \A u \in JobThread : u # t => task'[u] = task[u],
               task'[t].at \in StartPlaces => jobs' = EmptyBag,
               \A u \in JobThread : maxTimestamp'[u] \in {0, storedMax'},
               task'[t].at \in {"check", "claim", "reset", "resetLimit", "resetStart", "init", "limit"} => storedMax' = 0,
               task'[t].at \in {"reset", "resetLimit", "resetStart", "init", "limit", "first"} => isExportRunning',
               task'[t].at # "check"
        PROVE  FirstOK'
    BY <2>1, <2>3, <2>31, <2>4, <2>5 DEF FirstOK
  <2>e. ASSUME NEW before, NEW at \in StartPlaces \ {"check"}, Becomes(t, before, InterfaceTask(at, task[t].range))
        PROVE  task'[t].at = at /\ task[t].at = before /\ \A u \in JobThread : u # t => task'[u] = task[u]
    BY <2>e, Became, NewTasks
  <2>f. /\ task[t].at \in {"check", "claim", "reset", "resetLimit", "resetStart", "init", "limit"} => storedMax = 0
        /\ task[t].at \in {"reset", "resetLimit", "resetStart", "init", "limit", "first"} => isExportRunning
    BY <1>a DEF FirstOK
  <2>6. CASE Check(t)
    <3>1. Becomes(t, "check", NoTask) \/ Becomes(t, "check", InterfaceTask("claim", task[t].range))
      BY <2>6, StartEffects
    <3>2. /\ task'[t].at \in {"idle", "claim"} /\ task[t].at = "check"
          /\ \A u \in JobThread : u # t => task'[u] = task[u]
      BY <3>1, Became, NewTasks
    <3>3. jobs' = jobs /\ storedMax' = storedMax /\ maxTimestamp' = maxTimestamp
      BY <2>6 DEF Check, storage
    <3> QED
      BY <2>1, <2>5, <2>f, <3>2, <3>3
  <2>7. CASE Claim(t)
    <3>1. Becomes(t, "claim", InterfaceTask("reset", task[t].range))
      BY <2>7, StartEffects
    <3>3. jobs' = jobs /\ storedMax' = storedMax /\ maxTimestamp' = maxTimestamp /\ isExportRunning'
      BY <2>7 DEF Claim
    <3> QED
      BY <2>1, <2>5, <2>e, <2>f, <3>1, <3>3
  <2>8. CASE ResetCursor(t)
    <3>1. Becomes(t, "reset", InterfaceTask("resetLimit", task[t].range))
      BY <2>8, StartEffects
    <3>3. jobs' = jobs /\ storedMax' = storedMax /\ maxTimestamp' = maxTimestamp /\ isExportRunning' = isExportRunning
      BY <2>8 DEF ResetCursor
    <3> QED
      BY <2>1, <2>5, <2>e, <2>f, <3>1, <3>3
  <2>81. CASE ResetLimit(t)
    <3>1. Becomes(t, "resetLimit", InterfaceTask("resetStart", task[t].range))
      BY <2>81, StartEffects
    <3>3. jobs' = jobs /\ storedMax' = 0 /\ maxTimestamp' = maxTimestamp /\ isExportRunning' = isExportRunning
      BY <2>81 DEF ResetLimit
    <3> QED
      BY <2>1, <2>5, <2>e, <2>f, <3>1, <3>3
  <2>82. CASE ResetStart(t)
    <3>1. Becomes(t, "resetStart", InterfaceTask("init", task[t].range))
      BY <2>82, StartEffects
    <3>3. /\ jobs' = jobs /\ storedMax' = storedMax /\ maxTimestamp' = [maxTimestamp EXCEPT ![t] = 0]
          /\ isExportRunning' = isExportRunning
      BY <2>82 DEF ResetStart, storage
    <3>5. \A u \in JobThread : maxTimestamp'[u] \in {0, storedMax'}
      BY <3>3, <2>1 DEF HistoryTyping
    <3> QED
      BY <2>1, <2>5, <2>e, <2>f, <3>1, <3>3, <3>5
  <2>9. CASE InitCursor(t)
    <3>1. Becomes(t, "init", InterfaceTask("limit", task[t].range))
      BY <2>9, StartEffects
    <3>3. /\ jobs' = jobs /\ storedMax' = storedMax /\ maxTimestamp' = maxTimestamp
          /\ isExportRunning' = isExportRunning
      BY <2>9 DEF InitCursor
    <3> QED
      BY <2>1, <2>5, <2>e, <2>f, <3>1, <3>3
  <2>10. CASE SetLimit(t)
    <3>1. Becomes(t, "limit", InterfaceTask("first", task[t].range))
      BY <2>10, StartEffects
    <3>3. jobs' = jobs /\ maxTimestamp' = maxTimestamp /\ isExportRunning' = isExportRunning
      BY <2>10 DEF SetLimit
    <3>4. task'[t].at = "first" /\ task[t].at = "limit" /\ \A u \in JobThread : u # t => task'[u] = task[u]
      BY <2>e, <3>1
    <3>5. isExportRunning /\ \A u \in JobThread : maxTimestamp[u] = 0
      BY <2>1, <2>f, <3>4
    <3> QED
      BY <2>1, <2>5, <3>3, <3>4, <3>5
  <2>11. CASE EnqueueFirst(t)
    <3>1. Becomes(t, "first", NoTask)
      BY <2>11, StartEffects
    <3>2. task'[t].at = "idle" /\ \A u \in JobThread : u # t => task'[u] = task[u]
      BY <3>1, Became, NewTasks
    <3>3. storedMax' = storedMax /\ maxTimestamp' = maxTimestamp
      BY <2>11 DEF EnqueueFirst, storage
    <3> QED
      BY <2>1, <2>5, <3>2, <3>3
  <2>12. CASE Throw(t) \/ Crash(t)
    <3>2. task'[t].at = "idle" /\ \A u \in JobThread : u # t => task'[u] = task[u]
      BY <2>12, AbandonEffects, Became, NewTasks
    <3>3. storedMax' = storedMax /\ \A u \in JobThread : maxTimestamp'[u] \in {0, storedMax}
      BY <2>1, <2>12, AbandonEffects DEF HistoryTyping
    <3> QED
      BY <2>5, <3>2, <3>3
  <2> QED
    BY <2>2, <2>6, <2>7, <2>8, <2>81, <2>82, <2>9, <2>10, <2>11, <2>12
<1>3. CASE ~ Start(t) /\ task[t].at \notin StartPlaces
  <2>1. RunJob(t) \/ task[t].at \in StepPlaces \/ (task[t].at = "idle" /\ (Throw(t) \/ Crash(t)))
    <3>1. task[t].at \in StepPlaces \/ task[t].at = "idle"
      BY <1>3 DEF HistoryTyping, Tasks, PageTasks, NoTask
    <3> QED
      BY <1>3, <3>1 DEF Acts, Check, Claim, ResetCursor, ResetLimit, ResetStart, InitCursor, SetLimit, EnqueueFirst,
                SetTimestampBoundaries, Advance, EndExport, Fetch, PageFails, Export, ExportFails, Retry, StepPlaces
  <2>2. RunJob(t) => jobs # EmptyBag
    BY <1>e DEF RunJob
  <2>c. CASE Throw(t) \/ Crash(t)
    <3>1. task'[t].at = "idle" /\ \A u \in JobThread : u # t => task'[u] = task[u]
      BY <2>c, AbandonEffects, Became, NewTasks
    <3>2. /\ storedMax' = storedMax /\ jobs' = jobs /\ starts' = starts /\ races' = races /\ outdated' = outdated
          /\ again' = again /\ exported' = exported /\ isExportRunning' = isExportRunning
      BY <2>c, AbandonEffects
    <3>3. \A u \in JobThread : maxTimestamp'[u] \in {0, storedMax'}
      <4>1. \A u \in JobThread : maxTimestamp[u] \in {0, storedMax}
        BY <1>a DEF FirstOK
      <4> QED
        BY <2>c, <3>2, <4>1, AbandonEffects DEF HistoryTyping
    <3>4. starts = 0 \/ (\E u \in JobThread : task[u].at \in StartPlaces) => givenUp' = givenUp
      <4>1. starts = 0 \/ (\E u \in JobThread : task[u].at \in StartPlaces) => task[t].at = "idle"
        BY <1>3, <1>a DEF FirstOK
      <4> QED
        BY <2>c, <4>1, AbandonEffects
    <3>5. /\ starts' = 0 => jobs' = EmptyBag /\ \A u \in JobThread : task'[u].at = "idle"
          /\ \A u \in JobThread : task'[u].at \in StartPlaces =>
                jobs' = EmptyBag /\ \A w \in JobThread : w # u => task'[w].at = "idle"
      BY <3>1, <3>2, <1>a DEF FirstOK
    <3>6. \A u \in JobThread :
            /\ task'[u].at \in {"check", "claim", "reset", "resetLimit", "resetStart", "init", "limit"} => storedMax' = 0
            /\ task'[u].at \in {"reset", "resetLimit", "resetStart", "init", "limit", "first"} => isExportRunning'
      BY <3>1, <3>2, <1>a DEF FirstOK
    <3>7. /\ starts' = 0 => storedMax' = 0
          /\ starts' = 0 \/ (\E u \in JobThread : task'[u].at \in StartPlaces) =>
                again' = {} /\ givenUp' = {} /\ \A e \in Events : exported'[e] = 0
          /\ starts' = 0 \/ (\E u \in JobThread : task'[u].at = "check") => ~ isExportRunning'
      BY <3>1, <3>2, <3>4, <1>a DEF FirstOK
    <3>8. ~ races' /\ ~ outdated'
      BY <3>2, <1>a DEF FirstOK
    <3> QED
      BY <3>3, <3>5, <3>6, <3>7, <3>8 DEF FirstOK
  <2> SUFFICES ASSUME ~ Throw(t), ~ Crash(t)
               PROVE  FirstOK'
    BY <2>c
  <2>3. starts = 1 /\ \A u \in JobThread : task[u].at \notin StartPlaces
    BY <2>1, <2>2, <1>3, <1>a DEF FirstOK, StepPlaces
  <2>4. \/ RunJob(t) \/ SetTimestampBoundaries(t) \/ Advance(t) \/ EndExport(t) \/ Fetch(t) \/ PageFails(t)
        \/ Export(t) \/ ExportFails(t) \/ Retry(t)
    BY <1>3 DEF Acts, Check, Claim, ResetCursor, ResetLimit, ResetStart, InitCursor, SetLimit, EnqueueFirst
  <2>5. starts' = starts /\ storedMax' = storedMax /\ races' = races
    BY <2>4 DEF RunJob, SetTimestampBoundaries, Advance, EndExport, Fetch, PageFails, Export, ExportFails, Retry,
                storage, history
  <2>6. task'[t].at \notin StartPlaces /\ \A u \in JobThread : u # t => task'[u] = task[u]
    <3>1. PICK before, after : (Becomes(t, before, after) /\ after.at \notin StartPlaces) \/ task' = task
      <4>1. CASE RunJob(t)
        <5>1. PICK k \in DOMAIN jobs : task' = task \/ Becomes(t, "idle", StepTask("bounds", k, {}))
          BY <4>1, StepEffects
        <5> QED
          BY <5>1, NewTasks
      <4>2. CASE SetTimestampBoundaries(t)
        <5>1. Becomes(t, "bounds", StepTask("advance", task[t].job, task[t].events))
          BY <4>2, StepEffects
        <5> QED
          BY <5>1, NewTasks
      <4>3. CASE Advance(t)
        <5>1. PICK at \in {"past", "fetch"} : Becomes(t, "advance", StepTask(at, Placed(task[t].job), {}))
          BY <4>3, StepEffects
        <5> QED
          BY <5>1, NewTasks
      <4>4. CASE Fetch(t) \/ PageFails(t)
        <5>1. PICK at, events : at \in {"export", "retry"} /\ Becomes(t, "fetch", StepTask(at, task[t].job, events))
          BY <4>4, StepEffects
        <5> QED
          BY <5>1, NewTasks
      <4>5. CASE ExportFails(t)
        <5>1. PICK after : Becomes(t, "export", after) /\ after.at \in {"idle", "retry"}
          BY <4>5, StepEffects, NewTasks
        <5> QED
          BY <5>1
      <4>6. CASE EndExport(t) \/ Export(t) \/ Retry(t)
        <5>1. PICK before : Becomes(t, before, NoTask)
          BY <4>6, StepEffects
        <5> QED
          BY <5>1, NewTasks
      <4> QED
        BY <2>4, <4>1, <4>2, <4>3, <4>4, <4>5, <4>6
    <3> QED
      BY <3>1, <1>3, Became
  <2>7. ~ outdated' /\ \A u \in JobThread : maxTimestamp'[u] \in {0, storedMax}
    <3>1. ~ outdated /\ \A u \in JobThread : maxTimestamp[u] \in {0, storedMax}
      BY <1>a DEF FirstOK
    <3>2. CASE SetTimestampBoundaries(t)
      <4>1. /\ maxTimestamp' = [maxTimestamp EXCEPT ![t] = IF @ = 0 THEN storedMax ELSE @]
            /\ outdated' = (outdated \/ maxTimestamp[t] \notin {0, storedMax})
        BY <3>2 DEF SetTimestampBoundaries
      <4>2. ~ outdated'
        BY <3>1, <4>1
      <4>3. \A u \in JobThread : maxTimestamp'[u] \in {0, storedMax}
        BY <3>1, <4>1 DEF HistoryTyping
      <4> QED
        BY <4>2, <4>3
    <3>3. CASE ~ SetTimestampBoundaries(t)
      <4>1. outdated' = outdated /\ maxTimestamp' = maxTimestamp
        BY <2>4, <3>3 DEF RunJob, Advance, EndExport, Fetch, PageFails, Export, ExportFails, Retry, history
      <4> QED
        BY <3>1, <4>1
    <3> QED
      BY <3>2, <3>3
  <2>8. ~ races
    BY <1>a DEF FirstOK
  <2>9. \A u \in JobThread : task'[u].at \notin StartPlaces
    BY <2>3, <2>6
  <2> QED
    BY <2>3, <2>5, <2>7, <2>8, <2>9 DEF FirstOK
<1> QED
  BY <1>1, <1>2, <1>3

(* The intervals that were placed, and have a page still to fetch or one that *)
(* may have to be fetched again.                                             *)
Seen(c) ==
  \/ \E j : Paged(j) /\ j.timestampCursor = c
  \/ \E t \in JobThread : task[t].at = "export" /\ task[t].job.timestampCursor = c
Apart(c, d) == c = d \/ c + Interval <= d \/ d + Interval <= c

(* One job at most goes through the pages of interval c.                     *)
Sole(c) ==
  /\ \A j, k \in DOMAIN jobs :
       HasPage(j) /\ HasPage(k) /\ j.timestampCursor = c /\ k.timestampCursor = c => j = k
  /\ \A j \in DOMAIN jobs : HasPage(j) /\ j.timestampCursor = c => jobs[j] = 1
  /\ \A t, u \in JobThread : Holds(t) /\ Holds(u)
       /\ task[t].job.timestampCursor = c /\ task[u].job.timestampCursor = c => t = u
  /\ \A j \in DOMAIN jobs, t \in JobThread :
       HasPage(j) /\ Holds(t) /\ j.timestampCursor = c => task[t].job.timestampCursor # c

SpacedOK == races \/ outdated \/ \A c, d : Seen(c) /\ Seen(d) => Apart(c, d)
SoleOK == races \/ outdated \/ \A c : c \in again \/ Sole(c)

(* An interval that was placed is in the range, not after the cursor.        *)
LEMMA SeenWithin ==
  ASSUME HistoryTyping, NEW r \in Ranges, InRange(r), NEW c, Seen(c)
  PROVE  c \in Int /\ r[1] <= c /\ c <= r[2] /\ c <= cursor /\ InPhase(c, r)
<1>1. CASE \E j : Paged(j) /\ j.timestampCursor = c
  BY <1>1, PagedTypes DEF InRange, Within
<1>2. CASE \E t \in JobThread : task[t].at = "export" /\ task[t].job.timestampCursor = c
  BY <1>2, Moved DEF InRange, InRangeAt, Within, JobRecs, StepPlaces
<1> QED
  BY <1>1, <1>2 DEF Seen

(* A step sees the intervals there were, or the one after the cursor.        *)
LEMMA SeenStep ==
  ASSUME HistoryTyping, NEW t \in JobThread, Acts(t), NEW c, Seen(c)'
  PROVE  Seen(c) \/ (Advance(t) /\ NextInterval(task[t].job) /\ c = Placed(task[t].job).timestampCursor)
<1> USE DEF StartPlaces
<1>a. ASSUME \A u \in JobThread : u # t => task'[u] = task[u], task'[t].at # "export",
             \A j : Paged(j)' => \E k : (Paged(k) \/ (task[t].at = "export" /\ k = task[t].job))
                                       /\ k.timestampCursor = j.timestampCursor
      PROVE  Seen(c)
  <2>1. CASE \E j : Paged(j)' /\ j.timestampCursor = c
    BY <1>a, <2>1 DEF Seen
  <2>2. CASE \E u \in JobThread : task'[u].at = "export" /\ task'[u].job.timestampCursor = c
    BY <1>a, <2>2 DEF Seen
  <2> QED
    BY <2>1, <2>2 DEF Seen
<1>1. CASE \/ Start(t) \/ Check(t) \/ Claim(t) \/ ResetCursor(t) \/ ResetLimit(t) \/ ResetStart(t)
           \/ InitCursor(t) \/ SetLimit(t) \/ EnqueueFirst(t)
  BY <1>1, <1>a, StartPages
<1>2. CASE RunJob(t)
  <2>1. PICK k \in DOMAIN jobs : (task' = task /\ task[t].at = "idle") \/ Becomes(t, "idle", StepTask("bounds", k, {}))
    BY <1>2, StepEffects
  <2>2. task'[t].at # "export" /\ \A u \in JobThread : u # t => task'[u] = task[u]
    BY <2>1, Became, NewTasks
  <2> QED
    BY <1>2, <1>a, <2>2, RunJobPages
<1>3. CASE SetTimestampBoundaries(t) \/ EndExport(t) \/ PageFails(t) \/ Export(t)
  <2>1. PICK before, after : Becomes(t, before, after) /\ after.at # "export"
    BY <1>3, StepEffects, NewTasks
  <2> QED
    BY <1>3, <1>a, <2>1, Became, QuietPages
<1>4. CASE Advance(t)
  <2> DEFINE job == task[t].job
  <2>1. PICK at \in {"past", "fetch"} : Becomes(t, "advance", StepTask(at, Placed(job), {}))
    BY <1>4, StepEffects
  <2>2. task'[t].at # "export" /\ \A u \in JobThread : u # t => task'[u] = task[u]
    BY <2>1, Became, NewTasks
  <2>3. \A j : Paged(j)' => Paged(j) \/ (NextInterval(job) /\ j = Placed(job))
    BY <1>4, AdvancePages DEF HasPage
  <2>4. CASE NextInterval(job) /\ c = Placed(job).timestampCursor
    BY <1>4, <2>4
  <2>5. CASE ~ (NextInterval(job) /\ c = Placed(job).timestampCursor)
    <3>1. CASE \E j : Paged(j)' /\ j.timestampCursor = c
      BY <2>3, <2>5, <3>1 DEF Seen
    <3>2. CASE \E u \in JobThread : task'[u].at = "export" /\ task'[u].job.timestampCursor = c
      BY <2>2, <3>2 DEF Seen
    <3> QED
      BY <3>1, <3>2 DEF Seen
  <2> QED
    BY <2>4, <2>5
<1>5. CASE Fetch(t)
  <2> DEFINE job == task[t].job
  <2>1. PICK events : /\ Becomes(t, "fetch", StepTask("export", job, events))
                      /\ jobs' = Added(jobs, NextJob(job, events))
    BY <1>5, StepEffects
  <2>2. /\ Paged(job)
        /\ \A j : Paged(j)' => Paged(j) \/ j = NextJob(job, events)
    BY <2>1, FetchPages DEF Paged
  <2>3. task'[t].job = job /\ \A u \in JobThread : u # t => task'[u] = task[u]
    BY <2>1, Became, NewTasks
  <2>4. NextJob(job, events).timestampCursor = job.timestampCursor
    BY DEF NextJob, StepJob
  <2>5. CASE \E j : Paged(j)' /\ j.timestampCursor = c
    BY <2>2, <2>4, <2>5 DEF Seen
  <2>6. CASE \E u \in JobThread : task'[u].at = "export" /\ task'[u].job.timestampCursor = c
    BY <2>2, <2>3, <2>6 DEF Seen
  <2> QED
    BY <2>5, <2>6 DEF Seen
<1>6. CASE ExportFails(t)
  <2>1. PICK after : Becomes(t, "export", after) /\ after.at # "export"
    BY <1>6, StepEffects, NewTasks
  <2>2. \A j : Paged(j)' => Paged(j) \/ j = task[t].job
    BY <1>6, ExportFailsPages
  <2>3. task[t].at = "export" /\ task'[t].at # "export" /\ \A u \in JobThread : u # t => task'[u] = task[u]
    BY <2>1, Became
  <2> QED
    BY <1>a, <2>2, <2>3
<1>7. CASE Retry(t)
  <2>1. Becomes(t, "retry", NoTask)
    BY <1>7, StepEffects
  <2>2. RetryJob(task[t].job).timestampCursor = task[t].job.timestampCursor
    BY DEF RetryJob, StepJob
  <2>3. Paged(task[t].job) /\ \A j : Paged(j)' => Paged(j) \/ j = RetryJob(task[t].job)
    BY <1>7, RetryPages
  <2>4. task'[t].at # "export" /\ \A u \in JobThread : u # t => task'[u] = task[u]
    BY <2>1, Became, NewTasks
  <2> QED
    BY <1>a, <2>2, <2>3, <2>4
<1>8. CASE Throw(t) \/ Crash(t)
  <2>1. task'[t].at # "export" /\ \A u \in JobThread : u # t => task'[u] = task[u]
    BY <1>8, AbandonEffects, Became, NewTasks
  <2> QED
    BY <1>8, <1>a, <2>1, AbandonPages
<1> QED
  BY <1>1, <1>2, <1>3, <1>4, <1>5, <1>6, <1>7, <1>8 DEF Acts

(* The interval that Advance places lies after all of them.                  *)
LEMMA NewInterval ==
  ASSUME HistoryTyping, RangeOK, ~ races, ~ outdated, NEW t \in JobThread, Advance(t), NextInterval(task[t].job)
  PROVE  /\ cursor \in Int /\ cursor' = cursor + Interval
         /\ Placed(task[t].job).timestampCursor = cursor + Interval
         /\ \A c : Seen(c) => c \in Int /\ c + Interval <= cursor + Interval
<1>1. task[t].at = "advance" /\ cursor' = Incremented(cursor, Interval)
  BY DEF Advance
<1>2. PICK r \in Ranges : InRange(r)
  BY <1>1 DEF RangeOK, NothingRuns
<1>3. Interval \in Nat \ {0} /\ cursor \in Int /\ r[1] \in Nat \ {0}
  BY ExportAssumption DEF HistoryTyping
<1>4. cursor >= r[1] - Interval
  BY <1>1, <1>2 DEF InRange, InRangeAt, CursorIn, StepPlaces
<1>5. Incremented(cursor, Interval) = cursor + Interval
  BY <1>3, <1>4 DEF Incremented, None
<1>6. task[t].job \in JobRecs
  BY <1>1, Moved DEF StepPlaces
<1>7. Placed(task[t].job).timestampCursor = cursor + Interval
  BY <1>5, <1>6 DEF Placed, JobRecs
<1>8. \A c : Seen(c) => c \in Int /\ c + Interval <= cursor + Interval
  <2> SUFFICES ASSUME NEW c, Seen(c)
               PROVE  c \in Int /\ c + Interval <= cursor + Interval
    OBVIOUS
  <2>1. c \in Int /\ c <= cursor
    BY <1>2, SeenWithin
  <2> QED
    BY <2>1, <1>3
<1> QED
  BY <1>1, <1>3, <1>5, <1>7, <1>8

(* The intervals that were placed do not overlap.                            *)
LEMMA SpacedStep ==
  ASSUME HistoryTyping, RangeOK, SpacedOK, [Next]_vars
  PROVE  SpacedOK'
<1>0. CASE UNCHANGED vars
  BY <1>0 DEF SpacedOK, Seen, Paged, Holds, vars, history
<1>00. CASE LoseJob
  <2>1. \A c : Seen(c)' => Seen(c)
    BY <1>00, LosePages DEF Seen, LoseJob
  <2> QED
    BY <2>1, OnlyGrow DEF SpacedOK
<1> SUFFICES ASSUME NEW t \in JobThread, Acts(t)
             PROVE  SpacedOK'
  BY <1>0, <1>00 DEF Next, Acts
<1> SUFFICES ASSUME ~ races, ~ outdated, NEW c, NEW d, Seen(c)', Seen(d)'
             PROVE  Apart(c, d)
  BY OnlyGrow DEF SpacedOK
<1>1. Seen(c) /\ Seen(d) => Apart(c, d)
  BY DEF SpacedOK
<1>2. CASE Advance(t) /\ NextInterval(task[t].job)
  <2>1. /\ \A e : Seen(e) => e \in Int /\ e + Interval <= cursor + Interval
        /\ Placed(task[t].job).timestampCursor = cursor + Interval
    BY <1>2, NewInterval
  <2>2. (Seen(c) \/ c = cursor + Interval) /\ (Seen(d) \/ d = cursor + Interval)
    BY <2>1, SeenStep
  <2> QED
    BY <1>1, <2>1, <2>2 DEF Apart
<1>3. CASE ~ (Advance(t) /\ NextInterval(task[t].job))
  BY <1>1, <1>3, SeenStep
<1> QED
  BY <1>2, <1>3

(* A step that adds no job of interval c, and no copy of one.                *)
LEMMA SoleKept ==
  ASSUME NEW c, Sole(c),
         \A j : HasPage(j) /\ j.timestampCursor = c /\ j \in DOMAIN jobs' => j \in DOMAIN jobs /\ jobs'[j] = jobs[j],
         \A u \in JobThread : Holds(u)' /\ task'[u].job.timestampCursor = c =>
           Holds(u) /\ task[u].job.timestampCursor = c
  PROVE  Sole(c)'
<1>1. \A j \in DOMAIN jobs' : HasPage(j) /\ j.timestampCursor = c => j \in DOMAIN jobs /\ jobs'[j] = 1
  BY DEF Sole
<1>2. \A j, k \in DOMAIN jobs' :
        HasPage(j) /\ HasPage(k) /\ j.timestampCursor = c /\ k.timestampCursor = c => j = k
  BY <1>1 DEF Sole
<1>3. \A t, u \in JobThread : Holds(t)' /\ Holds(u)'
       /\ task'[t].job.timestampCursor = c /\ task'[u].job.timestampCursor = c => t = u
  BY DEF Sole
<1>4. \A j \in DOMAIN jobs', t \in JobThread :
       HasPage(j) /\ Holds(t)' /\ j.timestampCursor = c => task'[t].job.timestampCursor # c
  BY <1>1 DEF Sole
<1> QED
  BY <1>1, <1>2, <1>3, <1>4 DEF Sole

(* What a job that was added or taken leaves of the others.                  *)
LEMMA OtherCopies ==
  ASSUME NEW B, IsABag(B), NEW x
  PROVE  /\ \A j \in DOMAIN Added(B, x) : j # x => j \in DOMAIN B /\ Added(B, x)[j] = B[j]
         /\ x \notin DOMAIN B => Added(B, x)[x] = 1
         /\ \A j \in DOMAIN Taken(B, x) : j # x /\ x \in DOMAIN B =>
              j \in DOMAIN B /\ Taken(B, x)[j] = B[j]
<1>1. \A j \in DOMAIN Added(B, x) : j # x => j \in DOMAIN B /\ Added(B, x)[j] = B[j]
  BY ZenonT(60), OneMore, Copies
<1>2. x \notin DOMAIN B => Added(B, x)[x] = 1
  BY Copies
<1>3. \A j \in DOMAIN Taken(B, x) : j # x /\ x \in DOMAIN B =>
              j \in DOMAIN B /\ Taken(B, x)[j] = B[j]
  BY OneLess
<1> QED
  BY <1>1, <1>2, <1>3

(* No step starts a second job of an interval, but with one tried again.    *)
LEMMA SoleStep ==
  ASSUME HistoryTyping, RangeOK, RetriesRemembered, SoleOK, [Next]_vars
  PROVE  SoleOK'
<1> USE DEF StartPlaces
<1>0. CASE UNCHANGED vars
  BY <1>0 DEF SoleOK, Sole, Holds, vars, history
<1> SUFFICES ASSUME ~ races, ~ outdated, NEW c, c \notin again', ~ UNCHANGED vars
             PROVE  Sole(c)'
  BY <1>0, OnlyGrow DEF SoleOK
<1>a. Sole(c)
  BY OnlyGrow DEF SoleOK
<1>b. IsABag(jobs)
  BY DEF HistoryTyping
<1>00. CASE LoseJob
  <2>1. PICK k \in DOMAIN jobs : jobs' = Taken(jobs, k) /\ task' = task
    BY <1>00 DEF LoseJob
  <2>2. \A j \in DOMAIN jobs' : j # k => j \in DOMAIN jobs /\ jobs'[j] = jobs[j]
    BY <2>1, <1>b, OtherCopies
  <2>3. HasPage(k) /\ k.timestampCursor = c => k \notin DOMAIN jobs'
    BY <2>1, <1>a, <1>b, OneLess DEF Sole
  <2>4. \A j : HasPage(j) /\ j.timestampCursor = c /\ j \in DOMAIN jobs' => j \in DOMAIN jobs /\ jobs'[j] = jobs[j]
    BY <2>2, <2>3
  <2>5. \A u \in JobThread : Holds(u)' => Holds(u) /\ task'[u] = task[u]
    BY <2>1 DEF Holds
  <2> QED
    BY <1>a, <2>4, <2>5, SoleKept
<1> SUFFICES ASSUME NEW t \in JobThread, Acts(t)
             PROVE  Sole(c)'
  BY <1>00 DEF Next, Acts
<1>1. CASE \/ Start(t) \/ Check(t) \/ Claim(t) \/ ResetCursor(t) \/ ResetLimit(t) \/ ResetStart(t)
           \/ InitCursor(t) \/ SetLimit(t) \/ EnqueueFirst(t)
  <2>1. \A u \in JobThread : Holds(u)' => Holds(u) /\ task'[u] = task[u]
    BY <1>1, StartPages DEF Holds
  <2>2. \A j : HasPage(j) /\ j \in DOMAIN jobs' => j \in DOMAIN jobs /\ jobs'[j] = jobs[j]
    <3>1. CASE EnqueueFirst(t)
      <4>1. jobs' = Added(jobs, StepJob(None, 0, 0, TRUE))
        BY <3>1 DEF EnqueueFirst, Enqueue
      <4>2. ~ HasPage(StepJob(None, 0, 0, TRUE))
        BY DEF HasPage, NextInterval, StepJob
      <4> DEFINE first == StepJob(None, 0, 0, TRUE)
      <4> HIDE DEF first
      <4>3. jobs' = Added(jobs, first) /\ ~ HasPage(first)
        BY <4>1, <4>2 DEF first
      <4>4. \A j \in DOMAIN jobs' : j # first => j \in DOMAIN jobs /\ jobs'[j] = jobs[j]
        BY <4>3, <1>b, OtherCopies
      <4> QED
        BY <4>3, <4>4
    <3>2. CASE ~ EnqueueFirst(t)
      <4>1. jobs' = jobs
        BY <1>1, <3>2 DEF Start, Check, Claim, ResetCursor, ResetLimit, ResetStart, InitCursor, SetLimit
      <4> QED
        BY <4>1
    <3> QED
      BY <3>1, <3>2
  <2> QED
    BY <1>a, <2>1, <2>2, SoleKept
<1>2. CASE RunJob(t)
  <2> PICK k \in DOMAIN jobs :
         /\ task[t].at = "idle"
         /\ jobs' = Taken(jobs, k) \/ (jobs' = jobs /\ again' = again \cup {IntervalOf(k)})
         /\ IF Given(k) THEN task' = task ELSE Becomes(t, "idle", StepTask("bounds", k, {}))
    BY <1>2, StepEffects
  <2>0. HasPage(k) /\ k.timestampCursor = c => jobs' = Taken(jobs, k)
    BY DEF HasPage, IntervalOf
  <2>1. \A j \in DOMAIN jobs' : j # k => j \in DOMAIN jobs /\ jobs'[j] = jobs[j]
    BY <1>b, OtherCopies
  <2>2. \A u \in JobThread : u # t => task'[u] = task[u]
    BY Became
  <2>3. Holds(t)' => task'[t].job = k /\ HasPage(k)
    <3>1. CASE Given(k)
      BY <3>1 DEF Holds
    <3>2. CASE ~ Given(k)
      <4>1. task'[t] = StepTask("bounds", k, {})
        BY <3>2, Became
      <4> QED
        BY <4>1, NewTasks DEF Holds
    <3> QED
      BY <3>1, <3>2
  <2>4. CASE HasPage(k) /\ k.timestampCursor = c
    <3>1. jobs[k] = 1 /\ \A j \in DOMAIN jobs : HasPage(j) /\ j.timestampCursor = c => j = k
      BY <1>a, <2>4 DEF Sole
    <3>2. k \notin DOMAIN jobs'
      BY <2>0, <2>4, <3>1, <1>b, OneLess
    <3>3. \A j \in DOMAIN jobs' : HasPage(j) => j.timestampCursor # c
      BY <2>1, <3>1, <3>2
    <3>4. \A u \in JobThread : u # t /\ Holds(u)' => task'[u].job.timestampCursor # c
      BY <1>a, <2>2, <2>4 DEF Sole, Holds
    <3> QED
      BY <3>3, <3>4 DEF Sole
  <2>5. CASE ~ (HasPage(k) /\ k.timestampCursor = c)
    <3>1. \A j : HasPage(j) /\ j.timestampCursor = c /\ j \in DOMAIN jobs' => j \in DOMAIN jobs /\ jobs'[j] = jobs[j]
      BY <2>1, <2>5
    <3>2. \A u \in JobThread : Holds(u)' /\ task'[u].job.timestampCursor = c =>
            Holds(u) /\ task[u].job.timestampCursor = c
      BY <2>2, <2>3, <2>5 DEF Holds
    <3> QED
      BY <1>a, <3>1, <3>2, SoleKept
  <2> QED
    BY <2>4, <2>5
<1>c. ASSUME jobs' = jobs, \A u \in JobThread : u # t => task'[u] = task[u],
             Holds(t)' => Holds(t) /\ task'[t].job = task[t].job
      PROVE  Sole(c)'
  <2>1. \A u \in JobThread : Holds(u)' => Holds(u) /\ task'[u].job = task[u].job
    BY <1>c DEF Holds
  <2> QED
    BY <1>a, <1>c, <2>1, SoleKept
<1>3. CASE SetTimestampBoundaries(t)
  <2>1. Becomes(t, "bounds", StepTask("advance", task[t].job, task[t].events)) /\ jobs' = jobs
    BY <1>3, StepEffects DEF SetTimestampBoundaries
  <2>2. Holds(t)' => Holds(t) /\ task'[t].job = task[t].job
    BY <2>1, Became, NewTasks DEF Holds
  <2> QED
    BY <1>c, <2>1, <2>2, Became
<1>4. CASE Advance(t)
  <2> DEFINE job == task[t].job
  <2>1. PICK at \in {"past", "fetch"} : Becomes(t, "advance", StepTask(at, Placed(job), {}))
    BY <1>4, StepEffects
  <2>2. jobs' = jobs /\ task[t].at = "advance" /\ \A u \in JobThread : u # t => task'[u] = task[u]
    BY <1>4, <2>1, Became DEF Advance
  <2>3. Holds(t)' => task'[t].job = Placed(job)
    BY <2>1, Became, NewTasks DEF Holds
  <2>4. CASE HasPage(job)
    <3>1. Placed(job) = job /\ Holds(t)
      BY <2>2, <2>4, <1>4, AdvancePages DEF Holds
    <3> QED
      BY <1>c, <2>2, <2>3, <3>1
  <2>5. CASE ~ HasPage(job) /\ Placed(job).timestampCursor # c
    <3>1. \A u \in JobThread : Holds(u)' /\ task'[u].job.timestampCursor = c =>
            Holds(u) /\ task[u].job.timestampCursor = c
      BY <2>2, <2>3, <2>5 DEF Holds
    <3> QED
      BY <1>a, <2>2, <3>1, SoleKept
  <2>6. CASE ~ HasPage(job) /\ Placed(job).timestampCursor = c
    <3>1. ~ Seen(c)
      BY <1>4, <2>6, NewInterval, ExportAssumption DEF HasPage
    <3>2. \A j : Paged(j) => j.timestampCursor # c
      BY <3>1 DEF Seen
    <3>3. \A j \in DOMAIN jobs' : HasPage(j) => j.timestampCursor # c
      BY <2>2, <3>2 DEF Paged
    <3>4. \A u \in JobThread : u # t /\ Holds(u)' => task'[u].job.timestampCursor # c
      BY <2>2, <3>2 DEF Paged, Holds
    <3> QED
      BY <3>3, <3>4 DEF Sole
  <2> QED
    BY <2>4, <2>5, <2>6
<1>5. CASE Fetch(t)
  <2> DEFINE job == task[t].job
  <2>0. PICK events : /\ Becomes(t, "fetch", StepTask("export", job, events))
                      /\ jobs' = Added(jobs, NextJob(job, events))
    BY <1>5, StepEffects
  <2> DEFINE next == NextJob(job, events)
  <2>1. Becomes(t, "fetch", StepTask("export", job, events)) /\ jobs' = Added(jobs, next)
    BY <2>0
  <2>2. next.timestampCursor = job.timestampCursor
    BY DEF NextJob, StepJob
  <2> HIDE DEF next
  <2>3. /\ Holds(t) /\ ~ Holds(t)' /\ \A u \in JobThread : u # t => task'[u] = task[u]
    BY <2>1, Became, NewTasks DEF Holds
  <2>4. \A u \in JobThread : Holds(u)' => u # t /\ Holds(u) /\ task'[u].job = task[u].job
    BY <2>3 DEF Holds
  <2>5. CASE job.timestampCursor = c
    <3>1. \A j \in DOMAIN jobs : HasPage(j) => j.timestampCursor # c
      BY <1>a, <2>3, <2>5 DEF Sole
    <3>2. \A u \in JobThread : Holds(u)' => task'[u].job.timestampCursor # c
      BY <1>a, <2>3, <2>4, <2>5 DEF Sole
    <3>3. \A j \in DOMAIN jobs' : HasPage(j) /\ j.timestampCursor = c => j = next /\ jobs'[j] = 1
      BY <2>1, <3>1, <1>b, OtherCopies
    <3> QED
      BY <3>2, <3>3 DEF Sole
  <2>6. CASE job.timestampCursor # c
    <3>1. \A j : HasPage(j) /\ j.timestampCursor = c /\ j \in DOMAIN jobs' => j \in DOMAIN jobs /\ jobs'[j] = jobs[j]
      BY <2>1, <2>2, <2>6, <1>b, OtherCopies
    <3> QED
      BY <1>a, <2>4, <3>1, SoleKept
  <2> QED
    BY <2>5, <2>6
<1>6. CASE PageFails(t)
  <2> DEFINE next == NextJob(task[t].job, {})
  <2>1. Becomes(t, "fetch", StepTask("retry", task[t].job, {})) /\ jobs' = Added(jobs, next)
    BY <1>6, StepEffects
  <2>2. Holds(t)' => Holds(t) /\ task'[t].job = task[t].job
    BY <2>1, Became, NewTasks DEF Holds
  <2>3. \A u \in JobThread : Holds(u)' => Holds(u) /\ task'[u].job = task[u].job
    BY <2>1, <2>2, Became DEF Holds
  <2>4. ~ HasPage(next)
    BY DEF NextJob, StepJob, HasPage, NextInterval
  <2> HIDE DEF next
  <2>5. \A j \in DOMAIN jobs' : HasPage(j) => j \in DOMAIN jobs /\ jobs'[j] = jobs[j]
    BY <2>1, <2>4, <1>b, OtherCopies
  <2> QED
    BY <1>a, <2>3, <2>5, SoleKept
<1>7. CASE EndExport(t) \/ Export(t) \/ Throw(t) \/ Crash(t)
  <2>1. PICK before : Becomes(t, before, NoTask) /\ jobs' = jobs
    BY <1>7, StepEffects, AbandonEffects DEF EndExport, Export
  <2>2. ~ Holds(t)'
    BY <2>1, Became, NewTasks DEF Holds
  <2> QED
    BY <1>c, <2>1, <2>2, Became
<1>8. CASE ExportFails(t)
  <2> DEFINE job == task[t].job
  <2>0. jobs' = jobs
    BY <1>8 DEF ExportFails
  <2>1. CASE Becomes(t, "export", NoTask)
    <3>1. ~ Holds(t)'
      BY <2>1, Became, NewTasks DEF Holds
    <3> QED
      BY <1>c, <2>0, <2>1, <3>1, Became
  <2>2. CASE Becomes(t, "export", StepTask("retry", job, {})) /\ again' = again \cup {job.timestampCursor}
    <3>1. task'[t].job = job /\ job.timestampCursor # c /\ \A u \in JobThread : u # t => task'[u] = task[u]
      BY <2>2, Became, NewTasks
    <3>2. \A u \in JobThread : Holds(u)' /\ task'[u].job.timestampCursor = c =>
            Holds(u) /\ task[u].job.timestampCursor = c
      BY <3>1 DEF Holds
    <3> QED
      BY <1>a, <2>0, <3>2, SoleKept
  <2> QED
    BY <1>8, <2>1, <2>2, StepEffects
<1>9. CASE Retry(t)
  <2> DEFINE next == RetryJob(task[t].job)
  <2>1. Becomes(t, "retry", NoTask) /\ jobs' = Added(jobs, next)
    BY <1>9, StepEffects
  <2>2. task[t].job.timestampCursor # c
    BY <2>1, OnlyGrow DEF Becomes, RetriesRemembered
  <2>3. next.timestampCursor # c
    BY <2>2 DEF RetryJob, StepJob
  <2> HIDE DEF next
  <2>4. \A u \in JobThread : Holds(u)' => Holds(u) /\ task'[u].job = task[u].job
    BY <2>1, Became, NewTasks DEF Holds
  <2>5. \A j : HasPage(j) /\ j.timestampCursor = c /\ j \in DOMAIN jobs' => j \in DOMAIN jobs /\ jobs'[j] = jobs[j]
    BY <2>1, <2>3, <1>b, OtherCopies
  <2> QED
    BY <1>a, <2>4, <2>5, SoleKept
<1> QED
  BY <1>1, <1>2, <1>3, <1>4, <1>5, <1>6, <1>7, <1>8, <1>9 DEF Acts

(* A page still to fetch or in hand has event e on it or before e.           *)
Ahead(e, j) == e \in InInterval(j.timestampCursor) /\ Place(j.timestampCursor, e) >= j.intraIntervalOffset
Exporting(t, e) == task[t].at = "export" /\ e \in task[t].events
Excused(e, intervals) == \E c \in intervals : e \in InInterval(c)

(* The bound of the queries the cursor has come to.                          *)
Reached == Floor(cursor + Interval)

Once(e) ==
  /\ exported[e] <= 1
  /\ exported[e] = 1 => \A t \in JobThread : ~ Exporting(t, e)
  /\ \A t, u \in JobThread : Exporting(t, e) /\ Exporting(u, e) => t = u
  /\ exported[e] = 1 \/ (\E t \in JobThread : Exporting(t, e)) =>
       timestamp[e] < Reached /\ \A j : Paged(j) => ~ Ahead(e, j)
OnceOK == starts = 1 => \A e \in Events : Untied(e) => Excused(e, again) \/ Once(e)

(* An interval has finitely many events, so each has a place.                *)
LEMMA PlaceIsNat ==
  ASSUME NEW c, NEW e
  PROVE  IsFiniteSet(InInterval(c)) /\ Place(c, e) \in Nat
<1>1. InInterval(c) \subseteq Events /\ IsFiniteSet(Events)
  BY ExportAssumption DEF InInterval
<1>2. IsFiniteSet(InInterval(c))
  BY <1>1, FS_Subset
<1> DEFINE before == {d \in InInterval(c) : orderKey[d] < orderKey[e]}
<1>3. before \subseteq InInterval(c)
  OBVIOUS
<1> HIDE DEF before
<1>4. IsFiniteSet(before) /\ Cardinality(before) \in Nat
  BY <1>2, <1>3, FS_Subset, FS_CardinalityType
<1> QED
  BY <1>2, <1>4 DEF Place, before

(* The events of an interval lie between its bounds.                         *)
LEMMA Bounds ==
  ASSUME NEW c \in Int, NEW e \in InInterval(c)
  PROVE  /\ e \in Events /\ timestamp[e] \in Nat /\ Floor(c) \in Int
         /\ Floor(c) <= timestamp[e] /\ timestamp[e] < Floor(c) + Interval
  BY ExportAssumption, FloorMoves DEF InInterval

(* An event that no other one ties with is on the page that has its place.   *)
LEMMA UntiedPage ==
  ASSUME NEW c \in Int, NEW o \in Nat, NEW e \in Events, Untied(e), NEW page \in Pages(c, o)
  PROVE  e \in page <=> e \in InInterval(c) /\ Place(c, e) \in o .. o + EventsPerRun - 1
<1>1. page \subseteq InInterval(c)
  BY DEF Pages
<1> SUFFICES ASSUME e \in InInterval(c)
             PROVE  e \in page <=> Place(c, e) \in o .. o + EventsPerRun - 1
  BY <1>1
<1>2. Tied(c, e) = {e}
  <2>1. e \in Tied(c, e)
    BY DEF Tied
  <2>2. ASSUME NEW d \in Tied(c, e), d # e
        PROVE  FALSE
    <3>1. d \in InInterval(c) /\ orderKey[d] = orderKey[e]
      BY <2>2 DEF Tied
    <3>2. d \in Events /\ timestamp[d] \in Nat /\ timestamp[e] \in Nat /\ Interval \in Nat /\ Floor(c) \in Int
      BY <3>1, Bounds, ExportAssumption
    <3>3. /\ Floor(c) <= timestamp[d] /\ timestamp[d] < Floor(c) + Interval
          /\ Floor(c) <= timestamp[e] /\ timestamp[e] < Floor(c) + Interval
      BY <3>1, Bounds
    <3>4. timestamp[d] - timestamp[e] \in 1 - Interval .. Interval - 1
      BY <3>2, <3>3
    <3> QED
      BY <2>2, <3>1, <3>2, <3>4 DEF Untied
  <2> QED
    BY <2>1, <2>2
<1> DEFINE onPage == o .. o + EventsPerRun - 1
           place == Place(c, e)
<1>3. place \in Nat
  BY PlaceIsNat
<1>4. Places(c, e) = {place}
  <2>1. Cardinality(Tied(c, e)) = 1
    BY <1>2, FS_Singleton
  <2> HIDE DEF place
  <2>2. place .. place + 1 - 1 = {place}
    BY <1>3
  <2> QED
    BY <2>1, <2>2 DEF Places, place
<1>5. Cardinality(page \cap Tied(c, e)) = Cardinality(Places(c, e) \cap onPage)
  BY DEF Pages
<1> HIDE DEF onPage, place
<1>6. Cardinality(page \cap {e}) = Cardinality({place} \cap onPage)
  BY <1>2, <1>4, <1>5
<1>7. e \in page => page \cap {e} = {e}
  OBVIOUS
<1>8. e \notin page => page \cap {e} = {}
  OBVIOUS
<1>9. place \in onPage => {place} \cap onPage = {place}
  OBVIOUS
<1>10. place \notin onPage => {place} \cap onPage = {}
  OBVIOUS
<1>11. Cardinality({e}) = 1 /\ Cardinality({place}) = 1 /\ Cardinality({}) = 0
  BY FS_Singleton, FS_EmptySet
<1>12. e \in page <=> place \in onPage
  BY <1>6, <1>7, <1>8, <1>9, <1>10, <1>11
<1> QED
  BY <1>12 DEF onPage, place

(* The cursor moves on by an interval, and so does the bound.                *)
LEMMA ReachedMoves ==
  ASSUME HistoryTyping
  PROVE  /\ Reached \in Int /\ Reached = Floor(cursor) + Interval /\ Floor(cursor) \in Int
         /\ cursor' = cursor => Reached' = Reached
         /\ cursor' = cursor + Interval => Reached' = Reached + Interval
<1>1. cursor \in Int /\ cursor + Interval \in Int /\ Interval \in Int
  BY ExportAssumption DEF HistoryTyping
<1> DEFINE next == cursor + Interval
<1>2. Floor(next) \in Int /\ Floor(next) = Floor(cursor) + Interval /\ Floor(cursor) \in Int
  BY <1>1, FloorMoves
<1>3. Floor(next + Interval) = Floor(next) + Interval
  BY <1>1, FloorMoves
<1>4. cursor' = cursor => Reached' = Reached
  BY DEF Reached, Floor
<1>5. cursor' = cursor + Interval => Reached' = Reached + Interval
  BY <1>3 DEF Reached, Floor
<1> QED
  BY <1>2, <1>4, <1>5 DEF Reached

(* Two intervals of an export that have an event in common are the same.     *)
LEMMA SameInterval ==
  ASSUME NEW r, NEW c \in Int, NEW d \in Int, InPhase(c, r), InPhase(d, r), Apart(c, d),
         NEW e \in InInterval(c), e \in InInterval(d)
  PROVE  c = d
<1>1. Floor(c) \in Int /\ Floor(d) \in Int /\ Interval \in Nat /\ timestamp[e] \in Nat
  BY Bounds, ExportAssumption
<1>2. c - Floor(c) = d - Floor(d)
  BY DEF InPhase
<1>3. /\ Floor(c) <= timestamp[e] /\ timestamp[e] < Floor(c) + Interval
      /\ Floor(d) <= timestamp[e] /\ timestamp[e] < Floor(d) + Interval
  BY Bounds
<1> QED
  BY <1>1, <1>2, <1>3 DEF Apart

(* An event stays exported once when no page is added that has it.           *)
LEMMA OnceKept ==
  ASSUME HistoryTyping, NEW e \in Events, Once(e), exported'[e] = exported[e],
         \A u \in JobThread : Exporting(u, e)' => Exporting(u, e),
         cursor' \in {cursor, cursor + Interval},
         \A j : Paged(j)' /\ Ahead(e, j) => Reached <= timestamp[e] \/ \E k : Paged(k) /\ Ahead(e, k)
  PROVE  Once(e)'
<1>1. timestamp[e] \in Int /\ Interval \in Nat /\ Reached \in Int /\ Reached' \in {Reached, Reached + Interval}
  BY ExportAssumption, ReachedMoves
<1>2. (exported'[e] = 1 \/ \E t \in JobThread : Exporting(t, e)') =>
        timestamp[e] < Reached' /\ \A j : Paged(j)' => ~ Ahead(e, j)
  <2> SUFFICES ASSUME exported'[e] = 1 \/ \E t \in JobThread : Exporting(t, e)'
               PROVE  timestamp[e] < Reached' /\ \A j : Paged(j)' => ~ Ahead(e, j)
    OBVIOUS
  <2>1. timestamp[e] < Reached /\ \A j : Paged(j) => ~ Ahead(e, j)
    BY DEF Once
  <2>2. timestamp[e] < Reached' /\ ~ (Reached <= timestamp[e])
    BY <1>1, <2>1
  <2> QED
    BY <2>1, <2>2
<1>3. \A j : Ahead(e, j)' <=> Ahead(e, j)
  BY DEF Ahead
<1> QED
  BY <1>2, <1>3 DEF Once

(* No step exports an event again, but after a page or a job was repeated.   *)
LEMMA OnceStep ==
  ASSUME HistoryTyping, RangeOK, SpacedOK, SoleOK, FirstOK, OnceOK, [Next]_vars
  PROVE  OnceOK'
<1> USE DEF StartPlaces
<1>0. CASE UNCHANGED vars
  BY <1>0 DEF OnceOK, Once, Paged, Holds, Exporting, Reached, vars, storage, history
<1> SUFFICES ASSUME starts' = 1, NEW e \in Events, Untied(e), ~ Excused(e, again'), ~ UNCHANGED vars
             PROVE  Once(e)'
  BY <1>0 DEF OnceOK
<1>a. starts <= 1 /\ starts \in Nat
  BY OnlyGrow DEF HistoryTyping
<1>b. /\ timestamp[e] \in Nat /\ Interval \in Nat \ {0} /\ cursor \in Int /\ exported[e] \in 0 .. 2
      /\ EventsPerRun \in Nat \ {0} /\ Reached \in Int
  BY ExportAssumption, ReachedMoves DEF HistoryTyping
<1>00. CASE LoseJob
  <2>1. starts = 1 /\ exported' = exported /\ cursor' = cursor /\ task' = task /\ again' = again
    BY <1>00 DEF LoseJob, storage
  <2>2. Once(e)
    BY <2>1 DEF OnceOK
  <2>3. \A u \in JobThread : Exporting(u, e)' => Exporting(u, e)
    BY <2>1 DEF Exporting
  <2> QED
    BY <1>00, <2>1, <2>2, <2>3, OnceKept, LosePages
<1> SUFFICES ASSUME NEW t \in JobThread, Acts(t)
             PROVE  Once(e)'
  BY <1>00 DEF Next, Acts
<1> DEFINE Starting == \/ Start(t) \/ Check(t) \/ Claim(t) \/ ResetCursor(t) \/ ResetLimit(t) \/ ResetStart(t)
                       \/ InitCursor(t) \/ SetLimit(t) \/ EnqueueFirst(t)
<1>1. CASE Starting
  <2>1. exported' = exported
    BY <1>1 DEF Start, Check, Claim, ResetCursor, ResetLimit, ResetStart, InitCursor, SetLimit, EnqueueFirst
  <2>2. starts = 0 \/ task[t].at \in StartPlaces
    <3>1. Start(t) => starts = 0
      BY <1>a DEF Start
    <3> QED
      BY <1>1, <3>1 DEF Check, Claim, ResetCursor, ResetLimit, ResetStart, InitCursor, SetLimit, EnqueueFirst
  <2>3. exported[e] = 0 /\ \A u \in JobThread : u # t => task[u].at = "idle"
    BY <2>2, <1>a DEF FirstOK
  <2>4. \A u \in JobThread : task'[u].at # "export"
    BY <1>1, <2>3, StartPages
  <2> QED
    BY <2>1, <2>3, <2>4 DEF Once, Exporting
<1>c. ASSUME ~ Starting
      PROVE  starts = 1 /\ Once(e) /\ ~ races /\ ~ outdated /\ ~ Excused(e, again)
  <2>1. starts' = starts
    <3>1. CASE Throw(t) \/ Crash(t)
      BY <3>1, AbandonEffects
    <3>2. CASE ~ (Throw(t) \/ Crash(t))
      BY <1>c, <3>2 DEF Acts, RunJob, SetTimestampBoundaries, Advance, EndExport, Fetch, PageFails, Export,
                        ExportFails, Retry
    <3> QED
      BY <3>1, <3>2
  <2>2. ~ races /\ ~ outdated
    BY <1>a DEF FirstOK
  <2>3. ~ Excused(e, again)
    BY OnlyGrow DEF Excused
  <2> QED
    BY <2>1, <2>2, <2>3 DEF OnceOK
<1> SUFFICES ASSUME ~ Starting
             PROVE  Once(e)'
  BY <1>1
<1>d. starts = 1 /\ Once(e) /\ ~ races /\ ~ outdated /\ ~ Excused(e, again)
  BY <1>c
<1>2. CASE RunJob(t)
  <2>1. PICK k \in DOMAIN jobs : task' = task \/ Becomes(t, "idle", StepTask("bounds", k, {}))
    BY <1>2, StepEffects
  <2>2. \A u \in JobThread : Exporting(u, e)' => Exporting(u, e)
    BY <2>1, Became, NewTasks DEF Exporting
  <2>3. exported' = exported /\ cursor' = cursor
    BY <1>2 DEF RunJob, storage
  <2> QED
    BY <1>2, <1>d, <2>2, <2>3, OnceKept, RunJobPages
<1>3. CASE SetTimestampBoundaries(t) \/ EndExport(t) \/ PageFails(t)
  <2>1. PICK before, after : Becomes(t, before, after) /\ after.at # "export"
    BY <1>3, StepEffects, NewTasks
  <2>2. \A u \in JobThread : Exporting(u, e)' => Exporting(u, e)
    BY <2>1, Became DEF Exporting
  <2>3. exported' = exported /\ cursor' = cursor
    BY <1>3 DEF SetTimestampBoundaries, EndExport, PageFails, storage
  <2> QED
    BY <1>3, <1>d, <2>2, <2>3, OnceKept, QuietPages
<1>4. CASE Advance(t)
  <2> DEFINE job == task[t].job
  <2>1. PICK at \in {"past", "fetch"} : Becomes(t, "advance", StepTask(at, Placed(job), {}))
    BY <1>4, StepEffects
  <2>2. \A u \in JobThread : Exporting(u, e)' => Exporting(u, e)
    BY <2>1, Became, NewTasks DEF Exporting
  <2>3. exported' = exported
    BY <1>4 DEF Advance
  <2>4. CASE HasPage(job)
    <3>1. cursor' = cursor
      BY <1>4, <2>4 DEF Advance, HasPage
    <3>2. \A j : Paged(j)' => Paged(j)
      BY <1>4, <2>4, AdvancePages
    <3> QED
      BY <1>d, <2>2, <2>3, <3>1, <3>2, OnceKept
  <2>5. CASE ~ HasPage(job)
    <3>1. cursor' = cursor + Interval /\ Placed(job).timestampCursor = cursor + Interval
      BY <1>4, <1>d, <2>5, NewInterval DEF HasPage
    <3>2. Ahead(e, Placed(job)) => Reached <= timestamp[e]
      BY <3>1 DEF Ahead, InInterval, Reached
    <3>3. \A j : Paged(j)' => Paged(j) \/ j = Placed(job)
      BY <1>4, AdvancePages
    <3> QED
      BY <1>d, <2>2, <2>3, <3>1, <3>2, <3>3, OnceKept
  <2> QED
    BY <2>4, <2>5
<1>5. CASE Fetch(t)
  <2> DEFINE job == task[t].job
             c == job.timestampCursor
             offset == job.intraIntervalOffset
  <2>0. PICK events \in Pages(c, offset) : /\ Becomes(t, "fetch", StepTask("export", job, events))
                                           /\ jobs' = Added(jobs, NextJob(job, events))
    BY <1>5, StepEffects
  <2> DEFINE next == NextJob(job, events)
  <2>1. Becomes(t, "fetch", StepTask("export", job, events)) /\ task[t].at = "fetch"
    BY <2>0 DEF Becomes
  <2>2. exported' = exported /\ cursor' = cursor
    BY <1>5 DEF Fetch, storage
  <2>3. /\ Paged(job)
        /\ \A j : Paged(j)' =>
             \/ j = next /\ HasPage(next)
             \/ j \in DOMAIN jobs /\ HasPage(j)
             \/ \E u \in JobThread : u # t /\ Holds(u) /\ task[u].job = j
    BY <2>0, FetchPages
  <2>4. c \in Int /\ offset \in Nat /\ Seen(c)
    BY <2>3, PagedTypes DEF Seen
  <2>5. PICK r \in Ranges : InRange(r)
    BY <1>d, <2>1 DEF RangeOK, NothingRuns
  <2>6. c <= cursor /\ InPhase(c, r) /\ InPhase(cursor, r)
    <3>1. CursorIn(r)
      BY <2>1, <2>5 DEF InRange, InRangeAt, StepPlaces
    <3> QED
      BY <2>4, <2>5, <3>1, SeenWithin DEF CursorIn
  <2>7. Ahead(e, next) => Place(c, e) >= offset + EventsPerRun /\ e \in InInterval(c)
    BY DEF Ahead, NextJob, StepJob
  <2>8. e \in events <=> e \in InInterval(c) /\ Place(c, e) \in offset .. offset + EventsPerRun - 1
    BY <2>0, <2>4, UntiedPage
  <2>9. Place(c, e) \in Nat
    BY <2>4, PlaceIsNat
  <2>10. Ahead(e, job) <=> e \in InInterval(c) /\ Place(c, e) >= offset
    BY DEF Ahead
  <2> HIDE DEF next, offset
  <2>11. /\ task'[t].at = "export" /\ task'[t].events = events
         /\ \A u \in JobThread : u # t => task'[u] = task[u]
    BY <2>1, Became, NewTasks
  <2>12. CASE e \in events
    <3>1. Ahead(e, job) /\ ~ Ahead(e, next)
      BY <2>7, <2>8, <2>9, <2>10, <2>12, <2>4, <1>b
    <3>2. exported[e] = 0 /\ \A u \in JobThread : ~ Exporting(u, e)
      BY <3>1, <2>3, <1>d, <1>b DEF Once
    <3>3. timestamp[e] < Reached
      <4>1. e \in InInterval(c) /\ Floor(c) \in Int /\ timestamp[e] < Floor(c) + Interval
        BY <2>4, <2>8, <2>12, Bounds
      <4>2. Reached = Floor(cursor) + Interval /\ Floor(cursor) \in Int
        BY ReachedMoves
      <4>3. Floor(c) <= Floor(cursor)
        BY <4>1, <4>2, <2>4, <2>6, <1>b DEF InPhase
      <4> QED
        BY <4>1, <4>2, <4>3, <1>b
    <3>4. c \notin again
      BY <1>d, <2>8, <2>12 DEF Excused
    <3>5. Sole(c) /\ Holds(t)
      BY <3>4, <1>d, <2>1 DEF SoleOK, Holds
    <3>6. ASSUME NEW d, Seen(d), e \in InInterval(d)
          PROVE  d = c
      <4>1. Apart(c, d) /\ d \in Int /\ InPhase(d, r)
        BY <3>6, <1>d, <2>4, <2>5, SeenWithin DEF SpacedOK
      <4>2. e \in InInterval(c)
        BY <2>8, <2>12
      <4> HIDE DEF c
      <4> QED
        BY <4>1, <4>2, <3>6, <2>4, <2>6, SameInterval
    <3>7. ASSUME NEW j, Paged(j)', Ahead(e, j)
          PROVE  FALSE
      <4>1. CASE j \in DOMAIN jobs /\ HasPage(j)
        <5>1. Seen(j.timestampCursor) /\ e \in InInterval(j.timestampCursor)
          BY <4>1, <3>7 DEF Seen, Paged, Ahead
        <5>2. j.timestampCursor = c
          BY <5>1, <3>6
        <5> QED
          BY <4>1, <5>2, <3>5 DEF Sole
      <4>2. CASE \E u \in JobThread : u # t /\ Holds(u) /\ task[u].job = j
        <5>1. PICK u \in JobThread : u # t /\ Holds(u) /\ task[u].job = j
          BY <4>2
        <5>2. Seen(j.timestampCursor) /\ e \in InInterval(j.timestampCursor)
          BY <5>1, <3>7 DEF Seen, Paged, Ahead
        <5>3. j.timestampCursor = c
          BY <5>2, <3>6
        <5> QED
          BY <5>1, <5>3, <3>5 DEF Sole
      <4> QED
        BY <4>1, <4>2, <3>7, <3>1, <2>3
    <3>8. Reached' = Reached /\ \A j : Ahead(e, j)' <=> Ahead(e, j)
      BY <2>2, ReachedMoves DEF Ahead
    <3>9. \A u \in JobThread : Exporting(u, e)' => u = t
      BY <3>2, <2>11 DEF Exporting
    <3> QED
      BY <3>2, <3>3, <3>7, <3>8, <3>9, <2>2 DEF Once
  <2>13. CASE e \notin events
    <3>1. \A u \in JobThread : Exporting(u, e)' => Exporting(u, e)
      BY <2>11, <2>13 DEF Exporting
    <3>2. Ahead(e, next) => Ahead(e, job)
      BY <2>7, <2>9, <2>10, <2>4, <1>b
    <3>3. \A j : Paged(j)' /\ Ahead(e, j) => \E k : Paged(k) /\ Ahead(e, k)
      BY <2>3, <3>2 DEF Paged
    <3> QED
      BY <1>d, <2>2, <3>1, <3>3, OnceKept
  <2> QED
    BY <2>12, <2>13
<1>6. CASE Export(t)
  <2>1. Becomes(t, "export", NoTask)
    BY <1>6, StepEffects
  <2>2. \A u \in JobThread : Exporting(u, e)' => Exporting(u, e) /\ u # t
    BY <2>1, Became, NewTasks DEF Exporting
  <2>3. cursor' = cursor /\ \A j : Paged(j)' => Paged(j)
    BY <1>6, QuietPages DEF Export, storage
  <2>5. CASE exported'[e] = exported[e]
    BY <1>d, <2>2, <2>3, <2>5, OnceKept
  <2>6. CASE exported'[e] # exported[e]
    <3>1. Exporting(t, e) /\ exported'[e] = exported[e] + 1
      BY <1>6, <2>6, <2>1 DEF Export, Exporting, Becomes
    <3>2. exported[e] = 0 /\ \A u \in JobThread : ~ Exporting(u, e)'
      BY <3>1, <2>2, <1>b, <1>d DEF Once
    <3>3. timestamp[e] < Reached /\ \A j : Paged(j) => ~ Ahead(e, j)
      BY <3>1, <1>d DEF Once
    <3>4. /\ \A j : Ahead(e, j)' <=> Ahead(e, j)
          /\ Reached' = Reached
      BY <2>3, ReachedMoves DEF Ahead
    <3> QED
      BY <3>1, <3>2, <3>3, <3>4, <2>3 DEF Once
  <2> QED
    BY <2>5, <2>6
<1>7. CASE ExportFails(t)
  <2> DEFINE job == task[t].job
  <2>1. PICK after : Becomes(t, "export", after) /\ after.at # "export"
    BY <1>7, StepEffects, NewTasks
  <2>2. \A u \in JobThread : Exporting(u, e)' => Exporting(u, e)
    BY <2>1, Became DEF Exporting
  <2>3. exported' = exported /\ cursor' = cursor
    BY <1>7 DEF ExportFails, storage
  <2>4. \A j : Paged(j)' => Paged(j) \/ (j = job /\ job.timestampCursor \in again')
    BY <1>7, ExportFailsPages
  <2>5. job.timestampCursor \in again' => ~ Ahead(e, job)
    BY DEF Excused, Ahead
  <2> QED
    BY <1>d, <2>2, <2>3, <2>4, <2>5, OnceKept
<1>8. CASE Retry(t)
  <2> DEFINE job == task[t].job
  <2>1. Becomes(t, "retry", NoTask)
    BY <1>8, StepEffects
  <2>2. \A u \in JobThread : Exporting(u, e)' => Exporting(u, e)
    BY <2>1, Became, NewTasks DEF Exporting
  <2>3. exported' = exported /\ cursor' = cursor
    BY <1>8 DEF Retry, storage
  <2>4. Ahead(e, RetryJob(job)) => Ahead(e, job)
    BY DEF Ahead, RetryJob, StepJob
  <2>5. Paged(job) /\ \A j : Paged(j)' => Paged(j) \/ j = RetryJob(job)
    BY <1>8, RetryPages
  <2> QED
    BY <1>d, <2>2, <2>3, <2>4, <2>5, OnceKept
<1>9. CASE Throw(t) \/ Crash(t)
  <2>1. Becomes(t, task[t].at, NoTask) /\ exported' = exported /\ cursor' = cursor
    BY <1>9, AbandonEffects
  <2>2. \A u \in JobThread : Exporting(u, e)' => Exporting(u, e)
    BY <2>1, Became, NewTasks DEF Exporting
  <2> QED
    BY <1>9, <1>d, <2>1, <2>2, OnceKept, AbandonPages
<1> QED
  BY <1>2, <1>3, <1>4, <1>5, <1>6, <1>7, <1>8, <1>9 DEF Acts

(* A nonempty set of naturals has a least element.                           *)
LEMMA LeastNat ==
  ASSUME NEW T, T \subseteq Nat, T # {}
  PROVE  \E x \in T : \A y \in T : x <= y
<1>1. \E x \in T : \A y \in T : ~ (<<y, x>> \in OpToRel(<, Nat))
  BY WFMin, NatLessThanWellFounded
<1>2. PICK x \in T : \A y \in T : ~ (<<y, x>> \in OpToRel(<, Nat))
  BY <1>1
<1>3. \A y \in T : ~ (y < x)
  BY <1>2 DEF OpToRel
<1> QED
  BY <1>3

(* The events before one and those that tie with it, counted.                *)
Before(c, d) == {x \in InInterval(c) : orderKey[x] < orderKey[d]}

LEMMA Counted ==
  ASSUME NEW c, NEW d \in InInterval(c)
  PROVE  /\ Place(c, d) = Cardinality(Before(c, d)) /\ Place(c, d) \in Nat
         /\ Cardinality(Tied(c, d)) \in Nat \ {0}
         /\ Cardinality(Before(c, d) \cup Tied(c, d)) = Place(c, d) + Cardinality(Tied(c, d))
<1> DEFINE B == Before(c, d)
           T == Tied(c, d)
<1>1. IsFiniteSet(InInterval(c)) /\ Place(c, d) \in Nat /\ Place(c, d) = Cardinality(B)
  BY PlaceIsNat DEF Before, Place
<1>2. B \subseteq InInterval(c) /\ T \subseteq InInterval(c) /\ d \in T
  BY DEF Before, Tied
<1>3. B \cap T = {}
  <2> SUFFICES ASSUME NEW x \in B, x \in T
               PROVE  FALSE
    OBVIOUS
  <2>1. orderKey[x] < orderKey[d] /\ orderKey[x] = orderKey[d] /\ d \in Events
    BY DEF Before, Tied, InInterval
  <2>2. orderKey[d] \in Nat
    BY <2>1, ExportAssumption
  <2> QED
    BY <2>1, <2>2
<1> HIDE DEF B, T
<1>4. IsFiniteSet(B) /\ IsFiniteSet(T) /\ Cardinality(B) \in Nat /\ Cardinality(T) \in Nat
  BY <1>1, <1>2, FS_Subset, FS_CardinalityType
<1>5. Cardinality(T) # 0
  BY <1>2, <1>4, FS_EmptySet
<1>6. Cardinality(B \cup T) = Cardinality(B) + Cardinality(T) - Cardinality(B \cap T)
  BY <1>4, FS_Union
<1>7. Cardinality(B \cup T) = Cardinality(B) + Cardinality(T)
  <2>1. Cardinality(B \cap T) = 0
    BY <1>3, FS_EmptySet
  <2> QED
    BY <1>4, <1>6, <2>1
<1> QED
  BY <1>1, <1>4, <1>5, <1>7 DEF B, T

(* The places in an interval follow one another without a gap: while an event *)
(* is at an offset or after it, the page there is not empty.                 *)
LEMMA PageNotEmpty ==
  ASSUME NEW c, NEW e \in InInterval(c), NEW o \in Nat, Place(c, e) >= o, NEW page \in Pages(c, o)
  PROVE  page # {}
<1> DEFINE Upto(d) == Place(c, d) + Cardinality(Tied(c, d))
           After == {d \in InInterval(c) : Upto(d) > o}
           Keys == {orderKey[d] : d \in After}
<1>a. \A d \in InInterval(c) : d \in Events /\ orderKey[d] \in Nat
  BY ExportAssumption DEF InInterval
<1>b. \A d \in InInterval(c) : Place(c, d) \in Nat /\ Cardinality(Tied(c, d)) \in Nat \ {0} /\ Upto(d) \in Nat
  <2> SUFFICES ASSUME NEW d \in InInterval(c)
               PROVE  Place(c, d) \in Nat /\ Cardinality(Tied(c, d)) \in Nat \ {0} /\ Upto(d) \in Nat
    OBVIOUS
  <2>1. Place(c, d) \in Nat /\ Cardinality(Tied(c, d)) \in Nat \ {0}
    BY Counted
  <2> QED
    BY <2>1
<1>1. e \in After
  BY <1>b
<1>2. Keys \subseteq Nat /\ Keys # {}
  BY <1>1, <1>a
<1>3. PICK k \in Keys : \A y \in Keys : k <= y
  BY <1>2, LeastNat
<1>4. PICK d \in After : orderKey[d] = k
  BY <1>3
<1>5. ASSUME Place(c, d) > o
      PROVE  FALSE
  <2> DEFINE Gaps == {orderKey[d] - orderKey[x] : x \in Before(c, d)}
  <2>0. d \in InInterval(c) /\ \A x \in Before(c, d) : x \in InInterval(c) /\ orderKey[x] < orderKey[d]
    BY DEF Before
  <2>1. Before(c, d) # {}
    BY <1>5, <2>0, Counted, FS_EmptySet
  <2>2. Gaps \subseteq Nat /\ Gaps # {}
    BY <2>0, <2>1, <1>a
  <2>3. PICK g \in Gaps : \A y \in Gaps : g <= y
    BY <2>2, LeastNat
  <2>4. PICK m \in Before(c, d) : orderKey[d] - orderKey[m] = g
    BY <2>3
  <2>5. m \in InInterval(c) /\ orderKey[m] < orderKey[d]
    BY <2>0, <2>4
  <2>6. \A x \in Before(c, d) : orderKey[x] <= orderKey[m]
    <3> SUFFICES ASSUME NEW x \in Before(c, d)
                 PROVE  orderKey[x] <= orderKey[m]
      OBVIOUS
    <3>1. orderKey[d] - orderKey[m] <= orderKey[d] - orderKey[x]
      BY <2>3, <2>4
    <3>2. orderKey[x] \in Nat /\ orderKey[m] \in Nat /\ orderKey[d] \in Nat
      BY <1>a, <2>0, <2>5
    <3> QED
      BY <3>1, <3>2
  <2>7. Before(c, d) = Before(c, m) \cup Tied(c, m)
    <3>1. \A x \in InInterval(c) : orderKey[x] < orderKey[d] <=> orderKey[x] < orderKey[m] \/ orderKey[x] = orderKey[m]
      <4> SUFFICES ASSUME NEW x \in InInterval(c)
                   PROVE  orderKey[x] < orderKey[d] <=> orderKey[x] < orderKey[m] \/ orderKey[x] = orderKey[m]
        OBVIOUS
      <4>1. orderKey[x] \in Nat /\ orderKey[m] \in Nat /\ orderKey[d] \in Nat
        BY <1>a, <2>0, <2>5
      <4>2. orderKey[x] < orderKey[d] => orderKey[x] <= orderKey[m]
        BY <2>6 DEF Before
      <4> QED
        BY <4>1, <4>2, <2>5
    <3> QED
      BY <3>1 DEF Before, Tied
  <2>8. Upto(m) = Place(c, d)
    BY <2>0, <2>5, <2>7, Counted
  <2>9. m \in After
    BY <2>5, <2>8, <1>5
  <2>10. orderKey[m] \in Keys /\ orderKey[m] \in Nat /\ orderKey[d] \in Nat
    BY <2>0, <2>5, <2>9, <1>a
  <2> HIDE DEF Keys
  <2> QED
    BY <2>5, <2>10, <1>3, <1>4
<1> DEFINE onPage == o .. o + EventsPerRun - 1
<1>6. o \in Places(c, d) /\ o \in onPage
  <2>1. d \in InInterval(c) /\ Upto(d) > o /\ EventsPerRun \in Nat \ {0}
    BY ExportAssumption
  <2>2. Place(c, d) \in Nat /\ Cardinality(Tied(c, d)) \in Nat
    BY <2>1, <1>b
  <2> QED
    BY <1>5, <2>1, <2>2 DEF Places
<1>7. IsFiniteSet(Places(c, d) \cap onPage)
  <2>1. IsFiniteSet(onPage)
    <3>1. o + EventsPerRun - 1 \in Int
      BY ExportAssumption
    <3> QED
      BY <3>1, FS_Interval
  <2> QED
    BY <2>1, FS_Subset
<1>8. Cardinality(Places(c, d) \cap onPage) # 0
  <2> DEFINE both == Places(c, d) \cap onPage
  <2>1. o \in both /\ IsFiniteSet(both)
    BY <1>6, <1>7
  <2> HIDE DEF both
  <2>2. Cardinality(both) # 0
    BY <2>1, FS_EmptySet
  <2> QED
    BY <2>2 DEF both
<1>9. Cardinality(page \cap Tied(c, d)) = Cardinality(Places(c, d) \cap onPage)
  BY DEF Pages
<1>10. page = {} => Cardinality(page \cap Tied(c, d)) = 0
  <2>1. {} \cap Tied(c, d) = {}
    OBVIOUS
  <2> QED
    BY <2>1, FS_EmptySet
<1> QED
  BY <1>8, <1>9, <1>10

(* While the only export started is under way, each event between its dates   *)
(* is still to come, on a page or in hand, exported or excused.              *)
Cover(e) ==
  \/ Excused(e, givenUp) \/ exported[e] > 0
  \/ \E t \in JobThread : Exporting(t, e)
  \/ \E j : Paged(j) /\ Ahead(e, j)
  \/ Reached <= timestamp[e] /\ isExportRunning
Asked(e, r) == Untied(e) /\ r[1] <= timestamp[e] /\ timestamp[e] + (r[1] % Precision) <= r[2]
CoverOK == starts = 1 /\ ~ stuck /\ storedMax > 0 =>
  \E r \in Ranges : /\ storedMax = r[2] /\ InPhase(cursor, r)
                    /\ \A e \in Events : Asked(e, r) => Cover(e)

(* An event stays covered when nothing that covers it goes.                  *)
LEMMA CoverKept ==
  ASSUME NEW e, Cover(e), givenUp \subseteq givenUp', exported[e] > 0 => exported'[e] > 0,
         \A u \in JobThread : Exporting(u, e) => Exporting(u, e)' \/ Cover(e)',
         \A j : Paged(j) /\ Ahead(e, j) => Paged(j)' \/ Cover(e)',
         Reached <= timestamp[e] /\ isExportRunning => (Reached' <= timestamp[e] /\ isExportRunning') \/ Cover(e)'
  PROVE  Cover(e)'
<1>1. \A j : Ahead(e, j)' <=> Ahead(e, j)
  BY DEF Ahead
<1>2. Excused(e, givenUp) => Excused(e, givenUp)'
  BY DEF Excused
<1> QED
  BY <1>1, <1>2 DEF Cover

(* Past the end of the range the bound is past the events asked for.         *)
LEMMA AskedBefore ==
  ASSUME NEW r \in Ranges, NEW e \in Events, Asked(e, r), NEW c \in Int, InPhase(c, r), c > r[2]
  PROVE  timestamp[e] < Floor(c)
<1>1. r[1] \in Nat /\ r[2] \in Nat /\ Floor(r[1]) \in Int /\ Floor(c) \in Int /\ timestamp[e] \in Nat
  BY Phases, FloorMoves, ExportAssumption
<1>2. r[1] % Precision = r[1] - Floor(r[1])
  BY <1>1, FloorMoves
<1>3. timestamp[e] + (r[1] - Floor(r[1])) <= r[2] /\ c - Floor(c) = r[1] - Floor(r[1])
  BY <1>2 DEF Asked, InPhase
<1> QED
  BY <1>1, <1>3

(* No step drops an event: a page that is fetched goes on with the next one, *)
(* an interval that is done with the one after it, a page that is tried      *)
(* again with itself.                                                        *)
LEMMA CoverStep ==
  ASSUME HistoryTyping, RangeOK, FirstOK, CoverOK, [Next]_vars
  PROVE  CoverOK'
<1> USE DEF StartPlaces
<1>0. CASE UNCHANGED vars
  BY <1>0 DEF CoverOK, Cover, Reached, InPhase, Paged, Holds, Exporting, vars, storage, history
<1>00. CASE LoseJob
  BY <1>00 DEF LoseJob, CoverOK
<1> SUFFICES ASSUME NEW t \in JobThread, Acts(t), starts' = 1, ~ stuck', storedMax' > 0
             PROVE  CoverOK'
  BY <1>0, <1>00 DEF Next, Acts, CoverOK
<1>a. starts \in {0, 1} /\ ~ stuck /\ givenUp \subseteq givenUp'
  BY OnlyGrow DEF HistoryTyping
<1>b. /\ Interval \in Nat \ {0} /\ cursor \in Int /\ EventsPerRun \in Nat \ {0} /\ Reached \in Int
      /\ \A e \in Events : timestamp[e] \in Nat
  BY ExportAssumption, ReachedMoves DEF HistoryTyping
<1>1. CASE Start(t) \/ Check(t) \/ Claim(t) \/ ResetCursor(t) \/ ResetLimit(t) \/ ResetStart(t) \/ InitCursor(t)
  <2>1. storedMax' = storedMax \/ storedMax' = 0
    BY <1>1 DEF Start, Check, Claim, ResetCursor, ResetLimit, ResetStart, InitCursor, storage
  <2>2. Start(t) => starts = 0
    BY <1>a DEF Start
  <2>3. task[t].at \in {"check", "claim", "reset", "resetLimit", "resetStart", "init"} \/ starts = 0
    BY <1>1, <2>2 DEF Check, Claim, ResetCursor, ResetLimit, ResetStart, InitCursor
  <2>4. storedMax = 0
    BY <2>3, <1>a DEF FirstOK
  <2> QED
    BY <2>1, <2>4
<1>2. CASE SetLimit(t)
  <2>1. /\ task[t].at = "limit" /\ storedMax' = task[t].range[2]
        /\ cursor' = cursor /\ isExportRunning' = isExportRunning
    BY <1>2 DEF SetLimit
  <2>3. PICK r \in Ranges : InRange(r)
    BY <1>a, <2>1 DEF RangeOK, NothingRuns, FirstOK
  <2>4. task[t].range = r /\ cursor = r[1] - Interval /\ isExportRunning
    BY <1>a, <2>1, <2>3 DEF InRange, InRangeAt, Starts, FirstOK
  <2>5. InPhase(cursor, r)' /\ Reached' = Floor(r[1]) /\ r[1] \in Nat /\ Floor(r[1]) \in Int /\ Floor(r[1]) <= r[1]
    <3>1. InPhase(cursor', r) /\ Reached' = Reached /\ r[1] \in Nat /\ Floor(r[1]) \in Int /\ Floor(r[1]) <= r[1]
      BY <2>1, <2>4, Phases, ReachedMoves
    <3>2. cursor + Interval = r[1]
      BY <2>4, <3>1, <1>b
    <3> QED
      BY <3>1, <3>2 DEF Reached, InPhase
  <2>6. \A e \in Events : Asked(e, r) => Cover(e)'
    BY <2>1, <2>4, <2>5, <1>b DEF Asked, Cover
  <2> QED
    BY <2>1, <2>4, <2>5, <2>6 DEF CoverOK, Asked
<1> SUFFICES ASSUME ~ (\/ Start(t) \/ Check(t) \/ Claim(t) \/ ResetCursor(t) \/ ResetLimit(t) \/ ResetStart(t)
                       \/ InitCursor(t) \/ SetLimit(t))
             PROVE  CoverOK'
  BY <1>1, <1>2
<1>e. starts = 1 /\ storedMax' = storedMax
  <2>1. CASE Throw(t) \/ Crash(t)
    BY <2>1, AbandonEffects
  <2>2. CASE ~ (Throw(t) \/ Crash(t))
    BY <2>2 DEF Acts, EnqueueFirst, RunJob, SetTimestampBoundaries, Advance, EndExport, Fetch, PageFails, Export,
                ExportFails, Retry, storage
  <2> QED
    BY <2>1, <2>2
<1>5. PICK r \in Ranges : storedMax = r[2] /\ InPhase(cursor, r) /\ \A e \in Events : Asked(e, r) => Cover(e)
  BY <1>a, <1>e DEF CoverOK
<1>i. ASSUME task[t].at \in StepPlaces
      PROVE  \E q \in Ranges : InRange(q) /\ q[2] = r[2]
  <2>1. PICK q \in Ranges : InRange(q)
    BY <1>i, <1>a DEF RangeOK, NothingRuns, FirstOK, StepPlaces
  <2>2. storedMax = q[2]
    BY <2>1, <1>i DEF InRange, InRangeAt
  <2> QED
    BY <2>1, <2>2, <1>5
<1>n. ASSUME Advance(t), NextInterval(task[t].job)
      PROVE  cursor' = cursor + Interval /\ Placed(task[t].job).timestampCursor = cursor + Interval
  BY <1>a, <1>n, NewInterval DEF FirstOK
<1>6. cursor' \in {cursor, cursor + Interval}
  <2>1. CASE Advance(t)
    BY <1>n, <2>1 DEF Advance
  <2>2. CASE Throw(t) \/ Crash(t)
    BY <2>2, AbandonEffects
  <2>3. CASE ~ (Throw(t) \/ Crash(t) \/ Advance(t))
    BY <2>3 DEF Acts, EnqueueFirst, RunJob, SetTimestampBoundaries, EndExport, Fetch, PageFails, Export,
                ExportFails, Retry, storage
  <2> QED
    BY <2>1, <2>2, <2>3
<1>7. InPhase(cursor, r)'
  <2>1. InPhase(cursor + Interval, r)
    BY <1>b, <1>5, Phases
  <2>2. InPhase(cursor', r)
    BY <1>5, <1>6, <2>1
  <2> QED
    BY <2>2 DEF InPhase
<1> SUFFICES ASSUME NEW e \in Events, Asked(e, r), Cover(e)
             PROVE  Cover(e)'
  <2>1. \A e \in Events : Asked(e, r) => Cover(e)'
    BY <1>5
  <2> QED
    BY <1>e, <1>5, <1>7, <2>1 DEF CoverOK, Asked
<1>f. Excused(e, givenUp') => Cover(e)'
  BY DEF Cover
<1>g. \A u \in JobThread : Exporting(u, e)' => Cover(e)'
  BY DEF Cover
<1>h. \A j : Paged(j)' /\ Ahead(e, j) => Cover(e)'
  <2>1. \A j : Ahead(e, j)' <=> Ahead(e, j)
    BY DEF Ahead
  <2> QED
    BY <2>1 DEF Cover
<1>j. \A j : Ahead(e, j) /\ j.timestampCursor \in givenUp' => Cover(e)'
  BY <1>f DEF Ahead, Excused
<1>k. ASSUME cursor' = cursor, isExportRunning' = isExportRunning
      PROVE  Reached <= timestamp[e] /\ isExportRunning => Reached' <= timestamp[e] /\ isExportRunning'
  BY <1>k, ReachedMoves
<1>8. CASE EnqueueFirst(t)
  <2>1. Becomes(t, "first", NoTask)
    BY <1>8, StartEffects
  <2>2. \A u \in JobThread : Exporting(u, e) => Exporting(u, e)'
    BY <2>1, Became DEF Exporting
  <2>3. exported' = exported /\ cursor' = cursor /\ isExportRunning' = isExportRunning
    BY <1>8 DEF EnqueueFirst, storage
  <2> QED
    BY <1>8, <1>a, <1>k, <2>2, <2>3, CoverKept, StartPages
<1>9. CASE RunJob(t)
  <2>1. PICK k \in DOMAIN jobs : task' = task \/ Becomes(t, "idle", StepTask("bounds", k, {}))
    BY <1>9, StepEffects
  <2>2. \A u \in JobThread : Exporting(u, e) => Exporting(u, e)'
    BY <2>1, Became DEF Exporting
  <2>3. exported' = exported /\ cursor' = cursor /\ isExportRunning' = isExportRunning
    BY <1>9 DEF RunJob, storage
  <2>4. \A j : Paged(j) /\ Ahead(e, j) => Paged(j)' \/ Cover(e)'
    BY <1>9, <1>j, RunJobPages
  <2> QED
    BY <1>a, <1>k, <2>2, <2>3, <2>4, CoverKept
<1>10. CASE SetTimestampBoundaries(t) \/ PageFails(t)
  <2>1. PICK before, after : before \in {"bounds", "fetch"} /\ Becomes(t, before, after)
    BY <1>10, StepEffects
  <2>2. \A u \in JobThread : Exporting(u, e) => Exporting(u, e)'
    BY <2>1, Became DEF Exporting
  <2>3. exported' = exported /\ cursor' = cursor /\ isExportRunning' = isExportRunning
    BY <1>10 DEF SetTimestampBoundaries, PageFails, storage
  <2> QED
    BY <1>10, <1>a, <1>k, <2>2, <2>3, CoverKept, QuietPages
<1>11. CASE EndExport(t)
  <2>1. Becomes(t, "past", NoTask) /\ task[t].at = "past"
    BY <1>11, StepEffects DEF EndExport
  <2>2. \A u \in JobThread : Exporting(u, e) => Exporting(u, e)'
    BY <2>1, Became DEF Exporting
  <2>3. exported' = exported
    BY <1>11 DEF EndExport
  <2>4. PICK q \in Ranges : InRange(q) /\ q[2] = r[2]
    BY <1>i, <2>1 DEF StepPlaces
  <2>5. cursor > r[2]
    BY <2>1, <2>4 DEF InRange, InRangeAt
  <2>6. timestamp[e] < Floor(cursor)
    BY <2>5, <1>5, <1>b, AskedBefore
  <2>7. ~ (Reached <= timestamp[e])
    BY <2>6, <1>b, ReachedMoves
  <2> QED
    BY <1>11, <1>a, <2>2, <2>3, <2>7, CoverKept, QuietPages
<1>12. CASE Advance(t)
  <2> DEFINE job == task[t].job
             past == Placed(job).timestampCursor > maxTimestamp[t]
  <2>1. task[t].at = "advance" /\ exported' = exported /\ isExportRunning' = isExportRunning
    BY <1>12 DEF Advance
  <2>2. PICK at : Becomes(t, "advance", StepTask(at, Placed(job), {}))
    BY <1>12, StepEffects
  <2>3. \A u \in JobThread : Exporting(u, e) => Exporting(u, e)'
    BY <2>2, Became DEF Exporting
  <2>4. PICK q \in Ranges : InRange(q) /\ q[2] = r[2]
    BY <1>i, <2>1 DEF StepPlaces
  <2>5. maxTimestamp[t] = r[2] /\ r[2] \in Nat
    BY <1>5, <2>1, <2>4, ExportAssumption DEF InRange, InRangeAt, StepPlaces
  <2>6. /\ \A j : Paged(j) => Paged(j)' \/ (past /\ HasPage(job) /\ j = job)
        /\ \A j : ~ past /\ j = Placed(job) => Paged(j)'
        /\ HasPage(job) => Placed(job) = job /\ Paged(job)
    BY <1>12, AdvancePages
  <2>7. HasPage(job) => ~ past
    <3> SUFFICES ASSUME HasPage(job)
                 PROVE  ~ past
      OBVIOUS
    <3>1. Paged(job) /\ Placed(job) = job
      BY <2>6
    <3>2. job.timestampCursor \in Int /\ job.timestampCursor <= r[2]
      BY <3>1, <2>4, PagedTypes DEF InRange, Within
    <3> QED
      BY <3>1, <3>2, <2>5
  <2>8. \A j : Paged(j) /\ Ahead(e, j) => Paged(j)'
    BY <2>6, <2>7
  <2>9. Reached <= timestamp[e] /\ isExportRunning => (Reached' <= timestamp[e] /\ isExportRunning') \/ Cover(e)'
    <3> SUFFICES ASSUME Reached <= timestamp[e], isExportRunning
                 PROVE  (Reached' <= timestamp[e] /\ isExportRunning') \/ Cover(e)'
      OBVIOUS
    <3>1. CASE HasPage(job)
      <4>1. cursor' = cursor
        BY <1>12, <3>1 DEF Advance, HasPage
      <4> QED
        BY <4>1, <2>1, <1>k
    <3>2. CASE ~ HasPage(job)
      <4> DEFINE c == cursor + Interval
      <4>1. cursor' = c /\ Placed(job).timestampCursor = c
        BY <1>12, <3>2, <1>n DEF HasPage
      <4>2. Reached' = Reached + Interval /\ Reached = Floor(c) /\ c \in Int /\ Floor(c + Interval) = Floor(c) + Interval
        BY <4>1, <1>b, ReachedMoves, FloorMoves DEF Reached
      <4>3. ~ past
        <5> SUFFICES ASSUME past
                     PROVE  FALSE
          OBVIOUS
        <5>1. c > r[2] /\ InPhase(c, r)
          BY <4>1, <2>5, <1>5, <1>b, Phases
        <5>2. timestamp[e] < Floor(c)
          BY <5>1, <4>2, AskedBefore
        <5> QED
          BY <5>2, <4>2, <1>b
      <4>4. Placed(job).intraIntervalOffset = 0
        <5>1. job \in JobRecs
          BY <2>1, Moved DEF StepPlaces
        <5> QED
          BY <5>1, <3>2 DEF Placed, HasPage, JobRecs
      <4>5. CASE Reached + Interval <= timestamp[e]
        BY <4>2, <4>5, <2>1
      <4>6. CASE timestamp[e] < Reached + Interval
        <5>1. e \in InInterval(c) /\ Place(c, e) \in Nat
          BY <4>2, <4>6, PlaceIsNat DEF InInterval
        <5> HIDE DEF c, past, job
        <5>2. Ahead(e, Placed(job))
          BY <4>1, <4>4, <5>1 DEF Ahead
        <5> QED
          BY <5>2, <4>3, <2>6, <1>h
      <4>7. Reached + Interval <= timestamp[e] \/ timestamp[e] < Reached + Interval
        BY <1>b
      <4> QED
        BY <4>5, <4>6, <4>7
    <3> QED
      BY <3>1, <3>2
  <2> QED
    BY <1>a, <2>1, <2>3, <2>8, <2>9, CoverKept
<1>13. CASE Fetch(t)
  <2> DEFINE job == task[t].job
             c == job.timestampCursor
             o == job.intraIntervalOffset
  <2>0. PICK events \in Pages(c, o) : /\ Becomes(t, "fetch", StepTask("export", job, events))
                                      /\ jobs' = Added(jobs, NextJob(job, events))
    BY <1>13, StepEffects
  <2> DEFINE next == NextJob(job, events)
  <2>1. Becomes(t, "fetch", StepTask("export", job, events)) /\ task[t].at = "fetch"
    BY <2>0 DEF Becomes
  <2>2. exported' = exported /\ cursor' = cursor /\ isExportRunning' = isExportRunning
    BY <1>13 DEF Fetch, storage
  <2>3. /\ Paged(job)
        /\ \A j : Paged(j) => Paged(j)' \/ j = job
        /\ \A j : j = next /\ HasPage(next) => Paged(j)'
    BY <2>0, FetchPages
  <2>4. c \in Int /\ o \in Nat
    BY <2>3, PagedTypes
  <2>5. e \in events <=> e \in InInterval(c) /\ Place(c, e) \in o .. o + EventsPerRun - 1
    BY <2>0, <2>4, UntiedPage DEF Asked
  <2>6. /\ HasPage(next) <=> ~ (events = {}) /\ c # None
        /\ Ahead(e, next) <=> e \in InInterval(c) /\ Place(c, e) >= o + EventsPerRun
    BY DEF HasPage, NextInterval, NextJob, StepJob, Ahead
  <2>7. c # None
    <3>1. PICK q \in Ranges : InRange(q)
      BY <1>i, <2>1 DEF StepPlaces
    <3>2. q[1] <= c /\ q[1] \in Nat
      BY <3>1, <2>3, ExportAssumption DEF InRange, Within
    <3> QED
      BY <3>2, <2>4, <1>b DEF None
  <2> HIDE DEF next
  <2>8. /\ task'[t].at = "export" /\ task'[t].events = events
        /\ \A u \in JobThread : u # t => task'[u] = task[u]
    BY <2>1, Became, NewTasks
  <2>9. Ahead(e, job) => Cover(e)'
    <3> SUFFICES ASSUME Ahead(e, job)
                 PROVE  Cover(e)'
      OBVIOUS
    <3>1. e \in InInterval(c) /\ Place(c, e) >= o /\ Place(c, e) \in Nat
      BY PlaceIsNat DEF Ahead
    <3>2. CASE e \in events
      BY <3>2, <2>8, <1>g DEF Exporting
    <3>3. CASE e \notin events
      <4> HIDE DEF c, o
      <4>1. Place(c, e) >= o + EventsPerRun
        BY <3>1, <3>3, <2>4, <2>5, <1>b
      <4>2. events # {}
        BY <3>1, <2>0, <2>4, PageNotEmpty
      <4> QED
        BY <4>1, <4>2, <3>1, <2>3, <2>6, <2>7, <1>h
    <3> QED
      BY <3>2, <3>3
  <2>10. \A u \in JobThread : Exporting(u, e) => Exporting(u, e)'
    BY <2>1, <2>8 DEF Exporting
  <2>11. \A j : Paged(j) /\ Ahead(e, j) => Paged(j)' \/ Cover(e)'
    BY <2>3, <2>9
  <2> QED
    BY <1>a, <1>k, <2>2, <2>10, <2>11, CoverKept
<1>14. CASE Export(t)
  <2>1. Becomes(t, "export", NoTask)
    BY <1>14, StepEffects
  <2>2. cursor' = cursor /\ isExportRunning' = isExportRunning
    BY <1>14 DEF Export, storage
  <2>3. exported[e] > 0 => exported'[e] > 0
    BY <1>14 DEF Export, HistoryTyping
  <2>4. Exporting(t, e) => exported'[e] > 0
    BY <1>14 DEF Export, Exporting, HistoryTyping
  <2>5. \A u \in JobThread : Exporting(u, e) => Exporting(u, e)' \/ Cover(e)'
    BY <2>1, <2>4, Became DEF Exporting, Cover
  <2> QED
    BY <1>14, <1>a, <1>k, <2>2, <2>3, <2>5, CoverKept, QuietPages
<1>l. ASSUME task[t].at = "export", e \in task[t].events
      PROVE  Ahead(e, task[t].job)
  <2> DEFINE c == task[t].job.timestampCursor
             o == task[t].job.intraIntervalOffset
  <2>1. PICK q \in Ranges : InRange(q)
    BY <1>i, <1>l DEF StepPlaces
  <2>2. task[t].events \in Pages(c, o)
    BY <2>1, <1>l DEF InRange, InRangeAt
  <2>3. c \in Int /\ o \in Nat
    BY <1>l, Moved DEF StepPlaces, JobRecs
  <2>4. e \in InInterval(c) /\ Place(c, e) \in o .. o + EventsPerRun - 1
    BY <1>l, <2>2, <2>3, UntiedPage DEF Asked
  <2> QED
    BY <2>3, <2>4, <1>b DEF Ahead
<1>15. CASE ExportFails(t)
  <2>1. PICK after : Becomes(t, "export", after)
    BY <1>15, StepEffects
  <2>2. exported' = exported /\ cursor' = cursor /\ isExportRunning' = isExportRunning
    BY <1>15 DEF ExportFails, storage
  <2>3. /\ \A j : Paged(j) => Paged(j)'
        /\ task[t].job.timestampCursor \in givenUp' \/ \A j : j = task[t].job => Paged(j)'
    BY <1>15, ExportFailsPages
  <2>4. Exporting(t, e) => Cover(e)'
    BY <2>3, <1>h, <1>j, <1>l DEF Exporting
  <2>5. \A u \in JobThread : Exporting(u, e) => Exporting(u, e)' \/ Cover(e)'
    BY <2>1, <2>4, Became DEF Exporting
  <2> QED
    BY <1>a, <1>k, <2>2, <2>3, <2>5, CoverKept
<1>16. CASE Retry(t)
  <2> DEFINE job == task[t].job
  <2>1. Becomes(t, "retry", NoTask) /\ task[t].at = "retry"
    BY <1>16, StepEffects DEF Retry
  <2>2. exported' = exported /\ cursor' = cursor /\ isExportRunning' = isExportRunning
    BY <1>16 DEF Retry, storage
  <2>3. /\ Paged(job)
        /\ \A j : Paged(j) => Paged(j)' \/ j = job
        /\ \A j : j = RetryJob(job) /\ HasPage(j) => Paged(j)'
    BY <1>16, RetryPages
  <2>4. PICK q \in Ranges : InRange(q)
    BY <1>i, <2>1 DEF StepPlaces
  <2>5. job.timestampCursor # None
    BY <2>3, <2>4, <1>b, PagedTypes, ExportAssumption DEF InRange, Within, None
  <2>6. HasPage(RetryJob(job)) /\ (Ahead(e, job) => Ahead(e, RetryJob(job)))
    BY <2>5 DEF HasPage, NextInterval, RetryJob, StepJob, Ahead
  <2>7. \A u \in JobThread : Exporting(u, e) => Exporting(u, e)'
    BY <2>1, Became DEF Exporting
  <2>8. Ahead(e, job) => Cover(e)'
    BY <2>3, <2>6, <1>h
  <2>9. \A j : Paged(j) /\ Ahead(e, j) => Paged(j)' \/ Cover(e)'
    BY <2>3, <2>8
  <2> QED
    BY <1>a, <1>k, <2>2, <2>7, <2>9, CoverKept
<1>17. CASE Throw(t) \/ Crash(t)
  <2>1. /\ Becomes(t, task[t].at, NoTask) /\ exported' = exported /\ cursor' = cursor
        /\ isExportRunning' = isExportRunning
    BY <1>17, AbandonEffects
  <2>2. task[t].at = "export" => task[t].job.timestampCursor \in givenUp'
    BY <1>17, AbandonEffects
  <2>3. Exporting(t, e) => Cover(e)'
    BY <2>2, <1>j, <1>l DEF Exporting
  <2>4. \A u \in JobThread : Exporting(u, e) => Exporting(u, e)' \/ Cover(e)'
    BY <2>1, <2>3, Became DEF Exporting
  <2>5. \A j : Paged(j) /\ Ahead(e, j) => Paged(j)' \/ Cover(e)'
    BY <1>17, <1>j, AbandonPages
  <2> QED
    BY <1>a, <1>k, <2>1, <2>4, <2>5, CoverKept
<1> QED
  BY <1>8, <1>9, <1>10, <1>11, <1>12, <1>13, <1>14, <1>15, <1>16, <1>17 DEF Acts

(***************************************************************************)
(* The inductive invariant and the theorems                                 *)
(***************************************************************************)
HistoryInv ==
  /\ HistoryTyping /\ RetriesRemembered
  /\ FlagHasJob /\ OneUnlessAgain /\ StartsAlone
  /\ RangeOK /\ ExportedInRange
  /\ FirstOK /\ SpacedOK /\ SoleOK
  /\ OnceOK /\ CoverOK

(* The invariant holds at first, and every step keeps it.                    *)
LEMMA HistoryInit ==
  ASSUME Init
  PROVE  HistoryInv
<1> USE ExportAssumption DEF Init, NoTask
<1>1. DOMAIN jobs = {} /\ IsABag(jobs)
  BY DEF EmptyBag, SetToBag, IsABag
<1>2. \A t \in JobThread : task[t].at = "idle"
  OBVIOUS
<1>3. HistoryTyping
  <2>1. task \in [JobThread -> Tasks]
    BY DEF Tasks
  <2>2. cursor \in Int /\ maxTimestamp \in [JobThread -> Nat] /\ exported \in [Events -> 0 .. 2]
    BY DEF None
  <2>3. isExportRunning \in BOOLEAN /\ races \in BOOLEAN /\ stuck \in BOOLEAN /\ outdated \in BOOLEAN
    OBVIOUS
  <2>4. /\ storedMax \in Nat /\ starts \in Nat /\ faults \in Nat /\ starts + faults <= MaxActs
        /\ again \subseteq Int /\ givenUp \subseteq Int
    OBVIOUS
  <2> HIDE DEF Init
  <2> QED
    BY <1>1, <2>1, <2>2, <2>3, <2>4 DEF HistoryTyping
<1>4. \A j : ~ Paged(j)
  BY <1>1, <1>2 DEF Paged, Holds
<1>5. FlagHasJob /\ OneUnlessAgain /\ RetriesRemembered
  BY <1>1, <1>2 DEF FlagHasJob, OneUnlessAgain, OneChain, Works, WorkPlaces, RetriesRemembered
<1>6. StartsAlone
  BY <1>2 DEF StartsAlone, Starts, StartPlaces
<1>7. RangeOK /\ ExportedInRange
  BY <1>1, <1>2 DEF RangeOK, NothingRuns, ExportedInRange
<1>8. FirstOK
  BY <1>2 DEF FirstOK, StartPlaces
<1>9. SpacedOK /\ SoleOK
  <2>1. \A c : ~ Seen(c)
    BY <1>2, <1>4 DEF Seen
  <2>2. \A c : Sole(c)
    BY <1>1, <1>2 DEF Sole, Holds
  <2> QED
    BY <2>1, <2>2 DEF SpacedOK, SoleOK
<1>10. OnceOK /\ CoverOK
  BY DEF OnceOK, CoverOK
<1> QED
  BY <1>3, <1>5, <1>6, <1>7, <1>8, <1>9, <1>10 DEF HistoryInv

LEMMA HistoryStep ==
  ASSUME HistoryInv, [Next]_vars
  PROVE  HistoryInv'
<1> USE DEF HistoryInv
<1>1. HistoryTyping'
  BY TypingStep
<1>2. FlagHasJob' /\ OneUnlessAgain' /\ StartsAlone' /\ RetriesRemembered'
  BY FlagHasJobStep, OneChainStep, StartsAloneStep, RetriesRememberedStep
<1>3. RangeOK' /\ ExportedInRange'
  BY RangeStep, ExportedInRangeStep
<1>4. FirstOK' /\ SpacedOK' /\ SoleOK'
  BY FirstStep, SpacedStep, SoleStep
<1>5. OnceOK' /\ CoverOK'
  BY OnceStep, CoverStep
<1> QED
  BY <1>1, <1>2, <1>3, <1>4, <1>5

LEMMA HistoryInductive == Spec => []HistoryInv
<1>1. Init => HistoryInv
  BY HistoryInit
<1>2. HistoryInv /\ [Next]_vars => HistoryInv'
  BY HistoryStep
<1> QED
  BY <1>1, <1>2, PTL DEF Spec

(* The chains of jobs there are, of ChainsHaveCause and EndMeansExported.    *)
LEMMA ChainsThere ==
  ASSUME HistoryTyping
  PROVE  /\ \A j \in DOMAIN jobs : <<j, 1>> \in Chains
         /\ \A t \in JobThread : Works(t) => <<t, 0>> \in Chains
         /\ OneChain => \A a, b \in Chains : a = b
<1>1. \A t \in JobThread : Works(t) <=> t \in Working
  BY DEF Works, Working
<1>2. \A j \in DOMAIN jobs : jobs[j] \in Nat /\ jobs[j] >= 1
  BY DEF HistoryTyping, IsABag
<1>3. \A j \in DOMAIN jobs : <<j, 1>> \in Waiting
  BY <1>2 DEF Waiting
<1>4. ASSUME NEW a \in Waiting, OneChain
      PROVE  \E j \in DOMAIN jobs : a = <<j, 1>>
  <2>1. PICK j \in DOMAIN jobs : a \in {<<j, copy>> : copy \in 1 .. jobs[j]}
    BY <1>4 DEF Waiting
  <2>2. jobs[j] = 1
    BY <1>4 DEF OneChain
  <2>3. PICK copy \in 1 .. 1 : a = <<j, copy>>
    BY <2>1, <2>2
  <2> QED
    BY <2>3
<1>5. ASSUME OneChain, NEW a \in Chains, NEW b \in Chains
      PROVE  a = b
  <2>1. \A x \in Chains : x \in Waiting \/ \E t \in Working : x = <<t, 0>>
    BY DEF Chains
  <2>2. Working \subseteq JobThread
    BY DEF Working
  <2> QED
    BY <2>1, <2>2, <1>1, <1>4, <1>5 DEF OneChain
<1> QED
  BY <1>1, <1>3, <1>5 DEF Chains

(* ChainsHaveCause for any threads, events, ranges and bounds: one job of an   *)
(* export is alive at a time, but for a page tried again, a job delivered     *)
(* twice, or two exports started over each other.                            *)
THEOREM ExportHasOneChain == Spec => []ChainsHaveCause
<1>1. HistoryInv => ChainsHaveCause
  BY ChainsThere DEF HistoryInv, OneUnlessAgain, ChainsHaveCause
<1> QED
  BY <1>1, HistoryInductive, PTL

(* TwiceHasCause: of one export an event that no other one ties with goes      *)
(* through exportEvents twice only when a page of its interval was tried      *)
(* again or a job for one delivered twice.                                   *)
THEOREM EventsAreExportedOnce == Spec => []TwiceHasCause
<1>1. HistoryInv => TwiceHasCause
  <2> SUFFICES ASSUME HistoryInv, starts = 1, NEW e \in Events, Untied(e), exported[e] > 1
               PROVE  \E c \in again : e \in InInterval(c)
    BY DEF TwiceHasCause
  <2>1. exported[e] \in 0 .. 2 /\ (Excused(e, again) \/ exported[e] <= 1)
    BY DEF HistoryInv, HistoryTyping, OnceOK, Once
  <2>2. Excused(e, again)
    BY <2>1
  <2> QED
    BY <2>2 DEF Excused
<1> QED
  BY <1>1, HistoryInductive, PTL

(* EndMeansExported: when nothing of the first export is left, every event     *)
(* between its dates that no other one ties with was exported, or a page of   *)
(* its interval was given up, or a job threw or was lost.                    *)
THEOREM EndOfExport == Spec => []EndMeansExported
<1>1. HistoryInv => EndMeansExported
  <2> SUFFICES ASSUME HistoryInv, starts = 1, Chains = {}, storedMax > 0,
                      \A t \in JobThread : task[t] = NoTask, ~ stuck
               PROVE  \E range \in Ranges : range[2] = storedMax /\
                        \A e \in Events :
                          /\ Untied(e) /\ exported[e] = 0
                          /\ range[1] <= timestamp[e] /\ timestamp[e] + (range[1] % Precision) <= range[2]
                          => \E c \in givenUp : e \in InInterval(c)
    BY DEF EndMeansExported
  <2> USE DEF HistoryInv
  <2>1. \A t \in JobThread : task[t].at = "idle"
    BY NewTasks
  <2>2. PICK r \in Ranges : storedMax = r[2] /\ \A e \in Events : Asked(e, r) => Cover(e)
    BY DEF CoverOK
  <2>3. DOMAIN jobs = {}
    BY ChainsThere
  <2>4. ~ isExportRunning
    BY <2>1, <2>3 DEF FlagHasJob, WorkPlaces
  <2>5. \A j : ~ Paged(j)
    BY <2>1, <2>3 DEF Paged, Holds
  <2>6. \A e : Cover(e) => Excused(e, givenUp) \/ exported[e] > 0
    BY <2>1, <2>4, <2>5 DEF Cover, Exporting
  <2>7. ASSUME NEW e \in Events, Untied(e), exported[e] = 0,
               r[1] <= timestamp[e], timestamp[e] + (r[1] % Precision) <= r[2]
        PROVE  \E c \in givenUp : e \in InInterval(c)
    <3>1. Cover(e)
      BY <2>2, <2>7 DEF Asked
    <3>2. Excused(e, givenUp)
      BY <2>6, <2>7, <3>1
    <3> QED
      BY <3>2 DEF Excused
  <2> QED
    BY <2>2, <2>7
<1> QED
  BY <1>1, HistoryInductive, PTL

(* ExportOK: the flag of a running export has a job, or one threw or was lost; *)
(* the events exported are in the range asked for, from the bound the query   *)
(* has for its start to the end of its last interval.                        *)
THEOREM ExportKeepsRange == Spec => []ExportOK
<1>1. HistoryInv => ExportOK
  <2> SUFFICES ASSUME HistoryInv
               PROVE  ExportOK
    OBVIOUS
  <2> USE DEF HistoryInv
  <2>1. TypeOK
    <3>1. \A j \in DOMAIN jobs :
            /\ j.retriesPerformedSoFar \in 0 .. MaxRetries
            /\ j.intraIntervalOffset \in Nat
            /\ j.timestampCursor \in Int
      BY DEF HistoryTyping, JobRecs
    <3>2. \A t \in JobThread : task[t].at \in StartPlaces \cup StepPlaces \cup {"idle"}
      <4>1. \A k \in Tasks : k.at \in StartPlaces \cup StepPlaces \cup {"idle"}
        BY NewTasks DEF Tasks, PageTasks
      <4> QED
        BY <4>1 DEF HistoryTyping
    <3> QED
      BY <3>1, <3>2 DEF TypeOK, HistoryTyping
  <2>2. RunningHasJob
    BY ChainsThere DEF RunningHasJob, FlagHasJob, Works
  <2> QED
    BY <2>1, <2>2 DEF ExportOK
<1> QED
  BY <1>1, HistoryInductive, PTL
=============================================================================
