------------------------- MODULE PluginServerProofs -------------------------
(***************************************************************************)
(* Proofs about PluginServer, for any log, group size, number of plugins,   *)
(* rounds and faults.  That what is committed was handled, and that rounds  *)
(* overlap or deliver twice only when one was cut short, rest on one        *)
(* invariant of the batch in hand: what each message of its group still     *)
(* waits for, and how far the rounds that were not cut short have come.     *)
(* What holds of a shutdown rests on what the launch had assigned when the  *)
(* shutdown began, and on what each step of closeJobs has stopped since.    *)
(***************************************************************************)
EXTENDS PluginServer, TLAPS

-----------------------------------------------------------------------------
(* The batch in hand *)

(* The resolved offset, like the committed one, covers handled messages. *)
ResolvedIsHandled == \A m \in Messages : m <= committed \/ m <= resolved => Handled(m)

BatchHasRound == consumer = "batch" => round \in Rounds

(* The group awaited is the next stretch of the log. *)
GroupIsNext ==
  group # {} => /\ consumer = "batch"
                /\ \E n \in resolved + 1 .. LogEnd : group = resolved + 1 .. n

InTask(m, name) == [m |-> m, round |-> round, task |-> name] \in tasks

(* What a message of the group still lacks, a task of this round will bring. *)
Pending(m) ==
  \/ Handled(m)
  \/ InTask(m, "processEvent")
  \/ /\ "ingested" \in settled[m] \/ InTask(m, "ingestEvent")
     /\ "plugins" \in settled[m] \/ InTask(m, "onEvent") \/ InTask(m, "onSnapshot")

GroupIsPending == \A m \in group : Pending(m)

TasksHaveCause == \A t \in tasks : t.round \in retired \/ (t.round = round /\ t.m \in group)

(* A round that a rebalance has made stale is one cut short. *)
StaleIsRetired ==
  stale => /\ consumer \in {"batch", "failed"}
           /\ \A r \in Rounds : r <= round => r \in retired

(* Round r has a task of message m, or one has left a message in a producer. *)
Seen(m, r) ==
  \/ [m |-> m, round |-> r] \in delivered \cup buffered \cup UNION sends
  \/ \E name \in TaskNames : [m |-> m, round |-> r, task |-> name] \in tasks

(* A round not cut short has come as far as the resolved offset and the     *)
(* group, until the process is gone.                                        *)
SeenWithinReach ==
  exited = "no" =>
    \A m \in Messages, r \in Rounds :
      Seen(m, r) => /\ r <= round
                    /\ r \in retired \/ m <= resolved \/ (r = round /\ m \in group)

(* and later rounds start after it *)
RoundsInOrder ==
  \A m, n \in Messages, q, r \in Rounds :
    Seen(m, q) /\ Seen(n, r) /\ q < r /\ q \notin retired => m < n

BatchInv ==
  /\ ResolvedIsHandled /\ BatchHasRound /\ GroupIsNext /\ GroupIsPending /\ TasksHaveCause
  /\ StaleIsRetired /\ SeenWithinReach /\ RoundsInOrder

-----------------------------------------------------------------------------
(* Launch and shutdown *)

(* Before the Kafka queue is assigned nothing consumes, or stops consuming. *)
LaunchIsEarly ==
  launch \in {"hub", "database", "mmdb", "schedule", "jobs", "kafka"}
  => consumer \in {"off", "joining"} /\ ~ stopping /\ "kafka" \notin assigned

\* The cron job of the MMDB update is assigned to no variable that closeJobs sees.
Assignable == Parts \ {"mmdbUpdateJob"}

AssignedBy ==
  [hub |-> {}, database |-> {"hub"}, mmdb |-> {"hub"}, schedule |-> {"hub", "mmdb", "pool"},
   jobs |-> {"hub", "mmdb", "pool", "schedule"},
   kafka |-> {"hub", "mmdb", "pool", "schedule", "jobs"},
   pubsub |-> Assignable \ {"crons"}, crons |-> Assignable \ {"crons"}, up |-> Assignable]

(* Once a step of the launch is over, its parts are assigned; the update job *)
(* runs on from the second.                                                  *)
LaunchAssigns ==
  exited = "no" /\ launch \in DOMAIN AssignedBy
  => /\ AssignedBy[launch] \subseteq assigned
     /\ launch \notin {"hub", "database"} => "mmdbUpdateJob" \in running

(* The parts closeJobs has not come to, and the one it never comes to. *)
Unstopped ==
  [none |-> Parts, threw |-> Parts, kafka |-> Parts,
   celery |-> Parts \ {"kafka"},
   pubsub |-> Parts \ {"kafka", "celery"},
   jobs |-> Parts \ {"kafka", "celery", "pubsub"},
   schedule |-> {"mmdbUpdateJob", "hub", "mmdb", "pool", "schedule"},
   mmdb |-> {"mmdbUpdateJob", "hub", "mmdb", "pool"},
   teardown |-> {"mmdbUpdateJob", "hub", "pool"},
   flush |-> {"mmdbUpdateJob", "hub", "pool"},
   hub |-> {"mmdbUpdateJob", "hub"},
   delay |-> {"mmdbUpdateJob"}]

(* The shutdown of a server that was up has stopped all it has come to. *)
ClosingStops ==
  launchAtClose = "up" =>
    /\ launch = "up"
    /\ exited = "no" =>
         /\ stopping
         /\ running \subseteq Unstopped[closing]
         /\ closing \notin {"none", "kafka"} => consumer = "stopped"
         /\ closing \in {"hub", "delay"} => tasks = {}
         /\ closing = "flush" => \A b \in buffered : b.round \in retired

(* Nothing is left of a process that has exited. *)
GoneIsIdle == exited # "no" => tasks = {}

IInv ==
  /\ PluginServerTypeOK /\ BatchInv /\ LaunchIsEarly /\ LaunchAssigns /\ ClosingStops
  /\ ZeroMeansClosed /\ GoneIsIdle

-----------------------------------------------------------------------------
(* Facts about the group                                                    *)

LEMMA MaxOfInterval ==
  ASSUME NEW a \in Int, NEW n \in Int, a <= n
  PROVE  Max(a .. n) = n
<1>1. n \in a .. n /\ \A y \in a .. n : n >= y
  OBVIOUS
<1>2. \A x \in a .. n : (\A y \in a .. n : x >= y) => x = n
  OBVIOUS
<1> QED
  BY <1>1, <1>2 DEF Max

(* The group ends where the resolved offset will be.                        *)
LEMMA GroupFacts ==
  ASSUME TypeOK, GroupIsNext, group # {}
  PROVE  Max(group) \in resolved + 1 .. LogEnd /\ group = resolved + 1 .. Max(group)
<1>1. PICK n \in resolved + 1 .. LogEnd : group = resolved + 1 .. n
  BY DEF GroupIsNext
<1>2. resolved \in Int /\ LogEnd \in Int
  BY IngestionAssumption DEF TypeOK
<1>3. Max(group) = n
  BY <1>1, <1>2, MaxOfInterval
<1> QED
  BY <1>1, <1>3

LEMMA NextGroupFacts ==
  ASSUME TypeOK, NextGroup # {}
  PROVE  \E n \in resolved + 1 .. LogEnd : NextGroup = resolved + 1 .. n
<1>1. resolved \in Nat /\ batchEnd \in 0 .. LogEnd /\ LogEnd \in Nat /\ GroupSize \in Nat \ {0}
  BY IngestionAssumption DEF TypeOK
<1>2. resolved + 1 <= batchEnd
  BY <1>1 DEF NextGroup
<1>3. CASE batchEnd <= resolved + GroupSize
  <2>1. NextGroup = resolved + 1 .. batchEnd
    BY <1>1, <1>3 DEF NextGroup
  <2> QED
    BY <1>1, <1>2, <2>1
<1>4. CASE ~ (batchEnd <= resolved + GroupSize)
  <2>1. NextGroup = resolved + 1 .. resolved + GroupSize
    BY <1>1, <1>4 DEF NextGroup
  <2> QED
    BY <1>1, <1>4, <2>1
<1> QED
  BY <1>3, <1>4

(* What was handled goes on to be.                                          *)
LEMMA HandledGrows ==
  ASSUME TypeOK, NEW m \in Messages, NEW what \in {"dropped", "ingested", "plugins"},
         Settle(m, what)
  PROVE  /\ settled' \in [Messages -> SUBSET {"dropped", "ingested", "plugins"}]
         /\ what \in settled'[m]
         /\ \A n \in Messages : settled[n] \subseteq settled'[n]
         /\ \A n \in Messages : n # m => settled'[n] = settled[n]
         /\ \A n \in Messages : Handled(n) => Handled(n)'
<1>1. /\ settled' \in [Messages -> SUBSET {"dropped", "ingested", "plugins"}]
      /\ what \in settled'[m]
      /\ \A n \in Messages : settled[n] \subseteq settled'[n] /\ (n # m => settled'[n] = settled[n])
  BY DEF Settle, TypeOK
<1> QED
  BY <1>1 DEF Handled

(* Rounds stay in order when no round begins on further messages, and what  *)
(* is within reach stays there or its round is cut short.                   *)
LEMMA SeenShrinks ==
  ASSUME TypeOK, SeenWithinReach, RoundsInOrder, exited = "no", round' \in Nat, round <= round',
         retired \subseteq retired',
         \A m \in Messages, r \in Rounds : Seen(m, r)' => Seen(m, r),
         \A m \in Messages, r \in Rounds :
           r \notin retired' /\ r <= round /\ (m <= resolved \/ (r = round /\ m \in group))
             => m <= resolved' \/ (r = round' /\ m \in group')
  PROVE  SeenWithinReach' /\ RoundsInOrder'
<1>1. RoundsInOrder'
  BY DEF RoundsInOrder
<1>2. SeenWithinReach'
  <2> SUFFICES ASSUME NEW m \in Messages, NEW r \in Rounds, Seen(m, r)'
               PROVE  /\ r <= round'
                      /\ r \in retired' \/ m <= resolved' \/ (r = round' /\ m \in group')
    BY DEF SeenWithinReach
  <2>1. r <= round /\ (r \in retired \/ m <= resolved \/ (r = round /\ m \in group))
    BY DEF SeenWithinReach
  <2>2. round \in Nat /\ r \in Nat
    BY IngestionAssumption DEF TypeOK, Rounds
  <2> QED
    BY <2>1, <2>2
<1> QED
  BY <1>1, <1>2

-----------------------------------------------------------------------------
(* The steps of Ingestion                                                   *)

Running == exited = "no" /\ exited' = "no"

(* A task is answered: others of the same message and round may follow it.  *)
LEMMA AnswerPreserves ==
  ASSUME TypeOK, BatchInv, Running, NEW t \in tasks,
         \A u \in tasks' : u \in tasks \/ (u \in Task /\ u.m = t.m /\ u.round = t.round),
         \A m \in Messages : Handled(m) => Handled(m)',
         \A m \in group : Pending(m)',
         settled' \in [Messages -> SUBSET {"dropped", "ingested", "plugins"}],
         \/ buffered' = buffered \cup {[m |-> t.m, round |-> t.round]}
         \/ UNCHANGED buffered,
         UNCHANGED <<consumerVars, sends, delivered, retired, faults>>
  PROVE  TypeOK' /\ BatchInv'
<1> USE DEF consumerVars
<1>1. t \in Task /\ t.m \in Messages /\ t.round \in Rounds /\ t.task \in TaskNames
  BY DEF TypeOK, Task
<1>2. TypeOK'
  BY <1>1 DEF TypeOK, Token
<1>3. ResolvedIsHandled' /\ BatchHasRound' /\ GroupIsNext' /\ GroupIsPending' /\ StaleIsRetired'
  BY DEF BatchInv, ResolvedIsHandled, BatchHasRound, GroupIsNext, GroupIsPending, StaleIsRetired
<1>4. TasksHaveCause'
  BY DEF BatchInv, TasksHaveCause
<1>5. ASSUME NEW m \in Messages, NEW r \in Rounds, Seen(m, r)' PROVE Seen(m, r)
  <2>1. t = [m |-> t.m, round |-> t.round, task |-> t.task]
    BY <1>1 DEF Task
  <2>2. ASSUME NEW name \in TaskNames, [m |-> m, round |-> r, task |-> name] \in tasks'
        PROVE  [m |-> m, round |-> r, task |-> name] \in tasks \/ (m = t.m /\ r = t.round)
    BY <2>2
  <2> QED
    BY <1>1, <1>5, <2>1, <2>2 DEF Seen
<1>6. SeenWithinReach' /\ RoundsInOrder'
  <2>1. round \in Nat
    BY IngestionAssumption DEF TypeOK
  <2> QED
    BY <1>5, <2>1, SeenShrinks DEF BatchInv, Running
<1> QED
  BY <1>2, <1>3, <1>4, <1>6 DEF BatchInv

LEMMA ProcessEventPreserves ==
  ASSUME TypeOK, BatchInv, Running, NEW t \in tasks, ProcessEvent(t)
  PROVE  TypeOK' /\ BatchInv'
<1> USE DEF consumerVars, producerVars
<1>1. t \in Task /\ t.m \in Messages /\ t.round \in Rounds /\ t.task = "processEvent"
  BY DEF TypeOK, Task, ProcessEvent
<1>2. UNCHANGED <<consumerVars, buffered, sends, delivered, retired, faults>>
  BY DEF ProcessEvent
<1>3. CASE tasks' = tasks \ {t} /\ Settle(t.m, "dropped")
  <2>1. /\ settled' \in [Messages -> SUBSET {"dropped", "ingested", "plugins"}]
        /\ "dropped" \in settled'[t.m]
        /\ \A n \in Messages : n # t.m => settled'[n] = settled[n]
        /\ \A n \in Messages : Handled(n) => Handled(n)'
    BY <1>1, <1>3, HandledGrows
  <2>3. ASSUME NEW m \in group PROVE Pending(m)'
    <3>1. Pending(m) /\ m \in Messages
      BY DEF BatchInv, GroupIsPending, TypeOK
    <3>2. CASE m = t.m
      BY <2>1, <3>2 DEF Handled, Pending
    <3>3. CASE m # t.m
      <4>1. settled'[m] = settled[m] /\ \A name \in TaskNames : InTask(m, name) => InTask(m, name)'
        BY <1>1, <1>2, <1>3, <2>1, <3>1, <3>3 DEF InTask
      <4> QED
        BY <3>1, <4>1 DEF Pending, Handled, TaskNames
    <3> QED
      BY <3>2, <3>3
  <2> QED
    BY <1>2, <1>3, <2>1, <2>3, AnswerPreserves
<1>4. CASE tasks' = (tasks \ {t}) \cup NextTasks(t) /\ UNCHANGED settled
  <2>1. \A u \in NextTasks(t) : u.m = t.m /\ u.round = t.round /\ u \in Task
    BY <1>1 DEF NextTasks, Task, TaskNames
  <2>2. /\ [m |-> t.m, round |-> t.round, task |-> "ingestEvent"] \in NextTasks(t)
        /\ [m |-> t.m, round |-> t.round, task |-> "onEvent"] \in NextTasks(t)
    BY <1>1 DEF NextTasks, Task
  <2>3. ASSUME NEW m \in group PROVE Pending(m)'
    <3>1. Pending(m)
      BY DEF BatchInv, GroupIsPending
    <3>2. CASE m = t.m /\ round = t.round
      BY <1>2, <1>4, <2>2, <3>2 DEF Pending, InTask
    <3>3. CASE ~ (m = t.m /\ round = t.round)
      <4>1. settled'[m] = settled[m] /\ \A name \in TaskNames : InTask(m, name) => InTask(m, name)'
        BY <1>2, <1>4, <3>3 DEF InTask
      <4> QED
        BY <3>1, <4>1 DEF Pending, Handled, TaskNames
    <3> QED
      BY <3>2, <3>3
  <2>4. \A m \in Messages : Handled(m) => Handled(m)'
    BY <1>4 DEF Handled
  <2> HIDE DEF consumerVars
  <2> QED
    BY <1>2, <1>4, <2>1, <2>3, <2>4, AnswerPreserves DEF TypeOK
<1> QED
  BY <1>3, <1>4 DEF ProcessEvent

(* ingestEvent, onEvent and onSnapshot settle their part of the message.     *)
LEMMA SettlingPreserves ==
  ASSUME TypeOK, BatchInv, Running, NEW t \in tasks, NEW what \in {"ingested", "plugins"},
         t.task = "ingestEvent" => what = "ingested",
         t.task \in {"onEvent", "onSnapshot"} => what = "plugins",
         t.task # "processEvent",
         tasks' = tasks \ {t}, Settle(t.m, what),
         \/ buffered' = buffered \cup {[m |-> t.m, round |-> t.round]}
         \/ UNCHANGED buffered,
         UNCHANGED <<consumerVars, sends, delivered, retired, faults>>
  PROVE  TypeOK' /\ BatchInv'
<1>1. t \in Task /\ t.m \in Messages
  BY DEF TypeOK, Task
<1>2. /\ settled' \in [Messages -> SUBSET {"dropped", "ingested", "plugins"}]
      /\ what \in settled'[t.m]
      /\ \A n \in Messages : settled[n] \subseteq settled'[n]
      /\ \A n \in Messages : Handled(n) => Handled(n)'
  BY <1>1, HandledGrows
<1>3. ASSUME NEW m \in group PROVE Pending(m)'
  <2>1. Pending(m) /\ m \in Messages
    BY DEF BatchInv, GroupIsPending, TypeOK
  <2>2. settled[m] \subseteq settled'[m] /\ (m = t.m => what \in settled'[m])
    BY <1>2, <2>1
  <2>3. \A name \in TaskNames :
          InTask(m, name) => InTask(m, name)' \/ (m = t.m /\ name = t.task)
    BY <1>1 DEF InTask, consumerVars
  <2> QED
    BY <1>2, <2>1, <2>2, <2>3 DEF Pending, TaskNames
<1> QED
  BY <1>2, <1>3, AnswerPreserves

LEMMA IngestEventPreserves ==
  ASSUME TypeOK, BatchInv, Running, NEW t \in tasks, IngestEvent(t) \/ RunOn(t)
  PROVE  TypeOK' /\ BatchInv'
BY SettlingPreserves DEF IngestEvent, RunOn, producerVars

(* The calls that a rejected one leaves behind belong to a round cut short.  *)
LEMMA RejectPreserves ==
  ASSUME TypeOK, BatchInv, Running, NEW t \in tasks, Reject(t)
  PROVE  TypeOK' /\ BatchInv'
<1> USE DEF Reject, producerVars
<1>1. t \in Task /\ t.round \in Rounds /\ round \in Nat /\ MaxFaults \in Nat
  BY IngestionAssumption DEF TypeOK, Task
<1>2. TypeOK'
  BY <1>1 DEF TypeOK, Fault, ConsumerStates
<1>3. ResolvedIsHandled'
  BY DEF BatchInv, ResolvedIsHandled, Handled
<1>4. BatchHasRound' /\ GroupIsNext' /\ TasksHaveCause' /\ StaleIsRetired'
  BY DEF BatchInv, BatchHasRound, GroupIsNext, TasksHaveCause, StaleIsRetired
<1>5. GroupIsPending'
  <2> SUFFICES ASSUME NEW m \in group' PROVE Pending(m)'
    BY DEF GroupIsPending
  <2>1. group' = group /\ consumer = "batch" /\ t.round # round
    BY DEF BatchInv, GroupIsNext
  <2>2. Pending(m) /\ \A name \in TaskNames : InTask(m, name) => InTask(m, name)'
    BY <2>1 DEF BatchInv, GroupIsPending, InTask
  <2> QED
    BY <2>2 DEF Pending, Handled, TaskNames
<1>6. SeenWithinReach' /\ RoundsInOrder'
  <2>1. \A m \in Messages, r \in Rounds : Seen(m, r)' => Seen(m, r)
    BY DEF Seen
  <2> QED
    BY <1>1, <2>1, SeenShrinks DEF BatchInv, Running
<1> QED
  BY <1>2, <1>3, <1>4, <1>5, <1>6 DEF BatchInv

(* No group is awaited between batches, and no batch is stale.               *)
LEMMA FetchPreserves ==
  ASSUME TypeOK, BatchInv, Running, Fetch
  PROVE  TypeOK' /\ BatchInv'
<1> USE DEF Fetch, producerVars
<1>1. resolved \in Nat /\ LogEnd \in Nat /\ round \in Nat /\ MaxRounds \in Nat
  BY IngestionAssumption DEF TypeOK
<1>2. group = {} /\ ~ stale
  BY DEF BatchInv, GroupIsNext, StaleIsRetired
<1>3. TypeOK'
  BY <1>1, <1>2 DEF TypeOK, ConsumerStates
<1>4. ResolvedIsHandled' /\ GroupIsNext' /\ GroupIsPending' /\ StaleIsRetired'
  BY <1>2 DEF BatchInv, ResolvedIsHandled, Handled, GroupIsNext, GroupIsPending, StaleIsRetired
<1>5. TasksHaveCause' /\ BatchHasRound'
  BY <1>1, <1>2 DEF BatchInv, TasksHaveCause, BatchHasRound, Rounds
<1>6. SeenWithinReach' /\ RoundsInOrder'
  <2>1. \A m \in Messages, r \in Rounds : Seen(m, r)' => Seen(m, r)
    BY DEF Seen
  <2> QED
    BY <1>1, <1>2, <2>1, SeenShrinks DEF BatchInv, Running
<1> QED
  BY <1>3, <1>4, <1>5, <1>6 DEF BatchInv

(* Each message of the next group gets its first tasks, all in this round.   *)
LEMMA FirstTasksFacts ==
  ASSUME TypeOK, StartGroup, NEW m \in NextGroup
  PROVE  /\ FirstTasks(m, round) \subseteq tasks'
         /\ Pending(m)'
<1>1. FirstTasks(m, round) \subseteq tasks'
  BY DEF StartGroup
<1>2. round' = round
  BY DEF StartGroup
<1>3. CASE m \in Snapshots
  <2>1. /\ [m |-> m, round |-> round, task |-> "ingestEvent"] \in FirstTasks(m, round)
        /\ [m |-> m, round |-> round, task |-> "onSnapshot"] \in FirstTasks(m, round)
    BY <1>3 DEF FirstTasks
  <2> QED
    BY <1>1, <1>2, <2>1 DEF Pending, InTask
<1>4. CASE m \notin Snapshots
  <2>1. [m |-> m, round |-> round, task |-> "processEvent"] \in FirstTasks(m, round)
    BY <1>4 DEF FirstTasks
  <2> QED
    BY <1>1, <1>2, <2>1 DEF Pending, InTask
<1> QED
  BY <1>1, <1>3, <1>4

LEMMA StartGroupPreserves ==
  ASSUME TypeOK, BatchInv, Running, StartGroup
  PROVE  TypeOK' /\ BatchInv'
<1> USE DEF producerVars
<1>1. PICK n \in resolved + 1 .. LogEnd : NextGroup = resolved + 1 .. n
  BY NextGroupFacts DEF StartGroup
<1>2. /\ resolved \in Nat /\ LogEnd \in Nat /\ round \in 0 .. MaxRounds /\ n \in Int
      /\ MaxRounds \in Nat
  BY <1>1, IngestionAssumption DEF TypeOK
<1>3. /\ consumer = "batch" /\ group = {} /\ ~ stale /\ group' = NextGroup
      /\ NextGroup \subseteq Messages
      /\ UNCHANGED <<committed, resolved, consumer, batchEnd, stale, stopping, round,
                     settled, buffered, sends, delivered, retired, faults>>
  BY <1>1, <1>2 DEF StartGroup, Messages
<1>4. ASSUME NEW t \in tasks', t \notin tasks
      PROVE  t.round = round /\ t.m \in NextGroup /\ t \in Task
  <2>1. PICK m \in NextGroup : t \in FirstTasks(m, round)
    BY <1>4 DEF StartGroup
  <2>2. t \in [m : {m}, round : {round}, task : TaskNames]
    BY <2>1 DEF FirstTasks, TaskNames
  <2> QED
    BY <1>3, <2>2 DEF BatchInv, BatchHasRound, Task
<1>5. TypeOK'
  BY <1>3, <1>4 DEF TypeOK
<1>6. ResolvedIsHandled' /\ BatchHasRound' /\ StaleIsRetired'
  BY <1>3 DEF BatchInv, ResolvedIsHandled, Handled, BatchHasRound, StaleIsRetired
<1>7. GroupIsNext' /\ GroupIsPending'
  BY <1>1, <1>3, FirstTasksFacts DEF GroupIsNext, GroupIsPending
<1>8. TasksHaveCause'
  BY <1>3, <1>4 DEF BatchInv, TasksHaveCause
<1>9. ASSUME NEW m \in Messages, NEW r \in Rounds, Seen(m, r)'
      PROVE  Seen(m, r) \/ (r = round /\ m \in NextGroup)
  BY <1>3, <1>4, <1>9 DEF Seen
<1>10. SeenWithinReach'
  BY <1>2, <1>3, <1>9 DEF BatchInv, SeenWithinReach, Running
<1>11. RoundsInOrder'
  <2> SUFFICES ASSUME NEW m \in Messages, NEW k \in Messages, NEW q \in Rounds, NEW r \in Rounds,
                      Seen(m, q)', Seen(k, r)', q < r, q \notin retired
               PROVE  m < k
    BY <1>3 DEF RoundsInOrder
  <2>1. q \in Nat /\ r \in Nat /\ m \in Nat /\ k \in Nat
    BY <1>2, IngestionAssumption DEF Rounds, Messages
  <2>2. r <= round /\ (Seen(k, r) \/ (r = round /\ k \in NextGroup))
    BY <1>2, <1>9, <2>1 DEF BatchInv, SeenWithinReach, Running
  <2>3. Seen(m, q)
    BY <1>2, <1>9, <2>1, <2>2
  <2>4. m <= resolved
    BY <1>2, <1>3, <2>1, <2>2, <2>3 DEF BatchInv, SeenWithinReach, Running
  <2> QED
    BY <1>1, <1>2, <2>1, <2>2, <2>3, <2>4 DEF BatchInv, RoundsInOrder
<1> QED
  BY <1>5, <1>6, <1>7, <1>8, <1>10, <1>11 DEF BatchInv

(* What the group waited for is over, so all of it was handled.              *)
LEMMA FinishGroupPreserves ==
  ASSUME TypeOK, BatchInv, Running, FinishGroup
  PROVE  TypeOK' /\ BatchInv'
<1> USE DEF FinishGroup, producerVars
<1>1. Max(group) \in resolved + 1 .. LogEnd /\ group = resolved + 1 .. Max(group)
  BY GroupFacts DEF BatchInv, GroupDone
<1>2. resolved \in Nat /\ committed \in Nat /\ LogEnd \in Nat /\ round \in Nat /\ round \in Rounds
  BY IngestionAssumption DEF TypeOK, BatchInv, BatchHasRound
<1>3. ASSUME NEW m \in group PROVE Handled(m)
  <2>1. \A name \in TaskNames : ~ InTask(m, name)
    BY DEF GroupDone, InTask
  <2>2. Pending(m)
    BY DEF BatchInv, GroupIsPending
  <2> QED
    BY <2>1, <2>2 DEF Pending, Handled, TaskNames
<1>4. TypeOK'
  <2>1. resolved' \in 0 .. LogEnd /\ committed' \in 0 .. LogEnd
    BY <1>1, <1>2 DEF TypeOK
  <2>2. retired' \subseteq Rounds /\ consumer' \in ConsumerStates
    BY <1>2 DEF TypeOK, ConsumerStates
  <2> QED
    BY <2>1, <2>2 DEF TypeOK
<1>5. ResolvedIsHandled'
  <2>1. \A m \in Messages : m <= Max(group) => m <= resolved \/ m \in group
    BY <1>1, <1>2 DEF Messages
  <2>2. \A m \in Messages : m <= Max(group) => Handled(m)
    BY <1>3, <2>1 DEF BatchInv, ResolvedIsHandled
  <2> QED
    BY <2>2 DEF BatchInv, ResolvedIsHandled, Handled
<1>6. /\ BatchHasRound' /\ GroupIsNext' /\ GroupIsPending'
      /\ StaleIsRetired'
  BY DEF BatchInv, BatchHasRound, GroupIsNext, GroupIsPending, StaleIsRetired
<1>7. TasksHaveCause'
  BY DEF BatchInv, TasksHaveCause, GroupDone
<1>8. SeenWithinReach' /\ RoundsInOrder'
  <2>1. \A m \in Messages, r \in Rounds : Seen(m, r)' => Seen(m, r)
    BY DEF Seen
  <2>2. \A m \in Messages : m <= resolved \/ m \in group => m <= resolved'
    BY <1>1, <1>2 DEF Messages
  <2> QED
    BY <1>2, <2>1, <2>2, SeenShrinks DEF BatchInv, Running
<1> QED
  BY <1>4, <1>5, <1>6, <1>7, <1>8 DEF BatchInv

(* Between groups the member may rejoin, and what it had resolved counts for *)
(* nothing: then every round so far was cut short.                           *)
LEMMA RejoinPreserves ==
  ASSUME TypeOK, BatchInv, Running, group = {}, Rejoin,
         consumer \in {"batch", "failed"}, consumer' \in {"idle", "crashed"},
         committed' = IF stale THEN committed ELSE resolved,
         UNCHANGED <<batchEnd, group, stopping, round, tasks, settled, producerVars,
                     retired, faults>>
  PROVE  TypeOK' /\ BatchInv'
<1> USE DEF Rejoin, producerVars
<1>1. round \in Nat
  BY IngestionAssumption DEF TypeOK
<1>2. TypeOK'
  BY DEF TypeOK, ConsumerStates
<1>3. ResolvedIsHandled' /\ BatchHasRound' /\ GroupIsNext' /\ GroupIsPending' /\ StaleIsRetired'
  BY DEF BatchInv, ResolvedIsHandled, Handled, BatchHasRound, GroupIsNext, GroupIsPending,
         StaleIsRetired
<1>4. TasksHaveCause'
  BY DEF BatchInv, TasksHaveCause
<1>5. SeenWithinReach' /\ RoundsInOrder'
  <2>1. \A m \in Messages, r \in Rounds : Seen(m, r)' => Seen(m, r)
    BY DEF Seen
  <2>2. stale => \A r \in Rounds : r <= round => r \in retired
    BY DEF BatchInv, StaleIsRetired
  <2> QED
    BY <1>1, <2>1, <2>2, SeenShrinks DEF BatchInv, Running
<1> QED
  BY <1>2, <1>3, <1>4, <1>5 DEF BatchInv

LEMMA EndBatchPreserves ==
  ASSUME TypeOK, BatchInv, Running, EndBatch \/ RetryBatch
  PROVE  TypeOK' /\ BatchInv'
<1>1. CASE EndBatch
  BY <1>1, RejoinPreserves DEF EndBatch
<1>2. CASE RetryBatch
  <2>1. group = {}
    BY <1>2 DEF RetryBatch, BatchInv, GroupIsNext
  <2> QED
    BY <1>2, <2>1, RejoinPreserves DEF RetryBatch
<1> QED
  BY <1>1, <1>2

LEMMA RebalancePreserves ==
  ASSUME TypeOK, BatchInv, Running, Rebalance
  PROVE  TypeOK' /\ BatchInv'
<1> USE DEF Rebalance, producerVars
<1>1. round \in Nat /\ MaxFaults \in Nat
  BY IngestionAssumption DEF TypeOK
<1>2. TypeOK'
  <2>1. faults' \in 0 .. MaxFaults
    BY <1>1 DEF TypeOK, Fault
  <2>2. retired' \subseteq Rounds /\ resolved' \in 0 .. LogEnd /\ stale' \in BOOLEAN
    BY DEF TypeOK
  <2> QED
    BY <2>1, <2>2 DEF TypeOK
<1>3. ResolvedIsHandled' /\ BatchHasRound' /\ GroupIsNext' /\ StaleIsRetired'
  BY DEF BatchInv, ResolvedIsHandled, Handled, BatchHasRound, GroupIsNext, StaleIsRetired
<1>4. GroupIsPending'
  BY DEF BatchInv, GroupIsPending, Pending, Handled, InTask
<1>5. TasksHaveCause'
  BY DEF BatchInv, TasksHaveCause
<1>6. SeenWithinReach' /\ RoundsInOrder'
  <2>1. \A m \in Messages, r \in Rounds : Seen(m, r)' => Seen(m, r)
    BY DEF Seen
  <2> QED
    BY <1>1, <2>1, SeenShrinks DEF BatchInv, Running
<1> QED
  BY <1>2, <1>3, <1>4, <1>5, <1>6 DEF BatchInv

(* The producers only move messages, or drop them.                           *)
LEMMA ProducePreserves ==
  ASSUME TypeOK, BatchInv, Running, Produce
  PROVE  TypeOK' /\ BatchInv'
<1>1. UNCHANGED <<consumerVars, tasks, settled, retired>>
  BY DEF Produce, Flush, Acknowledge, SendFails
<1>2. /\ TypeOK'
      /\ delivered' \cup buffered' \cup UNION sends' \subseteq delivered \cup buffered \cup UNION sends
  <2>1. CASE Flush
    BY <1>1, <2>1 DEF Flush, TypeOK, consumerVars
  <2>2. ASSUME NEW s \in sends, Acknowledge(s)
        PROVE  /\ TypeOK'
               /\ delivered' \cup buffered' \cup UNION sends' \subseteq delivered \cup buffered \cup UNION sends
    BY <1>1, <2>2 DEF Acknowledge, TypeOK, consumerVars
  <2>3. ASSUME NEW s \in sends, SendFails(s)
        PROVE  /\ TypeOK'
               /\ delivered' \cup buffered' \cup UNION sends' \subseteq delivered \cup buffered \cup UNION sends
    BY <1>1, <2>3, IngestionAssumption DEF SendFails, Fault, TypeOK, consumerVars
  <2> QED
    BY <2>1, <2>2, <2>3 DEF Produce
<1>3. ResolvedIsHandled' /\ BatchHasRound' /\ GroupIsNext' /\ StaleIsRetired' /\ TasksHaveCause'
  BY <1>1 DEF consumerVars, BatchInv, ResolvedIsHandled, Handled, BatchHasRound, GroupIsNext,
              StaleIsRetired, TasksHaveCause
<1>4. GroupIsPending'
  BY <1>1 DEF consumerVars, BatchInv, GroupIsPending, Pending, Handled, InTask
<1>5. SeenWithinReach' /\ RoundsInOrder'
  <2>1. \A m \in Messages, r \in Rounds : Seen(m, r)' => Seen(m, r)
    BY <1>1, <1>2 DEF Seen
  <2>2. round \in Nat
    BY IngestionAssumption DEF TypeOK
  <2> QED
    BY <1>1, <2>1, <2>2, SeenShrinks DEF BatchInv, Running, consumerVars
<1> QED
  BY <1>2, <1>3, <1>4, <1>5 DEF BatchInv

LEMMA IngestPreserves ==
  ASSUME TypeOK, BatchInv, Running, IngestNext
  PROVE  TypeOK' /\ BatchInv'
BY ProcessEventPreserves, IngestEventPreserves, RejectPreserves, FetchPreserves,
   StartGroupPreserves, FinishGroupPreserves, EndBatchPreserves, RebalancePreserves,
   ProducePreserves
DEF IngestNext, RunTask

-----------------------------------------------------------------------------
(* The steps of PluginServer                                                *)

LEMMA InitIInv == Init => IInv
<1> SUFFICES ASSUME Init PROVE IInv
  OBVIOUS
<1> USE IngestionAssumption DEF Init, IngestInit, LifeStart
<1>1. PluginServerTypeOK
  <2>1. TypeOK
    <3>1. settled \in [Messages -> SUBSET {"dropped", "ingested", "plugins"}]
      OBVIOUS
    <3>2. 0 \in 0 .. LogEnd /\ 0 \in 0 .. MaxRounds /\ 0 \in 0 .. MaxFaults
      OBVIOUS
    <3> QED
      BY <3>1, <3>2 DEF TypeOK, ConsumerStates
  <2> QED
    BY <2>1 DEF PluginServerTypeOK, LaunchSteps
<1>2. ResolvedIsHandled /\ BatchHasRound /\ GroupIsNext /\ GroupIsPending /\ TasksHaveCause
  BY DEF ResolvedIsHandled, BatchHasRound, GroupIsNext, GroupIsPending, TasksHaveCause, Messages
<1>3. \A m \in Messages, r \in Rounds : ~ Seen(m, r)
  BY DEF Seen
<1>4. StaleIsRetired /\ SeenWithinReach /\ RoundsInOrder
  BY <1>3 DEF StaleIsRetired, SeenWithinReach, RoundsInOrder
<1>5. LaunchIsEarly /\ LaunchAssigns /\ ClosingStops /\ ZeroMeansClosed /\ GoneIsIdle
  BY DEF LaunchIsEarly, LaunchAssigns, AssignedBy, ClosingStops, ZeroMeansClosed, GoneIsIdle
<1> QED
  BY <1>1, <1>2, <1>4, <1>5 DEF IInv, BatchInv

(* A launch goes on, or fails before it is up.                               *)
StillLaunching == launch' = launch \/ (launch \in LaunchSteps /\ launch' = "failed")

LEMMA ExitPreserves ==
  ASSUME IInv, exited = "no", NEW code \in {"0", "1", "killed"}, Exit(code), StillLaunching,
         shutdownStatus' \in 0 .. 2, UNCHANGED faults,
         code = "0" => shutdownStatus' = 2 \/ (closing = "delay" /\ closer = "signal")
  PROVE  IInv'
<1> USE DEF Exit
<1>1. PluginServerTypeOK'
  <2>1. TypeOK'
    <3>1. resolved' \in 0 .. LogEnd /\ batchEnd' \in 0 .. LogEnd /\ consumer' \in ConsumerStates
      BY IngestionAssumption DEF IInv, PluginServerTypeOK, TypeOK, ConsumerStates
    <3> QED
      BY <3>1 DEF IInv, PluginServerTypeOK, TypeOK
  <2>2. launch' \in LaunchSteps \cup {"up", "failed"}
    BY DEF IInv, PluginServerTypeOK, StillLaunching
  <2> QED
    BY <2>1, <2>2 DEF IInv, PluginServerTypeOK
<1>2. ResolvedIsHandled' /\ BatchHasRound' /\ GroupIsNext' /\ GroupIsPending' /\ TasksHaveCause'
      /\ StaleIsRetired' /\ SeenWithinReach'
  BY DEF IInv, BatchInv, ResolvedIsHandled, Handled, BatchHasRound, GroupIsNext, GroupIsPending,
         TasksHaveCause, StaleIsRetired, SeenWithinReach
<1>3. RoundsInOrder'
  <2>1. \A m \in Messages, r \in Rounds : Seen(m, r)' => Seen(m, r)
    BY DEF Seen
  <2> QED
    BY <2>1 DEF IInv, BatchInv, RoundsInOrder
<1>4. LaunchIsEarly' /\ LaunchAssigns' /\ GoneIsIdle' /\ ZeroMeansClosed'
  BY DEF LaunchIsEarly, LaunchAssigns, GoneIsIdle, ZeroMeansClosed
<1>5. ClosingStops'
  BY DEF IInv, ClosingStops, StillLaunching, LaunchSteps
<1> QED
  BY <1>1, <1>2, <1>3, <1>4, <1>5 DEF IInv, BatchInv

(* What a step that leaves ingestion alone, the consumer excepted, preserves *)
LEMMA BatchKept ==
  ASSUME TypeOK, BatchInv, Running,
         UNCHANGED <<committed, resolved, batchEnd, group, stale, round, tasks, settled, retired>>,
         delivered' \cup buffered' \cup UNION sends' \subseteq delivered \cup buffered \cup UNION sends,
         consumer' = consumer \/ consumer \notin {"batch", "failed"},
         consumer' # "batch" \/ consumer = "batch"
  PROVE  BatchInv'
<1>1. ResolvedIsHandled' /\ BatchHasRound' /\ GroupIsNext' /\ StaleIsRetired' /\ TasksHaveCause'
  BY DEF BatchInv, ResolvedIsHandled, Handled, BatchHasRound, GroupIsNext, StaleIsRetired,
         TasksHaveCause
<1>2. GroupIsPending'
  BY DEF BatchInv, GroupIsPending, Pending, Handled, InTask
<1>3. SeenWithinReach' /\ RoundsInOrder'
  <2>1. \A m \in Messages, r \in Rounds : Seen(m, r)' => Seen(m, r)
    BY DEF Seen
  <2>2. round \in Nat
    BY IngestionAssumption DEF TypeOK
  <2> QED
    BY <2>1, <2>2, SeenShrinks DEF BatchInv, Running
<1> QED
  BY <1>1, <1>2, <1>3 DEF BatchInv

Timers == {"sigterm", "sigterm2", "sigkill", "exit"}

LEMMA BeginClosingPreserves ==
  ASSUME IInv, exited = "no", NEW who \in {"signal", "launch"}, BeginClosing(who), StillLaunching,
         timers' \subseteq Timers, faults' \in 0 .. MaxFaults,
         \/ consumer' = consumer
         \/ launch = "kafka" /\ launch' = "failed" /\ consumer' = "crashed"
  PROVE  IInv'
<1> USE DEF BeginClosing, producerVars
<1>1. launch = "kafka" => consumer \in {"off", "joining"}
  BY DEF IInv, LaunchIsEarly
<1>2. PluginServerTypeOK'
  BY DEF IInv, PluginServerTypeOK, TypeOK, ConsumerStates, LaunchSteps, CloseSteps,
         StillLaunching, Timers
<1>3. BatchInv'
  BY <1>1, BatchKept DEF IInv, PluginServerTypeOK, Running
<1>4. LaunchIsEarly' /\ LaunchAssigns'
  <2>1. CASE launch' = launch
    BY <1>1, <2>1 DEF IInv, LaunchIsEarly, LaunchAssigns
  <2>2. CASE launch' = "failed"
    BY <2>2 DEF LaunchIsEarly, LaunchAssigns, AssignedBy
  <2> QED
    BY <2>1, <2>2 DEF StillLaunching
<1>5. ClosingStops'
  <2> SUFFICES ASSUME launch = "up" PROVE ClosingStops'
    BY DEF ClosingStops
  <2>1. launch' = "up" /\ Assignable \subseteq assigned
    BY DEF StillLaunching, LaunchSteps, IInv, LaunchAssigns, AssignedBy
  <2>2. "kafka" \in assigned /\ running \subseteq Unstopped["kafka"]
    BY <2>1 DEF Assignable, Parts, IInv, PluginServerTypeOK, Unstopped
  <2> QED
    BY <2>1, <2>2 DEF ClosingStops
<1>6. ZeroMeansClosed' /\ GoneIsIdle'
  BY DEF ZeroMeansClosed, GoneIsIdle
<1> QED
  BY <1>2, <1>3, <1>4, <1>5, <1>6 DEF IInv

LEMMA CloseAgainPreserves ==
  ASSUME IInv, exited = "no", NEW who \in {"signal", "launch"}, CloseAgain(who), StillLaunching,
         UNCHANGED faults
  PROVE  IInv'
<1>1. ExitCode(who) \in {"0", "1", "killed"}
  BY DEF ExitCode
<1> QED
  BY <1>1, ExitPreserves DEF CloseAgain

(* A step of the launch starts and assigns parts; nothing is consumed before *)
(* the one that awaits the Kafka consumer.                                   *)
LEMMA LaunchStepPreserves ==
  ASSUME IInv, LaunchStep
  PROVE  IInv'
<1> USE DEF LaunchStep, Launching, producerVars
<1>1. /\ launch \in {"jobs", "kafka"} => consumer \in {"off", "joining"}
      /\ consumer' \in {consumer, "joining", "idle"}
      /\ consumer' # consumer => launch \in {"jobs", "kafka"}
  BY DEF IInv, LaunchIsEarly
<1>2. PluginServerTypeOK'
  <2>1. TypeOK'
    BY <1>1 DEF IInv, PluginServerTypeOK, TypeOK, ConsumerStates
  <2>2. launch' \in LaunchSteps \cup {"up", "failed"}
    BY DEF LaunchSteps, NextLaunchStep
  <2>3. Starts[launch] \subseteq Parts /\ Assigns[launch] \subseteq Parts
    BY DEF LaunchSteps, Starts, Assigns, Parts
  <2> QED
    BY <2>1, <2>2, <2>3 DEF IInv, PluginServerTypeOK
<1>3. BatchInv'
  BY <1>1, BatchKept DEF IInv, PluginServerTypeOK, Running
<1>4. LaunchIsEarly'
  BY DEF IInv, LaunchIsEarly, LaunchSteps, NextLaunchStep, Assigns
<1>5. LaunchAssigns'
  <2>1. AssignedBy[launch] \subseteq assigned /\ launch' \in DOMAIN AssignedBy
    BY DEF IInv, LaunchAssigns, LaunchSteps, AssignedBy, NextLaunchStep
  <2>2. AssignedBy[launch'] \subseteq AssignedBy[launch] \cup Assigns[launch]
    BY DEF LaunchSteps, NextLaunchStep, AssignedBy, Assigns, Assignable, Parts
  <2>3. launch' \notin {"hub", "database"} => "mmdbUpdateJob" \in running'
    <3>1. CASE launch = "hub"
      BY <3>1 DEF NextLaunchStep
    <3>2. CASE launch = "database"
      BY <3>2 DEF Starts
    <3>3. CASE launch \notin {"hub", "database"}
      BY <2>1, <3>3 DEF IInv, LaunchAssigns, LaunchSteps, AssignedBy
    <3> QED
      BY <3>1, <3>2, <3>3
  <2> QED
    BY <2>1, <2>2, <2>3 DEF LaunchAssigns
<1>6. ClosingStops' /\ ZeroMeansClosed' /\ GoneIsIdle'
  BY DEF IInv, ClosingStops, LaunchSteps, ZeroMeansClosed, GoneIsIdle
<1> QED
  BY <1>2, <1>3, <1>4, <1>5, <1>6 DEF IInv

LEMMA LaunchFailsPreserves ==
  ASSUME IInv, LaunchFails
  PROVE  IInv'
<1> USE DEF LaunchFails, Launching
<1>1. CASE /\ Fault /\ BeginClosing("launch")
           /\ IF launch = "kafka" THEN consumer' = "crashed" /\ KillGracefully
                                  ELSE UNCHANGED <<consumer, timers>>
  <2>1. faults' \in 0 .. MaxFaults
    BY <1>1, IngestionAssumption DEF Fault, IInv, PluginServerTypeOK, TypeOK
  <2>2. timers' \subseteq Timers
    BY <1>1 DEF IInv, PluginServerTypeOK, Timers, KillGracefully
  <2>3. \/ consumer' = consumer
        \/ launch = "kafka" /\ launch' = "failed" /\ consumer' = "crashed"
    BY <1>1
  <2> QED
    BY <1>1, <2>1, <2>2, <2>3, BeginClosingPreserves DEF StillLaunching
<1>2. CASE CloseAgain("launch") /\ UNCHANGED faults
  BY <1>2, CloseAgainPreserves DEF StillLaunching
<1> QED
  BY <1>1, <1>2

LEMMA BeforeExitPreserves ==
  ASSUME IInv, exited = "no", NEW left \in SUBSET timers, BeforeExit(left), UNCHANGED <<launch, faults>>
  PROVE  IInv'
<1>1. left \subseteq Timers /\ faults \in 0 .. MaxFaults
  BY DEF IInv, PluginServerTypeOK, TypeOK, Timers
<1> QED
  BY <1>1, BeginClosingPreserves, CloseAgainPreserves DEF BeforeExit, StillLaunching

LEMMA SignalPreserves ==
  ASSUME IInv, Signal \/ StalenessRestart \/ (\E timer \in timers : Fire(timer))
  PROVE  IInv'
<1>1. CASE Signal
  BY <1>1, BeforeExitPreserves DEF Signal
<1>2. CASE StalenessRestart
  <2> USE <1>2 DEF StalenessRestart, consumerVars, producerVars
  <2>1. PluginServerTypeOK'
    <3>1. faults' \in 0 .. MaxFaults
      BY IngestionAssumption DEF Fault, IInv, PluginServerTypeOK, TypeOK
    <3> QED
      BY <3>1 DEF IInv, PluginServerTypeOK, TypeOK
  <2>2. BatchInv'
    BY BatchKept DEF IInv, PluginServerTypeOK, Running
  <2>3. LaunchIsEarly' /\ LaunchAssigns' /\ ClosingStops' /\ ZeroMeansClosed' /\ GoneIsIdle'
    BY DEF IInv, LaunchIsEarly, LaunchAssigns, ClosingStops, ZeroMeansClosed, GoneIsIdle
  <2> QED
    BY <2>1, <2>2, <2>3 DEF IInv
<1>3. ASSUME NEW timer \in timers, Fire(timer) PROVE IInv'
  <2>1. CASE timer \in {"sigkill", "exit"}
    BY <1>3, <2>1, ExitPreserves DEF Fire, StillLaunching, IInv, PluginServerTypeOK
  <2>2. CASE timer \notin {"sigkill", "exit"}
    BY <1>3, <2>2, BeforeExitPreserves DEF Fire
  <2> QED
    BY <2>1, <2>2
<1> QED
  BY <1>1, <1>2, <1>3

LEMMA OverAndOutPreserves ==
  ASSUME IInv, OverAndOut
  PROVE  IInv'
<1>1. ExitCode(closer) \in {"0", "1", "killed"} /\ (ExitCode(closer) = "0" => closer = "signal")
  BY DEF ExitCode
<1> QED
  BY <1>1, ExitPreserves DEF OverAndOut, StillLaunching, IInv, PluginServerTypeOK

(* The parts that closeJobs has come to no longer run, as all were assigned. *)
LEMMA UpIsAssigned ==
  ASSUME IInv, exited = "no", launchAtClose = "up"
  PROVE  launch = "up" /\ Assignable \subseteq assigned /\ stopping /\ running \subseteq Unstopped[closing]
BY DEF IInv, ClosingStops, LaunchAssigns, AssignedBy

LEMMA KafkaQueueStopsPreserves ==
  ASSUME IInv, CloseStep, KafkaQueueStops
  PROVE  IInv'
<1> USE DEF CloseStep, KafkaQueueStops, producerVars
<1>1. PluginServerTypeOK'
  BY DEF IInv, PluginServerTypeOK, TypeOK, ConsumerStates, CloseSteps
<1>2. BatchInv'
  BY BatchKept DEF IInv, PluginServerTypeOK, Running
<1>3. LaunchIsEarly' /\ LaunchAssigns' /\ ZeroMeansClosed' /\ GoneIsIdle'
  BY DEF IInv, LaunchIsEarly, LaunchAssigns, ZeroMeansClosed, GoneIsIdle
<1>4. ClosingStops'
  <2> SUFFICES ASSUME launchAtClose = "up" PROVE ClosingStops'
    BY DEF ClosingStops
  <2>1. launch = "up" /\ stopping /\ running' \subseteq Unstopped["celery"]
    BY UpIsAssigned DEF Unstopped
  <2> QED
    BY <2>1 DEF ClosingStops
<1> QED
  BY <1>1, <1>2, <1>3, <1>4 DEF IInv

(* Steps of closeJobs that only stop parts.                                  *)
LEMMA PartStopsPreserves ==
  ASSUME IInv, CloseStep, PartStops \/ PubSubStops
  PROVE  IInv'
<1> USE DEF CloseStep, consumerVars, producerVars
<1>1. /\ UNCHANGED <<consumerVars, tasks, settled, producerVars, retired, awaited>>
      /\ running' \subseteq running
      /\ closing' \in CloseSteps \cup {"threw"} /\ closing' \notin {"kafka", "flush"}
      /\ closing \notin {"none", "kafka"}
      /\ closing' \in {"hub", "delay"} => closing = "hub"
  BY DEF PartStops, PubSubStops, StopOrder, CloseSteps
<1>2. PluginServerTypeOK'
  BY <1>1 DEF IInv, PluginServerTypeOK, TypeOK
<1>3. BatchInv'
  BY <1>1, BatchKept DEF IInv, PluginServerTypeOK, Running
<1>4. LaunchIsEarly' /\ LaunchAssigns' /\ GoneIsIdle'
  <2>1. "mmdbUpdateJob" \in running => "mmdbUpdateJob" \in running'
    BY DEF PartStops, PubSubStops, StopOrder
  <2> QED
    BY <1>1, <2>1 DEF IInv, LaunchIsEarly, LaunchAssigns, GoneIsIdle
<1>5. ZeroMeansClosed'
  BY DEF ZeroMeansClosed
<1>6. ClosingStops'
  <2> SUFFICES ASSUME launchAtClose = "up" PROVE ClosingStops'
    BY DEF ClosingStops
  <2>1. launch = "up" /\ stopping /\ consumer = "stopped" /\ (closing = "hub" => tasks = {})
    BY <1>1, UpIsAssigned DEF IInv, ClosingStops
  <2>2. running' \subseteq Unstopped[closing']
    <3>1. Assignable \subseteq assigned /\ running \subseteq Unstopped[closing]
      BY UpIsAssigned
    <3>2. CASE PartStops
      BY <3>1, <3>2 DEF PartStops, StopOrder, Unstopped, Assignable, Parts
    <3>3. CASE PubSubStops
      BY <3>1, <3>3 DEF PubSubStops, Unstopped, Assignable, Parts
    <3> QED
      BY <3>2, <3>3
  <2> QED
    BY <1>1, <2>1, <2>2 DEF ClosingStops
<1> QED
  BY <1>2, <1>3, <1>4, <1>5, <1>6 DEF IInv

LEMMA FlushWorkersPreserves ==
  ASSUME IInv, CloseStep, FlushWorkers
  PROVE  IInv'
<1> USE DEF CloseStep, FlushWorkers, consumerVars
<1>1. PluginServerTypeOK'
  BY DEF IInv, PluginServerTypeOK, TypeOK, CloseSteps
<1>2. BatchInv'
  BY BatchKept DEF IInv, PluginServerTypeOK, Running
<1>3. LaunchIsEarly' /\ LaunchAssigns' /\ ZeroMeansClosed' /\ GoneIsIdle'
  BY DEF IInv, LaunchIsEarly, LaunchAssigns, ZeroMeansClosed, GoneIsIdle
<1>4. ClosingStops'
  <2> SUFFICES ASSUME launchAtClose = "up" PROVE ClosingStops'
    BY DEF ClosingStops
  <2>1. /\ launch = "up" /\ stopping /\ "pool" \in assigned
        /\ running \subseteq Unstopped["flush"]
    BY UpIsAssigned DEF Assignable, Parts, Unstopped
  <2>2. closing' = "flush" /\ buffered' = {} /\ consumer = "stopped"
    BY <2>1 DEF IInv, ClosingStops
  <2> QED
    BY <2>1, <2>2 DEF ClosingStops
<1> QED
  BY <1>1, <1>2, <1>3, <1>4 DEF IInv

(* The calls of a group that is not done reject; of one that is, nothing was *)
(* pending.                                                                  *)
LEMMA DestroyWorkersPreserves ==
  ASSUME IInv, CloseStep, DestroyWorkers
  PROVE  IInv'
<1> USE DEF CloseStep, DestroyWorkers
<1>1. TypeOK /\ BatchInv /\ round \in Nat
  BY IngestionAssumption DEF IInv, PluginServerTypeOK, TypeOK
<1>2. PluginServerTypeOK'
  <2>1. retired' \subseteq Rounds /\ consumer' \in ConsumerStates /\ group' \subseteq Messages
    BY <1>1 DEF TypeOK, ConsumerStates, BatchInv, BatchHasRound
  <2> QED
    BY <2>1 DEF IInv, PluginServerTypeOK, TypeOK, CloseSteps
<1>3. ResolvedIsHandled' /\ BatchHasRound' /\ GroupIsNext' /\ StaleIsRetired' /\ TasksHaveCause'
  BY <1>1 DEF BatchInv, ResolvedIsHandled, Handled, BatchHasRound, GroupIsNext, StaleIsRetired,
              TasksHaveCause
<1>4. GroupIsPending'
  <2> SUFFICES ASSUME NEW m \in group' PROVE Pending(m)'
    BY DEF GroupIsPending
  <2>1. group' = group /\ GroupDone
    BY <1>1 DEF BatchInv, GroupIsNext
  <2>2. Pending(m) /\ \A name \in TaskNames : ~ InTask(m, name)
    BY <1>1, <2>1 DEF BatchInv, GroupIsPending, GroupDone, InTask
  <2> QED
    BY <2>2 DEF Pending, Handled, TaskNames
<1>5. SeenWithinReach' /\ RoundsInOrder'
  <2>1. \A m \in Messages, r \in Rounds : Seen(m, r)' => Seen(m, r)
    BY DEF Seen
  <2> QED
    BY <1>1, <2>1, SeenShrinks DEF BatchInv, Running
<1>6. LaunchIsEarly' /\ LaunchAssigns' /\ ZeroMeansClosed' /\ GoneIsIdle'
  BY <1>1 DEF IInv, LaunchIsEarly, LaunchAssigns, ZeroMeansClosed, GoneIsIdle
<1>7. ClosingStops'
  <2> SUFFICES ASSUME launchAtClose = "up" PROVE ClosingStops'
    BY DEF ClosingStops
  <2>1. /\ launch = "up" /\ stopping /\ consumer = "stopped"
        /\ running' \subseteq Unstopped["hub"]
    BY UpIsAssigned DEF Unstopped, IInv, ClosingStops
  <2> QED
    BY <2>1 DEF ClosingStops
<1> QED
  BY <1>2, <1>3, <1>4, <1>5, <1>6, <1>7 DEF IInv, BatchInv

(* Events are handled until the workers are gone; a stopped consumer hands   *)
(* out no more of them.                                                      *)
LEMMA IngestIInv ==
  ASSUME IInv, Ingest
  PROVE  IInv'
<1> USE DEF Ingest
<1>1. TypeOK' /\ BatchInv'
  BY IngestPreserves DEF IInv, PluginServerTypeOK, Running
<1>2. PluginServerTypeOK'
  BY <1>1 DEF IInv, PluginServerTypeOK, KillGracefully
<1>3. /\ stopping' = stopping
      /\ retired \subseteq retired'
      /\ consumer \in {"off", "joining", "stopped"} => consumer' = consumer
  BY DEF IngestNext, Fetch, StartGroup, FinishGroup, EndBatch, RetryBatch, Rebalance, Rejoin,
         RunTask, ProcessEvent, IngestEvent, RunOn, Reject, Produce, Flush, Acknowledge, SendFails,
         consumerVars, producerVars
<1>4. ASSUME consumer = "stopped"
      PROVE  /\ tasks = {} => tasks' = {}
             /\ \A b \in buffered' : b \in buffered \/ b.round \in retired
  <2>1. group = {}
    BY <1>4 DEF IInv, BatchInv, GroupIsNext
  <2>2. \A t \in tasks : t.round \in retired
    BY <2>1 DEF IInv, BatchInv, TasksHaveCause
  <2>3. CASE RunTask
    BY <2>2, <2>3 DEF RunTask, ProcessEvent, IngestEvent, RunOn, Reject, producerVars
  <2>4. CASE ~ RunTask
    BY <1>4, <2>4 DEF IngestNext, Fetch, StartGroup, FinishGroup, EndBatch, RetryBatch, Rebalance,
         Produce, Flush, Acknowledge, SendFails, producerVars
  <2> QED
    BY <2>3, <2>4
<1>5. LaunchIsEarly' /\ LaunchAssigns' /\ ZeroMeansClosed' /\ GoneIsIdle'
  BY <1>3 DEF IInv, LaunchIsEarly, LaunchAssigns, ZeroMeansClosed, GoneIsIdle
<1>6. ClosingStops'
  BY <1>3, <1>4 DEF IInv, ClosingStops
<1> QED
  BY <1>1, <1>2, <1>5, <1>6 DEF IInv

LEMMA NextIInv ==
  ASSUME IInv, [Next]_vars
  PROVE  IInv'
<1>1. CASE UNCHANGED vars
  <2> USE <1>1 DEF vars, lifeVars, ingestVars, consumerVars, producerVars
  <2>1. PluginServerTypeOK'
    BY DEF IInv, PluginServerTypeOK, TypeOK
  <2>2. ResolvedIsHandled' /\ BatchHasRound' /\ GroupIsNext' /\ GroupIsPending' /\ TasksHaveCause'
        /\ StaleIsRetired'
    BY DEF IInv, BatchInv, ResolvedIsHandled, Handled, BatchHasRound, GroupIsNext, GroupIsPending,
           Pending, InTask, TasksHaveCause, StaleIsRetired
  <2>3. SeenWithinReach' /\ RoundsInOrder'
    BY DEF IInv, BatchInv, SeenWithinReach, RoundsInOrder, Seen
  <2>4. LaunchIsEarly' /\ LaunchAssigns' /\ ClosingStops' /\ ZeroMeansClosed' /\ GoneIsIdle'
    BY DEF IInv, LaunchIsEarly, LaunchAssigns, ClosingStops, ZeroMeansClosed, GoneIsIdle
  <2> QED
    BY <2>1, <2>2, <2>3, <2>4 DEF IInv, BatchInv
<1>2. CASE CloseStep
  BY <1>2, KafkaQueueStopsPreserves, PartStopsPreserves, FlushWorkersPreserves,
     DestroyWorkersPreserves
  DEF CloseStep
<1> QED
  BY <1>1, <1>2, LaunchStepPreserves, LaunchFailsPreserves, SignalPreserves, OverAndOutPreserves,
     IngestIInv
  DEF Next

LEMMA Invariance == Spec => []IInv
<1>1. IInv /\ [Next]_vars => IInv'
  BY NextIInv
<1> QED
  BY <1>1, InitIInv, PTL DEF Spec

-----------------------------------------------------------------------------
(* The properties *)

(* CommittedIsHandled: what the group has committed was dropped by a plugin, *)
(* or went through ingestEvent and onEvent, whatever failed, was rebalanced  *)
(* or cut short, and wherever a group ends (kafka-queue.ts:60-70).           *)
THEOREM CommittedIsHandledHolds == Spec => []CommittedIsHandled
<1>1. IInv => CommittedIsHandled
  BY IngestionAssumption
  DEF IInv, PluginServerTypeOK, TypeOK, BatchInv, ResolvedIsHandled, CommittedIsHandled, Messages
<1> QED
  BY <1>1, Invariance, PTL

(* DuplicateHasCause: a message that two rounds leave in a producer is one   *)
(* whose first round a failure, a rebalance or an exit cut short.            *)
THEOREM DuplicateHasCauseHolds == Spec => []DuplicateHasCause
<1>1. IInv => DuplicateHasCause
  <2> SUFFICES ASSUME IInv,
                      NEW a \in delivered \cup buffered \cup UNION sends,
                      NEW b \in delivered \cup buffered \cup UNION sends,
                      a.m = b.m, a.round < b.round
               PROVE  a.round \in retired
    BY DEF DuplicateHasCause
  <2>1. a \in Token /\ b \in Token
    BY DEF IInv, PluginServerTypeOK, TypeOK
  <2>2. /\ a = [m |-> a.m, round |-> a.round] /\ b = [m |-> b.m, round |-> b.round]
        /\ a.m \in Messages /\ b.m \in Messages /\ a.round \in Rounds /\ b.round \in Rounds
    BY <2>1 DEF Token
  <2>3. Seen(a.m, a.round) /\ Seen(b.m, b.round)
    BY <2>2 DEF Seen
  <2>4. ~ (a.m < b.m)
    BY <2>2, IngestionAssumption DEF Messages
  <2> QED
    BY <2>2, <2>3, <2>4 DEF IInv, BatchInv, RoundsInOrder
<1> QED
  BY <1>1, Invariance, PTL

(* ShutdownIsComplete: closeJobs of a server that was up stops all it had    *)
(* started, and nothing is handled when the database is closed               *)
(* (pluginsServer.ts:72-100).                                                *)
THEOREM ShutdownIsCompleteHolds == Spec => []ShutdownIsComplete
<1>1. IInv => ShutdownIsComplete
  BY DEF IInv, ClosingStops, LaunchAssigns, AssignedBy, Unstopped, ShutdownIsComplete
<1> QED
  BY <1>1, Invariance, PTL

(* ServerOK: types; calls of two rounds are in flight together only when the *)
(* older one failed; once the queue has stopped only such calls are left;    *)
(* and the exit code 0 means that the server has closed.                     *)
THEOREM ServerOKHolds == Spec => []ServerOK
<1>1. IInv => OverlapHasCause /\ StopWaitsForBatch
  BY DEF IInv, BatchInv, GroupIsNext, TasksHaveCause, ClosingStops, GoneIsIdle, OverlapHasCause,
         StopWaitsForBatch
<1>2. IInv => ServerOK
  BY <1>1 DEF IInv, ServerOK
<1> QED
  BY <1>2, Invariance, PTL

(* DestroyLosesNoBatch: what is still in the producers of a server that was  *)
(* up when its workers are destroyed was queued by calls that a failed batch *)
(* left behind, after the last flush (pluginsServer.ts:257-263).             *)
THEOREM DestroyLosesNoBatchHolds == Spec => DestroyLosesNoBatch
<1>1. ASSUME IInv, Next, launchAtClose = "up", exited' = "no", "pool" \in running \ running'
      PROVE  \A message \in buffered : message.round \in retired
  <2>1. exited = "no"
    BY <1>1 DEF Next, LaunchStep, LaunchFails, Launching, Signal, StalenessRestart, Fire,
                CloseStep, OverAndOut, Ingest
  <2>2. CASE CloseStep
    <3>1. DestroyWorkers
      BY <1>1, <2>2 DEF CloseStep, KafkaQueueStops, PartStops, PubSubStops, StopOrder, FlushWorkers
    <3> QED
      BY <1>1, <2>1, <3>1 DEF DestroyWorkers, IInv, ClosingStops
  <2>3. CASE ~ CloseStep
    BY <1>1, <2>1, <2>3
    DEF Next, LaunchStep, LaunchFails, Launching, Signal, StalenessRestart, Fire, OverAndOut,
        Ingest, BeforeExit, BeginClosing, CloseAgain, Exit, ExitCode
  <2> QED
    BY <2>2, <2>3
<1>2. IInv /\ [Next]_vars =>
        [launchAtClose = "up" /\ exited' = "no" /\ "pool" \in running \ running'
           => \A message \in buffered : message.round \in retired]_vars
  BY <1>1
<1> QED
  BY <1>2, Invariance, PTL DEF Spec, DestroyLosesNoBatch

=============================================================================
