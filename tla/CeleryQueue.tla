------------------------------ MODULE CeleryQueue ------------------------------
(***************************************************************************)
(* The Celery queue of a plugin server: Broker (src/src/utils/celery/       *)
(* broker.ts) with its polling loops, and CeleryQueue                       *)
(* (src/src/main/ingestion-queues/celery-queue.ts), which turns messages    *)
(* into tasks.  Tasks pause the queue when the worker threads are busy,     *)
(* piscina's drain event resumes it, and closeJobs stops it; none of them   *)
(* waits for the others.                                                    *)
(*                                                                          *)
(* Abstracted: the order of messages, their encoding (Bad are those that    *)
(* receiveOne or the task handler throws for), delays.                      *)
(***************************************************************************)
EXTENDS Integers, FiniteSets

CONSTANTS
  Message,    \* messages other programs push, each once
  Bad,        \* those of a wrong type, or for a task without handler
  Loop,       \* bound: the polling loops there can be at a time
  FirstLoop,  \* the one subscribe starts
  MaxErrors   \* bound: failures of the Redis connection

ASSUME QueueAssumption ==
  /\ Bad \subseteq Message
  /\ FirstLoop \in Loop
  /\ MaxErrors \in Nat

VARIABLES
  unsent,    \* messages not pushed yet
  waiting,   \* messages in Redis
  tasks,     \* messages of activeTasks
  loop,      \* "unused"; "due" (receiveFast or receiveSlow called), "popping"
             \* (waiting for BRPOP); "ended" (resolve called), "dead" (threw)
  channels,  \* Broker.channels: promises of loops
  paused,
  closing,
  pausing,   \* the channels that the last pause awaits
  phase,     \* of stop: "running", "finishing", "disconnecting", "stopped"
  stopping,  \* the promises stop waits for: of tasks, then of channels
  errors,
  leaked     \* history: loops that were alive when the queue was resumed

polling == <<loop, channels, paused, pausing, leaked>>
stop == <<closing, phase, stopping>>
vars == <<unsent, waiting, tasks, polling, stop, errors>>

Alive == {l \in Loop : loop[l] \in {"due", "popping"}}

Resolved(promises) == \A l \in promises : loop[l] = "ended"

TypeOK ==
  /\ unsent \subseteq Message
  /\ waiting \subseteq Message
  /\ tasks \subseteq Message \ Bad
  /\ loop \in [Loop -> {"unused", "due", "popping", "ended", "dead"}]
  /\ channels \subseteq Loop
  /\ paused \in BOOLEAN
  /\ closing \in BOOLEAN
  /\ pausing \subseteq Loop
  /\ phase \in {"running", "finishing", "disconnecting", "stopped"}
  /\ stopping \subseteq IF closing THEN Loop ELSE Message \ Bad
  /\ errors \in Nat
  /\ leaked \subseteq Loop

(* start has subscribed. *)
Init ==
  /\ unsent = Message
  /\ waiting = {}
  /\ tasks = {}
  /\ loop = [l \in Loop |-> IF l = FirstLoop THEN "due" ELSE "unused"]
  /\ channels = {FirstLoop}
  /\ paused = FALSE
  /\ closing = FALSE
  /\ pausing = {}
  /\ phase = "running"
  /\ stopping = {}
  /\ errors = 0
  /\ leaked = {}

-----------------------------------------------------------------------------
(* A polling loop *)

Goto(l, target) == loop' = [loop EXCEPT ![l] = target]

(* Mutant: closing is not looked at. *)
ReceiveUnlessPaused(l) ==
  /\ loop[l] = "due"
  /\ Goto(l, IF paused THEN "ended" ELSE "popping")
  /\ UNCHANGED <<unsent, waiting, tasks, channels, paused, pausing, leaked, stop, errors>>

(* receiveOneOnNextTick, up to BRPOP *)
Receive(l) ==
  /\ loop[l] = "due"
  /\ Goto(l, IF closing \/ paused THEN "ended" ELSE "popping")
  /\ UNCHANGED <<unsent, waiting, tasks, channels, paused, pausing, leaked, stop, errors>>

(* Mutant: the loop goes on after an exception of the callback, the task    *)
(* being recorded before its handler is looked up.                          *)
PopAnyway(l, m) ==
  /\ loop[l] = "popping"
  /\ m \in waiting
  /\ waiting' = waiting \ {m}
  /\ Goto(l, "due")
  /\ tasks' = tasks \cup {m}
  /\ UNCHANGED <<unsent, channels, paused, pausing, leaked, stop, errors>>

(* BRPOP returns m.  An exception of receiveOne or of the callback ends the *)
(* loop without resolving its promise.                                      *)
Pop(l, m) ==
  /\ loop[l] = "popping"
  /\ m \in waiting
  /\ waiting' = waiting \ {m}
  /\ IF m \in Bad
     THEN Goto(l, "dead") /\ UNCHANGED tasks
     ELSE Goto(l, "due") /\ tasks' = tasks \cup {m}
  /\ UNCHANGED <<unsent, channels, paused, pausing, leaked, stop, errors>>

(* Mutant: an empty answer is not followed by receiveSlow. *)
PopNothingOnce(l) ==
  /\ loop[l] = "popping"
  /\ waiting = {}
  /\ Goto(l, "ended")
  /\ UNCHANGED <<unsent, waiting, tasks, channels, paused, pausing, leaked, stop, errors>>

(* BRPOP times out. *)
PopNothing(l) ==
  /\ loop[l] = "popping"
  /\ waiting = {}
  /\ Goto(l, "due")
  /\ UNCHANGED <<unsent, waiting, tasks, channels, paused, pausing, leaked, stop, errors>>

(* BRPOP fails, before or after Redis has removed a message. *)
PopFails(l) ==
  /\ loop[l] = "popping"
  /\ errors < MaxErrors
  /\ errors' = errors + 1
  /\ Goto(l, "dead")
  /\ waiting' \in {waiting} \cup {waiting \ {m} : m \in waiting}
  /\ UNCHANGED <<unsent, tasks, channels, paused, pausing, leaked, stop>>

-----------------------------------------------------------------------------
(* Pause, resume, stop *)

(* Broker.pause, called by a task that finds the workers busy *)
Pause ==
  /\ tasks # {}
  /\ ~ paused
  /\ paused' = TRUE
  /\ pausing' = channels
  /\ channels' = {}
  /\ UNCHANGED <<unsent, waiting, tasks, loop, leaked, stop, errors>>

(* A loop whose promise nobody awaits. *)
Free(l) ==
  /\ loop[l] \in {"unused", "ended"}
  /\ l \notin channels \cup pausing
  /\ ~ (closing /\ l \in stopping)

(* Mutant: an unpaused queue can be resumed. *)
ResumeAlways ==
  /\ \E l \in Loop :
       /\ Free(l)
       /\ Goto(l, "due")
       /\ channels' = channels \cup {l}
       /\ leaked' = IF paused THEN (leaked \ {l}) \cup Alive ELSE leaked \ {l}
  /\ paused' = FALSE
  /\ pausing' = {}
  /\ UNCHANGED <<unsent, waiting, tasks, stop, errors>>

(* Mutant: no loop is started. *)
ResumeOnly ==
  /\ paused
  /\ paused' = FALSE
  /\ pausing' = {}
  /\ UNCHANGED <<unsent, waiting, tasks, loop, channels, leaked, stop, errors>>

(* Broker.resume, on piscina's drain: a new loop, though the one before may  *)
(* not have noticed the pause.                                              *)
Resume ==
  /\ paused
  /\ paused' = FALSE
  /\ pausing' = {}
  /\ \E l \in Loop :
       /\ Free(l)
       /\ Goto(l, "due")
       /\ channels' = channels \cup {l}
       /\ leaked' = (leaked \ {l}) \cup Alive
  /\ UNCHANGED <<unsent, waiting, tasks, stop, errors>>

(* CeleryQueue.stop waits for the tasks there are now. *)
Stop ==
  /\ phase = "running"
  /\ phase' = "finishing"
  /\ stopping' = tasks
  /\ UNCHANGED <<unsent, waiting, tasks, polling, closing, errors>>

(* Broker.disconnect *)
Disconnect ==
  /\ phase = "finishing"
  /\ stopping = {}
  /\ phase' = "disconnecting"
  /\ closing' = TRUE
  /\ stopping' = channels
  /\ UNCHANGED <<unsent, waiting, tasks, polling, errors>>

Disconnected ==
  /\ phase = "disconnecting"
  /\ Resolved(stopping)
  /\ phase' = "stopped"
  /\ UNCHANGED <<unsent, waiting, tasks, polling, closing, stopping, errors>>

TaskDone(m) ==
  /\ m \in tasks
  /\ tasks' = tasks \ {m}
  /\ stopping' = IF closing THEN stopping ELSE stopping \ {m}
  /\ UNCHANGED <<unsent, waiting, polling, closing, phase, errors>>

(* Another program pushes a message. *)
Publish(m) ==
  /\ m \in unsent
  /\ unsent' = unsent \ {m}
  /\ waiting' = waiting \cup {m}
  /\ UNCHANGED <<tasks, polling, stop, errors>>

Poll(l) == Receive(l) \/ (\E m \in waiting : Pop(l, m)) \/ PopNothing(l)

Next ==
  \/ \E l \in Loop : Poll(l) \/ PopFails(l)
  \/ Pause \/ Resume
  \/ Stop \/ Disconnect \/ Disconnected
  \/ \E m \in Message : TaskDone(m) \/ Publish(m)

Spec == Init /\ [][Next]_vars

(* Redis answers, tasks end, and piscina drains when they have. *)
FairSpec ==
  /\ Spec
  /\ \A l \in Loop : WF_vars(Poll(l))
  /\ \A m \in Message : WF_vars(TaskDone(m))
  /\ WF_vars(Resume)
  /\ WF_vars(Disconnect \/ Disconnected)

-----------------------------------------------------------------------------
(* Properties                                                               *)

(* Loops are added only by resuming before the last loop noticed the pause: *)
(* apart from those, one polls, through any sequence of pause and resume.   *)
OneLoop == \A k, l \in Alive \ leaked : k = l

(* A queue that is neither paused nor closing polls, unless an exception    *)
(* ended its loop: no pause and resume, however close, leave it dead.       *)
PollsUnlessPaused ==
  ~ paused /\ ~ closing => \E l \in channels : loop[l] \in {"due", "popping", "dead"}

(* A pushed message is taken, whatever pauses intervene, unless the queue   *)
(* is stopped or an exception ended a loop.                                 *)
MessagesAreTaken ==
  \A m \in Message :
    m \in waiting ~> m \notin waiting \/ closing \/ (\E l \in Loop : loop[l] = "dead")

(* Unless an exception ended a loop, stop returns, through pauses, resumes  *)
(* and messages that come in while it waits for tasks.                      *)
StopReturns ==
  phase = "finishing" ~> phase = "stopped" \/ (\E l \in Loop : loop[l] = "dead")

(* disconnect "returns promises that continues if redis disconnected": so   *)
(* stop returns whatever messages the loops have met.                       *)
DisconnectContinues == phase = "finishing" ~> phase = "stopped"

(* "Pause execution of queue. Wait until all channel promises have been     *)
(* exhausted": once pause has returned, nothing is taken until resume.      *)
PausedTakesNothing ==
  [][paused /\ Resolved(pausing) /\ paused' => waiting \subseteq waiting']_vars

(* However pause, resume and messages interleave, one loop polls (broker.ts  *)
(* :87-123).                                                                *)
LoopsOK == TypeOK /\ OneLoop /\ PollsUnlessPaused
=============================================================================
