----------------------------- MODULE ScheduleLock -----------------------------
(***************************************************************************)
(* Scheduled tasks on several plugin servers that share one Redis lock:     *)
(* startSchedule (src/src/main/services/schedule.ts) and startRedlock       *)
(* (src/src/utils/redlock.ts) of each server.                               *)
(*                                                                          *)
(* Redis answers the commands of a server in order, the redlock connection  *)
(* being its own.  The key expires unless it is extended: in time if the    *)
(* server and Redis are responsive, and too late as a fault.                *)
(*                                                                          *)
(* Abstracted: the three task names (one stands for each), the length of    *)
(* delays, the schedule itself (Config is what it lists), logging.          *)
(***************************************************************************)
EXTENDS Integers, FiniteSets

CONSTANTS
  Server,     \* the plugin servers of the cluster, each started once
  NoServer,   \* nobody
  Config,     \* the plugin configs with a scheduled task
  MaxFaults   \* bound: expiries in spite of extension, lost connections

ASSUME ScheduleAssumption ==
  /\ NoServer \notin Server
  /\ MaxFaults \in Nat

VARIABLES
  \* Redis
  owner,      \* the server that set the key, or NoServer
  \* startRedlock, per server
  pc,         \* its timer or request: "try", "locking", "extend", "extending",
              \* or "off"
  lock,       \* servers whose `lock' denotes the key in Redis
  believes,   \* servers where weHaveTheLock is set
  releasing,  \* servers whose unlock command will delete the key
  \* startSchedule, per server
  phase,      \* "running", then stopSchedule's "unlocking", "quitting",
              \* "waiting" and "stopped"; or "crashed"
  have,       \* servers where the schedule's weHaveTheLock is set
  loaded,     \* servers whose pluginSchedulePromise is resolved
  triggered,  \* servers where a job awaits pluginSchedulePromise
  running,    \* per server, configs in pluginSchedulePromises
  awaited,    \* per server, those that waitForTasksToFinish waits for
  faults

redlock == <<pc, lock, believes, releasing>>
tasks == <<loaded, triggered, running, awaited>>
vars == <<owner, redlock, phase, have, tasks, faults>>

TypeOK ==
  /\ owner \in Server \cup {NoServer}
  /\ pc \in [Server -> {"try", "locking", "extend", "extending", "off"}]
  /\ lock \subseteq Server
  /\ believes \subseteq Server
  /\ releasing \subseteq Server
  /\ phase \in [Server -> {"running", "unlocking", "quitting", "waiting",
                           "stopped", "crashed"}]
  /\ have \subseteq Server
  /\ loaded \subseteq Server
  /\ triggered \subseteq Server
  /\ running \in [Server -> SUBSET Config]
  /\ awaited \in [Server -> SUBSET Config]
  /\ faults \in Nat

Init ==
  /\ owner = NoServer
  /\ pc = [s \in Server |-> "try"]
  /\ lock = {}
  /\ believes = {}
  /\ releasing = {}
  /\ phase = [s \in Server |-> "running"]
  /\ have = {}
  /\ loaded = Server
  /\ triggered = {}
  /\ running = [s \in Server |-> {}]
  /\ awaited = [s \in Server |-> {}]
  /\ faults = 0

-----------------------------------------------------------------------------
(* startRedlock *)

Goto(s, target) == pc' = [pc EXCEPT ![s] = target]

(* The timer of tryToGetTheLock fires: redlock.lock is sent. *)
TryLock(s) ==
  /\ pc[s] = "try"
  /\ phase[s] \in {"running", "unlocking", "quitting"}
  /\ Goto(s, "locking")
  /\ UNCHANGED <<owner, lock, believes, releasing, phase, have, tasks, faults>>

(* The key was free: onLock is called, even if the server is stopping. *)
Acquire(s) ==
  /\ pc[s] = "locking"
  /\ owner = NoServer
  /\ owner' = s
  /\ lock' = lock \cup {s}
  /\ believes' = believes \cup {s}
  /\ have' = have \cup {s}
  /\ Goto(s, "extend")
  /\ UNCHANGED <<releasing, phase, tasks, faults>>

(* A LockError: tryToGetTheLock runs again later, unless stopped. *)
Retry(s) ==
  IF phase[s] = "running"
  THEN believes' = believes \ {s} /\ Goto(s, "try")
  ELSE UNCHANGED believes /\ Goto(s, "off")

Refused(s) ==
  /\ pc[s] = "locking"
  /\ owner # NoServer
  /\ Retry(s)
  /\ UNCHANGED <<owner, lock, releasing, phase, have, tasks, faults>>

(* The timer of extendLock fires. *)
ExtendLock(s) ==
  /\ pc[s] = "extend"
  /\ Goto(s, IF phase[s] = "running" THEN "extending" ELSE "off")
  /\ UNCHANGED <<owner, lock, believes, releasing, phase, have, tasks, faults>>

Extended(s) ==
  /\ pc[s] = "extending"
  /\ s \in lock
  /\ Goto(s, "extend")
  /\ UNCHANGED <<owner, lock, believes, releasing, phase, have, tasks, faults>>

(* Mutant: the timer is not armed again. *)
NotExtendedOff(s) ==
  /\ believes' = believes \ {s}
  /\ Goto(s, "off")

(* The catch of extendLock: start again, without onUnlock. *)
NotExtended(s) ==
  /\ believes' = believes \ {s}
  /\ Goto(s, "try")

ExtendFails(s) ==
  /\ pc[s] = "extending"
  /\ s \notin lock
  /\ NotExtended(s)
  /\ UNCHANGED <<owner, lock, releasing, phase, have, tasks, faults>>

(* The connection fails: a lock may have been set all the same. *)
LoseReply(s) ==
  /\ faults < MaxFaults
  /\ faults' = faults + 1
  /\ \/ /\ pc[s] = "locking"
        /\ Retry(s)
        /\ owner' \in {owner, IF owner = NoServer THEN s ELSE owner}
     \/ /\ pc[s] = "extending"
        /\ NotExtended(s)
        /\ UNCHANGED owner
  /\ UNCHANGED <<lock, releasing, phase, have, tasks>>

-----------------------------------------------------------------------------
(* Redis *)

Attended(s) ==
  s \in lock /\ phase[s] = "running" /\ pc[s] \in {"extend", "extending"}

KeyExpires ==
  /\ owner' = NoServer
  /\ lock' = lock \ {owner}
  /\ releasing' = releasing \ {owner}
  /\ UNCHANGED <<pc, believes, phase, have, tasks>>

Expire ==
  /\ owner # NoServer
  /\ ~ Attended(owner)
  /\ KeyExpires
  /\ UNCHANGED faults

ExpireLate ==
  /\ owner # NoServer
  /\ Attended(owner)
  /\ faults < MaxFaults
  /\ faults' = faults + 1
  /\ KeyExpires

-----------------------------------------------------------------------------
(* startSchedule *)

(* runScheduleDebounced: tasks of the last round that still run are skipped. *)
RunScheduleDebounced(s) == running' = [running EXCEPT ![s] = @ \cup Config]

(* A job of node-schedule. *)
RunEveryMinute(s) ==
  /\ phase[s] = "running"
  /\ s \in have
  /\ IF s \in loaded
     THEN RunScheduleDebounced(s) /\ UNCHANGED triggered
     ELSE triggered' = triggered \cup {s} /\ UNCHANGED running
  /\ UNCHANGED <<owner, redlock, phase, have, loaded, awaited, faults>>

TaskDone(s, c) ==
  /\ c \in running[s]
  /\ running' = [running EXCEPT ![s] = @ \ {c}]
  /\ awaited' = [awaited EXCEPT ![s] = @ \ {c}]
  /\ UNCHANGED <<owner, redlock, phase, have, loaded, triggered, faults>>

(* reloadSchedule, by a pub/sub message *)
ReloadSchedule(s) ==
  /\ phase[s] = "running"
  /\ loaded' = loaded \ {s}
  /\ UNCHANGED <<owner, redlock, phase, have, triggered, running, awaited, faults>>

(* The schedule arrives, and jobs that waited for it go on. *)
LoadPluginSchedule(s) ==
  /\ s \notin loaded
  /\ phase[s] # "crashed"
  /\ loaded' = loaded \cup {s}
  /\ triggered' = triggered \ {s}
  /\ IF s \in triggered THEN RunScheduleDebounced(s) ELSE UNCHANGED running
  /\ UNCHANGED <<owner, redlock, phase, have, awaited, faults>>

(* stopSchedule, up to the unlock it awaits: timers are cleared, a request  *)
(* in flight is not.                                                        *)
StopSchedule(s) ==
  /\ phase[s] = "running"
  /\ phase' = [phase EXCEPT ![s] = "unlocking"]
  /\ releasing' = releasing \cup ({s} \cap lock)
  /\ Goto(s, IF pc[s] \in {"try", "extend"} THEN "off" ELSE pc[s])
  /\ UNCHANGED <<owner, lock, believes, have, tasks, faults>>

(* Mutant: unlock deletes the key whoever has set it. *)
UnlockOfAnyone(s) ==
  /\ phase[s] = "unlocking"
  /\ pc[s] \notin {"locking", "extending"}
  /\ phase' = [phase EXCEPT ![s] = "quitting"]
  /\ owner' = NoServer
  /\ lock' = {}
  /\ releasing' = {}
  /\ UNCHANGED <<pc, believes, have, tasks, faults>>

(* Mutant: neither an undefined nor an expired lock is expected. *)
UnlockUncaught(s) ==
  /\ phase[s] = "unlocking"
  /\ s \in releasing
  /\ pc[s] \notin {"locking", "extending"}
  /\ phase' = [phase EXCEPT ![s] = "quitting"]
  /\ owner' = NoServer
  /\ lock' = lock \ {s}
  /\ releasing' = releasing \ {s}
  /\ UNCHANGED <<pc, believes, have, tasks, faults>>

(* lock?.unlock() is answered, with or without success. *)
Unlock(s) ==
  /\ phase[s] = "unlocking"
  /\ pc[s] \notin {"locking", "extending"}
  /\ phase' = [phase EXCEPT ![s] = "quitting"]
  /\ IF s \in releasing
     THEN /\ owner' = NoServer
          /\ lock' = lock \ {s}
          /\ releasing' = releasing \ {s}
     ELSE UNCHANGED <<owner, lock, releasing>>
  /\ UNCHANGED <<pc, believes, have, tasks, faults>>

(* Mutant: the promises are not flattened. *)
QuitUnflattened(s) ==
  /\ phase[s] = "quitting"
  /\ pc[s] \notin {"locking", "extending"}
  /\ phase' = [phase EXCEPT ![s] = "waiting"]
  /\ have' = have \ {s}
  /\ awaited' = [awaited EXCEPT ![s] = {running[s]}]
  /\ Goto(s, "off")
  /\ UNCHANGED <<owner, lock, believes, releasing, loaded, triggered, running, faults>>

(* redis.quit() is answered, onUnlock is called, and waitForTasksToFinish   *)
(* starts.  No later lock request can succeed.                              *)
Quit(s) ==
  /\ phase[s] = "quitting"
  /\ pc[s] \notin {"locking", "extending"}
  /\ phase' = [phase EXCEPT ![s] = "waiting"]
  /\ have' = have \ {s}
  /\ awaited' = [awaited EXCEPT ![s] = running[s]]
  /\ Goto(s, "off")
  /\ UNCHANGED <<owner, lock, believes, releasing, loaded, triggered, running, faults>>

WaitForTasksToFinish(s) ==
  /\ phase[s] = "waiting"
  /\ awaited[s] = {}
  /\ phase' = [phase EXCEPT ![s] = "stopped"]
  /\ UNCHANGED <<owner, redlock, have, tasks, faults>>

(* The server dies, and its tasks with it; the key is left to expire. *)
Crash(s) ==
  /\ phase[s] \notin {"stopped", "crashed"}
  /\ phase' = [phase EXCEPT ![s] = "crashed"]
  /\ Goto(s, "off")
  /\ lock' = lock \ {s}
  /\ believes' = believes \ {s}
  /\ releasing' = releasing \ {s}
  /\ have' = have \ {s}
  /\ triggered' = triggered \ {s}
  /\ running' = [running EXCEPT ![s] = {}]
  /\ awaited' = [awaited EXCEPT ![s] = {}]
  /\ UNCHANGED <<owner, loaded, faults>>

-----------------------------------------------------------------------------
(* What goes on without anyone asking. *)
Redlock(s) ==
  TryLock(s) \/ Acquire(s) \/ Refused(s) \/ ExtendLock(s) \/ Extended(s) \/ ExtendFails(s)

Stopping(s) == Unlock(s) \/ Quit(s) \/ WaitForTasksToFinish(s)

Next ==
  \/ \E s \in Server :
       \/ Redlock(s) \/ Stopping(s)
       \/ LoseReply(s)
       \/ RunEveryMinute(s) \/ ReloadSchedule(s) \/ LoadPluginSchedule(s)
       \/ \E c \in Config : TaskDone(s, c)
       \/ StopSchedule(s) \/ Crash(s)
  \/ Expire \/ ExpireLate

Spec == Init /\ [][Next]_vars

(* Timers fire, Redis answers, keys expire and tasks end. *)
FairSpec ==
  /\ Spec
  /\ \A s \in Server : WF_vars(Redlock(s)) /\ WF_vars(Stopping(s))
  /\ \A s \in Server, c \in Config : WF_vars(TaskDone(s, c))
  /\ WF_vars(Expire)

-----------------------------------------------------------------------------
(* Properties                                                               *)

(* A server that is not stopping and starts tasks, is about to, or runs any. *)
Active(s) ==
  phase[s] = "running" /\ (s \in have \/ s \in triggered \/ running[s] # {})

(* While no lock expires under its owner and no connection fails, a server  *)
(* that is active holds the lock, so one that is not stopping schedules     *)
(* tasks or still runs some at most: neither a late answer to a stopping    *)
(* server, nor a job that waited for a reload, nor an unlock of a lock      *)
(* already expired makes a second or leaves the first without the lock.     *)
OneActiveServer ==
  faults = 0 => \A s \in Server : Active(s) => s = owner /\ s \in lock

(* As long as a server runs, eventually one of them holds the lock and goes *)
(* on to hold it, after stops, crashes and lost replies: no retry is lost.  *)
SomeServerSchedules ==
  <>[](\/ \E s \in Server : s \in have /\ Attended(s)
       \/ \A s \in Server : phase[s] # "running")

(* stopSchedule returns, whatever became of the lock and however tasks that *)
(* a reload delayed start behind it.                                        *)
StopEnds == \A s \in Server :
  phase[s] = "unlocking" ~> phase[s] \in {"stopped", "crashed"}

(* src/README.md: scheduled tasks "run on only one plugin server instance in *)
(* the entire cluster".  So a server that knows it has lost the lock, its   *)
(* redlock's weHaveTheLock being false, starts no task.                     *)
StartsWithLock ==
  [][\A s \in Server : running'[s] \subseteq running[s] \/ s \in believes]_vars
=============================================================================
