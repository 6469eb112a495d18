------------------------------ MODULE PluginVMs ------------------------------
(***************************************************************************)
(* The plugin VMs of one worker thread: setupPlugins, teardownPlugins and   *)
(* loadSchedule (src/src/worker/plugins/) over LazyPluginVM                 *)
(* (src/src/worker/vm/lazy.ts).  Edits of the configurations arrive as      *)
(* reloadPlugins tasks, each followed by a reloadSchedule task, and the     *)
(* shutdown as a teardownPlugins task; the thread runs them concurrently.   *)
(* A VM is created in the background, and again by a timer when that failed. *)
(*                                                                          *)
(* Abstracted: what a plugin does (its creation succeeds or throws; every   *)
(* plugin has scheduled tasks), the plugin's own row (its version is part   *)
(* of its configuration's), log entries and error columns, retry delays.    *)
(***************************************************************************)
EXTENDS Integers, FiniteSets

CONSTANTS
  Config,     \* plugin configurations
  MaxVMs,     \* bound: the VMs ever made for a configuration
  Setup,      \* bound: concurrent executions of setupPlugins and loadSchedule
  None,
  MAX_SETUP_RETRIES,
  MaxEdits,   \* bound: edits of the database
  MaxFaults   \* bound: failing queries

ASSUME PluginVMsAssumption ==
  /\ MaxVMs \in Nat \ {0}
  /\ MAX_SETUP_RETRIES \in Nat \ {0}
  /\ MaxEdits \in Nat /\ MaxFaults \in Nat
  /\ (\A S \in SUBSET Config : S # None) /\ \A v \in Config \X (1..MaxVMs) : v # None
  /\ \A S \in SUBSET (Config \X (1..MaxVMs)) : S # None

(* The VMs of a configuration, in the order they are made. *)
VM == Config \X (1..MaxVMs)

VARIABLES
  row,        \* Postgres, per configuration: its version; 0 if not in force
  edits,      \* of configurations; the version an edit gives a row
  reloads,    \* reloadPlugins tasks not started
  nudges,     \* reloadSchedule tasks not started
  current,    \* server.pluginConfigs: per configuration its VM, or None
  schedule,   \* server.pluginSchedule, or None while it is null
  closing,    \* VMs that the teardown of them all has yet to come to, or None
              \* before the shutdown
  closed,     \* the VM it has come to last, or None
  setup,      \* per setupPlugins: "free", "querying", "comparing", "loading"
  rows,       \* per setupPlugins, the rows it has read
  vms,        \* per setupPlugins, its new pluginConfigs
  loader,     \* per loadSchedule: the configurations whose VM it awaits next,
              \* or None
  watched,    \* per loadSchedule, the pluginConfigs it goes through
  found,      \* per loadSchedule, the configurations with tasks
  vm,         \* per VM: "unused", "loading", "creating", "retry" (its timer is
              \* set), "ready", "null" (resolved to null for good)
  made,       \* per VM, the version of the configuration it was made for
  attempts,   \* totalInitAttemptsCounter
  tearing,    \* VMs whose teardown awaits resolveInternalVm
  torn,       \* history: how often teardownPlugin was called, up to 2
  leftover,   \* history: VMs of configurations no longer in force, and those
              \* whose creation failed while their teardown waited for it
  crowded,    \* history: setups that overlapped others
  hasty,      \* history: the schedule is of pluginConfigs replaced meanwhile
  doubtful,   \* history: the last setup failed or overlapped another
  messy,      \* history: some setup failed, or overlapped another or the
              \* shutdown, or the shutdown's teardown failed
  faults

database == <<row, edits, reloads>>
server == <<current, schedule, closing, closed>>
setups == <<setup, rows, vms, nudges>>
loaders == <<loader, watched, found>>
machines == <<vm, made, attempts>>
teardowns == <<tearing, torn, leftover>>
histories == <<crowded, hasty, doubtful, messy, faults>>
vars == <<database, server, setups, loaders, machines, teardowns, histories>>

Nothing == [c \in Config |-> None]
Pending == {v \in VM : vm[v] \in {"loading", "creating"}}
Busy == {s \in Setup : setup[s] # "free"}
Loaders == {s \in Setup : loader[s] # None}

TypeOK ==
  /\ row \in [Config -> Nat] /\ edits \in Nat /\ reloads \in Nat /\ nudges \in Nat
  /\ current \in [Config -> VM \cup {None}]
  /\ schedule \in (SUBSET Config) \cup {None}
  /\ closing \in (SUBSET VM) \cup {None} /\ closed \in VM \cup {None}
  /\ setup \in [Setup -> {"free", "querying", "comparing", "loading"}]
  /\ rows \in [Setup -> [Config -> Nat]]
  /\ vms \in [Setup -> [Config -> VM \cup {None}]]
  /\ loader \in [Setup -> (SUBSET Config) \cup {None}]
  /\ watched \in [Setup -> [Config -> VM \cup {None}]]
  /\ found \in [Setup -> SUBSET Config]
  /\ vm \in [VM -> {"unused", "loading", "creating", "retry", "ready", "null"}]
  /\ made \in [VM -> Nat]
  /\ attempts \in [VM -> 0..MAX_SETUP_RETRIES]
  /\ tearing \subseteq Pending /\ leftover \subseteq VM
  /\ torn \in [VM -> 0..2]
  /\ crowded \subseteq Setup /\ hasty \in BOOLEAN
  /\ doubtful \in BOOLEAN /\ messy \in BOOLEAN
  /\ faults \in 0..MaxFaults

(* createWorker awaits a first setupPlugins. *)
Init ==
  /\ row \in [Config -> {0, 1}] /\ edits = 1 /\ reloads = 1 /\ nudges = 0
  /\ current = Nothing /\ schedule = None /\ closing = None /\ closed = None
  /\ setup = [s \in Setup |-> "free"]
  /\ rows = [s \in Setup |-> [c \in Config |-> 0]]
  /\ vms = [s \in Setup |-> Nothing] /\ watched = [s \in Setup |-> Nothing]
  /\ loader = [s \in Setup |-> None] /\ found = [s \in Setup |-> {}]
  /\ vm = [v \in VM |-> "unused"] /\ made = [v \in VM |-> 0]
  /\ attempts = [v \in VM |-> 0]
  /\ tearing = {} /\ torn = [v \in VM |-> 0] /\ leftover = {}
  /\ crowded = {} /\ hasty = FALSE
  /\ doubtful = FALSE /\ messy = FALSE /\ faults = 0

-----------------------------------------------------------------------------
(* The web application changes, enables or disables a configuration and     *)
(* publishes a message on the reload channel.                               *)
Edit(c) ==
  /\ edits <= MaxEdits
  /\ edits' = edits + 1
  /\ row' \in {[row EXCEPT ![c] = edits + 1], [row EXCEPT ![c] = 0]}
  /\ reloads' = reloads + 1
  /\ UNCHANGED <<server, setups, loaders, machines, teardowns, histories>>

-----------------------------------------------------------------------------
(* LazyPluginVM *)

(* v's promise resolves, to the VM or to null, and wakes a teardown.  The   *)
(* timer of a retry is set before: the teardown does not clear it.          *)
Resolve(v, state) ==
  /\ vm' = [vm EXCEPT ![v] = state]
  /\ tearing' = tearing \ {v}
  /\ torn' = IF v \in tearing /\ state = "ready" THEN [torn EXCEPT ![v] = @ + 1] ELSE torn
  /\ leftover' = IF v \in tearing /\ state = "retry" THEN leftover \cup {v} ELSE leftover

(* loadPlugin: initialize is called, not awaited. *)
Initialize(v) ==
  /\ vm[v] = "loading"
  /\ vm' = [vm EXCEPT ![v] = "creating"]
  /\ UNCHANGED <<database, server, setups, loaders, made, attempts, teardowns, histories>>

(* loadPlugin: there is no code to run; processError may fail. *)
FailInitialization(v) ==
  /\ vm[v] = "loading"
  /\ Resolve(v, "null")
  /\ UNCHANGED <<database, server, setups, loaders, made, attempts, histories>>

(* createPluginConfigVM, setupPlugin included, and inferPluginCapabilities  *)
Created(v) ==
  /\ vm[v] = "creating"
  /\ Resolve(v, "ready")
  /\ UNCHANGED <<database, server, setups, loaders, made, attempts, histories>>

Disable(c) == row' = [row EXCEPT ![c] = 0]

(* Mutant: one attempt more. *)
RetryOnceMore(v) ==
  /\ UNCHANGED attempts
  /\ IF attempts[v] <= MAX_SETUP_RETRIES
     THEN Resolve(v, "retry") /\ UNCHANGED row
     ELSE Resolve(v, "null") /\ Disable(v[1])

(* After too many attempts the configuration is disabled; no one is told.   *)
RetryOrDisable(v) ==
  /\ UNCHANGED attempts
  /\ IF attempts[v] < MAX_SETUP_RETRIES
     THEN Resolve(v, "retry") /\ UNCHANGED row
     ELSE Resolve(v, "null") /\ Disable(v[1])

CreationFails(v) ==
  /\ vm[v] = "creating"
  /\ RetryOrDisable(v)
  /\ UNCHANGED <<edits, reloads, server, setups, loaders, made, histories>>

(* The timer fires: initVm makes a new promise and initialize is called.    *)
Retry(v) ==
  /\ vm[v] = "retry"
  /\ vm' = [vm EXCEPT ![v] = "creating"]
  /\ attempts' = [attempts EXCEPT ![v] = @ + 1]
  /\ UNCHANGED <<database, server, setups, loaders, made, teardowns, histories>>

-----------------------------------------------------------------------------
(* teardownPlugins *)

(* Mutant: the timer of a retry is left alone. *)
KeepRetryTimeout(vs) == vm

ClearRetryTimeout(vs) ==
  [v \in VM |-> IF v \in vs /\ vm[v] = "retry" THEN "null" ELSE vm[v]]

(* A teardown of vs: waits for the promises that are pending. *)
TearDown(vs) ==
  /\ tearing' = tearing \cup (vs \cap Pending)
  /\ torn' = [v \in VM |-> IF v \in vs /\ vm[v] = "ready" /\ torn[v] < 2
                           THEN torn[v] + 1 ELSE torn[v]]

-----------------------------------------------------------------------------
(* setupPlugins *)

Start(s) ==
  /\ reloads > 0
  /\ setup[s] = "free" /\ loader[s] = None
  /\ reloads' = reloads - 1
  /\ setup' = [setup EXCEPT ![s] = "querying"]
  /\ crowded' = IF Busy = {} THEN {} ELSE crowded \cup Busy \cup {s}
  /\ messy' = (messy \/ Busy # {} \/ closing # None)
  /\ UNCHANGED <<row, edits, server, rows, vms, nudges, loaders, machines, teardowns,
                 hasty, doubtful, faults>>

InForce(versions) == {c \in Config : versions[c] # 0}

(* Postgres answers with the configurations in force. *)
Query(s) ==
  /\ setup[s] = "querying"
  /\ setup' = [setup EXCEPT ![s] = "comparing"]
  /\ rows' = [rows EXCEPT ![s] = row]
  /\ UNCHANGED <<database, server, vms, nudges, loaders, machines, teardowns, histories>>

(* Mutant: a VM is kept whatever the version of its configuration. *)
KeepAll(s, c) == c \in InForce(rows[s]) /\ current[c] # None

(* The configuration is the one its VM was made for. *)
Keeps(s, c) ==
  c \in InForce(rows[s]) /\ current[c] # None /\ made[current[c]] = rows[s][c]

NewVM(c) == <<c, Cardinality({v \in VM : v[1] = c /\ vm[v] # "unused"}) + 1>>

(* Makes a VM for each changed configuration and tears down the one before, *)
(* without waiting; those no longer in force are left as they are.          *)
Compare(s) ==
  LET inForce == InForce(rows[s])
      changed == {c \in inForce : ~Keeps(s, c)}
      new == {NewVM(c) : c \in changed}
      old == {current[c] : c \in changed} \ {None}
      gone == {current[c] : c \in Config \ inForce} \ {None}
  IN  /\ setup[s] = "comparing"
      /\ new \subseteq VM
      /\ setup' = [setup EXCEPT ![s] = "loading"]
      /\ vms' = [vms EXCEPT ![s] = [c \in Config |->
           IF c \in changed THEN NewVM(c) ELSE IF c \in inForce THEN current[c] ELSE None]]
      /\ vm' = [v \in VM |-> IF v \in new THEN "loading" ELSE ClearRetryTimeout(old)[v]]
      /\ made' = [v \in VM |-> IF v \in new THEN rows[s][v[1]] ELSE made[v]]
      /\ attempts' = [v \in VM |-> IF v \in new THEN 1 ELSE attempts[v]]
      /\ TearDown(old)
      /\ leftover' = leftover \cup gone
      /\ UNCHANGED <<database, server, rows, nudges, loaders, histories>>

(* The locals of a setup that has ended are forgotten; however it ended, the *)
(* main thread then broadcasts reloadSchedule.                              *)
Return(s) ==
  /\ nudges' = nudges + 1
  /\ setup' = [setup EXCEPT ![s] = "free"]
  /\ rows' = [rows EXCEPT ![s] = [c \in Config |-> 0]]
  /\ vms' = [vms EXCEPT ![s] = Nothing]
  /\ crowded' = crowded \ {s}

(* A query or processError of a loadPlugin throws: nothing is swapped.      *)
SetupFails(s) ==
  /\ setup[s] # "free" /\ setup[s] # "comparing"
  /\ faults < MaxFaults /\ faults' = faults + 1
  /\ Return(s)
  /\ doubtful' = TRUE /\ messy' = TRUE
  /\ UNCHANGED <<database, server, loaders, machines, teardowns, hasty>>

(* Mutant: configurations that are there already stay as they are. *)
SwapMissing(s) ==
  /\ setup[s] = "loading"
  /\ \A c \in Config : vms[s][c] # None => vm[vms[s][c]] # "loading"
  /\ Return(s)
  /\ current' = [c \in Config |-> IF current[c] = None THEN vms[s][c] ELSE current[c]]
  /\ doubtful' = (s \in crowded)
  /\ UNCHANGED <<database, schedule, closing, closed, loaders, machines, teardowns, hasty,
                 messy, faults>>

(* loadSchedule up to its first await, over pluginConfigs p.                *)
LoadSchedule(s, p) ==
  /\ schedule' = None
  /\ loader' = [loader EXCEPT ![s] = {c \in Config : p[c] # None}]
  /\ watched' = [watched EXCEPT ![s] = p]
  /\ UNCHANGED found

(* Every loadPlugin has returned; loadSchedule is called, not awaited.      *)
Swap(s) ==
  /\ setup[s] = "loading"
  /\ \A c \in Config : vms[s][c] # None => vm[vms[s][c]] # "loading"
  /\ Return(s)
  /\ current' = vms[s]
  /\ doubtful' = (s \in crowded)
  /\ LoadSchedule(s, vms[s])
  /\ UNCHANGED <<database, closing, closed, machines, teardowns, hasty, messy, faults>>

-----------------------------------------------------------------------------
(* loadSchedule: awaits the VMs one by one. *)

(* The reloadSchedule task *)
Nudge(s) ==
  /\ nudges > 0
  /\ setup[s] = "free" /\ loader[s] = None
  /\ nudges' = nudges - 1
  /\ LoadSchedule(s, current)
  /\ UNCHANGED <<database, current, closing, closed, setup, rows, vms, machines, teardowns,
                 histories>>

(* Mutant: the promise of a VM is not awaited. *)
WatchNow(s) ==
  /\ s \in Loaders
  /\ \E c \in loader[s] :
       /\ loader' = [loader EXCEPT ![s] = @ \ {c}]
       /\ found' = [found EXCEPT ![s] =
            IF vm[watched[s][c]] = "ready" THEN @ \cup {c} ELSE @]
  /\ UNCHANGED <<database, server, setups, watched, machines, teardowns, histories>>

Watch(s) ==
  /\ s \in Loaders
  /\ \E c \in loader[s] :
       LET v == watched[s][c]
       IN  /\ v \notin Pending
           /\ loader' = [loader EXCEPT ![s] = @ \ {c}]
           /\ found' = [found EXCEPT ![s] = IF vm[v] = "ready" THEN @ \cup {c} ELSE @]
  /\ UNCHANGED <<database, server, setups, watched, machines, teardowns, histories>>

Scheduled(s) ==
  /\ loader[s] = {}
  /\ schedule' = found[s]
  /\ loader' = [loader EXCEPT ![s] = None]
  /\ watched' = [watched EXCEPT ![s] = Nothing]
  /\ found' = [found EXCEPT ![s] = {}]
  /\ hasty' = (watched[s] # current)
  /\ UNCHANGED <<database, current, closing, closed, setups, machines, teardowns,
                 crowded, doubtful, messy, faults>>

-----------------------------------------------------------------------------
(* The teardownPlugins task of the shutdown: goes through the VMs in use at *)
(* its start, and awaits the promise of each before it comes to the next.   *)
TearDownAll ==
  /\ closing = None
  /\ closing' = {current[c] : c \in Config} \ {None}
  /\ messy' = (messy \/ Busy # {})
  /\ UNCHANGED <<database, current, schedule, closed, setups, loaders, machines, teardowns,
                 crowded, hasty, doubtful, faults>>

Closing == closing \notin {None, {}} /\ closed \notin tearing

TearDownNext(v) ==
  /\ Closing /\ v \in closing
  /\ closing' = closing \ {v} /\ closed' = v
  /\ vm' = ClearRetryTimeout({v})
  /\ TearDown({v})
  /\ UNCHANGED <<database, current, schedule, setups, loaders, made, attempts, leftover,
                 histories>>

(* The log entry of a VM that resolved to null cannot be queued: the VMs    *)
(* that are left, if any, stay as they are.                                 *)
TearDownFails ==
  /\ closed # None /\ closed \notin tearing /\ vm[closed] # "ready"
  /\ faults < MaxFaults /\ faults' = faults + 1
  /\ closing' = {} /\ messy' = TRUE
  /\ UNCHANGED <<database, current, schedule, closed, setups, loaders, machines, teardowns,
                 crowded, hasty, doubtful>>

-----------------------------------------------------------------------------
VMStep(v) ==
  Initialize(v) \/ FailInitialization(v) \/ Created(v) \/ CreationFails(v) \/ Retry(v)

SetupStep(s) == Start(s) \/ Query(s) \/ Compare(s) \/ Swap(s) \/ SetupFails(s)

LoaderStep(s) == Nudge(s) \/ Watch(s) \/ Scheduled(s)

Shutdown == TearDownAll \/ (\E v \in VM : TearDownNext(v)) \/ TearDownFails

Next ==
  \/ \E c \in Config : Edit(c)
  \/ \E v \in VM : VMStep(v)
  \/ \E s \in Setup : SetupStep(s) \/ LoaderStep(s)
  \/ Shutdown

Spec == Init /\ [][Next]_vars

-----------------------------------------------------------------------------
Idle == Busy = {} /\ reloads = 0

InUse == {current[c] : c \in Config} \cup {vms[s][c] : s \in Busy, c \in Config}

GaveUp(v) == vm[v] = "null" /\ attempts[v] = MAX_SETUP_RETRIES

(* When every reload has been dealt with, the last of them alone and        *)
(* without a failure, the thread uses what is in force, except for what a   *)
(* VM disabled: lazy.ts:118 tells no one (setup.ts:10-45).                  *)
CurrentAgrees ==
  Idle /\ ~doubtful => \A c \in Config :
    \/ row[c] = IF current[c] = None THEN 0 ELSE made[current[c]]
    \/ row[c] = 0 /\ \E v \in VM : v[1] = c /\ GaveUp(v)

(* Between reloads, until the shutdown, the thread uses no VM that was torn  *)
(* down, unless setups overlapped or failed: teardowns begin before the     *)
(* swap (setup.ts:29), so that a setup that fails, or compares with what    *)
(* another has read, leaves a VM that was torn down in use.                 *)
NoTornVMInUse ==
  Busy = {} /\ closing = None /\ ~messy =>
    \A c \in Config : current[c] # None => current[c] \notin tearing /\ torn[current[c]] = 0

(* What holds a VM: once the shutdown has begun, only what is to come to it. *)
Holds == IF closing = None THEN InUse ELSE closing

(* A VM that is alive, or will be, is used, being set up or torn down, and  *)
(* once the shutdown has come to it to be in use is no excuse; the          *)
(* exceptions are VMs of configurations no longer in force, VMs that were   *)
(* torn down while failing (lazy.ts:64-68, 104), and setups that overlapped *)
(* another or the shutdown, or failed.                                      *)
NoStrayVM ==
  messy \/ \A v \in VM :
    vm[v] \in {"loading", "creating", "retry", "ready"} =>
      v \in Holds \cup tearing \cup leftover \/ torn[v] > 0

(* teardownPlugin runs once for a VM, the shutdown included, unless setups  *)
(* overlapped or failed, or the shutdown came while one ran: what it goes   *)
(* through is then what the setup may have torn down (setup.ts:29).         *)
TornDownOnce == messy \/ \A v \in VM : torn[v] <= 1

(* When every reload and every reloadSchedule task has been dealt with, the *)
(* schedule has every configuration whose VM was created at the first       *)
(* attempt, and none whose VM was not created.  It may miss one whose       *)
(* creation was tried again (setup.ts:106-129), and be of configurations    *)
(* that are no longer in use, when an older loadSchedule ended last.        *)
ScheduleAgrees ==
  Idle /\ nudges = 0 /\ Loaders = {} /\ ~hasty =>
    LET ready == {c \in Config : current[c] # None /\ vm[current[c]] = "ready"}
    IN  /\ schedule \subseteq ready
        /\ {c \in ready : attempts[current[c]] = 1} \subseteq schedule

(* What a thread holds after its reloads is what is in force, and what it no *)
(* longer holds was torn down once (setup.ts:10-45).                        *)
VMsOK == TypeOK /\ CurrentAgrees /\ TornDownOnce
=============================================================================
