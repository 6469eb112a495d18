--------------------------- MODULE PluginVMsProofs ---------------------------
(***************************************************************************)
(* Proofs about PluginVMs, for any configurations, setups and bounds: what  *)
(* setupPlugins, teardownPlugins and loadSchedule agree on, and the VMs     *)
(* that no setup has lost.                                                  *)
(***************************************************************************)
EXTENDS PluginVMs, FiniteSetTheorems, TLAPS

Alive(v) == vm[v] \in {"loading", "creating", "retry", "ready"}
Uses(p, c) == p[c] # None => p[c][1] = c /\ vm[p[c]] # "unused"

(* What is in use was made, for its configuration, in order.                *)
OwnVMs ==
  /\ \A c \in Config : Uses(current, c)
  /\ \A s \in Setup : \A c \in Config : Uses(vms[s], c) /\ Uses(watched[s], c)

MadeInOrder ==
  \A c \in Config : \E k \in 0 .. MaxVMs :
    \A i \in 1 .. MaxVMs : vm[<<c, i>>] # "unused" <=> i <= k

(* A VM made was attempted, has attempts left while its timer is set, and is *)
(* not counted as torn down before it is ready.                             *)
Attempted ==
  \A v \in VM :
    /\ vm[v] # "unused" => attempts[v] >= 1
    /\ vm[v] = "retry" => attempts[v] < MAX_SETUP_RETRIES
    /\ vm[v] # "ready" => torn[v] = 0

(* The locals of setupPlugins and loadSchedule.                             *)
LocalsOK ==
  \A s \in Setup :
    /\ setup[s] # "loading" => vms[s] = Nothing
    /\ setup[s] # "free" => loader[s] = None
    /\ loader[s] = None => found[s] = {}

(* A setup that is not crowded, or has nothing messy before it, is alone.    *)
SetupAlone ==
  /\ \A s, u \in Busy : s \notin crowded \/ ~ messy => s = u

(* Row k of a configuration in Postgres is what a setup read.               *)
RowStands(c, k) == row[c] = k \/ (row[c] = 0 /\ \E v \in VM : v[1] = c /\ GaveUp(v))

RowsStand ==
  \A s \in Busy : s \notin crowded /\ reloads = 0 /\ setup[s] # "querying" =>
    \A c \in Config : RowStands(c, rows[s][c])

MadeFor(p, c) == IF p[c] = None THEN 0 ELSE made[p[c]]

LoadingAgrees ==
  \A s \in Setup : setup[s] = "loading" => \A c \in Config : MadeFor(vms[s], c) = rows[s][c]

(* Unless it was messy: what is to be in use is not torn down, and what is   *)
(* replaced is.                                                              *)
Whole(p) == \A c \in Config : p[c] # None => p[c] \notin tearing /\ torn[p[c]] = 0
Settled(v) == Alive(v) => v \in tearing \cup leftover \/ torn[v] > 0

NotTorn ==
  ~ messy /\ closing = None =>
    /\ (\A s \in Setup : setup[s] # "loading") => Whole(current)
    /\ \A s \in Setup : setup[s] = "loading" => Whole(vms[s])

ReplacedIsGone ==
  ~ messy => \A s \in Setup : setup[s] = "loading" =>
    \A c \in Config : current[c] # None /\ current[c] # vms[s][c] => Settled(current[c])

(* The shutdown found no setup, and what it has yet to come to is not torn   *)
(* down.                                                                     *)
ClosingWhole ==
  ~ messy /\ closing # None =>
    Busy = {} /\ \A v \in closing : v \notin tearing /\ torn[v] = 0

(* A configuration looked at has a VM that is ready if it was found, and else *)
(* will not be ready at its first attempt.                                  *)
Missed(v) == vm[v] \in {"null", "retry"} \/ attempts[v] >= 2
Looked(p, rest, f) ==
  /\ \A c \in rest \cup f : p[c] # None
  /\ \A c \in f : vm[p[c]] = "ready"
  /\ \A c \in Config \ (rest \cup f) : p[c] # None => Missed(p[c])

LookedAt == \A s \in Loaders : Looked(watched[s], loader[s], found[s])

ScheduleStands ==
  Loaders = {} =>
    \/ schedule = None /\ (reloads > 0 \/ Busy # {} \/ nudges > 0)
    \/ schedule # None /\ (~ hasty => Looked(current, {}, schedule))

IInv ==
  /\ TypeOK /\ OwnVMs /\ MadeInOrder /\ Attempted /\ LocalsOK /\ SetupAlone
  /\ RowsStand /\ LoadingAgrees /\ CurrentAgrees
  /\ NotTorn /\ ReplacedIsGone /\ NoStrayVM /\ TornDownOnce /\ ClosingWhole
  /\ LookedAt /\ ScheduleStands

-----------------------------------------------------------------------------
(* The parts of the type invariant                                          *)

SetupState == {"free", "querying", "comparing", "loading"}
VMState == {"unused", "loading", "creating", "retry", "ready", "null"}

TypeDatabase ==
  /\ row \in [Config -> Nat] /\ edits \in Nat /\ reloads \in Nat
  /\ hasty \in BOOLEAN /\ doubtful \in BOOLEAN /\ messy \in BOOLEAN
  /\ faults \in 0..MaxFaults

TypeSetups ==
  /\ current \in [Config -> VM \cup {None}]
  /\ schedule \in (SUBSET Config) \cup {None}
  /\ closing \in (SUBSET VM) \cup {None} /\ closed \in VM \cup {None}
  /\ nudges \in Nat
  /\ setup \in [Setup -> SetupState]
  /\ rows \in [Setup -> [Config -> Nat]]
  /\ vms \in [Setup -> [Config -> VM \cup {None}]]
  /\ crowded \subseteq Setup

TypeLoaders ==
  /\ loader \in [Setup -> (SUBSET Config) \cup {None}]
  /\ watched \in [Setup -> [Config -> VM \cup {None}]]
  /\ found \in [Setup -> SUBSET Config]

TypeMachines ==
  /\ vm \in [VM -> VMState]
  /\ made \in [VM -> Nat]
  /\ attempts \in [VM -> 0..MAX_SETUP_RETRIES]
  /\ tearing \subseteq Pending /\ leftover \subseteq VM
  /\ torn \in [VM -> 0..2]

Types == TypeDatabase /\ TypeSetups /\ TypeLoaders /\ TypeMachines

LEMMA TypeParts == TypeOK <=> Types
BY DEF TypeOK, Types, TypeDatabase, TypeSetups, TypeLoaders, TypeMachines, SetupState, VMState

LEMMA TypePartsNext == TypeOK' <=> Types'
BY DEF TypeOK, Types, TypeDatabase, TypeSetups, TypeLoaders, TypeMachines, SetupState, VMState

LEMMA TheVMs ==
  ASSUME PluginVMsAssumption
  PROVE  /\ None \notin VM /\ None \notin SUBSET Config /\ None \notin SUBSET VM
         /\ \A v \in VM : v[1] \in Config /\ v[2] \in 1 .. MaxVMs /\ v = <<v[1], v[2]>>
         /\ \A c \in Config, i \in 1 .. MaxVMs : <<c, i>> \in VM
BY DEF PluginVMsAssumption, VM

-----------------------------------------------------------------------------
(* A step of a VM                                                           *)

(* v's state becomes y; its promise resolves unless v is then creating.      *)
VMMoves(v, y) ==
  /\ vm[v] \in {"loading", "creating", "retry"}
  /\ y \in {"creating", "retry", "ready", "null"}
  /\ vm' = [vm EXCEPT ![v] = y]
  /\ vm[v] = "retry" => y = "creating"
  /\ y = "retry" => attempts[v] < MAX_SETUP_RETRIES
  /\ attempts' = IF vm[v] = "retry" THEN [attempts EXCEPT ![v] = @ + 1] ELSE attempts
  /\ tearing' = IF y = "creating" THEN tearing ELSE tearing \ {v}
  /\ torn' = IF v \in tearing /\ y = "ready" THEN [torn EXCEPT ![v] = @ + 1] ELSE torn
  /\ leftover' = IF v \in tearing /\ y = "retry" THEN leftover \cup {v} ELSE leftover
  /\ row' = row \/ (y = "null" /\ attempts[v] = MAX_SETUP_RETRIES /\ row' = [row EXCEPT ![v[1]] = 0])
  /\ UNCHANGED <<edits, reloads, server, setups, loaders, made, histories>>

LEMMA VMStepMoves ==
  ASSUME PluginVMsAssumption, TypeOK, NEW v \in VM, VMStep(v)
  PROVE  \E y : VMMoves(v, y)
<1>t. attempts[v] \in 0..MAX_SETUP_RETRIES /\ MAX_SETUP_RETRIES \in Nat /\ vm[v] \in VMState
      /\ tearing \subseteq Pending
  BY TypeParts DEF Types, TypeMachines, PluginVMsAssumption
<1>1. CASE Initialize(v)
  <2>1. VMMoves(v, "creating")
    BY <1>1 DEF Initialize, VMMoves, database, teardowns
  <2> QED BY <2>1
<1>2. CASE FailInitialization(v)
  <2>1. VMMoves(v, "null")
    BY <1>2 DEF FailInitialization, Resolve, VMMoves, database
  <2> QED BY <2>1
<1>3. CASE Created(v)
  <2>1. VMMoves(v, "ready")
    BY <1>3 DEF Created, Resolve, VMMoves, database
  <2> QED BY <2>1
<1>4. CASE CreationFails(v)
  <2>1. CASE attempts[v] < MAX_SETUP_RETRIES
    <3>1. VMMoves(v, "retry")
      BY <1>4, <2>1 DEF CreationFails, RetryOrDisable, Resolve, VMMoves
    <3> QED BY <3>1
  <2>2. CASE ~ (attempts[v] < MAX_SETUP_RETRIES)
    <3>1. attempts[v] = MAX_SETUP_RETRIES
      BY <1>t, <2>2
    <3>2. VMMoves(v, "null")
      BY <1>4, <2>2, <3>1 DEF CreationFails, RetryOrDisable, Resolve, VMMoves, Disable
    <3> QED BY <3>2
  <2> QED BY <2>1, <2>2
<1>5. CASE Retry(v)
  <2>1. v \notin tearing
    BY <1>t, <1>5 DEF Retry, Pending
  <2>2. VMMoves(v, "creating")
    BY <1>5, <2>1 DEF Retry, VMMoves, database, teardowns
  <2> QED BY <2>2
<1> QED BY <1>1, <1>2, <1>3, <1>4, <1>5 DEF VMStep

LEMMA VMMovesTypes ==
  ASSUME PluginVMsAssumption, TypeOK, Attempted, NEW v \in VM, NEW y, VMMoves(v, y)
  PROVE  TypeOK'
<1>t. Types
  BY TypeParts
<1>1. TypeDatabase'
  <2>1. v[1] \in Config
    BY TheVMs
  <2>2. row' \in [Config -> Nat]
    BY <1>t, <2>1 DEF VMMoves, Types, TypeDatabase
  <2> QED BY <1>t, <2>2 DEF VMMoves, histories, Types, TypeDatabase
<1>2. TypeSetups'
  BY <1>t DEF VMMoves, server, setups, histories, Types, TypeSetups
<1>3. TypeLoaders'
  BY <1>t DEF VMMoves, loaders, histories, Types, TypeLoaders
<1>4. TypeMachines'
  <2>1. vm' \in [VM -> VMState] /\ made' \in [VM -> Nat]
    BY <1>t DEF VMMoves, Types, TypeMachines, VMState
  <2>2. attempts' \in [VM -> 0..MAX_SETUP_RETRIES]
    <3>1. vm[v] = "retry" => attempts[v] + 1 \in 0..MAX_SETUP_RETRIES
      BY <1>t DEF Attempted, Types, TypeMachines, PluginVMsAssumption
    <3> QED BY <1>t, <3>1 DEF VMMoves, Types, TypeMachines
  <2>3. torn' \in [VM -> 0..2]
    <3>1. torn[v] = 0
      BY DEF Attempted, VMMoves
    <3> QED BY <1>t, <3>1 DEF VMMoves, Types, TypeMachines
  <2>4. tearing' \subseteq Pending'
    <3>1. ASSUME NEW w \in tearing' PROVE w \in Pending'
      <4>1. w \in VM /\ vm[w] \in {"loading", "creating"} /\ (w = v => y = "creating")
        BY <1>t, <3>1 DEF VMMoves, Types, TypeMachines, Pending
      <4>2. vm'[w] \in {"loading", "creating"}
        BY <1>t, <4>1 DEF VMMoves, Types, TypeMachines
      <4> QED BY <4>1, <4>2 DEF Pending
    <3> QED BY <3>1
  <2>5. leftover' \subseteq VM
    BY <1>t DEF VMMoves, Types, TypeMachines
  <2> QED BY <2>1, <2>2, <2>3, <2>4, <2>5 DEF TypeMachines
<1> QED BY <1>1, <1>2, <1>3, <1>4, TypePartsNext DEF Types

(* What is true of VMs, one by one, stays so. *)
LEMMA VMMovesEach ==
  ASSUME PluginVMsAssumption, TypeOK, Attempted, NEW v \in VM, NEW y, VMMoves(v, y)
  PROVE  /\ \A w \in VM : vm'[w] = "unused" <=> vm[w] = "unused"
         /\ \A w \in VM : GaveUp(w) => GaveUp(w)'
         /\ \A w \in VM : vm[w] = "ready" => vm'[w] = "ready"
         /\ \A w \in VM : Missed(w) => Missed(w)'
         /\ \A w \in VM : Settled(w) => Settled(w)'
         /\ \A w \in VM : w \notin tearing /\ torn[w] = 0 => w \notin tearing' /\ torn'[w] = 0
<1>t. Types
  BY TypeParts
<1>1. /\ vm'[v] = y
      /\ attempts'[v] = IF vm[v] = "retry" THEN attempts[v] + 1 ELSE attempts[v]
      /\ attempts[v] \in Nat /\ attempts[v] >= 1 /\ torn[v] = 0 /\ torn \in [VM -> 0..2]
      /\ v \in tearing => vm[v] # "retry"
  BY <1>t DEF VMMoves, Attempted, Types, TypeMachines, Pending
<1>2. ASSUME NEW w \in VM, w # v
      PROVE  /\ vm'[w] = vm[w] /\ attempts'[w] = attempts[w] /\ torn'[w] = torn[w]
             /\ w \in tearing' <=> w \in tearing
             /\ w \in leftover' <=> w \in leftover
  BY <1>t, <1>2 DEF VMMoves, Types, TypeMachines
<1>3. vm'[v] # "unused" /\ vm[v] # "unused" /\ vm[v] # "ready" /\ vm[v] # "null"
  BY <1>1 DEF VMMoves
<1>4. Missed(v) => Missed(v)'
  <2>1. CASE vm[v] = "retry"
    BY <1>1, <2>1 DEF Missed
  <2>2. CASE vm[v] # "retry"
    BY <1>1, <1>3, <2>2 DEF Missed
  <2> QED BY <2>1, <2>2
<1>5. Settled(v) => Settled(v)'
  <2> SUFFICES ASSUME Settled(v), Alive(v)' PROVE v \in tearing' \cup leftover' \/ torn'[v] > 0
    BY DEF Settled
  <2>1. Alive(v) /\ (v \in tearing \/ v \in leftover)
    BY <1>1 DEF Settled, Alive, VMMoves
  <2>2. CASE v \in leftover
    BY <2>2 DEF VMMoves
  <2>3. CASE v \in tearing
    <3>1. CASE y = "creating"
      BY <2>3, <3>1 DEF VMMoves
    <3>2. CASE y = "ready"
      BY <1>1, <2>3, <3>2 DEF VMMoves
    <3>3. CASE y = "retry"
      BY <2>3, <3>3 DEF VMMoves
    <3> QED BY <1>1, <3>1, <3>2, <3>3 DEF VMMoves, Alive
  <2> QED BY <2>1, <2>2, <2>3
<1>6. v \notin tearing /\ torn[v] = 0 => v \notin tearing' /\ torn'[v] = 0
  BY DEF VMMoves
<1> QED BY <1>2, <1>3, <1>4, <1>5, <1>6 DEF GaveUp, Missed, Settled, Alive

(* What loadSchedule has looked at stays so while VMs that were made go on. *)
LEMMA LookedStays ==
  ASSUME IInv,
         \A w \in VM : vm[w] = "ready" => vm'[w] = "ready",
         \A w \in VM : vm[w] # "unused" /\ Missed(w) =>
                         vm'[w] \in {"null", "retry"} \/ attempts'[w] >= 2,
         UNCHANGED <<current, schedule, loader, watched, found, reloads, nudges, hasty>>,
         Busy' = Busy
  PROVE  LookedAt' /\ ScheduleStands'
<1>0. Types /\ OwnVMs
  BY TypeParts DEF IInv
<1>p. /\ \A c \in Config : current[c] \in VM \cup {None}
      /\ \A s \in Setup, c \in Config : watched[s][c] \in VM \cup {None}
  BY <1>0 DEF Types, TypeSetups, TypeLoaders
<1>u. /\ \A c \in Config : current[c] # None => vm[current[c]] # "unused"
      /\ \A s \in Setup, c \in Config : watched[s][c] # None => vm[watched[s][c]] # "unused"
  BY <1>0 DEF OwnVMs, Uses
<1>1. LookedAt'
  <2>1. ASSUME NEW s \in Loaders
        PROVE  Looked(watched[s], loader[s], found[s])'
    <3>1. s \in Setup /\ Looked(watched[s], loader[s], found[s])
      BY DEF IInv, LookedAt, Loaders
    <3>2. found[s] \subseteq Config
      BY <1>0, <3>1 DEF Types, TypeLoaders
    <3>3. \A c \in found[s] : vm'[watched[s][c]] = "ready"
      BY <1>p, <3>1, <3>2 DEF Looked
    <3>4. ASSUME NEW c \in Config \ (loader[s] \cup found[s]), watched[s][c] # None
          PROVE  vm'[watched[s][c]] \in {"null", "retry"} \/ attempts'[watched[s][c]] >= 2
      BY <1>p, <1>u, <3>1, <3>4 DEF Looked
    <3> QED BY <3>1, <3>3, <3>4 DEF Looked, Missed
  <2> QED BY <2>1 DEF LookedAt, Loaders
<1>2. ScheduleStands'
  <2>1. CASE Loaders = {} /\ schedule # None /\ ~ hasty
    <3>1. ScheduleStands
      BY DEF IInv
    <3>2. Looked(current, {}, schedule)
      BY <2>1, <3>1, Zenon DEF ScheduleStands
    <3>3. schedule \subseteq Config
      <4>1. schedule # None
        BY <2>1
      <4> QED BY <1>0, <4>1 DEF Types, TypeSetups
    <3>4. \A c \in schedule : vm'[current[c]] = "ready"
      BY <1>p, <3>2, <3>3 DEF Looked
    <3>5. ASSUME NEW c \in Config \ ({} \cup schedule), current[c] # None
          PROVE  vm'[current[c]] \in {"null", "retry"} \/ attempts'[current[c]] >= 2
      BY <1>p, <1>u, <3>2, <3>5 DEF Looked
    <3>6. Looked(current, {}, schedule)'
      BY <3>2, <3>4, <3>5 DEF Looked, Missed
    <3> QED BY <2>1, <3>6 DEF ScheduleStands, Loaders
  <2>2. CASE ~ (Loaders = {} /\ schedule # None /\ ~ hasty)
    BY <2>2 DEF IInv, ScheduleStands, Loaders
  <2> QED BY <2>1, <2>2
<1> QED BY <1>1, <1>2

LEMMA VMMovesInv ==
  ASSUME PluginVMsAssumption, IInv, NEW v \in VM, NEW y, VMMoves(v, y)
  PROVE  IInv'
<1>0. TypeOK /\ Attempted /\ Types
  BY TypeParts DEF IInv
<1>t. TypeOK'
  BY <1>0, VMMovesTypes
<1>e. /\ \A w \in VM : vm'[w] = "unused" <=> vm[w] = "unused"
      /\ \A w \in VM : GaveUp(w) => GaveUp(w)'
      /\ \A w \in VM : vm[w] = "ready" => vm'[w] = "ready"
      /\ \A w \in VM : Missed(w) => Missed(w)'
      /\ \A w \in VM : Settled(w) => Settled(w)'
      /\ \A w \in VM : w \notin tearing /\ torn[w] = 0 => w \notin tearing' /\ torn'[w] = 0
  BY <1>0, VMMovesEach
<1>p. /\ \A c \in Config : current[c] \in VM \cup {None}
      /\ \A s \in Setup, c \in Config : vms[s][c] \in VM \cup {None} /\ watched[s][c] \in VM \cup {None}
  BY <1>0 DEF Types, TypeSetups, TypeLoaders
<1>u. UNCHANGED <<current, schedule, closing, setup, rows, vms, nudges, loader, watched, found, made,
                  reloads, crowded, hasty, doubtful, messy>>
  BY DEF VMMoves, server, setups, loaders, histories
<1>1. OwnVMs'
  BY <1>e, <1>p, <1>u DEF IInv, OwnVMs, Uses
<1>2. MadeInOrder'
  BY <1>e, TheVMs DEF IInv, MadeInOrder
<1>3. Attempted'
  <2>1. ASSUME NEW w \in VM, w # v
        PROVE  vm'[w] = vm[w] /\ attempts'[w] = attempts[w] /\ torn'[w] = torn[w]
    BY <1>0, <2>1 DEF VMMoves, Types, TypeMachines
  <2>2. /\ vm'[v] = y
        /\ attempts'[v] = IF vm[v] = "retry" THEN attempts[v] + 1 ELSE attempts[v]
        /\ attempts[v] \in Nat /\ attempts[v] >= 1
    BY <1>0 DEF VMMoves, Attempted, Types, TypeMachines
  <2>3. torn[v] = 0 /\ (vm'[v] # "ready" => torn'[v] = 0)
    BY <1>0, <2>2 DEF VMMoves, Attempted
  <2>4. vm'[v] = "retry" => attempts'[v] < MAX_SETUP_RETRIES
    BY <2>2 DEF VMMoves
  <2> QED BY <1>0, <2>1, <2>2, <2>3, <2>4 DEF Attempted
<1>4. LocalsOK' /\ SetupAlone' /\ LoadingAgrees'
  BY <1>u DEF IInv, LocalsOK, SetupAlone, LoadingAgrees, Busy, MadeFor
<1>r. \A c \in Config, k \in Nat : RowStands(c, k) => RowStands(c, k)'
  <2> SUFFICES ASSUME NEW c \in Config, NEW k \in Nat, RowStands(c, k) PROVE RowStands(c, k)'
    OBVIOUS
  <2>1. (\E w \in VM : w[1] = c /\ GaveUp(w)) => (\E w \in VM : w[1] = c /\ GaveUp(w)')
    BY <1>e
  <2>2. CASE row' = row
    BY <2>1, <2>2 DEF RowStands
  <2>3. CASE y = "null" /\ attempts[v] = MAX_SETUP_RETRIES /\ row' = [row EXCEPT ![v[1]] = 0]
    <3>1. GaveUp(v)'
      BY <1>0, <2>3 DEF GaveUp, VMMoves, Types, TypeMachines
    <3>2. row'[c] = IF v[1] = c THEN 0 ELSE row[c]
      BY <1>0, <2>3 DEF Types, TypeDatabase
    <3>3. CASE v[1] = c
      BY <3>1, <3>2, <3>3 DEF RowStands
    <3>4. CASE v[1] # c
      BY <2>1, <3>2, <3>4 DEF RowStands
    <3> QED BY <3>3, <3>4
  <2> QED BY <2>2, <2>3 DEF VMMoves
<1>5. RowsStand'
  <2>1. \A s \in Setup, c \in Config : rows[s][c] \in Nat
    BY <1>0 DEF Types, TypeSetups
  <2> QED BY <1>r, <1>u, <2>1 DEF IInv, RowsStand, Busy
<1>6. CurrentAgrees'
  <2>1. \A c \in Config : MadeFor(current, c) \in Nat
    BY <1>0, <1>p DEF MadeFor, Types, TypeMachines
  <2>2. CurrentAgrees <=> (Idle /\ ~ doubtful => \A c \in Config : RowStands(c, MadeFor(current, c)))
    BY DEF CurrentAgrees, RowStands, MadeFor
  <2>3. CurrentAgrees' <=>
          (Idle' /\ ~ doubtful' => \A c \in Config : RowStands(c, MadeFor(current, c))')
    BY DEF CurrentAgrees, RowStands, MadeFor
  <2>4. \A c \in Config : MadeFor(current, c)' = MadeFor(current, c)
    BY <1>u DEF MadeFor
  <2>5. \A c \in Config, k \in Nat : RowStands(c, k)' <=> (row'[c] = k \/ (row'[c] = 0 /\ \E w \in VM : w[1] = c /\ GaveUp(w)'))
    BY DEF RowStands
  <2>6. Idle' = Idle
    BY <1>u DEF Idle, Busy
  <2> QED BY <1>r, <1>u, <2>1, <2>2, <2>3, <2>4, <2>6 DEF IInv, RowStands
<1>7. NotTorn' /\ ReplacedIsGone'
  BY <1>e, <1>p, <1>u, TheVMs DEF IInv, NotTorn, ReplacedIsGone, Whole
<1>8. NoStrayVM'
  <2>1. ASSUME ~ messy, NEW w \in VM, Alive(w)'
        PROVE  w \in Holds' \cup tearing' \cup leftover' \/ torn'[w] > 0
    <3>1. Alive(w)
      <4>1. vm[w] # "unused"
        BY <1>e, <2>1 DEF Alive
      <4>2. vm[w] = "null" => vm'[w] = "null"
        BY <1>0 DEF VMMoves, Types, TypeMachines
      <4> QED BY <1>0, <2>1, <4>1, <4>2 DEF Alive, Types, TypeMachines, VMState
    <3>2. w \in Holds \/ Settled(w)
      BY <2>1, <3>1 DEF IInv, NoStrayVM, Settled, Alive
    <3>3. Holds' = Holds
      BY <1>u DEF Holds, InUse, Busy
    <3> QED BY <1>e, <2>1, <3>2, <3>3 DEF Settled
  <2> QED BY <1>u, <2>1 DEF NoStrayVM, Alive
<1>9. TornDownOnce'
  <2>1. ASSUME ~ messy, NEW w \in VM PROVE torn'[w] <= 1
    <3>1. torn[w] <= 1 /\ torn[w] \in 0..2 /\ (w = v => torn[w] = 0)
      BY <1>0, <2>1 DEF IInv, TornDownOnce, Types, TypeMachines, Attempted, VMMoves
    <3>2. torn'[w] = torn[w] \/ (w = v /\ torn'[w] = torn[w] + 1)
      <4>1. torn \in [VM -> 0..2]
        BY <1>0 DEF Types, TypeMachines
      <4>2. torn' = torn \/ torn' = [torn EXCEPT ![v] = torn[v] + 1]
        BY DEF VMMoves
      <4> QED BY <4>1, <4>2
    <3> QED BY <3>1, <3>2
  <2> QED BY <1>u, <2>1 DEF TornDownOnce
<1>10. LookedAt' /\ ScheduleStands'
  <2>1. Busy' = Busy
    BY <1>u DEF Busy
  <2>2. \A w \in VM : Missed(w) => vm'[w] \in {"null", "retry"} \/ attempts'[w] >= 2
    BY <1>e DEF Missed
  <2> QED BY <1>e, <1>u, <2>1, <2>2, LookedStays
<1>11. ClosingWhole'
  <2>1. closing # None => closing \subseteq VM
    BY <1>0 DEF Types, TypeSetups
  <2> QED BY <1>e, <1>u, <2>1 DEF IInv, ClosingWhole, Busy
<1> QED BY <1>t, <1>1, <1>2, <1>3, <1>4, <1>5, <1>6, <1>7, <1>8, <1>9, <1>10, <1>11 DEF IInv

-----------------------------------------------------------------------------
(* Steps that leave VMs, and what is in use, alone                           *)

LEMMA EditInv ==
  ASSUME PluginVMsAssumption, IInv, NEW c \in Config, Edit(c)
  PROVE  IInv'
<1>0. Types
  BY TypeParts DEF IInv
<1>u. UNCHANGED <<server, setups, loaders, machines, teardowns, histories>>
  BY DEF Edit
<1>1. edits' = edits + 1 /\ reloads' = reloads + 1 /\ reloads' > 0 /\ row' \in [Config -> Nat]
  BY <1>0 DEF Edit, Types, TypeDatabase
<1>2. TypeOK'
  <2>1. TypeDatabase'
    BY <1>0, <1>1, <1>u DEF histories, Types, TypeDatabase
  <2>2. TypeSetups' /\ TypeLoaders' /\ TypeMachines'
    BY <1>0, <1>u
    DEF server, setups, loaders, machines, teardowns, histories, Types, TypeSetups, TypeLoaders,
        TypeMachines, Pending
  <2> QED BY <2>1, <2>2, TypePartsNext DEF Types
<1>3. OwnVMs' /\ MadeInOrder' /\ Attempted' /\ LocalsOK' /\ SetupAlone'
  BY <1>u
  DEF IInv, OwnVMs, Uses, MadeInOrder, Attempted, LocalsOK, SetupAlone, Busy,
      server, setups, loaders, machines, teardowns, histories
<1>4. reloads' # 0
  BY <1>1, <1>0 DEF Types, TypeDatabase
<1>5. RowsStand' /\ LoadingAgrees' /\ CurrentAgrees'
  BY <1>u, <1>4
  DEF IInv, RowsStand, LoadingAgrees, CurrentAgrees, Idle, MadeFor, server, setups, machines
<1>6. NotTorn' /\ ReplacedIsGone' /\ NoStrayVM' /\ TornDownOnce' /\ ClosingWhole'
  BY <1>u
  DEF IInv, NotTorn, Whole, ReplacedIsGone, Settled, Alive, NoStrayVM, Holds, InUse, Busy,
      TornDownOnce, ClosingWhole, server, setups, machines, teardowns, histories
<1>7. LookedAt'
  BY <1>u
  DEF IInv, LookedAt, Looked, Missed, Loaders, server, loaders, machines, histories
<1>8. ScheduleStands'
  BY <1>u, <1>1
  DEF IInv, ScheduleStands, Looked, Missed, Loaders, Busy, server, setups, loaders, machines, histories
<1> QED BY <1>2, <1>3, <1>5, <1>6, <1>7, <1>8 DEF IInv

(* Those that concern setupPlugins only. *)
LEMMA SetupOnly ==
  ASSUME PluginVMsAssumption, IInv,
         UNCHANGED <<row, edits, server, loaders, machines, teardowns, hasty>>,
         TypeDatabase', TypeSetups', LocalsOK', SetupAlone', RowsStand', LoadingAgrees',
         \A s \in Setup : \A c \in Config : Uses(vms'[s], c),
         CurrentAgrees', NotTorn', ReplacedIsGone', NoStrayVM', messy => messy', ClosingWhole',
         ScheduleStands'
  PROVE  IInv'
<1>0. Types
  BY TypeParts DEF IInv
<1>1. TypeOK'
  <2>1. TypeLoaders' /\ TypeMachines'
    BY <1>0 DEF loaders, machines, teardowns, Types, TypeLoaders, TypeMachines, Pending
  <2> QED BY <2>1, TypePartsNext DEF Types
<1>2. OwnVMs'
  BY DEF IInv, OwnVMs, Uses, server, loaders, machines
<1>3. MadeInOrder' /\ Attempted'
  BY DEF IInv, MadeInOrder, Attempted, machines, teardowns
<1>4. TornDownOnce'
  BY DEF IInv, TornDownOnce, teardowns
<1>5. LookedAt'
  BY DEF IInv, LookedAt, Looked, Missed, Loaders, server, loaders, machines
<1> QED BY <1>1, <1>2, <1>3, <1>4, <1>5 DEF IInv

LEMMA StartInv ==
  ASSUME PluginVMsAssumption, IInv, NEW s \in Setup, Start(s)
  PROVE  IInv'
<1>0. Types
  BY TypeParts DEF IInv
<1>u. UNCHANGED <<row, edits, current, schedule, closing, closed, rows, vms, nudges, loaders, machines,
                  teardowns, hasty, doubtful, faults>>
  BY DEF Start, server
<1>1. /\ setup[s] = "free" /\ loader[s] = None
      /\ setup' = [setup EXCEPT ![s] = "querying"]
      /\ \A u \in Setup : setup'[u] = IF u = s THEN "querying" ELSE setup[u]
  BY <1>0 DEF Start, Types, TypeSetups
<1>2. s \notin Busy /\ Busy' = Busy \cup {s}
  BY <1>1 DEF Busy
<1>3. /\ crowded' = IF Busy = {} THEN {} ELSE crowded \cup Busy \cup {s}
      /\ messy' = (messy \/ Busy # {} \/ closing # None)
  BY DEF Start
<1>4. TypeDatabase'
  <2>1. reloads' \in Nat
    BY <1>0 DEF Start, Types, TypeDatabase
  <2> QED BY <1>0, <1>u, <1>3, <2>1 DEF Types, TypeDatabase
<1>5. TypeSetups'
  <2>1. crowded' \subseteq Setup
    BY <1>0, <1>3 DEF Types, TypeSetups, Busy
  <2> QED BY <1>0, <1>u, <1>1, <2>1 DEF Types, TypeSetups, SetupState
<1>6. LocalsOK'
  BY <1>u, <1>1 DEF IInv, LocalsOK, loaders
<1>7. SetupAlone'
  <2>1. CASE Busy = {}
    BY <1>2, <2>1 DEF SetupAlone
  <2>2. CASE Busy # {}
    BY <1>2, <1>3, <2>2 DEF SetupAlone
  <2> QED BY <2>1, <2>2
<1>8. RowsStand'
  <2>1. CASE Busy = {}
    BY <1>1, <1>2, <2>1 DEF RowsStand
  <2>2. CASE Busy # {}
    BY <1>2, <1>3, <2>2 DEF RowsStand
  <2> QED BY <2>1, <2>2
<1>9. LoadingAgrees'
  BY <1>u, <1>1 DEF IInv, LoadingAgrees, MadeFor, machines
<1>10. \A u \in Setup : \A c \in Config : Uses(vms'[u], c)
  BY <1>u DEF IInv, OwnVMs
<1>11. CurrentAgrees'
  BY <1>2 DEF CurrentAgrees, Idle
<1>12. NotTorn' /\ ReplacedIsGone'
  <2>1. ~ messy' => ~ messy
    BY <1>3
  <2>2. \A u \in Setup : setup'[u] = "loading" <=> setup[u] = "loading"
    BY <1>1
  <2>3. NotTorn'
    <3>1. NotTorn
      BY DEF IInv
    <3> QED BY <1>u, <2>1, <2>2, <3>1 DEF NotTorn, Whole, teardowns
  <2>4. ReplacedIsGone'
    <3>1. ReplacedIsGone
      BY DEF IInv
    <3> QED BY <1>u, <2>1, <2>2, <3>1 DEF ReplacedIsGone, Settled, Alive, machines, teardowns
  <2> QED BY <2>3, <2>4
<1>13. NoStrayVM'
  <2>1. Holds \subseteq Holds'
    BY <1>u, <1>2 DEF Holds, InUse
  <2> QED BY <1>u, <1>3, <2>1 DEF IInv, NoStrayVM, machines, teardowns
<1>14. ScheduleStands'
  BY <1>u, <1>2 DEF IInv, ScheduleStands, Looked, Missed, Loaders, loaders, machines
<1>15. ClosingWhole'
  BY <1>u, <1>3 DEF ClosingWhole
<1> QED
  BY <1>u, <1>3, <1>4, <1>5, <1>6, <1>7, <1>8, <1>9, <1>10, <1>11, <1>12, <1>13, <1>14, <1>15,
     SetupOnly
  DEF server

LEMMA QueryInv ==
  ASSUME PluginVMsAssumption, IInv, NEW s \in Setup, Query(s)
  PROVE  IInv'
<1>0. Types
  BY TypeParts DEF IInv
<1>u. UNCHANGED <<row, edits, reloads, current, schedule, closing, closed, vms, nudges, loaders,
                  machines, teardowns, crowded, hasty, doubtful, messy, faults>>
  BY DEF Query, server, database, histories
<1>1. /\ setup[s] = "querying"
      /\ \A u \in Setup : setup'[u] = IF u = s THEN "comparing" ELSE setup[u]
      /\ \A u \in Setup : rows'[u] = IF u = s THEN row ELSE rows[u]
  BY <1>0 DEF Query, Types, TypeSetups
<1>2. Busy' = Busy
  BY <1>1 DEF Busy
<1>4. TypeDatabase'
  BY <1>0, <1>u DEF Types, TypeDatabase
<1>5. TypeSetups'
  <2>1. rows' \in [Setup -> [Config -> Nat]] /\ setup' \in [Setup -> SetupState]
    BY <1>0 DEF Query, Types, TypeSetups, TypeDatabase, SetupState
  <2> QED BY <1>0, <1>u, <2>1 DEF Types, TypeSetups
<1>6. LocalsOK'
  BY <1>u, <1>1 DEF IInv, LocalsOK, loaders
<1>7. SetupAlone'
  BY <1>u, <1>2 DEF IInv, SetupAlone
<1>8. RowsStand'
  BY <1>u, <1>1, <1>2 DEF IInv, RowsStand, RowStands, GaveUp, Busy, machines
<1>9. LoadingAgrees'
  BY <1>u, <1>1 DEF IInv, LoadingAgrees, MadeFor, machines
<1>10. \A u \in Setup : \A c \in Config : Uses(vms'[u], c)
  BY <1>u DEF IInv, OwnVMs
<1>11. CurrentAgrees'
  BY <1>u, <1>2 DEF IInv, CurrentAgrees, Idle, GaveUp, machines
<1>12. NotTorn' /\ ReplacedIsGone'
  BY <1>u, <1>1
  DEF IInv, NotTorn, ReplacedIsGone, Whole, Settled, Alive, machines, teardowns
<1>13. NoStrayVM'
  BY <1>u, <1>2 DEF IInv, NoStrayVM, Holds, InUse, machines, teardowns
<1>14. ScheduleStands'
  BY <1>u, <1>2 DEF IInv, ScheduleStands, Looked, Missed, Loaders, loaders, machines
<1>15. ClosingWhole'
  BY <1>u, <1>2 DEF IInv, ClosingWhole, teardowns
<1> QED
  BY <1>u, <1>4, <1>5, <1>6, <1>7, <1>8, <1>9, <1>10, <1>11, <1>12, <1>13, <1>14, <1>15, SetupOnly
  DEF server

(* What Return does: the setup is free and its locals forgotten. *)
LEMMA Returned ==
  ASSUME PluginVMsAssumption, IInv, NEW s \in Setup, setup[s] # "free", Return(s)
  PROVE  /\ \A u \in Setup : setup'[u] = IF u = s THEN "free" ELSE setup[u]
         /\ \A u \in Setup : u # s => vms'[u] = vms[u] /\ rows'[u] = rows[u]
         /\ vms'[s] = Nothing
         /\ crowded' = crowded \ {s} /\ crowded' \subseteq Setup
         /\ setup' \in [Setup -> SetupState] /\ rows' \in [Setup -> [Config -> Nat]]
         /\ vms' \in [Setup -> [Config -> VM \cup {None}]]
         /\ s \in Busy /\ Busy' = Busy \ {s}
         /\ s \notin crowded => Busy = {s}
         /\ ~ messy => Busy = {s} /\ closing = None
         /\ nudges' \in Nat /\ nudges' > 0
<1>0. Types
  BY TypeParts DEF IInv
<1>1. /\ \A u \in Setup : setup'[u] = IF u = s THEN "free" ELSE setup[u]
      /\ \A u \in Setup : u # s => vms'[u] = vms[u] /\ rows'[u] = rows[u]
      /\ vms'[s] = Nothing
  BY <1>0 DEF Return, Types, TypeSetups
<1>2. setup' \in [Setup -> SetupState] /\ rows' \in [Setup -> [Config -> Nat]]
  BY <1>0 DEF Return, Types, TypeSetups, SetupState
<1>3. vms' \in [Setup -> [Config -> VM \cup {None}]]
  <2>1. Nothing \in [Config -> VM \cup {None}]
    BY DEF Nothing
  <2> QED BY <1>0, <2>1 DEF Return, Types, TypeSetups
<1>4. crowded' = crowded \ {s} /\ crowded' \subseteq Setup
  BY <1>0 DEF Return, Types, TypeSetups
<1>5. s \in Busy /\ Busy' = Busy \ {s}
  BY <1>1 DEF Busy
<1>6. /\ s \notin crowded => Busy = {s}
      /\ ~ messy => Busy = {s} /\ closing = None
  BY <1>5 DEF IInv, SetupAlone, ClosingWhole
<1>7. nudges' \in Nat /\ nudges' > 0
  BY <1>0 DEF Return, Types, TypeSetups
<1> QED BY <1>1, <1>2, <1>3, <1>4, <1>5, <1>6, <1>7

LEMMA SetupFailsInv ==
  ASSUME PluginVMsAssumption, IInv, NEW s \in Setup, SetupFails(s)
  PROVE  IInv'
<1>0. Types
  BY TypeParts DEF IInv
<1>u. UNCHANGED <<row, edits, reloads, current, schedule, closing, closed, loaders, machines, teardowns,
                  hasty>>
  BY DEF SetupFails, server, database
<1>r. /\ \A u \in Setup : setup'[u] = IF u = s THEN "free" ELSE setup[u]
      /\ \A u \in Setup : u # s => vms'[u] = vms[u] /\ rows'[u] = rows[u]
      /\ vms'[s] = Nothing
      /\ crowded' = crowded \ {s} /\ crowded' \subseteq Setup
      /\ setup' \in [Setup -> SetupState] /\ rows' \in [Setup -> [Config -> Nat]]
      /\ vms' \in [Setup -> [Config -> VM \cup {None}]]
      /\ s \in Busy /\ Busy' = Busy \ {s}
      /\ s \notin crowded => Busy = {s}
      /\ nudges' \in Nat /\ nudges' > 0
  BY Returned DEF SetupFails
<1>1. doubtful' = TRUE /\ messy' = TRUE /\ faults' \in 0 .. MaxFaults
  BY <1>0 DEF SetupFails, Types, TypeDatabase, PluginVMsAssumption
<1>2. TypeDatabase'
  BY <1>0, <1>u, <1>1 DEF Types, TypeDatabase
<1>3. TypeSetups'
  BY <1>0, <1>u, <1>r DEF Types, TypeSetups
<1>4. LocalsOK'
  BY <1>u, <1>r DEF IInv, LocalsOK, loaders
<1>5. SetupAlone'
  BY <1>r, <1>1 DEF IInv, SetupAlone
<1>6. RowsStand'
  BY <1>u, <1>r DEF IInv, RowsStand, RowStands, GaveUp, Busy, machines
<1>7. LoadingAgrees'
  BY <1>u, <1>r DEF IInv, LoadingAgrees, MadeFor, machines
<1>8. \A u \in Setup : \A c \in Config : Uses(vms'[u], c)
  BY <1>u, <1>r DEF IInv, OwnVMs, Uses, Nothing
<1>9. CurrentAgrees' /\ NotTorn' /\ ReplacedIsGone' /\ NoStrayVM' /\ ClosingWhole'
  BY <1>1 DEF CurrentAgrees, NotTorn, ReplacedIsGone, NoStrayVM, ClosingWhole
<1>10. ScheduleStands'
  BY <1>u, <1>r DEF IInv, ScheduleStands, Looked, Missed, Loaders, loaders, machines
<1> QED
  BY <1>u, <1>1, <1>2, <1>3, <1>4, <1>5, <1>6, <1>7, <1>8, <1>9, <1>10, SetupOnly DEF server

-----------------------------------------------------------------------------
(* Compare: new VMs                                                          *)

Changed(s) == {c \in InForce(rows[s]) : ~ Keeps(s, c)}
New(s) == {NewVM(c) : c \in Changed(s)}
Old(s) == {current[c] : c \in Changed(s)} \ {None}
Gone(s) == {current[c] : c \in Config \ InForce(rows[s])} \ {None}

(* The next VM of a configuration is unused, and the one after those used.   *)
LEMMA NewVMIsUnused ==
  ASSUME PluginVMsAssumption, TypeOK, MadeInOrder, NEW c \in Config
  PROVE  \E k \in 0 .. MaxVMs :
           /\ NewVM(c) = <<c, k + 1>>
           /\ \A i \in 1 .. MaxVMs : vm[<<c, i>>] # "unused" <=> i <= k
<1>1. PICK k \in 0 .. MaxVMs : \A i \in 1 .. MaxVMs : vm[<<c, i>>] # "unused" <=> i <= k
  BY DEF MadeInOrder
<1>2. k \in Nat /\ MaxVMs \in Nat /\ k <= MaxVMs
  BY DEF PluginVMsAssumption
<1> DEFINE U == {v \in VM : v[1] = c /\ vm[v] # "unused"}
           f == [i \in 1 .. k |-> <<c, i>>]
<1>3. f \in Bijection(1 .. k, U)
  <2>1. \A i \in 1 .. k : f[i] \in U
    BY <1>1, <1>2, TheVMs
  <2>2. \A v \in U : v[2] \in 1 .. k /\ f[v[2]] = v
    BY <1>1, <1>2, TheVMs
  <2>3. f \in Surjection(1 .. k, U)
    BY <2>1, <2>2 DEF Surjection
  <2>4. f \in Injection(1 .. k, U)
    <3>1. \A i \in 1 .. k : f[i][2] = i
      OBVIOUS
    <3>2. f \in [1 .. k -> U]
      BY <2>1
    <3>3. DOMAIN f = 1 .. k /\ \A i, j \in 1 .. k : f[i] = f[j] => i = j
      BY <3>1
    <3> HIDE DEF f, U
    <3> QED BY <3>2, <3>3 DEF Injection, IsInjective
  <2> QED BY <2>3, <2>4 DEF Bijection
<1>4. Cardinality(U) = k
  BY <1>2, <1>3, FS_CountingElements DEF ExistsBijection
<1>5. NewVM(c) = <<c, k + 1>>
  BY <1>4 DEF NewVM
<1> QED BY <1>1, <1>5

LEMMA NewVMs ==
  ASSUME PluginVMsAssumption, TypeOK, MadeInOrder, NEW c \in Config, NewVM(c) \in VM
  PROVE  vm[NewVM(c)] = "unused" /\ NewVM(c)[1] = c
<1>1. PICK k \in 0 .. MaxVMs :
        /\ NewVM(c) = <<c, k + 1>>
        /\ \A i \in 1 .. MaxVMs : vm[<<c, i>>] # "unused" <=> i <= k
  BY NewVMIsUnused
<1>2. k \in Nat /\ k + 1 \in 1 .. MaxVMs
  BY <1>1, TheVMs
<1>3. ~ (k + 1 <= k)
  BY <1>2
<1> QED BY <1>1, <1>2, <1>3

(* What Compare does. *)
LEMMA Compared ==
  ASSUME PluginVMsAssumption, IInv, NEW s \in Setup, Compare(s)
  PROVE  /\ setup[s] = "comparing"
         /\ \A u \in Setup : setup'[u] = IF u = s THEN "loading" ELSE setup[u]
         /\ Changed(s) \subseteq Config
         /\ \A c \in Changed(s) : /\ NewVM(c) \in VM /\ NewVM(c) \in New(s)
                                  /\ NewVM(c)[1] = c /\ vm[NewVM(c)] = "unused"
         /\ New(s) \subseteq VM /\ \A v \in New(s) : vm[v] = "unused" /\ v[1] \in Changed(s) /\ v = NewVM(v[1])
         /\ Old(s) \subseteq VM /\ Gone(s) \subseteq VM
         /\ \A u \in Setup : u # s => vms'[u] = vms[u]
         /\ vms' \in [Setup -> [Config -> VM \cup {None}]]
         /\ \A c \in Config :
              /\ c \in Changed(s) => vms'[s][c] = NewVM(c)
              /\ c \in InForce(rows[s]) \ Changed(s) =>
                   vms'[s][c] = current[c] /\ current[c] # None /\ made[current[c]] = rows[s][c]
              /\ c \notin InForce(rows[s]) => vms'[s][c] = None /\ rows[s][c] = 0
         /\ \A v \in VM :
              /\ v \in New(s) => vm'[v] = "loading" /\ made'[v] = rows[s][v[1]] /\ attempts'[v] = 1
              /\ v \notin New(s) =>
                   /\ vm'[v] = IF v \in Old(s) /\ vm[v] = "retry" THEN "null" ELSE vm[v]
                   /\ made'[v] = made[v] /\ attempts'[v] = attempts[v]
              /\ torn'[v] = IF v \in Old(s) /\ vm[v] = "ready" /\ torn[v] < 2 THEN torn[v] + 1 ELSE torn[v]
         /\ tearing' = tearing \cup (Old(s) \cap Pending)
         /\ leftover' = leftover \cup Gone(s)
         /\ UNCHANGED <<database, server, rows, nudges, loaders, histories>>
<1>0. TypeOK /\ MadeInOrder /\ Types
  BY TypeParts DEF IInv
<1>1. Changed(s) \subseteq Config
  BY DEF Changed, InForce
<1>2. New(s) \subseteq VM
  BY DEF Compare, New, Changed
<1>3. \A c \in Changed(s) : NewVM(c) \in New(s) /\ NewVM(c) \in VM
  BY <1>2 DEF New
<1>4. \A c \in Changed(s) : NewVM(c)[1] = c /\ vm[NewVM(c)] = "unused"
  BY <1>0, <1>1, <1>3, NewVMs
<1>5. \A v \in New(s) : vm[v] = "unused" /\ v[1] \in Changed(s) /\ v = NewVM(v[1])
  BY <1>4 DEF New
<1>6. Old(s) \subseteq VM /\ Gone(s) \subseteq VM
  BY <1>0, <1>1 DEF Old, Gone, Types, TypeSetups
<1>7. /\ setup[s] = "comparing"
      /\ \A u \in Setup : setup'[u] = IF u = s THEN "loading" ELSE setup[u]
  BY <1>0 DEF Compare, Types, TypeSetups
<1> DEFINE p == [c \in Config |->
                   IF c \in Changed(s) THEN NewVM(c)
                   ELSE IF c \in InForce(rows[s]) THEN current[c] ELSE None]
<1>8. vms' = [vms EXCEPT ![s] = p]
  BY DEF Compare, Changed
<1>9. p \in [Config -> VM \cup {None}]
  <2>1. \A c \in Config : current[c] \in VM \cup {None}
    BY <1>0 DEF Types, TypeSetups
  <2> QED BY <1>3, <2>1
<1>10. /\ \A u \in Setup : u # s => vms'[u] = vms[u]
       /\ vms' \in [Setup -> [Config -> VM \cup {None}]]
       /\ vms'[s] = p
  BY <1>0, <1>8, <1>9 DEF Types, TypeSetups
<1>11. \A c \in Config :
         /\ c \in InForce(rows[s]) \ Changed(s) => current[c] # None /\ made[current[c]] = rows[s][c]
         /\ c \notin InForce(rows[s]) => rows[s][c] = 0
         /\ c \in Changed(s) => c \in InForce(rows[s])
  BY DEF Changed, Keeps, InForce
<1>12. ASSUME NEW v \in VM
       PROVE  /\ v \in New(s) => vm'[v] = "loading" /\ made'[v] = rows[s][v[1]] /\ attempts'[v] = 1
              /\ v \notin New(s) =>
                   /\ vm'[v] = IF v \in Old(s) /\ vm[v] = "retry" THEN "null" ELSE vm[v]
                   /\ made'[v] = made[v] /\ attempts'[v] = attempts[v]
              /\ torn'[v] = IF v \in Old(s) /\ vm[v] = "ready" /\ torn[v] < 2 THEN torn[v] + 1 ELSE torn[v]
  <2>1. /\ vm' = [w \in VM |-> IF w \in New(s) THEN "loading" ELSE ClearRetryTimeout(Old(s))[w]]
        /\ made' = [w \in VM |-> IF w \in New(s) THEN rows[s][w[1]] ELSE made[w]]
        /\ attempts' = [w \in VM |-> IF w \in New(s) THEN 1 ELSE attempts[w]]
        /\ TearDown(Old(s))
    BY DEF Compare, Changed, New, Old
  <2>2. torn' = [w \in VM |-> IF w \in Old(s) /\ vm[w] = "ready" /\ torn[w] < 2
                              THEN torn[w] + 1 ELSE torn[w]]
    BY <2>1 DEF TearDown
  <2>3. ClearRetryTimeout(Old(s))[v] = IF v \in Old(s) /\ vm[v] = "retry" THEN "null" ELSE vm[v]
    BY DEF ClearRetryTimeout
  <2> QED BY <2>1, <2>2, <2>3
<1>13. tearing' = tearing \cup (Old(s) \cap Pending) /\ leftover' = leftover \cup Gone(s)
  BY DEF Compare, TearDown, Old, Gone, Changed
<1>14. UNCHANGED <<database, server, rows, nudges, loaders, histories>>
  BY DEF Compare
<1>15. \A c \in Config :
         /\ c \in Changed(s) => vms'[s][c] = NewVM(c)
         /\ c \in InForce(rows[s]) \ Changed(s) => vms'[s][c] = current[c]
         /\ c \notin InForce(rows[s]) => vms'[s][c] = None
  BY <1>10, <1>11
<1> HIDE DEF p
<1> QED BY <1>1, <1>2, <1>3, <1>4, <1>5, <1>6, <1>7, <1>10, <1>11, <1>12, <1>13, <1>14, <1>15

LEMMA CompareInv ==
  ASSUME PluginVMsAssumption, IInv, NEW s \in Setup, Compare(s)
  PROVE  IInv'
<1>0. Types /\ OwnVMs /\ Attempted /\ MadeInOrder
  BY TypeParts DEF IInv
<1>c. /\ setup[s] = "comparing"
      /\ \A u \in Setup : setup'[u] = IF u = s THEN "loading" ELSE setup[u]
      /\ Changed(s) \subseteq Config
      /\ \A c \in Changed(s) : /\ NewVM(c) \in VM /\ NewVM(c) \in New(s)
                               /\ NewVM(c)[1] = c /\ vm[NewVM(c)] = "unused"
      /\ New(s) \subseteq VM
      /\ \A v \in New(s) : vm[v] = "unused" /\ v[1] \in Changed(s) /\ v = NewVM(v[1])
      /\ Old(s) \subseteq VM /\ Gone(s) \subseteq VM
  BY Compared
<1>v. /\ \A u \in Setup : u # s => vms'[u] = vms[u]
      /\ vms' \in [Setup -> [Config -> VM \cup {None}]]
      /\ \A c \in Config :
           /\ c \in Changed(s) => vms'[s][c] = NewVM(c)
           /\ c \in InForce(rows[s]) \ Changed(s) =>
                vms'[s][c] = current[c] /\ current[c] # None /\ made[current[c]] = rows[s][c]
           /\ c \notin InForce(rows[s]) => vms'[s][c] = None /\ rows[s][c] = 0
  BY Compared
<1>m. \A v \in VM :
        /\ v \in New(s) => vm'[v] = "loading" /\ made'[v] = rows[s][v[1]] /\ attempts'[v] = 1
        /\ v \notin New(s) =>
             /\ vm'[v] = IF v \in Old(s) /\ vm[v] = "retry" THEN "null" ELSE vm[v]
             /\ made'[v] = made[v] /\ attempts'[v] = attempts[v]
        /\ torn'[v] = IF v \in Old(s) /\ vm[v] = "ready" /\ torn[v] < 2 THEN torn[v] + 1 ELSE torn[v]
  BY Compared
<1>u. /\ tearing' = tearing \cup (Old(s) \cap Pending)
      /\ leftover' = leftover \cup Gone(s)
      /\ UNCHANGED <<row, edits, reloads, current, schedule, closing, closed, rows, nudges, loader,
                     watched, found, crowded, hasty, doubtful, messy, faults>>
  BY Compared DEF database, server, loaders, histories
<1>f. /\ setup' \in [Setup -> SetupState] /\ vm' \in [VM -> VMState]
      /\ made' \in [VM -> Nat] /\ attempts' \in [VM -> 0..MAX_SETUP_RETRIES] /\ torn' \in [VM -> 0..2]
  <2>1. setup' \in [Setup -> SetupState]
    BY <1>0 DEF Compare, Types, TypeSetups, SetupState
  <2>2. \A v \in VM : vm'[v] \in VMState
    BY <1>0, <1>m DEF Types, TypeMachines, VMState
  <2>3. ASSUME NEW v \in VM PROVE made'[v] \in Nat
    <3>1. v[1] \in Config
      BY TheVMs
    <3>2. rows[s] \in [Config -> Nat] /\ made[v] \in Nat
      BY <1>0 DEF Types, TypeMachines, TypeSetups
    <3>3. rows[s][v[1]] \in Nat
      BY <3>1, <3>2
    <3> QED BY <1>m, <3>2, <3>3
  <2>4. \A v \in VM : attempts'[v] \in 0..MAX_SETUP_RETRIES
    BY <1>0, <1>m DEF Types, TypeMachines, PluginVMsAssumption
  <2>5. \A v \in VM : torn'[v] \in 0..2
    BY <1>0, <1>m DEF Types, TypeMachines
  <2>6. /\ vm' = [v \in VM |-> vm'[v]] /\ made' = [v \in VM |-> made'[v]]
        /\ attempts' = [v \in VM |-> attempts'[v]] /\ torn' = [v \in VM |-> torn'[v]]
    BY DEF Compare, TearDown
  <2> QED BY <2>1, <2>2, <2>3, <2>4, <2>5, <2>6
<1>b. Busy' = Busy /\ s \in Busy /\ (~ messy => Busy = {s} /\ closing = None)
  <2>1. Busy' = Busy /\ s \in Busy
    BY <1>c DEF Busy
  <2> QED BY <2>1 DEF IInv, SetupAlone, ClosingWhole
<1>n. None \notin VM
  BY TheVMs
<1>w. \A v \in VM : vm[v] # "unused" =>
        /\ v \notin New(s) /\ vm'[v] # "unused"
        /\ made'[v] = made[v] /\ attempts'[v] = attempts[v]
        /\ vm'[v] = vm[v] \/ (vm[v] = "retry" /\ vm'[v] = "null")
  BY <1>c, <1>m
<1>x. /\ \A c \in Config : current[c] \in VM \cup {None}
      /\ \A u \in Setup, c \in Config : vms[u][c] \in VM \cup {None} /\ watched[u][c] \in VM \cup {None}
      /\ \A c \in Config : Uses(current, c)
      /\ \A u \in Setup : \A c \in Config : Uses(vms[u], c) /\ Uses(watched[u], c)
  BY <1>0 DEF Types, TypeSetups, TypeLoaders, OwnVMs
<1>1. TypeOK'
  <2>1. TypeDatabase' /\ TypeLoaders'
    BY <1>0, <1>u DEF Types, TypeDatabase, TypeLoaders
  <2>2. TypeSetups'
    BY <1>0, <1>f, <1>u, <1>v DEF Types, TypeSetups
  <2>3. tearing' \subseteq Pending'
    <3>1. ASSUME NEW v \in tearing' PROVE v \in Pending'
      <4>1. v \in VM /\ vm[v] \in {"loading", "creating"}
        BY <1>0, <1>u, <3>1 DEF Types, TypeMachines, Pending
      <4>2. vm'[v] = vm[v]
        BY <1>w, <4>1
      <4> QED BY <4>1, <4>2 DEF Pending
    <3> QED BY <3>1
  <2>4. TypeMachines'
    BY <1>0, <1>c, <1>f, <1>u, <2>3 DEF Types, TypeMachines
  <2> QED BY <2>1, <2>2, <2>4, TypePartsNext DEF Types
<1>2. OwnVMs'
  <2>1. ASSUME NEW c \in Config PROVE Uses(current, c)'
    BY <1>u, <1>w, <1>x DEF Uses
  <2>2. ASSUME NEW c \in Config, NEW u \in Setup PROVE Uses(watched[u], c)'
    BY <1>u, <1>w, <1>x DEF Uses
  <2>3. ASSUME NEW c \in Config, NEW u \in Setup, u # s PROVE Uses(vms[u], c)'
    BY <1>v, <1>w, <1>x, <2>3 DEF Uses
  <2>4. ASSUME NEW c \in Config PROVE Uses(vms[s], c)'
    <3>1. CASE c \in Changed(s)
      BY <1>c, <1>m, <1>v, <3>1 DEF Uses
    <3>2. CASE c \in InForce(rows[s]) \ Changed(s)
      BY <1>v, <1>w, <1>x, <3>2 DEF Uses
    <3>3. CASE c \notin InForce(rows[s])
      BY <1>v, <3>3 DEF Uses
    <3> QED BY <3>1, <3>2, <3>3
  <2> QED BY <2>1, <2>2, <2>3, <2>4 DEF OwnVMs
<1>3. MadeInOrder'
  <2> SUFFICES ASSUME NEW c \in Config
               PROVE  \E k \in 0 .. MaxVMs :
                        \A i \in 1 .. MaxVMs : vm'[<<c, i>>] # "unused" <=> i <= k
    BY DEF MadeInOrder
  <2>1. PICK k \in 0 .. MaxVMs :
          /\ NewVM(c) = <<c, k + 1>>
          /\ \A i \in 1 .. MaxVMs : vm[<<c, i>>] # "unused" <=> i <= k
    BY <1>0, NewVMIsUnused DEF IInv
  <2>2. k \in Nat /\ MaxVMs \in Nat
    BY DEF PluginVMsAssumption
  <2>3. \A i \in 1 .. MaxVMs : <<c, i>> \in VM
    BY TheVMs
  <2>4. CASE c \in Changed(s)
    <3>1. k + 1 \in 1 .. MaxVMs
      BY <1>c, <2>1, <2>4, TheVMs
    <3>2. ASSUME NEW i \in 1 .. MaxVMs PROVE vm'[<<c, i>>] # "unused" <=> i <= k + 1
      <4>1. CASE i <= k
        BY <1>w, <2>1, <2>2, <2>3, <4>1
      <4>2. CASE i = k + 1
        BY <1>c, <1>m, <2>1, <2>2, <2>3, <2>4, <4>2
      <4>3. CASE i > k + 1
        <5>1. vm[<<c, i>>] = "unused" /\ <<c, i>> # NewVM(c)
          BY <2>1, <2>2, <4>3
        <5>2. <<c, i>> \notin New(s)
          BY <1>c, <5>1
        <5>3. vm'[<<c, i>>] = "unused"
          BY <1>m, <2>3, <5>1, <5>2
        <5> QED BY <2>2, <4>3, <5>3
      <4> QED BY <2>2, <4>1, <4>2, <4>3
    <3>3. k + 1 \in 0 .. MaxVMs
      BY <2>2, <3>1
    <3> QED BY <3>2, <3>3
  <2>5. CASE c \notin Changed(s)
    <3>1. \A i \in 1 .. MaxVMs : <<c, i>> \notin New(s)
      BY <1>c, <2>5
    <3>2. \A i \in 1 .. MaxVMs : vm'[<<c, i>>] # "unused" <=> vm[<<c, i>>] # "unused"
      BY <1>m, <2>3, <3>1
    <3> QED BY <2>1, <3>2
  <2> QED BY <2>4, <2>5
<1>4. Attempted'
  <2> SUFFICES ASSUME NEW v \in VM
               PROVE  /\ vm'[v] # "unused" => attempts'[v] >= 1
                      /\ vm'[v] = "retry" => attempts'[v] < MAX_SETUP_RETRIES
                      /\ vm'[v] # "ready" => torn'[v] = 0
    BY DEF Attempted
  <2>1. CASE v \in New(s)
    BY <1>0, <1>c, <1>m, <2>1 DEF Attempted
  <2>2. CASE v \notin New(s)
    BY <1>0, <1>m, <2>2 DEF Attempted
  <2> QED BY <2>1, <2>2
<1>5. LocalsOK'
  BY <1>c, <1>u, <1>v DEF IInv, LocalsOK
<1>6. SetupAlone'
  BY <1>b, <1>u DEF IInv, SetupAlone
<1>7. RowsStand'
  <2>1. \A w \in VM : GaveUp(w) => GaveUp(w)'
    BY <1>w DEF GaveUp
  <2>2. \A u \in Setup : setup'[u] # "querying" => setup[u] # "querying"
    BY <1>c
  <2>3. Busy \subseteq Setup
    BY DEF Busy
  <2> QED BY <1>b, <1>u, <2>1, <2>2, <2>3 DEF IInv, RowsStand, RowStands
<1>8. LoadingAgrees'
  <2> SUFFICES ASSUME NEW u \in Setup, setup'[u] = "loading", NEW c \in Config
               PROVE  MadeFor(vms[u], c)' = rows[u][c]
    BY <1>u DEF LoadingAgrees
  <2>1. CASE u # s
    <3>1. MadeFor(vms[u], c) = rows[u][c]
      BY <1>c, <2>1 DEF IInv, LoadingAgrees
    <3> QED BY <1>v, <1>w, <1>x, <2>1, <3>1 DEF MadeFor, Uses
  <2>2. CASE u = s
    <3>1. CASE c \in Changed(s)
      BY <1>c, <1>m, <1>n, <1>v, <2>2, <3>1 DEF MadeFor
    <3>2. CASE c \in InForce(rows[s]) \ Changed(s)
      BY <1>v, <1>w, <1>x, <2>2, <3>2 DEF MadeFor, Uses
    <3>3. CASE c \notin InForce(rows[s])
      BY <1>v, <2>2, <3>3 DEF MadeFor
    <3> QED BY <3>1, <3>2, <3>3
  <2> QED BY <2>1, <2>2
<1>9. CurrentAgrees'
  BY <1>b DEF CurrentAgrees, Idle
<1>a. ASSUME ~ messy
      PROVE  /\ \A u \in Setup : setup'[u] = "loading" => u = s
             /\ Whole(current)
             /\ vms[s] = Nothing /\ closing = None
  <2>1. \A u \in Setup : setup[u] # "loading"
    BY <1>a, <1>b, <1>c DEF Busy
  <2>2. vms[s] = Nothing
    BY <1>c DEF IInv, LocalsOK
  <2> QED BY <1>a, <1>b, <1>c, <2>1, <2>2 DEF IInv, NotTorn
<1>10. NotTorn'
  <2> SUFFICES ASSUME ~ messy, NEW c \in Config, vms'[s][c] # None
               PROVE  vms'[s][c] \notin tearing' /\ torn'[vms'[s][c]] = 0
    BY <1>a, <1>c, <1>u DEF NotTorn, Whole
  <2>1. CASE c \in Changed(s)
    <3>1. NewVM(c) \in VM /\ vm[NewVM(c)] = "unused" /\ vms'[s][c] = NewVM(c)
      BY <1>c, <1>v, <2>1
    <3>2. torn[NewVM(c)] = 0 /\ NewVM(c) \notin Pending
      BY <1>0, <3>1 DEF Attempted, Pending
    <3> QED BY <1>0, <1>m, <1>u, <3>1, <3>2 DEF Types, TypeMachines
  <2>2. CASE c \in InForce(rows[s]) \ Changed(s)
    <3>1. vms'[s][c] = current[c] /\ current[c] \in VM /\ current[c][1] = c
      BY <1>v, <1>x, <2>2 DEF Uses
    <3>2. current[c] \notin tearing /\ torn[current[c]] = 0
      BY <1>a, <2>2, <1>v DEF Whole
    <3>3. current[c] \notin Old(s)
      BY <1>c, <1>x, <2>2, <3>1 DEF Old, Uses
    <3> QED BY <1>m, <1>u, <3>1, <3>2, <3>3
  <2>3. CASE c \notin InForce(rows[s])
    BY <1>v, <2>3
  <2> QED BY <2>1, <2>2, <2>3
<1>11. ReplacedIsGone'
  <2> SUFFICES ASSUME ~ messy, NEW c \in Config, current[c] # None, current[c] # vms'[s][c],
                      Alive(current[c])'
               PROVE  current[c] \in tearing' \cup leftover' \/ torn'[current[c]] > 0
    BY <1>a, <1>u DEF ReplacedIsGone, Settled
  <2>0. current[c] \in VM /\ vm[current[c]] # "unused" /\ torn[current[c]] = 0
    BY <1>a, <1>x DEF Uses, Whole
  <2>1. CASE c \in Changed(s)
    <3>1. current[c] \in Old(s)
      BY <2>1 DEF Old
    <3>2. vm[current[c]] # "retry"
      BY <1>m, <1>u, <1>w, <2>0, <3>1 DEF Alive
    <3>3. CASE vm[current[c]] \in {"loading", "creating"}
      BY <1>u, <2>0, <3>1, <3>3 DEF Pending
    <3>4. CASE vm[current[c]] = "ready"
      BY <1>m, <2>0, <3>1, <3>4
    <3> QED BY <1>u, <1>w, <2>0, <3>2, <3>3, <3>4 DEF Alive
  <2>2. CASE c \notin InForce(rows[s])
    BY <1>u, <2>2 DEF Gone
  <2> QED BY <1>v, <2>1, <2>2
<1>12. NoStrayVM'
  <2> SUFFICES ASSUME ~ messy, NEW v \in VM, Alive(v)'
               PROVE  v \in InUse' \cup tearing' \cup leftover' \/ torn'[v] > 0
    BY <1>a, <1>u DEF NoStrayVM, Alive, Holds
  <2>1. CASE v \in New(s)
    <3>1. v[1] \in Config /\ v = vms'[s][v[1]]
      BY <1>c, <1>v, <2>1
    <3> QED BY <1>b, <3>1 DEF InUse
  <2>2. CASE v \notin New(s)
    <3>1. Alive(v)
      BY <1>m, <2>2 DEF Alive
    <3>2. v \in InUse \cup tearing \cup leftover \/ torn[v] > 0
      BY <1>a, <3>1 DEF IInv, NoStrayVM, Alive, Holds
    <3>3. CASE v \in InUse
      <4>1. ASSUME NEW c \in Config, v = vms[s][c] PROVE FALSE
        BY <1>a, <1>n, <4>1 DEF Nothing
      <4>2. \E c \in Config : v = current[c]
        BY <1>b, <3>3, <4>1 DEF InUse
      <4> QED BY <1>u, <4>2 DEF InUse
    <3>4. torn[v] > 0 => torn'[v] > 0
      BY <1>0, <1>m DEF Types, TypeMachines
    <3> QED BY <1>u, <3>2, <3>3, <3>4
  <2> QED BY <2>1, <2>2
<1>13. TornDownOnce'
  <2> SUFFICES ASSUME ~ messy, NEW v \in VM PROVE torn'[v] <= 1
    BY <1>u DEF TornDownOnce
  <2>1. torn[v] <= 1 /\ torn[v] \in 0..2
    BY <1>0 DEF IInv, TornDownOnce, Types, TypeMachines
  <2>2. v \in Old(s) => torn[v] = 0
    BY <1>a, <1>c DEF Old, Whole
  <2> QED BY <1>m, <2>1, <2>2
<1>14. ClosingWhole'
  BY <1>b, <1>u DEF ClosingWhole
<1>15. LookedAt' /\ ScheduleStands'
  <2>1. \A v \in VM : vm[v] = "ready" => vm'[v] = "ready"
    BY <1>w
  <2>2. \A v \in VM : vm[v] # "unused" /\ Missed(v) =>
                        vm'[v] \in {"null", "retry"} \/ attempts'[v] >= 2
    BY <1>w DEF Missed
  <2> QED BY <1>b, <1>u, <2>1, <2>2, LookedStays
<1> QED
  BY <1>1, <1>2, <1>3, <1>4, <1>5, <1>6, <1>7, <1>8, <1>9, <1>10, <1>11, <1>12, <1>13, <1>14,
     <1>15 DEF IInv

-----------------------------------------------------------------------------
(* Swap                                                                      *)

LEMMA SwapInv ==
  ASSUME PluginVMsAssumption, IInv, NEW s \in Setup, Swap(s)
  PROVE  IInv'
<1>0. Types /\ OwnVMs
  BY TypeParts DEF IInv
<1>u. UNCHANGED <<row, edits, reloads, closing, closed, vm, made, attempts, tearing, torn, leftover,
                  found, hasty, messy, faults>>
  BY DEF Swap, LoadSchedule, database, machines, teardowns
<1>r. /\ \A u \in Setup : setup'[u] = IF u = s THEN "free" ELSE setup[u]
      /\ \A u \in Setup : u # s => vms'[u] = vms[u] /\ rows'[u] = rows[u]
      /\ vms'[s] = Nothing
      /\ crowded' = crowded \ {s} /\ crowded' \subseteq Setup
      /\ setup' \in [Setup -> SetupState] /\ rows' \in [Setup -> [Config -> Nat]]
      /\ vms' \in [Setup -> [Config -> VM \cup {None}]]
      /\ s \in Busy /\ Busy' = Busy \ {s}
      /\ s \notin crowded => Busy = {s}
      /\ ~ messy => Busy = {s} /\ closing = None
      /\ nudges' \in Nat
  BY Returned DEF Swap
<1> DEFINE rest == {c \in Config : vms[s][c] # None}
<1>s. /\ setup[s] = "loading" /\ current' = vms[s] /\ doubtful' = (s \in crowded)
      /\ schedule' = None
      /\ \A u \in Setup : loader'[u] = IF u = s THEN rest ELSE loader[u]
      /\ \A u \in Setup : watched'[u] = IF u = s THEN vms[s] ELSE watched[u]
  BY <1>0 DEF Swap, LoadSchedule, Types, TypeLoaders
<1>n. rest \subseteq Config /\ rest # None
  BY TheVMs
<1>l. s \notin Loaders /\ Loaders' = Loaders \cup {s} /\ found[s] = {}
  <2>1. loader[s] = None /\ found[s] = {}
    BY <1>s DEF IInv, LocalsOK
  <2> QED BY <1>n, <1>s, <2>1 DEF Loaders
<1>1. TypeOK'
  <2>1. TypeDatabase'
    BY <1>0, <1>u, <1>s DEF Types, TypeDatabase
  <2>2. TypeSetups'
    BY <1>0, <1>r, <1>s, <1>u DEF Types, TypeSetups
  <2>3. TypeLoaders'
    <3>1. loader' = [loader EXCEPT ![s] = rest] /\ watched' = [watched EXCEPT ![s] = vms[s]]
      BY DEF Swap, LoadSchedule
    <3>2. vms[s] \in [Config -> VM \cup {None}]
      BY <1>0 DEF Types, TypeSetups
    <3>3. loader' \in [Setup -> (SUBSET Config) \cup {None}]
      BY <1>0, <1>n, <3>1 DEF Types, TypeLoaders
    <3>4. watched' \in [Setup -> [Config -> VM \cup {None}]]
      BY <1>0, <3>1, <3>2 DEF Types, TypeLoaders
    <3> QED BY <1>0, <1>u, <3>3, <3>4 DEF Types, TypeLoaders
  <2>4. TypeMachines'
    BY <1>0, <1>u DEF Types, TypeMachines, Pending
  <2> QED BY <2>1, <2>2, <2>3, <2>4, TypePartsNext DEF Types
<1>2. OwnVMs'
  <2>1. \A c \in Config : Uses(current, c)'
    BY <1>0, <1>s, <1>u DEF OwnVMs, Uses
  <2>2. ASSUME NEW u \in Setup, NEW c \in Config PROVE Uses(vms[u], c)'
    <3>1. CASE u = s
      BY <1>r, <3>1 DEF Uses, Nothing
    <3>2. CASE u # s
      BY <1>0, <1>r, <1>u, <3>2 DEF OwnVMs, Uses
    <3> QED BY <3>1, <3>2
  <2>3. ASSUME NEW u \in Setup, NEW c \in Config PROVE Uses(watched[u], c)'
    <3>1. watched'[u] = vms[s] \/ watched'[u] = watched[u]
      BY <1>s
    <3> QED BY <1>0, <1>u, <3>1 DEF OwnVMs, Uses
  <2> QED BY <2>1, <2>2, <2>3 DEF OwnVMs
<1>3. MadeInOrder' /\ Attempted' /\ TornDownOnce'
  BY <1>u DEF IInv, MadeInOrder, Attempted, TornDownOnce
<1>4. LocalsOK'
  <2>1. ASSUME NEW u \in Setup, u # s
        PROVE  /\ setup'[u] = setup[u] /\ vms'[u] = vms[u]
               /\ loader'[u] = loader[u] /\ found'[u] = found[u]
    BY <1>r, <1>s, <1>u, <2>1
  <2>2. setup'[s] = "free" /\ vms'[s] = Nothing /\ loader'[s] # None
    BY <1>n, <1>r, <1>s
  <2> QED BY <2>1, <2>2 DEF IInv, LocalsOK, Nothing
<1>5. SetupAlone'
  BY <1>r, <1>u DEF IInv, SetupAlone
<1>6. RowsStand' /\ LoadingAgrees'
  <2>1. RowsStand'
    BY <1>r, <1>u DEF IInv, RowsStand, RowStands, GaveUp, Busy
  <2>2. LoadingAgrees'
    BY <1>r, <1>u DEF IInv, LoadingAgrees, MadeFor
  <2> QED BY <2>1, <2>2
<1>7. CurrentAgrees'
  <2> SUFFICES ASSUME reloads = 0, s \notin crowded, NEW c \in Config
               PROVE  RowStands(c, MadeFor(vms[s], c))
    BY <1>s, <1>u DEF CurrentAgrees, Idle, RowStands, MadeFor, GaveUp
  <2>1. RowStands(c, rows[s][c])
    BY <1>r, <1>s DEF IInv, RowsStand
  <2>2. MadeFor(vms[s], c) = rows[s][c]
    BY <1>s DEF IInv, LoadingAgrees
  <2> QED BY <2>1, <2>2
<1>a. ASSUME ~ messy
      PROVE  (\A u \in Setup : setup'[u] # "loading") /\ closing = None
  BY <1>a, <1>r DEF Busy
<1>8. NotTorn' /\ ReplacedIsGone'
  <2>1. ~ messy => Whole(vms[s])
    BY <1>a, <1>s DEF IInv, NotTorn
  <2> QED BY <1>a, <1>s, <1>u, <2>1 DEF NotTorn, ReplacedIsGone, Whole
<1>9. NoStrayVM'
  <2> SUFFICES ASSUME ~ messy, NEW v \in VM, Alive(v)
               PROVE  v \in InUse' \cup tearing \cup leftover \/ torn[v] > 0
    BY <1>a, <1>u DEF NoStrayVM, Alive, Holds
  <2>1. v \in InUse \/ Settled(v)
    BY <1>a DEF IInv, NoStrayVM, Settled, Alive, Holds
  <2>2. \A c \in Config : vms[s][c] \in InUse'
    BY <1>s DEF InUse
  <2>3. ASSUME NEW c \in Config, v = current[c] PROVE v \in InUse' \/ Settled(v)
    <3>1. current[c] # None
      BY <2>3, TheVMs
    <3> QED BY <1>s, <2>2, <2>3, <3>1 DEF IInv, ReplacedIsGone
  <2>4. v \in InUse => \E c \in Config : v = current[c] \/ v = vms[s][c]
    BY <1>r DEF InUse
  <2> QED BY <2>1, <2>2, <2>3, <2>4 DEF Settled
<1>10. ClosingWhole'
  BY <1>r, <1>u DEF ClosingWhole
<1>11. LookedAt'
  <2>1. ASSUME NEW u \in Loaders, u # s PROVE Looked(watched[u], loader[u], found[u])'
    <3>1. u \in Setup /\ Looked(watched[u], loader[u], found[u])
      BY DEF IInv, LookedAt, Loaders
    <3> QED BY <1>s, <1>u, <2>1, <3>1 DEF Looked, Missed
  <2>2. Looked(watched[s], loader[s], found[s])'
    <3>1. watched'[s] = vms[s] /\ loader'[s] = rest /\ found'[s] = {}
      BY <1>l, <1>s, <1>u
    <3>2. /\ \A c \in rest \cup {} : vms[s][c] # None
          /\ \A c \in Config \ (rest \cup {}) : vms[s][c] = None
      OBVIOUS
    <3> HIDE DEF rest
    <3> QED BY <3>1, <3>2 DEF Looked
  <2> QED BY <1>l, <2>1, <2>2 DEF LookedAt
<1>12. ScheduleStands'
  BY <1>l DEF ScheduleStands
<1> QED
  BY <1>1, <1>2, <1>3, <1>4, <1>5, <1>6, <1>7, <1>8, <1>9, <1>10, <1>11, <1>12 DEF IInv

-----------------------------------------------------------------------------
(* loadSchedule                                                              *)

LEMMA LoaderOnly ==
  ASSUME PluginVMsAssumption, IInv,
         UNCHANGED <<database, current, closing, closed, setup, rows, vms, machines, teardowns, crowded,
                     doubtful, messy, faults>>,
         nudges' \in Nat,
         schedule' \in (SUBSET Config) \cup {None}, hasty' \in BOOLEAN, TypeLoaders',
         \A s \in Setup : \A c \in Config : Uses(watched'[s], c),
         LocalsOK', LookedAt', ScheduleStands'
  PROVE  IInv'
<1>0. Types
  BY TypeParts DEF IInv
<1>u. UNCHANGED <<row, edits, reloads, current, closing, closed, setup, rows, vms, vm, made, attempts,
                  tearing, torn, leftover, crowded, doubtful, messy, faults>>
  BY DEF database, machines, teardowns
<1>1. TypeOK'
  <2>1. TypeDatabase' /\ TypeSetups' /\ TypeMachines'
    BY <1>0, <1>u DEF Types, TypeDatabase, TypeSetups, TypeMachines, Pending
  <2> QED BY <2>1, TypePartsNext DEF Types
<1>2. OwnVMs'
  BY <1>u DEF IInv, OwnVMs, Uses
<1>3. MadeInOrder' /\ Attempted' /\ SetupAlone'
  BY <1>u DEF IInv, MadeInOrder, Attempted, SetupAlone, Busy
<1>4. RowsStand' /\ LoadingAgrees' /\ CurrentAgrees'
  BY <1>u
  DEF IInv, RowsStand, RowStands, GaveUp, LoadingAgrees, MadeFor, CurrentAgrees, Idle, Busy
<1>5. NotTorn' /\ ReplacedIsGone' /\ NoStrayVM' /\ TornDownOnce' /\ ClosingWhole'
  BY <1>u
  DEF IInv, NotTorn, Whole, ReplacedIsGone, Settled, Alive, NoStrayVM, Holds, InUse, Busy,
      TornDownOnce, ClosingWhole
<1> QED BY <1>1, <1>2, <1>3, <1>4, <1>5 DEF IInv

LEMMA WatchInv ==
  ASSUME PluginVMsAssumption, IInv, NEW s \in Setup, Watch(s)
  PROVE  IInv'
<1>0. Types /\ OwnVMs
  BY TypeParts DEF IInv
<1>u. UNCHANGED <<database, server, setups, watched, machines, teardowns, histories>>
  BY DEF Watch
<1>1. PICK c \in loader[s] :
        /\ watched[s][c] \notin Pending
        /\ loader' = [loader EXCEPT ![s] = @ \ {c}]
        /\ found' = [found EXCEPT ![s] = IF vm[watched[s][c]] = "ready" THEN @ \cup {c} ELSE @]
  BY DEF Watch
<1> DEFINE p == watched[s]
           v == p[c]
           f == IF vm[v] = "ready" THEN found[s] \cup {c} ELSE found[s]
<1>2. /\ s \in Loaders /\ loader[s] \subseteq Config /\ c \in Config
      /\ found[s] \subseteq Config /\ Looked(p, loader[s], found[s])
  <2>1. s \in Loaders
    BY DEF Watch
  <2>2. loader[s] \subseteq Config
    BY <1>0, <2>1 DEF Loaders, Types, TypeLoaders
  <2> QED BY <1>0, <1>1, <2>1, <2>2 DEF IInv, LookedAt, Types, TypeLoaders
<1>3. loader[s] \ {c} # None
  BY <1>2, TheVMs
<1>4. /\ \A u \in Setup : loader'[u] = IF u = s THEN loader[s] \ {c} ELSE loader[u]
      /\ \A u \in Setup : found'[u] = IF u = s THEN f ELSE found[u]
  BY <1>0, <1>1 DEF Types, TypeLoaders
<1>5. Loaders' = Loaders
  BY <1>2, <1>3, <1>4 DEF Loaders
<1>6. v \in VM /\ vm[v] \in {"retry", "ready", "null"}
  <2>1. v \in VM
    BY <1>0, <1>1, <1>2 DEF Looked, Types, TypeLoaders
  <2>2. vm[v] # "unused" /\ vm[v] \in VMState
    BY <1>0, <1>1, <1>2, <2>1 DEF Looked, OwnVMs, Uses, Types, TypeMachines
  <2> QED BY <1>1, <2>1, <2>2 DEF Pending, VMState
<1>7. TypeLoaders'
  <2>1. f \subseteq Config
    BY <1>2
  <2>2. loader' \in [Setup -> (SUBSET Config) \cup {None}]
    BY <1>0, <1>1, <1>2 DEF Types, TypeLoaders
  <2>3. found' \in [Setup -> SUBSET Config]
    <3>1. found' = [found EXCEPT ![s] = f]
      BY <1>0, <1>1 DEF Types, TypeLoaders
    <3> HIDE DEF f
    <3> QED BY <1>0, <2>1, <3>1 DEF Types, TypeLoaders
  <2> QED BY <1>0, <1>u, <2>2, <2>3 DEF Types, TypeLoaders, histories
<1>8. LocalsOK'
  BY <1>2, <1>3, <1>4, <1>u DEF IInv, LocalsOK, Loaders, setups
<1>9. nudges' \in Nat
  BY <1>0, <1>u DEF Types, TypeSetups, setups
<1>10. LookedAt'
  <2>1. ASSUME NEW u \in Loaders, u # s PROVE Looked(watched[u], loader[u], found[u])'
    <3>1. u \in Setup /\ Looked(watched[u], loader[u], found[u])
      BY DEF IInv, LookedAt, Loaders
    <3> QED BY <1>4, <1>u, <2>1, <3>1 DEF Looked, Missed, machines
  <2>2. Looked(p, loader[s] \ {c}, f)
    <3>1. CASE vm[v] = "ready"
      BY <1>2, <3>1 DEF Looked
    <3>2. CASE vm[v] # "ready"
      <4>1. Missed(v)
        BY <1>6, <3>2 DEF Missed
      <4>2. f = found[s]
        BY <3>2
      <4> HIDE DEF f
      <4> QED BY <1>2, <4>1, <4>2 DEF Looked
    <3> QED BY <3>1, <3>2
  <2>3. Looked(watched[s], loader[s], found[s])'
    <3>1. /\ watched'[s] = p /\ loader'[s] = loader[s] \ {c} /\ found'[s] = f
          /\ vm' = vm /\ attempts' = attempts
      BY <1>4, <1>u DEF machines
    <3> HIDE DEF f, p
    <3> QED BY <2>2, <3>1 DEF Looked, Missed
  <2> QED BY <1>5, <2>1, <2>3 DEF LookedAt
<1>11. ScheduleStands'
  BY <1>2, <1>5 DEF ScheduleStands
<1>12. \A u \in Setup : \A d \in Config : Uses(watched'[u], d)
  BY <1>0, <1>u DEF OwnVMs
<1>13. schedule' \in (SUBSET Config) \cup {None} /\ hasty' \in BOOLEAN
  BY <1>0, <1>u DEF Types, TypeSetups, TypeDatabase, server, histories
<1> QED
  BY <1>u, <1>7, <1>8, <1>9, <1>10, <1>11, <1>12, <1>13, LoaderOnly DEF server, setups, histories

LEMMA ScheduledInv ==
  ASSUME PluginVMsAssumption, IInv, NEW s \in Setup, Scheduled(s)
  PROVE  IInv'
<1>0. Types /\ OwnVMs
  BY TypeParts DEF IInv
<1>u. UNCHANGED <<database, current, closing, closed, setups, machines, teardowns, crowded, doubtful,
                  messy, faults>>
  BY DEF Scheduled
<1>1. /\ loader[s] = {} /\ schedule' = found[s] /\ hasty' = (watched[s] # current)
      /\ \A u \in Setup : loader'[u] = IF u = s THEN None ELSE loader[u]
      /\ \A u \in Setup : watched'[u] = IF u = s THEN Nothing ELSE watched[u]
      /\ \A u \in Setup : found'[u] = IF u = s THEN {} ELSE found[u]
  BY <1>0 DEF Scheduled, Types, TypeLoaders
<1>2. {} # None
  BY TheVMs
<1>3. s \in Loaders /\ Loaders' = Loaders \ {s}
  BY <1>1, <1>2 DEF Loaders
<1>4. found[s] \subseteq Config /\ found[s] # None
  <2>1. found[s] \subseteq Config
    BY <1>0 DEF Types, TypeLoaders
  <2> QED BY <2>1, TheVMs
<1>5. TypeLoaders'
  <2>1. Nothing \in [Config -> VM \cup {None}]
    BY DEF Nothing
  <2> QED BY <1>0, <1>1, <2>1 DEF Scheduled, Types, TypeLoaders
<1>6. LocalsOK'
  BY <1>1, <1>u DEF IInv, LocalsOK, setups
<1>7. nudges' \in Nat
  BY <1>0, <1>u DEF Types, TypeSetups, setups
<1>8. LookedAt'
  <2>1. ASSUME NEW u \in Loaders, u # s PROVE Looked(watched[u], loader[u], found[u])'
    <3>1. u \in Setup /\ Looked(watched[u], loader[u], found[u])
      BY DEF IInv, LookedAt, Loaders
    <3> QED BY <1>1, <1>u, <2>1, <3>1 DEF Looked, Missed, machines
  <2> QED BY <1>3, <2>1 DEF LookedAt
<1>9. ScheduleStands'
  <2>1. Looked(watched[s], {}, found[s])
    BY <1>1, <1>3 DEF IInv, LookedAt
  <2>2. ~ hasty' => Looked(current, {}, found[s])
    BY <1>1, <2>1
  <2>3. ~ hasty' => Looked(current, {}, schedule)'
    BY <1>1, <1>u, <2>2 DEF Looked, Missed, machines
  <2> QED BY <1>1, <1>4, <2>3 DEF ScheduleStands
<1>10. \A u \in Setup : \A d \in Config : Uses(watched'[u], d)
  BY <1>0, <1>1 DEF OwnVMs, Uses, Nothing
<1>11. schedule' \in (SUBSET Config) \cup {None} /\ hasty' \in BOOLEAN
  BY <1>1, <1>4
<1> QED
  BY <1>u, <1>5, <1>6, <1>7, <1>8, <1>9, <1>10, <1>11, LoaderOnly DEF setups

LEMMA NudgeInv ==
  ASSUME PluginVMsAssumption, IInv, NEW s \in Setup, Nudge(s)
  PROVE  IInv'
<1>0. Types /\ OwnVMs
  BY TypeParts DEF IInv
<1> DEFINE rest == {c \in Config : current[c] # None}
<1>u. UNCHANGED <<database, current, closing, closed, setup, rows, vms, found, machines, teardowns,
                  histories>>
  BY DEF Nudge, LoadSchedule
<1>1. /\ loader[s] = None /\ setup[s] = "free" /\ schedule' = None
      /\ loader' = [loader EXCEPT ![s] = rest] /\ watched' = [watched EXCEPT ![s] = current]
  BY DEF Nudge, LoadSchedule
<1>2. rest \subseteq Config /\ rest # None
  BY TheVMs
<1>3. /\ \A u \in Setup : loader'[u] = IF u = s THEN rest ELSE loader[u]
      /\ \A u \in Setup : watched'[u] = IF u = s THEN current ELSE watched[u]
  BY <1>0, <1>1 DEF Types, TypeLoaders
<1>4. Loaders' = Loaders \cup {s} /\ found[s] = {}
  <2>1. found[s] = {}
    BY <1>1 DEF IInv, LocalsOK
  <2> QED BY <1>2, <1>3, <2>1 DEF Loaders
<1>5. TypeLoaders'
  <2>1. current \in [Config -> VM \cup {None}]
    BY <1>0 DEF Types, TypeSetups
  <2>2. watched' \in [Setup -> [Config -> VM \cup {None}]]
    BY <1>0, <1>1, <2>1 DEF Types, TypeLoaders
  <2>3. loader' \in [Setup -> (SUBSET Config) \cup {None}]
    BY <1>0, <1>1, <1>2 DEF Types, TypeLoaders
  <2> QED BY <1>0, <1>u, <2>2, <2>3 DEF Types, TypeLoaders
<1>6. LocalsOK'
  BY <1>1, <1>2, <1>3, <1>u DEF IInv, LocalsOK
<1>7. nudges' \in Nat
  BY <1>0 DEF Nudge, Types, TypeSetups
<1>8. LookedAt'
  <2>1. ASSUME NEW u \in Loaders, u # s PROVE Looked(watched[u], loader[u], found[u])'
    <3>1. u \in Setup /\ Looked(watched[u], loader[u], found[u])
      BY DEF IInv, LookedAt, Loaders
    <3> QED BY <1>3, <1>u, <2>1, <3>1 DEF Looked, Missed, machines
  <2>2. Looked(watched[s], loader[s], found[s])'
    <3>1. watched'[s] = current /\ loader'[s] = rest /\ found'[s] = {}
      BY <1>3, <1>4, <1>u
    <3>2. /\ \A c \in rest \cup {} : current[c] # None
          /\ \A c \in Config \ (rest \cup {}) : current[c] = None
      OBVIOUS
    <3> HIDE DEF rest
    <3> QED BY <3>1, <3>2 DEF Looked
  <2> QED BY <1>4, <2>1, <2>2 DEF LookedAt
<1>9. ScheduleStands'
  BY <1>4 DEF ScheduleStands
<1>10. \A u \in Setup : \A d \in Config : Uses(watched'[u], d)
  BY <1>0, <1>3 DEF OwnVMs, Uses
<1>11. schedule' \in (SUBSET Config) \cup {None} /\ hasty' \in BOOLEAN
  BY <1>0, <1>1, <1>u DEF Types, TypeDatabase, histories
<1> QED
  BY <1>u, <1>5, <1>6, <1>7, <1>8, <1>9, <1>10, <1>11, LoaderOnly DEF histories

-----------------------------------------------------------------------------
(* The shutdown                                                              *)

LEMMA TearDownAllInv ==
  ASSUME PluginVMsAssumption, IInv, TearDownAll \/ TearDownFails
  PROVE  IInv'
<1>0. Types
  BY TypeParts DEF IInv
<1>u. UNCHANGED <<row, edits, reloads, current, schedule, closed, setup, rows, vms, nudges, loader,
                  watched, found, vm, made, attempts, tearing, torn, leftover, crowded, hasty, doubtful>>
  BY DEF TearDownAll, TearDownFails, database, setups, loaders, machines, teardowns
<1>1. /\ closing' \in (SUBSET VM) \cup {None} /\ closing' # None /\ messy' \in BOOLEAN
      /\ messy => messy'
      /\ faults' \in 0 .. MaxFaults
  <2>1. CASE TearDownAll
    <3>1. closing' = {current[c] : c \in Config} \ {None} /\ messy' = (messy \/ Busy # {}) /\ faults' = faults
      BY <2>1 DEF TearDownAll
    <3>2. closing' \subseteq VM
      BY <1>0, <3>1 DEF Types, TypeSetups
    <3> QED BY <1>0, <3>1, <3>2, TheVMs DEF Types, TypeDatabase
  <2>2. CASE TearDownFails
    <3>1. closing' = {} /\ messy' = TRUE /\ faults' = faults + 1 /\ faults < MaxFaults
      BY <2>2 DEF TearDownFails
    <3> QED BY <1>0, <3>1, TheVMs DEF Types, TypeDatabase, PluginVMsAssumption
  <2> QED BY <2>1, <2>2
<1>2. TypeOK'
  <2>1. TypeDatabase' /\ TypeSetups'
    BY <1>0, <1>u, <1>1 DEF Types, TypeDatabase, TypeSetups
  <2>2. TypeLoaders' /\ TypeMachines'
    BY <1>0, <1>u DEF Types, TypeLoaders, TypeMachines, Pending
  <2> QED BY <2>1, <2>2, TypePartsNext DEF Types
<1>3. OwnVMs' /\ MadeInOrder' /\ Attempted' /\ LocalsOK'
  BY <1>u DEF IInv, OwnVMs, Uses, MadeInOrder, Attempted, LocalsOK
<1>4. SetupAlone'
  BY <1>u, <1>1 DEF IInv, SetupAlone, Busy
<1>5. RowsStand' /\ LoadingAgrees' /\ CurrentAgrees'
  BY <1>u
  DEF IInv, RowsStand, RowStands, GaveUp, LoadingAgrees, MadeFor, CurrentAgrees, Idle, Busy
<1>6. NotTorn' /\ TornDownOnce'
  BY <1>u, <1>1 DEF IInv, NotTorn, TornDownOnce
<1>7. ReplacedIsGone'
  BY <1>u, <1>1 DEF IInv, ReplacedIsGone, Settled, Alive
<1>8. NoStrayVM' /\ ClosingWhole'
  <2> SUFFICES ASSUME ~ messy' PROVE NoStrayVM' /\ ClosingWhole'
    BY DEF NoStrayVM, ClosingWhole
  <2>1. /\ closing = None /\ closing' = {current[c] : c \in Config} \ {None}
        /\ ~ messy /\ Busy = {} /\ Busy' = {}
    BY <1>1, <1>u DEF TearDownAll, TearDownFails, Busy
  <2>2. Whole(current)
    BY <2>1 DEF IInv, NotTorn, Busy
  <2>3. ASSUME NEW v \in VM, v \in Holds PROVE v \in Holds'
    <3>1. \E c \in Config : v = current[c]
      BY <2>1, <2>3 DEF Holds, InUse
    <3> QED BY <1>1, <2>1, <3>1, TheVMs DEF Holds
  <2>4. NoStrayVM'
    BY <1>u, <2>1, <2>3 DEF IInv, NoStrayVM
  <2>5. ClosingWhole'
    BY <1>u, <2>1, <2>2 DEF ClosingWhole, Whole
  <2> QED BY <2>4, <2>5
<1>9. LookedAt' /\ ScheduleStands'
  BY <1>u DEF IInv, LookedAt, ScheduleStands, Looked, Missed, Loaders, Busy
<1> QED BY <1>2, <1>3, <1>4, <1>5, <1>6, <1>7, <1>8, <1>9 DEF IInv

LEMMA TearDownNextInv ==
  ASSUME PluginVMsAssumption, IInv, NEW v \in VM, TearDownNext(v)
  PROVE  IInv'
<1>0. Types /\ OwnVMs /\ Attempted
  BY TypeParts DEF IInv
<1>u. UNCHANGED <<row, edits, reloads, current, schedule, setup, rows, vms, nudges, loader, watched,
                  found, made, attempts, leftover, crowded, hasty, doubtful, messy, faults>>
  BY DEF TearDownNext, database, setups, loaders, histories
<1>1. /\ closing # None /\ v \in closing /\ closing' = closing \ {v} /\ closed' = v
      /\ tearing' = tearing \cup ({v} \cap Pending)
  BY DEF TearDownNext, Closing, TearDown
<1>2. closing \subseteq VM /\ closing' \subseteq VM /\ closing' # None
  <2>1. closing \subseteq VM
    BY <1>0, <1>1 DEF Types, TypeSetups
  <2> QED BY <1>1, <2>1, TheVMs
<1>3. \A w \in VM :
        /\ vm'[w] = IF w = v /\ vm[w] = "retry" THEN "null" ELSE vm[w]
        /\ torn'[w] = IF w = v /\ vm[w] = "ready" /\ torn[w] < 2 THEN torn[w] + 1 ELSE torn[w]
  BY DEF TearDownNext, ClearRetryTimeout, TearDown
<1>4. vm' \in [VM -> VMState] /\ torn' \in [VM -> 0..2]
  <2>1. vm' = [w \in VM |-> vm'[w]] /\ torn' = [w \in VM |-> torn'[w]]
    BY DEF TearDownNext, ClearRetryTimeout, TearDown
  <2>2. \A w \in VM : vm'[w] \in VMState /\ torn'[w] \in 0..2
    BY <1>0, <1>3 DEF Types, TypeMachines, VMState
  <2> QED BY <2>1, <2>2
<1>b. Busy' = Busy /\ Loaders' = Loaders /\ (~ messy => Busy = {})
  BY <1>1, <1>u DEF IInv, ClosingWhole, Busy, Loaders
<1>w. \A w \in VM :
        /\ vm'[w] = "unused" <=> vm[w] = "unused"
        /\ vm[w] = "ready" => vm'[w] = "ready"
        /\ GaveUp(w) => GaveUp(w)'
        /\ Missed(w) => Missed(w)'
        /\ torn[w] > 0 => torn'[w] > 0
  BY <1>0, <1>3, <1>u DEF GaveUp, Missed, Types, TypeMachines
<1>x. /\ \A c \in Config : current[c] \in VM \cup {None}
      /\ \A u \in Setup, c \in Config : vms[u][c] \in VM \cup {None} /\ watched[u][c] \in VM \cup {None}
  BY <1>0 DEF Types, TypeSetups, TypeLoaders
<1>t. TypeOK'
  <2>1. TypeDatabase' /\ TypeLoaders'
    BY <1>0, <1>u DEF Types, TypeDatabase, TypeLoaders
  <2>2. TypeSetups'
    BY <1>0, <1>1, <1>2, <1>u DEF Types, TypeSetups
  <2>3. tearing' \subseteq Pending'
    BY <1>0, <1>1, <1>3 DEF Types, TypeMachines, Pending
  <2>4. TypeMachines'
    BY <1>0, <1>4, <1>u, <2>3 DEF Types, TypeMachines
  <2> QED BY <2>1, <2>2, <2>4, TypePartsNext DEF Types
<1>5. OwnVMs'
  BY <1>0, <1>u, <1>w, <1>x DEF OwnVMs, Uses
<1>6. MadeInOrder'
  BY <1>w, TheVMs DEF IInv, MadeInOrder
<1>7. Attempted'
  BY <1>0, <1>3, <1>u DEF Attempted
<1>8. LocalsOK' /\ SetupAlone' /\ LoadingAgrees'
  BY <1>b, <1>u DEF IInv, LocalsOK, SetupAlone, LoadingAgrees, MadeFor
<1>9. RowsStand' /\ CurrentAgrees'
  BY <1>b, <1>u, <1>w DEF IInv, RowsStand, RowStands, CurrentAgrees, Idle
<1>10. NotTorn' /\ ReplacedIsGone'
  BY <1>2, <1>b, <1>u DEF NotTorn, ReplacedIsGone, Busy
<1>11. ASSUME ~ messy
       PROVE  /\ v \notin tearing /\ torn[v] = 0
              /\ \A w \in closing' : w \notin tearing' /\ torn'[w] = 0
  BY <1>1, <1>2, <1>3, <1>11 DEF IInv, ClosingWhole
<1>12. NoStrayVM'
  <2> SUFFICES ASSUME ~ messy, NEW w \in VM, Alive(w)'
               PROVE  w \in closing' \cup tearing' \cup leftover' \/ torn'[w] > 0
    BY <1>2, <1>u DEF NoStrayVM, Alive, Holds
  <2>1. Alive(w)
    BY <1>3 DEF Alive
  <2>2. w \in closing \cup tearing \cup leftover \/ torn[w] > 0
    BY <1>1, <2>1 DEF IInv, NoStrayVM, Holds, Alive
  <2>3. CASE w = v
    <3>1. vm[v] \in {"loading", "creating", "ready"}
      BY <1>3, <2>1, <2>3 DEF Alive
    <3>2. CASE vm[v] = "ready"
      BY <1>3, <1>11, <2>3, <3>2
    <3>3. CASE vm[v] \in {"loading", "creating"}
      BY <1>1, <2>3, <3>3 DEF Pending
    <3> QED BY <3>1, <3>2, <3>3
  <2>4. CASE w # v
    BY <1>1, <1>u, <1>w, <2>2, <2>4
  <2> QED BY <2>3, <2>4
<1>13. TornDownOnce'
  <2> SUFFICES ASSUME ~ messy, NEW w \in VM PROVE torn'[w] <= 1
    BY <1>u DEF TornDownOnce
  <2>1. torn[w] <= 1 /\ torn[w] \in 0..2
    BY <1>0 DEF IInv, TornDownOnce, Types, TypeMachines
  <2> QED BY <1>3, <1>11, <2>1
<1>14. ClosingWhole'
  BY <1>b, <1>u, <1>11 DEF ClosingWhole
<1>15. LookedAt' /\ ScheduleStands'
  <2>1. \A w \in VM : vm[w] = "ready" => vm'[w] = "ready"
    BY <1>w
  <2>2. \A w \in VM : vm[w] # "unused" /\ Missed(w) =>
                        vm'[w] \in {"null", "retry"} \/ attempts'[w] >= 2
    BY <1>w DEF Missed
  <2> QED BY <1>b, <1>u, <2>1, <2>2, LookedStays
<1> QED
  BY <1>t, <1>5, <1>6, <1>7, <1>8, <1>9, <1>10, <1>12, <1>13, <1>14, <1>15 DEF IInv

-----------------------------------------------------------------------------
(* The invariant                                                             *)

LEMMA InitInv ==
  ASSUME PluginVMsAssumption, Init
  PROVE  IInv
<1>0. MAX_SETUP_RETRIES \in Nat /\ MaxFaults \in Nat /\ MaxVMs \in Nat
  BY DEF PluginVMsAssumption
<1>1. TypeOK
  <2>1. Nothing \in [Config -> VM \cup {None}]
    BY DEF Nothing
  <2>2. TypeDatabase /\ TypeSetups
    <3>1. row \in [Config -> Nat]
      BY DEF Init
    <3>2. edits \in Nat /\ reloads \in Nat /\ faults \in 0..MaxFaults
      BY <1>0 DEF Init
    <3>3. TypeDatabase
      BY <3>1, <3>2, Zenon DEF Init, TypeDatabase
    <3>4. TypeSetups
      BY <2>1 DEF Init, TypeSetups, SetupState
    <3> QED BY <3>3, <3>4
  <2>3. TypeLoaders /\ TypeMachines
    BY <1>0, <2>1 DEF Init, TypeLoaders, TypeMachines, VMState
  <2> QED BY <2>2, <2>3, TypeParts DEF Types
<1>2. OwnVMs
  BY DEF Init, OwnVMs, Uses, Nothing
<1>3. MadeInOrder
  <2> SUFFICES ASSUME NEW c \in Config
               PROVE  \A i \in 1 .. MaxVMs : vm[<<c, i>>] # "unused" <=> i <= 0
    BY <1>0 DEF MadeInOrder
  <2> QED BY <1>0, TheVMs DEF Init
<1>4. Attempted
  BY DEF Init, Attempted
<1>5. Busy = {} /\ Loaders = {} /\ \A s \in Setup : setup[s] # "loading"
  BY DEF Init, Busy, Loaders
<1>6. LocalsOK
  BY DEF Init, LocalsOK
<1>7. SetupAlone /\ RowsStand /\ LoadingAgrees /\ LookedAt
  BY <1>5 DEF SetupAlone, RowsStand, LoadingAgrees, LookedAt
<1>8. CurrentAgrees /\ ScheduleStands
  BY DEF Init, CurrentAgrees, Idle, ScheduleStands
<1>9. NotTorn /\ ReplacedIsGone /\ NoStrayVM /\ TornDownOnce /\ ClosingWhole
  BY <1>5 DEF Init, NotTorn, Whole, ReplacedIsGone, NoStrayVM, TornDownOnce, ClosingWhole, Nothing
<1> QED BY <1>1, <1>2, <1>3, <1>4, <1>6, <1>7, <1>8, <1>9 DEF IInv

LEMMA StutterInv ==
  ASSUME PluginVMsAssumption, IInv, UNCHANGED vars
  PROVE  IInv'
<1>0. Types
  BY TypeParts DEF IInv
<1>u. UNCHANGED <<database, server, setups, loaders, machines, teardowns, histories>>
  BY DEF vars
<1>1. TypeLoaders'
  BY <1>0, <1>u DEF Types, TypeLoaders, loaders, histories
<1>2. schedule' \in (SUBSET Config) \cup {None} /\ hasty' \in BOOLEAN
  BY <1>0, <1>u DEF Types, TypeSetups, TypeDatabase, server, histories
<1>3. LocalsOK' /\ LookedAt' /\ ScheduleStands'
  BY <1>u
  DEF IInv, LocalsOK, LookedAt, ScheduleStands, Looked, Missed, Loaders, Busy,
      database, server, setups, loaders, machines, histories
<1>4. \A s \in Setup : \A c \in Config : Uses(watched'[s], c)
  BY <1>u DEF IInv, OwnVMs, loaders
<1>5. nudges' \in Nat
  BY <1>0, <1>u DEF Types, TypeSetups, setups
<1> QED BY <1>u, <1>1, <1>2, <1>3, <1>4, <1>5, LoaderOnly DEF server, setups, histories

LEMMA NextInv ==
  ASSUME PluginVMsAssumption, IInv, [Next]_vars
  PROVE  IInv'
<1>1. ASSUME NEW c \in Config, Edit(c) PROVE IInv'
  BY <1>1, EditInv
<1>2. ASSUME NEW v \in VM, VMStep(v) PROVE IInv'
  <2>1. PICK y : VMMoves(v, y)
    BY <1>2, VMStepMoves DEF IInv
  <2> QED BY <2>1, VMMovesInv
<1>3. ASSUME NEW s \in Setup, SetupStep(s) PROVE IInv'
  BY <1>3, StartInv, QueryInv, CompareInv, SwapInv, SetupFailsInv DEF SetupStep
<1>4. ASSUME NEW s \in Setup, LoaderStep(s) PROVE IInv'
  BY <1>4, NudgeInv, WatchInv, ScheduledInv DEF LoaderStep
<1>5. CASE Shutdown
  BY <1>5, TearDownAllInv, TearDownNextInv DEF Shutdown
<1>6. CASE UNCHANGED vars
  BY <1>6, StutterInv
<1> QED BY <1>1, <1>2, <1>3, <1>4, <1>5, <1>6 DEF Next

(* The inductive invariant holds of every behaviour of the worker thread.    *)
THEOREM Invariance == Spec => []IInv
<1>1. Init => IInv
  BY PluginVMsAssumption, InitInv
<1>2. IInv /\ [Next]_vars => IInv'
  BY PluginVMsAssumption, NextInv
<1> QED BY <1>1, <1>2, PTL DEF Spec

(* After its reloads, the last of them alone and without a failure, a thread *)
(* holds what is in force, except for what a VM disabled; and, unless setups *)
(* overlapped another or the shutdown, or failed, teardownPlugin ran at most *)
(* once for a VM, the shutdown included (setup.ts:10-45, teardown.ts).       *)
THEOREM VMsOKHolds == Spec => []VMsOK
<1>1. IInv => VMsOK
  BY DEF IInv, VMsOK
<1> QED BY <1>1, Invariance, PTL

(* Between reloads, until the shutdown and unless setups overlapped or       *)
(* failed, the thread uses no VM whose teardown began (setup.ts:29).         *)
THEOREM NoTornVMInUseHolds == Spec => []NoTornVMInUse
<1>1. IInv => NoTornVMInUse
  BY DEF IInv, NotTorn, NoTornVMInUse, Whole, Busy
<1> QED BY <1>1, Invariance, PTL

(* Unless setups overlapped another or the shutdown, or failed, every VM     *)
(* that is alive or will be is in use, being set up or torn down, or one of  *)
(* the two known exceptions (lazy.ts:64-68, 104); and once the shutdown has  *)
(* come to it, it is torn down or being so (teardown.ts:5).                  *)
THEOREM NoStrayVMHolds == Spec => []NoStrayVM
<1>1. IInv => NoStrayVM
  BY DEF IInv
<1> QED BY <1>1, Invariance, PTL

(* When no reload or reloadSchedule task is left, the schedule, unless it is *)
(* of configurations replaced meanwhile, has what was created at its first   *)
(* attempt and nothing that was not created (setup.ts:106-129).              *)
THEOREM ScheduleAgreesHolds == Spec => []ScheduleAgrees
<1>1. IInv => ScheduleAgrees
  <2> SUFFICES ASSUME IInv, Busy = {}, reloads = 0, nudges = 0, Loaders = {}, ~ hasty
               PROVE  LET ready == {c \in Config : current[c] # None /\ vm[current[c]] = "ready"}
                      IN  /\ schedule \subseteq ready
                          /\ {c \in ready : attempts[current[c]] = 1} \subseteq schedule
    BY DEF ScheduleAgrees, Idle
  <2>1. Looked(current, {}, schedule) /\ schedule \subseteq Config
    <3>1. Types /\ ScheduleStands
      BY TypeParts DEF IInv
    <3>2. schedule # None /\ Looked(current, {}, schedule)
      BY <3>1 DEF ScheduleStands, Types, TypeDatabase
    <3> QED BY <3>1, <3>2 DEF Types, TypeSetups
  <2>2. \A c \in schedule : current[c] # None /\ vm[current[c]] = "ready"
    BY <2>1 DEF Looked
  <2>3. ASSUME NEW c \in Config \ schedule, current[c] # None, vm[current[c]] = "ready"
        PROVE  attempts[current[c]] # 1
    BY <2>1, <2>3 DEF Looked, Missed
  <2> QED BY <2>1, <2>2, <2>3
<1> QED BY <1>1, Invariance, PTL
=============================================================================
