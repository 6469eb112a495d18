---------------------------- MODULE JobQueuesProofs ----------------------------
(***************************************************************************)
(* Proofs about JobQueues, for any jobs, chains, runners and configured     *)
(* queues: no accepted job is lost, none is run twice without a cause, and  *)
(* both consumers follow the flags that start, pause and stop them.         *)
(***************************************************************************)
EXTENDS JobQueues, FiniteSetTheorems, WellFoundedInduction, TLAPS

(* The server went down with everything it had in memory, and does not stop  *)
(* without a fault.                                                         *)
DownIsClean ==
  phase = "down" =>
    /\ ~ started /\ ~ paused
    /\ \A c \in Chain : chain[c].at = "free"
    /\ \A r \in Runner : runner[r] = "unused"
    /\ current = None /\ pool = None /\ ended = {}

StoppingIsFault == phase = "stopping" => faults > 0

(* An object is deleted after its job was run. *)
RanBeforeDelete ==
  \A c \in Chain : chain[c].at = "deleting" => ran[Min(chain[c].todo)] > 0

(* The one chain that is not free is the one the timer belongs to, so that a  *)
(* call that clears the timer leaves none.                                  *)
OnlyChain ==
  "s3" \in overtaken \/
    /\ \A c, d \in Chain : chain[c].at # "free" /\ chain[d].at # "free" => c = d
    /\ \A c \in Chain : chain[c].at = "armed" => handle = c

Wanted == started /\ ~paused /\ "graphile" \in consuming
Making(r) == runner[r] \in {"connecting", "starting"}

(* One Graphile worker at a time is made, runs or is stopped, the pool is    *)
(* its own, and it is made or runs exactly while it is wanted.              *)
OneRunner ==
  "graphile" \in overtaken \cup died \/
    /\ \A q, r \in Runner : runner[q] # "unused" /\ runner[r] # "unused" => q = r
    /\ Wanted <=> \E r \in Runner : Making(r) \/ runner[r] = "running"
    /\ \A r \in Runner : runner[r] = "running" <=> current = r
    /\ \A r \in Runner : runner[r] \in {"starting", "running", "stopping"} => pool = r
    /\ ended = {}

(* Without a fault and with one chain each job is in one place, and one that *)
(* was run is only waiting for its deletion, if anything.                   *)
OnePlace ==
  faults = 0 /\ "s3" \notin overtaken =>
    /\ s3 \cap graphile = {} /\ (s3 \cup graphile) \cap handed = {}
    /\ s3 \cup graphile \cup handed \subseteq accepted
    /\ \A c \in Chain : chain[c].todo \subseteq s3
    /\ \A j \in Job : ran[j] <= 1
    /\ \A j \in Job : ran[j] = 1 =>
         /\ j \in accepted \ (graphile \cup handed)
         /\ j \in s3 => \E c \in Chain : chain[c].at = "deleting" /\ j = Min(chain[c].todo)

IInv ==
  /\ TypeOK /\ DownIsClean /\ StoppingIsFault /\ RanBeforeDelete /\ OnlyChain /\ PollsS3
  /\ OneRunner /\ AcceptedIsKept /\ OnePlace

-----------------------------------------------------------------------------
(* The parts of the type invariant                                          *)

Busy == {"getting", "running", "deleting"}
ChainRecord == [at : Working \cup {"free", "armed"}, todo : SUBSET Job]
ChainState == {v \in ChainRecord : v.at \in Busy <=> v.todo # {}}
RunnerState == {"unused", "connecting", "starting", "running", "stopping"}

TypeStores ==
  /\ now \in Nat
  /\ s3 \subseteq Job /\ graphile \subseteq Job /\ accepted \subseteq Job
  /\ tried \in [Job -> SUBSET Queue]
  /\ handed \subseteq Job /\ lost \subseteq Job
  /\ ran \in [Job -> 0..2]

TypeFlags ==
  /\ phase \in {"down", "up", "stopping"}
  /\ consuming \subseteq Queue
  /\ started \in BOOLEAN /\ paused \in BOOLEAN
  /\ overtaken \subseteq Queue /\ died \subseteq Queue
  /\ faults \in 0..MaxFaults

TypeChains == chain \in [Chain -> ChainState] /\ handle \in Chain \cup {None}

TypeRunners ==
  /\ runner \in [Runner -> RunnerState]
  /\ current \in Runner \cup {None} /\ pool \in Runner \cup {None}
  /\ ended \subseteq Runner

LEMMA TypeParts == TypeOK <=> TypeStores /\ TypeFlags /\ TypeChains /\ TypeRunners
<1>1. TypeChains <=>
        /\ chain \in [Chain -> [at : Working \cup {"free", "armed"}, todo : SUBSET Job]]
        /\ \A c \in Chain : chain[c].at \in {"getting", "running", "deleting"} <=> chain[c].todo # {}
        /\ handle \in Chain \cup {None}
  BY DEF TypeChains, ChainState, ChainRecord, Busy
<1> QED BY <1>1 DEF TypeOK, TypeStores, TypeFlags, TypeRunners, RunnerState

LEMMA TypePartsNext ==
  TypeStores' /\ TypeFlags' /\ TypeChains' /\ TypeRunners' => TypeOK'
<1>1. TypeChains' =>
        /\ chain' \in [Chain -> [at : Working \cup {"free", "armed"}, todo : SUBSET Job]]
        /\ \A c \in Chain : chain'[c].at \in {"getting", "running", "deleting"} <=> chain'[c].todo # {}
        /\ handle' \in Chain \cup {None}
  BY DEF TypeChains, ChainState, ChainRecord, Busy
<1> QED BY <1>1 DEF TypeOK, TypeStores, TypeFlags, TypeRunners, RunnerState

-----------------------------------------------------------------------------
(* Operators                                                                *)

(* A nonempty set of naturals has a least element, *)
LEMMA NatLeast ==
  ASSUME NEW T, T \subseteq Nat, T # {}
  PROVE  \E x \in T : \A y \in T : x <= y
<1>1. \E x \in T : \A y \in T : ~(<<y, x>> \in OpToRel(<, Nat))
  BY WFMin, NatLessThanWellFounded
<1>2. PICK x \in T : \A y \in T : ~(<<y, x>> \in OpToRel(<, Nat))
  BY <1>1
<1>3. ASSUME NEW y \in T PROVE x <= y
  <2>1. ~(y < x)
    BY <1>2 DEF OpToRel
  <2> QED BY <2>1
<1> QED BY <1>3

LEMMA MinIsThere ==
  ASSUME NEW T, T \subseteq Nat, T # {}
  PROVE  Min(T) \in T
<1>1. \E x \in T : \A y \in T : x <= y
  BY NatLeast
<1> QED BY <1>1 DEF Min

LEMMA JobMin ==
  ASSUME JobQueuesAssumption, NEW T, T \subseteq Job, T # {}
  PROVE  Min(T) \in T /\ Min(T) \in Job
<1>1. T \subseteq Nat
  BY DEF JobQueuesAssumption
<1> QED BY <1>1, MinIsThere

(* One chain is given a place, or nothing to do. *)
Placed(f, c, place) == [f EXCEPT ![c].at = place]
Emptied(f, c) == [f EXCEPT ![c].todo = {}]

LEMMA FreeIsState == Free \in ChainState /\ Free.at = "free" /\ Free.todo = {}
BY DEF Free, ChainState, ChainRecord, Busy

LEMMA PlacedChain ==
  ASSUME NEW f \in [Chain -> ChainState], NEW c \in Chain, NEW place
  PROVE  \A d \in Chain :
           Placed(f, c, place)[d] = IF d = c THEN [at |-> place, todo |-> f[c].todo] ELSE f[d]
<1>1. f[c] \in ChainRecord
  BY DEF ChainState
<1>2. [f[c] EXCEPT !.at = place] = [at |-> place, todo |-> f[c].todo]
  BY <1>1 DEF ChainRecord
<1>3. Placed(f, c, place) = [f EXCEPT ![c] = [f[c] EXCEPT !.at = place]]
  BY DEF Placed
<1> QED BY <1>2, <1>3

LEMMA PlacedIsState ==
  ASSUME NEW f \in [Chain -> ChainState], NEW c \in Chain, NEW place \in Working \cup {"free", "armed"},
         place \in Busy <=> f[c].todo # {}
  PROVE  Placed(f, c, place) \in [Chain -> ChainState]
<1> DEFINE v == [at |-> place, todo |-> f[c].todo]
<1>1. f[c] \in ChainRecord
  BY DEF ChainState
<1>2. v \in ChainState
  BY <1>1 DEF ChainState, ChainRecord
<1>3. \A d \in Chain : Placed(f, c, place)[d] \in ChainState
  BY <1>2, PlacedChain
<1>4. Placed(f, c, place) = [d \in Chain |-> Placed(f, c, place)[d]]
  BY DEF Placed
<1> QED BY <1>3, <1>4

LEMMA EmptiedChain ==
  ASSUME NEW f \in [Chain -> ChainState], NEW c \in Chain, f[c].todo = {}
  PROVE  Emptied(f, c) = f
<1>1. f[c] \in ChainRecord
  BY DEF ChainState
<1>2. [f[c] EXCEPT !.todo = {}] = f[c]
  BY <1>1 DEF ChainRecord
<1>3. Emptied(f, c) = [f EXCEPT ![c] = [f[c] EXCEPT !.todo = {}]]
  BY DEF Emptied
<1> QED BY <1>2, <1>3

LEMMA ClearedChain ==
  ASSUME JobQueuesAssumption, TypeChains, NEW f \in [Chain -> ChainState]
  PROVE  /\ ClearTimeout(f) \in [Chain -> ChainState]
         /\ \A c \in Chain :
              ClearTimeout(f)[c] = IF c = handle /\ f[c].at = "armed" THEN Free ELSE f[c]
<1>1. handle \in Chain \cup {None} /\ None \notin Chain
  BY DEF TypeChains, JobQueuesAssumption
<1>2. CASE handle # None /\ f[handle].at = "armed"
  <2>1. ClearTimeout(f) = [f EXCEPT ![handle] = Free]
    BY <1>2 DEF ClearTimeout
  <2> QED BY <1>1, <1>2, <2>1, FreeIsState
<1>3. CASE ~(handle # None /\ f[handle].at = "armed")
  <2>1. ClearTimeout(f) = f
    BY <1>3 DEF ClearTimeout
  <2> QED BY <1>1, <1>3, <2>1
<1> QED BY <1>2, <1>3

LEMMA RanOnceMore ==
  ASSUME TypeStores, NEW j \in Job, Ran(j)
  PROVE  /\ ran' \in [Job -> 0..2]
         /\ ran'[j] = IF ran[j] < 2 THEN ran[j] + 1 ELSE 2
         /\ \A k \in Job : k # j => ran'[k] = ran[k]
<1>1. ran \in [Job -> 0..2] /\ ran[j] \in 0..2
  BY DEF TypeStores
<1> DEFINE n == ran[j] + 1
<1>2. n \in 1..3
  BY <1>1
<1>3. Min({2, n}) \in {2, n} /\ Min({2, n}) <= 2 /\ Min({2, n}) <= n
  <2>1. \E x \in {2, n} : \A y \in {2, n} : x <= y
    BY <1>2
  <2> QED BY <2>1 DEF Min
<1> HIDE DEF n
<1>4. Min({2, n}) = IF n <= 2 THEN n ELSE 2
  BY <1>2, <1>3
<1>5. ran' = [ran EXCEPT ![j] = Min({2, n})]
  BY DEF Ran, n
<1>6. Min({2, n}) \in 0..2
  BY <1>2, <1>4
<1>7. ran'[j] = IF n <= 2 THEN n ELSE 2
  BY <1>1, <1>4, <1>5
<1> QED BY <1>1, <1>5, <1>6, <1>7 DEF n

-----------------------------------------------------------------------------
(* What a step may leave to the rest                                        *)

(* No chain has more to do than before, and none begins or ends deleting. *)
ChainsQuiet ==
  \A c \in Chain :
    /\ chain'[c].todo \subseteq chain[c].todo
    /\ chain[c].at = "deleting" \/ chain'[c].at = "deleting" => chain'[c] = chain[c]

LEMMA JobsQuiet ==
  ASSUME RanBeforeDelete, AcceptedIsKept, OnePlace, ChainsQuiet,
         UNCHANGED <<s3, graphile, accepted, handed, ran, lost>>,
         overtaken \subseteq overtaken', faults' = 0 => faults = 0
  PROVE  RanBeforeDelete' /\ AcceptedIsKept' /\ OnePlace'
<1>1. RanBeforeDelete'
  BY DEF RanBeforeDelete, ChainsQuiet
<1>2. AcceptedIsKept'
  BY DEF AcceptedIsKept
<1>3. OnePlace'
  <2> SUFFICES ASSUME faults' = 0, "s3" \notin overtaken'
               PROVE  /\ \A c \in Chain : chain'[c].todo \subseteq s3
                      /\ \A j \in Job : ran[j] = 1 /\ j \in s3 =>
                           \E c \in Chain : chain'[c].at = "deleting" /\ j = Min(chain'[c].todo)
    BY DEF OnePlace
  <2>1. \A c \in Chain : chain'[c].todo \subseteq s3
    BY DEF OnePlace, ChainsQuiet
  <2>2. ASSUME NEW j \in Job, ran[j] = 1, j \in s3
        PROVE  \E c \in Chain : chain'[c].at = "deleting" /\ j = Min(chain'[c].todo)
    <3>1. PICK c \in Chain : chain[c].at = "deleting" /\ j = Min(chain[c].todo)
      BY <2>2 DEF OnePlace
    <3>2. chain'[c] = chain[c]
      BY <3>1 DEF ChainsQuiet
    <3> QED BY <3>1, <3>2
  <2> QED BY <2>1, <2>2
<1> QED BY <1>1, <1>2, <1>3

LEMMA RunnerQuiet ==
  ASSUME OneRunner, UNCHANGED <<workers, consuming, started, paused>>,
         overtaken \subseteq overtaken', died \subseteq died'
  PROVE  OneRunner'
BY DEF OneRunner, Wanted, Making, workers

(* Chains only become free. *)
LEMMA FewerChains ==
  ASSUME OnlyChain, overtaken \subseteq overtaken', handle' = handle,
         \A c \in Chain : chain'[c] = chain[c] \/ chain'[c].at = "free"
  PROVE  OnlyChain'
<1> SUFFICES ASSUME "s3" \notin overtaken'
             PROVE  /\ \A c, d \in Chain : chain'[c].at # "free" /\ chain'[d].at # "free" => c = d
                    /\ \A c \in Chain : chain'[c].at = "armed" => handle' = c
  BY DEF OnlyChain
<1>1. \A c \in Chain : chain'[c].at # "free" => chain'[c] = chain[c]
  OBVIOUS
<1>2. /\ \A c, d \in Chain : chain[c].at # "free" /\ chain[d].at # "free" => c = d
      /\ \A c \in Chain : chain[c].at = "armed" => handle = c
  BY DEF OnlyChain
<1>3. \A c \in Chain : chain'[c].at = "armed" => handle' = c
  <2> SUFFICES ASSUME NEW c \in Chain, chain'[c].at = "armed" PROVE handle' = c
    OBVIOUS
  <2>1. chain'[c] = chain[c]
    BY <1>1
  <2> QED BY <1>2, <2>1
<1> QED BY <1>1, <1>2, <1>3

(* The chain that is not free goes on. *)
LEMMA ChainGoesOn ==
  ASSUME OnlyChain, overtaken \subseteq overtaken', NEW c \in Chain, chain[c].at # "free",
         \A d \in Chain : d # c => chain'[d] = chain[d] \/ chain'[d].at = "free",
         chain'[c].at = "armed" => handle' = c
  PROVE  OnlyChain'
<1> SUFFICES ASSUME "s3" \notin overtaken'
             PROVE  /\ \A d, e \in Chain : chain'[d].at # "free" /\ chain'[e].at # "free" => d = e
                    /\ \A d \in Chain : chain'[d].at = "armed" => handle' = d
  BY DEF OnlyChain
<1>1. \A d \in Chain : d # c => chain[d].at = "free"
  BY DEF OnlyChain
<1>2. \A d \in Chain : d # c => chain'[d].at = "free"
  BY <1>1
<1> QED BY <1>2

LEMMA PollsQuiet ==
  ASSUME PollsS3, started' /\ ~paused' => started /\ ~paused,
         consuming' \subseteq consuming, died \subseteq died',
         (\E c \in Chain : chain[c].at # "free") =>
           paused' \/ "s3" \in died' \/ \E c \in Chain : chain'[c].at # "free"
  PROVE  PollsS3'
BY DEF PollsS3

-----------------------------------------------------------------------------
(* syncState                                                                *)

(* A call of syncState of GraphileQueue that overtakes none. *)
LEMMA SyncRunner ==
  ASSUME JobQueuesAssumption, TypeRunners, OneRunner, SyncGraphile,
         overtaken' = overtaken \cup Overtakes, UNCHANGED <<consuming, died>>
  PROVE  TypeRunners' /\ OneRunner'
<1>1. /\ runner \in [Runner -> RunnerState] /\ current \in Runner \cup {None}
      /\ None \notin Runner
  BY DEF TypeRunners, JobQueuesAssumption
<1>2. CASE ~On
  <2>1. /\ current' = None /\ UNCHANGED <<pool, ended>>
        /\ runner' = IF current = None THEN runner ELSE [runner EXCEPT ![current] = "stopping"]
    BY <1>2 DEF SyncGraphile, StopRunner
  <2>2. TypeRunners'
    BY <1>1, <2>1 DEF TypeRunners, RunnerState
  <2>3. OneRunner'
    <3> SUFFICES ASSUME "graphile" \notin overtaken' \cup died'
                 PROVE  OneRunner'
      BY DEF OneRunner
    <3>1. \A r \in Runner : ~ Making(r)
      BY DEF Overtakes, Queue, Making
    <3>2. /\ \A q, r \in Runner : runner[q] # "unused" /\ runner[r] # "unused" => q = r
          /\ \A r \in Runner : runner[r] = "running" <=> current = r
          /\ \A r \in Runner : runner[r] \in {"starting", "running", "stopping"} => pool = r
          /\ ended = {}
      BY DEF OneRunner
    <3>3. ~ Wanted'
      BY <1>2 DEF Wanted, On
    <3>4. /\ \A q, r \in Runner : runner'[q] # "unused" /\ runner'[r] # "unused" => q = r
          /\ \A r \in Runner : runner'[r] \in {"unused", "stopping"}
          /\ \A r \in Runner : runner'[r] = "stopping" => pool = r
      <4>1. CASE current = None
        <5>1. runner' = runner
          BY <2>1, <4>1
        <5>2. \A r \in Runner : runner[r] \in {"unused", "stopping"}
          BY <1>1, <3>1, <3>2, <4>1 DEF Making, RunnerState
        <5> QED BY <3>2, <5>1, <5>2
      <4>2. CASE current # None
        <5>1. current \in Runner /\ runner' = [runner EXCEPT ![current] = "stopping"]
          BY <1>1, <2>1, <4>2
        <5>2. runner[current] = "running" /\ pool = current
          BY <3>2, <5>1
        <5>3. \A r \in Runner : r # current => runner[r] = "unused"
          BY <3>2, <5>1, <5>2
        <5> QED BY <1>1, <5>1, <5>2, <5>3
      <4> QED BY <4>1, <4>2
    <3>5. \A r \in Runner : ~ Making(r)' /\ runner'[r] # "running" /\ current' # r
      BY <1>1, <2>1, <3>4 DEF Making
    <3>6. /\ \A r \in Runner : runner'[r] \in {"starting", "running", "stopping"} => pool' = r
          /\ ended' = {}
      BY <2>1, <3>2, <3>4
    <3> QED BY <3>3, <3>4, <3>5, <3>6 DEF OneRunner
  <2> QED BY <2>2, <2>3
<1>3. CASE On
  <2>1. UNCHANGED <<current, pool, ended>>
    BY <1>3 DEF SyncGraphile
  <2>2. Wanted' <=> "graphile" \in consuming
    BY <1>3 DEF Wanted, On
  <2>3. ASSUME "graphile" \notin overtaken' \cup died'
        PROVE  /\ \A r \in Runner : runner[r] \in {"unused", "running"}
               /\ \A q, r \in Runner : runner[q] # "unused" /\ runner[r] # "unused" => q = r
               /\ \A r \in Runner : runner[r] = "running" <=> current = r
               /\ \A r \in Runner : runner[r] = "running" => pool = r
               /\ Wanted <=> \E r \in Runner : runner[r] = "running"
               /\ ended = {}
    <3>1. \A r \in Runner : runner[r] \notin {"connecting", "starting", "stopping"}
      BY <1>3, <2>3 DEF Overtakes, Queue
    <3>2. /\ \A q, r \in Runner : runner[q] # "unused" /\ runner[r] # "unused" => q = r
          /\ \A r \in Runner : runner[r] = "running" <=> current = r
          /\ \A r \in Runner : runner[r] = "running" => pool = r
          /\ ended = {}
      BY <2>3 DEF OneRunner
    <3>3. Wanted <=> \E r \in Runner : runner[r] = "running"
      BY <2>3, <3>1 DEF OneRunner, Making
    <3> QED BY <1>1, <3>1, <3>2, <3>3 DEF RunnerState
  <2>4. CASE current = None /\ "graphile" \in consuming
    <3> DEFINE k == CHOOSE r \in Runner : runner[r] = "unused"
    <3>1. k \in Runner /\ runner[k] = "unused" /\ runner' = [runner EXCEPT ![k] = "connecting"]
      BY <1>3, <2>4 DEF SyncGraphile
    <3> HIDE DEF k
    <3>2. TypeRunners'
      BY <1>1, <2>1, <3>1 DEF TypeRunners, RunnerState
    <3>3. OneRunner'
      <4> SUFFICES ASSUME "graphile" \notin overtaken' \cup died' PROVE OneRunner'
        BY DEF OneRunner
      <4>1. \A r \in Runner : runner[r] = "unused"
        BY <1>1, <2>3, <2>4
      <4>2. \A r \in Runner : runner'[r] = IF r = k THEN "connecting" ELSE "unused"
        BY <1>1, <3>1, <4>1
      <4>3. Wanted' <=> \E r \in Runner : Making(r)' \/ runner'[r] = "running"
        BY <2>2, <2>4, <3>1, <4>2 DEF Making
      <4>4. ended' = {} /\ \A r \in Runner : current' # r
        BY <1>1, <2>1, <2>3, <2>4
      <4> QED BY <4>2, <4>3, <4>4 DEF OneRunner
    <3> QED BY <3>2, <3>3
  <2>5. CASE ~(current = None /\ "graphile" \in consuming)
    <3>1. runner' = runner
      BY <1>3, <2>5 DEF SyncGraphile
    <3>2. TypeRunners'
      BY <2>1, <3>1 DEF TypeRunners
    <3>3. OneRunner'
      <4> SUFFICES ASSUME "graphile" \notin overtaken' \cup died' PROVE OneRunner'
        BY DEF OneRunner
      <4>1. Wanted' <=> \E r \in Runner : runner[r] = "running"
        <5>1. CASE current # None
          <6>1. \E r \in Runner : runner[r] = "running"
            BY <1>1, <2>3, <5>1
          <6>2. "graphile" \in consuming
            BY <2>3, <6>1 DEF Wanted
          <6> QED BY <2>2, <6>1, <6>2
        <5>2. CASE current = None
          BY <1>1, <2>2, <2>3, <2>5, <5>2
        <5> QED BY <5>1, <5>2
      <4>2. \A r \in Runner : ~ Making(r)'
        BY <2>3, <3>1 DEF Making
      <4> QED BY <2>1, <2>3, <3>1, <4>1, <4>2 DEF OneRunner
    <3> QED BY <3>2, <3>3
  <2> QED BY <2>4, <2>5
<1> QED BY <1>2, <1>3

(* A call of syncState of S3Queue that overtakes none. *)
LEMMA SyncChains ==
  ASSUME JobQueuesAssumption, TypeChains, OnlyChain, PollsS3, SyncS3,
         overtaken' = overtaken \cup Overtakes, UNCHANGED <<consuming, died>>
  PROVE  TypeChains' /\ OnlyChain' /\ PollsS3' /\ ChainsQuiet
<1> DEFINE cleared == ClearTimeout(chain)
<1>1. /\ cleared \in [Chain -> ChainState]
      /\ \A c \in Chain : cleared[c] = IF c = handle /\ chain[c].at = "armed" THEN Free ELSE chain[c]
      /\ chain \in [Chain -> ChainState] /\ handle \in Chain \cup {None} /\ handle' = handle
  BY ClearedChain DEF TypeChains, SyncS3
<1>2. \A c \in Chain : chain[c].at = "armed" => chain[c].todo = {}
  BY <1>1 DEF ChainState, Busy
<1>3. CASE On /\ "s3" \in consuming
  <2> DEFINE k == CHOOSE c \in Chain : chain[c].at = "free"
  <2>1. k \in Chain /\ chain[k].at = "free" /\ chain' = Placed(cleared, k, "listing")
    BY <1>3 DEF SyncS3, Placed
  <2> HIDE DEF k, cleared
  <2>2. cleared[k] = chain[k] /\ chain[k].todo = {}
    BY <1>1, <2>1 DEF ChainState, Busy
  <2>3. \A c \in Chain : chain'[c] = IF c = k THEN [at |-> "listing", todo |-> {}] ELSE cleared[c]
    <3>1. \A c \in Chain : Placed(cleared, k, "listing")[c]
            = IF c = k THEN [at |-> "listing", todo |-> cleared[k].todo] ELSE cleared[c]
      BY <1>1, <2>1, PlacedChain
    <3> QED BY <2>1, <2>2, <3>1
  <2>4. TypeChains'
    <3>1. "listing" \in Working \cup {"free", "armed"} /\ ("listing" \in Busy <=> cleared[k].todo # {})
      BY <2>2 DEF Working, Busy
    <3>2. chain' \in [Chain -> ChainState]
      BY <1>1, <2>1, <3>1, PlacedIsState
    <3> QED BY <1>1, <3>2 DEF TypeChains
  <2>5. OnlyChain'
    <3> SUFFICES ASSUME "s3" \notin overtaken' PROVE OnlyChain'
      BY DEF OnlyChain
    <3>1. \A c \in Chain : chain[c].at \notin Working
      BY <1>3 DEF Overtakes, Queue
    <3>2. \A c \in Chain : chain[c].at \in {"free", "armed"}
      BY <1>1, <3>1 DEF ChainState, ChainRecord
    <3>3. \A c \in Chain : chain[c].at = "armed" => handle = c
      BY DEF OnlyChain
    <3>4. \A c \in Chain : cleared[c].at = "free"
      BY <1>1, <3>2, <3>3, FreeIsState
    <3>5. \A c \in Chain : chain'[c].at = IF c = k THEN "listing" ELSE "free"
      BY <2>3, <3>4
    <3> QED BY <3>5 DEF OnlyChain
  <2>6. PollsS3'
    BY <2>1, <2>3 DEF PollsS3
  <2>7. ChainsQuiet
    BY <1>1, <1>2, <2>1, <2>3, FreeIsState DEF ChainsQuiet
  <2> QED BY <2>4, <2>5, <2>6, <2>7
<1>4. CASE ~(On /\ "s3" \in consuming)
  <2>1. chain' = cleared
    BY <1>4 DEF SyncS3
  <2> HIDE DEF cleared
  <2>2. TypeChains'
    BY <1>1, <2>1 DEF TypeChains
  <2>3. OnlyChain'
    <3>1. \A c \in Chain : chain'[c] = chain[c] \/ chain'[c].at = "free"
      BY <1>1, <2>1, FreeIsState
    <3> QED BY <1>1, <3>1, FewerChains
  <2>4. PollsS3'
    BY <1>4 DEF PollsS3, On
  <2>5. ChainsQuiet
    BY <1>1, <1>2, <2>1, FreeIsState DEF ChainsQuiet
  <2> QED BY <2>2, <2>3, <2>4, <2>5
<1> QED BY <1>3, <1>4

(* What the other parts of the invariant say. *)
LEMMA IInvParts ==
  IInv => /\ TypeStores /\ TypeFlags /\ TypeChains /\ TypeRunners
          /\ DownIsClean /\ StoppingIsFault /\ RanBeforeDelete /\ OnlyChain /\ PollsS3
          /\ OneRunner /\ AcceptedIsKept /\ OnePlace
BY TypeParts DEF IInv

LEMMA IInvPartsNext ==
  /\ TypeStores' /\ TypeFlags' /\ TypeChains' /\ TypeRunners'
  /\ DownIsClean' /\ StoppingIsFault' /\ RanBeforeDelete' /\ OnlyChain' /\ PollsS3'
  /\ OneRunner' /\ AcceptedIsKept' /\ OnePlace'
  => IInv'
BY TypePartsNext DEF IInv

(* StartConsumer, ResumeConsumer, StopConsumer *)
LEMMA SyncInv ==
  ASSUME JobQueuesAssumption, IInv, StartConsumer \/ ResumeConsumer \/ StopConsumer
  PROVE  IInv'
<1>0. /\ TypeStores /\ TypeFlags /\ TypeChains /\ TypeRunners
      /\ DownIsClean /\ StoppingIsFault /\ RanBeforeDelete /\ OnlyChain /\ PollsS3
      /\ OneRunner /\ AcceptedIsKept /\ OnePlace
  BY IInvParts
<1>1. /\ SyncS3 /\ SyncGraphile /\ overtaken' = overtaken \cup Overtakes
      /\ UNCHANGED <<now, s3, graphile, tried, accepted, consuming, handed, ran, lost, died>>
  BY DEF StartConsumer, ResumeConsumer, StopConsumer, SyncState, stores, enqueueing, jobs
<1>2. /\ phase = "up" /\ phase' \in {"up", "stopping"} /\ (phase' = "stopping" => faults' = faults + 1)
      /\ faults' = faults \/ (faults < MaxFaults /\ faults' = faults + 1)
  BY DEF StartConsumer, ResumeConsumer, StopConsumer, Fault
<1>3. started' \in BOOLEAN /\ paused' \in BOOLEAN
  BY <1>0 DEF StartConsumer, ResumeConsumer, StopConsumer, TypeFlags
<1>4. faults \in Nat /\ faults' \in 0..MaxFaults
  BY <1>0, <1>2 DEF TypeFlags, JobQueuesAssumption
<1>5. TypeStores'
  BY <1>0, <1>1 DEF TypeStores
<1>6. TypeFlags'
  <2>1. Overtakes \subseteq Queue
    BY DEF Overtakes
  <2> QED BY <1>0, <1>1, <1>2, <1>3, <1>4, <2>1 DEF TypeFlags
<1>7. TypeRunners' /\ OneRunner'
  BY <1>0, <1>1, SyncRunner
<1>8. TypeChains' /\ OnlyChain' /\ PollsS3' /\ ChainsQuiet
  BY <1>0, <1>1, SyncChains
<1>9. DownIsClean' /\ StoppingIsFault'
  BY <1>2, <1>4 DEF DownIsClean, StoppingIsFault
<1>10. RanBeforeDelete' /\ AcceptedIsKept' /\ OnePlace'
  <2>1. faults' = 0 => faults = 0
    BY <1>2, <1>4
  <2>2. overtaken \subseteq overtaken'
    BY <1>1
  <2> QED BY <1>0, <1>1, <1>8, <2>1, <2>2, JobsQuiet
<1> QED BY <1>5, <1>6, <1>7, <1>8, <1>9, <1>10, IInvPartsNext

-----------------------------------------------------------------------------
(* The chains                                                               *)

(* pauseQueueIfWorkerFull, with the chains as they are at the time. *)
LEMMA PauseEffect ==
  ASSUME JobQueuesAssumption, TypeFlags, TypeChains, TypeRunners, OneRunner,
         NEW chains \in [Chain -> ChainState], PauseIfWorkerFull(chains),
         UNCHANGED <<handle, consuming, died>>
  PROVE  /\ TypeChains' /\ TypeRunners' /\ OneRunner'
         /\ \A d \in Chain :
              chain'[d] = chains[d] \/ (paused' /\ chains[d].at = "armed" /\ chain'[d] = Free)
         /\ started' = started /\ paused' \in BOOLEAN /\ (paused => paused')
         /\ overtaken \subseteq overtaken' /\ overtaken' \subseteq Queue
<1>1. /\ paused' \in BOOLEAN /\ started' = started /\ (paused => paused')
      /\ overtaken \subseteq overtaken' /\ overtaken' \subseteq Queue
  BY DEF PauseIfWorkerFull, TypeFlags, Overtakes
<1>2. CASE chain' = chains /\ UNCHANGED <<started, paused, workers, overtaken>>
  <2>1. TypeChains' /\ TypeRunners'
    BY <1>2 DEF TypeChains, TypeRunners, workers
  <2>2. OneRunner'
    BY <1>2, RunnerQuiet
  <2> QED BY <1>1, <1>2, <2>1, <2>2
<1>3. CASE /\ paused' = TRUE /\ chain' = ClearTimeout(chains) /\ UNCHANGED started
           /\ StopRunner /\ overtaken' = overtaken \cup Overtakes
  <2>1. SyncGraphile
    BY <1>3 DEF SyncGraphile, On
  <2>2. TypeRunners' /\ OneRunner'
    BY <1>3, <2>1, SyncRunner
  <2>3. /\ chain' \in [Chain -> ChainState]
        /\ \A d \in Chain : chain'[d] = chains[d] \/ (chains[d].at = "armed" /\ chain'[d] = Free)
    BY <1>3, ClearedChain
  <2>4. TypeChains'
    BY <2>3 DEF TypeChains
  <2> QED BY <1>1, <1>3, <2>2, <2>3, <2>4
<1> QED BY <1>2, <1>3 DEF PauseIfWorkerFull

(* One chain is given another state. *)
LEMMA OneChainSet ==
  ASSUME TypeChains, NEW c \in Chain, NEW v \in ChainState, chain' = [chain EXCEPT ![c] = v]
  PROVE  /\ chain' \in [Chain -> ChainState] /\ chain'[c] = v
         /\ \A d \in Chain : d # c => chain'[d] = chain[d]
BY DEF TypeChains

LEMMA FireInv ==
  ASSUME JobQueuesAssumption, IInv, NEW c \in Chain, Fire(c)
  PROVE  IInv'
<1>0. /\ TypeStores /\ TypeFlags /\ TypeChains /\ TypeRunners
      /\ DownIsClean /\ StoppingIsFault /\ RanBeforeDelete /\ OnlyChain /\ PollsS3
      /\ OneRunner /\ AcceptedIsKept /\ OnePlace
  BY IInvParts
<1> DEFINE cleared == ClearTimeout(chain)
           set == IF started /\ ~paused THEN [cleared EXCEPT ![c].at = "listing"]
                  ELSE [cleared EXCEPT ![c] = Free]
           new == IF started /\ ~paused THEN "listing" ELSE "free"
<1>1. /\ chain[c].at = "armed" /\ chain' = [set EXCEPT ![c].todo = {}]
      /\ UNCHANGED <<stores, enqueueing, flags, handle, workers, jobs, histories>>
  BY DEF Fire
<1>2. /\ cleared \in [Chain -> ChainState]
      /\ \A d \in Chain : cleared[d] = IF d = handle /\ chain[d].at = "armed" THEN Free ELSE chain[d]
      /\ chain \in [Chain -> ChainState]
  BY <1>0, ClearedChain DEF TypeChains
<1>3. chain[c].todo = {} /\ phase # "down"
  BY <1>0, <1>1, <1>2 DEF ChainState, Busy, DownIsClean
<1> HIDE DEF cleared
<1>4. cleared[c] \in ChainState /\ cleared[c].todo = {}
  BY <1>2, <1>3, FreeIsState
<1>5. chain' = Emptied(set, c)
  BY <1>1 DEF Emptied
<1>6. /\ set \in [Chain -> ChainState] /\ set[c] = [at |-> new, todo |-> {}]
      /\ \A d \in Chain : d # c => set[d] = cleared[d]
  <2>1. CASE started /\ ~paused
    <3>1. set = Placed(cleared, c, "listing")
      BY <2>1 DEF Placed
    <3>2. "listing" \in Working \cup {"free", "armed"} /\ ("listing" \in Busy <=> cleared[c].todo # {})
      BY <1>4 DEF Working, Busy
    <3>3. Placed(cleared, c, "listing") \in [Chain -> ChainState]
      BY <1>2, <3>2, PlacedIsState
    <3>4. \A d \in Chain : Placed(cleared, c, "listing")[d]
            = IF d = c THEN [at |-> "listing", todo |-> cleared[c].todo] ELSE cleared[d]
      BY <1>2, PlacedChain
    <3> HIDE DEF set
    <3> QED BY <1>4, <2>1, <3>1, <3>3, <3>4
  <2>2. CASE ~(started /\ ~paused)
    <3>1. set = [cleared EXCEPT ![c] = Free] /\ new = "free"
      BY <2>2
    <3> HIDE DEF set, new
    <3> QED BY <1>2, <3>1, FreeIsState DEF Free
  <2> QED BY <2>1, <2>2
<1> HIDE DEF set, new
<1>7. /\ chain' \in [Chain -> ChainState] /\ chain'[c] = [at |-> new, todo |-> {}]
      /\ \A d \in Chain : d # c => chain'[d] = cleared[d]
  <2>1. set[c].todo = {}
    BY <1>6
  <2>2. chain' = set
    BY <1>5, <1>6, <2>1, EmptiedChain
  <2> QED BY <1>6, <2>2
<1>8. \A d \in Chain : d # c =>
        chain'[d] = chain[d] \/ (chain[d].at = "armed" /\ chain'[d] = Free)
  BY <1>2, <1>7
<1>9. new \in {"listing", "free"} /\ (started /\ ~paused => new = "listing")
  BY DEF new
<1>10. TypeStores' /\ TypeFlags' /\ TypeChains' /\ TypeRunners'
  BY <1>0, <1>1, <1>7 DEF TypeStores, TypeFlags, TypeChains, TypeRunners, stores, enqueueing, flags,
                          workers, jobs, histories
<1>11. DownIsClean' /\ StoppingIsFault'
  BY <1>0, <1>1, <1>3 DEF DownIsClean, StoppingIsFault, flags, histories
<1>12. OnlyChain'
  <2>1. /\ overtaken' = overtaken
        /\ \A d \in Chain : d # c => chain'[d] = chain[d] \/ chain'[d].at = "free"
        /\ chain'[c].at # "armed"
    BY <1>1, <1>7, <1>8, <1>9, FreeIsState DEF histories
  <2> QED BY <1>0, <1>1, <2>1, ChainGoesOn
<1>13. PollsS3'
  <2>1. started /\ ~paused => chain'[c].at # "free"
    BY <1>7, <1>9
  <2> QED BY <1>1, <2>1 DEF PollsS3, flags
<1>14. OneRunner'
  BY <1>0, <1>1, RunnerQuiet DEF flags, histories
<1>15. ChainsQuiet
  BY <1>1, <1>3, <1>7, <1>8, <1>9, FreeIsState DEF ChainsQuiet
<1>16. RanBeforeDelete' /\ AcceptedIsKept' /\ OnePlace'
  BY <1>0, <1>1, <1>15, JobsQuiet DEF stores, enqueueing, jobs, histories
<1> QED BY <1>10, <1>11, <1>12, <1>13, <1>14, <1>16, IInvPartsNext

LEMMA ListedInv ==
  ASSUME JobQueuesAssumption, IInv, NEW c \in Chain, Listed(c)
  PROVE  IInv'
<1>0. /\ TypeStores /\ TypeFlags /\ TypeChains /\ TypeRunners
      /\ DownIsClean /\ StoppingIsFault /\ RanBeforeDelete /\ OnlyChain /\ PollsS3
      /\ OneRunner /\ AcceptedIsKept /\ OnePlace
  BY IInvParts
<1> DEFINE v == IF Due = {} THEN [at |-> "armed", todo |-> {}] ELSE [at |-> "getting", todo |-> Due]
<1>1. /\ chain[c].at = "listing" /\ chain' = [chain EXCEPT ![c] = v]
      /\ handle' \in {c, handle} /\ (v.at = "armed" => handle' = c)
      /\ UNCHANGED <<stores, enqueueing, flags, workers, jobs, histories>>
  BY DEF Listed, Rearm
<1>2. v \in ChainState /\ v.at \in {"armed", "getting"} /\ v.todo \subseteq s3
  BY <1>0 DEF ChainState, ChainRecord, Busy, Working, Due, TypeStores
<1> HIDE DEF v
<1>3. /\ chain' \in [Chain -> ChainState] /\ chain'[c] = v
      /\ \A d \in Chain : d # c => chain'[d] = chain[d]
  BY <1>0, <1>1, <1>2, OneChainSet
<1>4. TypeStores' /\ TypeFlags' /\ TypeChains' /\ TypeRunners'
  BY <1>0, <1>1, <1>3 DEF TypeStores, TypeFlags, TypeChains, TypeRunners, stores, enqueueing, flags,
                          workers, jobs, histories
<1>5. DownIsClean' /\ StoppingIsFault'
  BY <1>0, <1>1 DEF DownIsClean, StoppingIsFault, flags, histories
<1>6. OnlyChain'
  BY <1>0, <1>1, <1>3, ChainGoesOn DEF histories
<1>7. PollsS3'
  BY <1>0, <1>1, <1>2, <1>3 DEF PollsS3, flags, histories
<1>8. OneRunner'
  BY <1>0, <1>1, RunnerQuiet DEF flags, histories
<1>9. \A d \in Chain : chain[d].at = "deleting" \/ chain'[d].at = "deleting" => chain'[d] = chain[d]
  BY <1>1, <1>2, <1>3
<1>10. RanBeforeDelete' /\ AcceptedIsKept'
  BY <1>0, <1>1, <1>9 DEF RanBeforeDelete, AcceptedIsKept, stores, enqueueing, jobs
<1>11. OnePlace'
  <2> SUFFICES ASSUME faults = 0, "s3" \notin overtaken
               PROVE  /\ \A d \in Chain : chain'[d].todo \subseteq s3
                      /\ \A j \in Job : ran[j] = 1 /\ j \in s3 =>
                           \E d \in Chain : chain'[d].at = "deleting" /\ j = Min(chain'[d].todo)
    BY <1>0, <1>1 DEF OnePlace, stores, enqueueing, jobs, histories
  <2>1. \A d \in Chain : chain'[d].todo \subseteq s3
    BY <1>0, <1>2, <1>3 DEF OnePlace
  <2>2. ASSUME NEW j \in Job, ran[j] = 1, j \in s3
        PROVE  \E d \in Chain : chain'[d].at = "deleting" /\ j = Min(chain'[d].todo)
    <3>1. PICK d \in Chain : chain[d].at = "deleting" /\ j = Min(chain[d].todo)
      BY <1>0, <2>2 DEF OnePlace
    <3>2. chain'[d] = chain[d]
      BY <1>9, <3>1
    <3> QED BY <3>1, <3>2
  <2> QED BY <2>1, <2>2
<1> QED BY <1>4, <1>5, <1>6, <1>7, <1>8, <1>10, <1>11, IInvPartsNext

(* GetNothing and S3Fails *)
LEMMA ChainEndsInv ==
  ASSUME JobQueuesAssumption, IInv, NEW c \in Chain, GetNothing(c) \/ S3Fails(c)
  PROVE  IInv'
<1>0. /\ TypeStores /\ TypeFlags /\ TypeChains /\ TypeRunners
      /\ DownIsClean /\ StoppingIsFault /\ RanBeforeDelete /\ OnlyChain /\ PollsS3
      /\ OneRunner /\ AcceptedIsKept /\ OnePlace
  BY IInvParts
<1>1. /\ chain[c].at \in {"listing", "getting", "deleting"} /\ chain' = [chain EXCEPT ![c] = Free]
      /\ died' = died \cup {"s3"}
      /\ UNCHANGED <<stores, enqueueing, flags, handle, workers, jobs, overtaken>>
      /\ (faults' = faults /\ chain[c].at = "getting") \/ (faults < MaxFaults /\ faults' = faults + 1)
  BY DEF GetNothing, S3Fails, Fault
<1>2. faults \in Nat /\ faults' \in 0..MaxFaults /\ (faults' = 0 => faults = 0 /\ chain[c].at = "getting")
      /\ (faults > 0 => faults' > 0)
  BY <1>0, <1>1 DEF TypeFlags, JobQueuesAssumption
<1>3. /\ chain' \in [Chain -> ChainState] /\ chain'[c] = Free
      /\ \A d \in Chain : d # c => chain'[d] = chain[d]
  BY <1>0, <1>1, FreeIsState, OneChainSet
<1>4. TypeStores' /\ TypeFlags' /\ TypeChains' /\ TypeRunners'
  BY <1>0, <1>1, <1>2, <1>3 DEF TypeStores, TypeFlags, TypeChains, TypeRunners, stores, enqueueing,
                                flags, workers, jobs, Queue
<1>5. DownIsClean' /\ StoppingIsFault'
  BY <1>0, <1>1, <1>2 DEF DownIsClean, StoppingIsFault, flags
<1>6. OnlyChain'
  BY <1>0, <1>1, <1>3, FreeIsState, FewerChains
<1>7. PollsS3'
  BY <1>1 DEF PollsS3
<1>8. OneRunner'
  BY <1>0, <1>1, RunnerQuiet DEF flags
<1>9. RanBeforeDelete' /\ AcceptedIsKept'
  BY <1>0, <1>1, <1>3, FreeIsState DEF RanBeforeDelete, AcceptedIsKept, stores, enqueueing, jobs
<1>10. OnePlace'
  <2>1. CASE faults' = 0
    <3>1. ChainsQuiet
      BY <1>2, <1>3, <2>1, FreeIsState DEF ChainsQuiet
    <3> QED BY <1>0, <1>1, <1>2, <3>1, JobsQuiet DEF stores, enqueueing, jobs
  <2>2. CASE faults' # 0
    BY <2>2 DEF OnePlace
  <2> QED BY <2>1, <2>2
<1> QED BY <1>4, <1>5, <1>6, <1>7, <1>8, <1>9, <1>10, IInvPartsNext

LEMMA GetInv ==
  ASSUME JobQueuesAssumption, IInv, NEW c \in Chain, Get(c)
  PROVE  IInv'
<1>0. /\ TypeStores /\ TypeFlags /\ TypeChains /\ TypeRunners
      /\ DownIsClean /\ StoppingIsFault /\ RanBeforeDelete /\ OnlyChain /\ PollsS3
      /\ OneRunner /\ AcceptedIsKept /\ OnePlace
  BY IInvParts
<1> DEFINE chains == Placed(chain, c, "running")
<1>1. /\ chain[c].at = "getting" /\ PauseIfWorkerFull(chains)
      /\ UNCHANGED <<now, s3, graphile, enqueueing, phase, consuming, handle, jobs, died, faults>>
  BY DEF Get, Read, Placed
<1>2. chain \in [Chain -> ChainState] /\ chain[c].todo # {}
  BY <1>0, <1>1 DEF TypeChains, ChainState, Busy
<1>3. /\ chains \in [Chain -> ChainState]
      /\ \A d \in Chain : chains[d] = IF d = c THEN [at |-> "running", todo |-> chain[c].todo] ELSE chain[d]
  <2>1. "running" \in Working \cup {"free", "armed"} /\ ("running" \in Busy <=> chain[c].todo # {})
    BY <1>2 DEF Working, Busy
  <2>2. chains \in [Chain -> ChainState]
    BY <1>2, <2>1, PlacedIsState
  <2> QED BY <1>2, <2>2, PlacedChain
<1> HIDE DEF chains
<1>4. /\ TypeChains' /\ TypeRunners' /\ OneRunner'
      /\ \A d \in Chain :
           chain'[d] = chains[d] \/ (paused' /\ chains[d].at = "armed" /\ chain'[d] = Free)
      /\ started' = started /\ paused' \in BOOLEAN /\ (paused => paused')
      /\ overtaken \subseteq overtaken' /\ overtaken' \subseteq Queue
  BY <1>0, <1>1, <1>3, PauseEffect
<1>5. /\ chain'[c] = [at |-> "running", todo |-> chain[c].todo]
      /\ \A d \in Chain : d # c =>
           chain'[d] = chain[d] \/ (chain[d].at = "armed" /\ chain'[d] = Free)
  BY <1>3, <1>4
<1>6. TypeStores' /\ TypeFlags'
  BY <1>0, <1>1, <1>4 DEF TypeStores, TypeFlags, enqueueing, jobs
<1>7. DownIsClean' /\ StoppingIsFault'
  BY <1>0, <1>1 DEF DownIsClean, StoppingIsFault
<1>8. OnlyChain'
  BY <1>0, <1>1, <1>4, <1>5, FreeIsState, ChainGoesOn
<1>9. PollsS3'
  BY <1>5 DEF PollsS3
<1>10. ChainsQuiet
  BY <1>1, <1>5, FreeIsState DEF ChainsQuiet
<1>11. RanBeforeDelete' /\ AcceptedIsKept' /\ OnePlace'
  BY <1>0, <1>1, <1>4, <1>10, JobsQuiet DEF enqueueing, jobs
<1> QED BY <1>4, <1>6, <1>7, <1>8, <1>9, <1>11, IInvPartsNext

LEMMA JobDoneInv ==
  ASSUME JobQueuesAssumption, IInv, NEW c \in Chain, JobDone(c)
  PROVE  IInv'
<1>0. /\ TypeStores /\ TypeFlags /\ TypeChains /\ TypeRunners
      /\ DownIsClean /\ StoppingIsFault /\ RanBeforeDelete /\ OnlyChain /\ PollsS3
      /\ OneRunner /\ AcceptedIsKept /\ OnePlace
  BY IInvParts
<1> DEFINE k == Min(chain[c].todo)
<1>1. /\ chain[c].at = "running" /\ Ran(k) /\ chain' = Placed(chain, c, "deleting")
      /\ UNCHANGED <<stores, enqueueing, flags, handle, workers, handed, lost, histories>>
  BY DEF JobDone, At, Placed
<1>2. chain \in [Chain -> ChainState] /\ chain[c].todo # {} /\ chain[c].todo \subseteq Job
  BY <1>0, <1>1 DEF TypeChains, ChainState, ChainRecord, Busy
<1>3. k \in chain[c].todo /\ k \in Job
  BY <1>2, JobMin
<1> HIDE DEF k
<1>4. /\ chain' \in [Chain -> ChainState]
      /\ \A d \in Chain : chain'[d] = IF d = c THEN [at |-> "deleting", todo |-> chain[c].todo] ELSE chain[d]
  <2>1. "deleting" \in Working \cup {"free", "armed"} /\ ("deleting" \in Busy <=> chain[c].todo # {})
    BY <1>2 DEF Working, Busy
  <2>2. chain' \in [Chain -> ChainState]
    BY <1>1, <1>2, <2>1, PlacedIsState
  <2> QED BY <1>1, <1>2, <2>2, PlacedChain
<1>5. /\ ran' \in [Job -> 0..2]
      /\ ran'[k] = IF ran[k] < 2 THEN ran[k] + 1 ELSE 2
      /\ \A j \in Job : j # k => ran'[j] = ran[j]
  BY <1>0, <1>1, <1>3, RanOnceMore
<1>6. \A j \in Job : ran[j] \in 0..2 /\ (ran[j] > 0 => ran'[j] > 0) /\ ran'[k] > 0
  BY <1>0, <1>3, <1>5 DEF TypeStores
<1>7. TypeStores' /\ TypeFlags' /\ TypeChains' /\ TypeRunners'
  BY <1>0, <1>1, <1>4, <1>5 DEF TypeStores, TypeFlags, TypeChains, TypeRunners, stores, enqueueing,
                                flags, workers, histories
<1>8. DownIsClean' /\ StoppingIsFault'
  BY <1>0, <1>1 DEF DownIsClean, StoppingIsFault, flags, histories
<1>9. OnlyChain'
  BY <1>0, <1>1, <1>4, ChainGoesOn DEF histories
<1>10. PollsS3'
  BY <1>4 DEF PollsS3
<1>11. OneRunner'
  BY <1>0, <1>1, RunnerQuiet DEF flags, histories
<1>12. RanBeforeDelete'
  <2> SUFFICES ASSUME NEW d \in Chain, chain'[d].at = "deleting" PROVE ran'[Min(chain'[d].todo)] > 0
    BY DEF RanBeforeDelete
  <2>1. CASE d = c
    <3>1. Min(chain'[c].todo) = k
      BY <1>4 DEF k
    <3>2. ran'[k] > 0
      BY <1>3, <1>6
    <3> QED BY <2>1, <3>1, <3>2
  <2>2. CASE d # c
    <3>1. chain'[d] = chain[d] /\ chain[d] \in ChainState
      BY <1>2, <1>4, <2>2
    <3>2. chain[d].todo # {} /\ chain[d].todo \subseteq Job
      BY <3>1 DEF ChainState, ChainRecord, Busy
    <3>3. Min(chain[d].todo) \in Job /\ ran[Min(chain[d].todo)] > 0
      BY <1>0, <3>1, <3>2, JobMin DEF RanBeforeDelete
    <3> QED BY <1>6, <3>1, <3>3
  <2> QED BY <2>1, <2>2
<1>13. AcceptedIsKept'
  BY <1>0, <1>1, <1>6 DEF AcceptedIsKept, TypeStores, stores, enqueueing
<1>14. OnePlace'
  <2> SUFFICES ASSUME faults = 0, "s3" \notin overtaken PROVE OnePlace'
    BY <1>1 DEF OnePlace, histories
  <2>1. /\ k \in s3 /\ s3 \cap graphile = {} /\ (s3 \cup graphile) \cap handed = {}
        /\ s3 \cup graphile \cup handed \subseteq accepted
        /\ \A d \in Chain : chain[d].todo \subseteq s3
        /\ \A j \in Job : ran[j] <= 1
    BY <1>0, <1>3 DEF OnePlace
  <2>2. \A d \in Chain : d # c => chain[d].at = "free"
    BY <1>0, <1>1 DEF OnlyChain
  <2>3. \A j \in Job : ran[j] = 1 => j \in accepted \ (s3 \cup graphile \cup handed)
    <3> SUFFICES ASSUME NEW j \in Job, ran[j] = 1, j \in s3 PROVE FALSE
      BY <1>0 DEF OnePlace
    <3>1. \E d \in Chain : chain[d].at = "deleting"
      BY <1>0 DEF OnePlace
    <3> QED BY <1>1, <2>2, <3>1
  <2>4. ran[k] = 0 /\ ran'[k] = 1
    BY <1>3, <1>5, <1>6, <2>1, <2>3
  <2>5. \A j \in Job : ran'[j] <= 1
    BY <1>5, <2>1, <2>4
  <2>6. \A d \in Chain : chain'[d].todo \subseteq s3
    BY <1>4, <2>1
  <2>7. ASSUME NEW j \in Job, ran'[j] = 1
        PROVE  /\ j \in accepted \ (graphile \cup handed)
               /\ j \in s3 => \E d \in Chain : chain'[d].at = "deleting" /\ j = Min(chain'[d].todo)
    <3>1. CASE j = k
      <4>1. chain'[c].at = "deleting" /\ k = Min(chain'[c].todo)
        BY <1>4 DEF k
      <4> QED BY <2>1, <3>1, <4>1
    <3>2. CASE j # k
      BY <1>5, <2>3, <2>7, <3>2
    <3> QED BY <3>1, <3>2
  <2> QED BY <1>1, <2>1, <2>5, <2>6, <2>7 DEF OnePlace, stores, enqueueing
<1> QED BY <1>7, <1>8, <1>9, <1>10, <1>11, <1>12, <1>13, <1>14, IInvPartsNext

LEMMA DeletedInv ==
  ASSUME JobQueuesAssumption, IInv, NEW c \in Chain, Deleted(c)
  PROVE  IInv'
<1>0. /\ TypeStores /\ TypeFlags /\ TypeChains /\ TypeRunners
      /\ DownIsClean /\ StoppingIsFault /\ RanBeforeDelete /\ OnlyChain /\ PollsS3
      /\ OneRunner /\ AcceptedIsKept /\ OnePlace
  BY IInvParts
<1> DEFINE k == Min(chain[c].todo)
           rest == chain[c].todo \ {k}
           v == IF rest = {} THEN [at |-> "armed", todo |-> {}] ELSE [at |-> "getting", todo |-> rest]
<1>1. /\ chain[c].at = "deleting" /\ s3' = s3 \ {k} /\ chain' = [chain EXCEPT ![c] = v]
      /\ handle' \in {c, handle} /\ (v.at = "armed" => handle' = c)
      /\ UNCHANGED <<now, graphile, enqueueing, flags, workers, jobs, histories>>
  BY DEF Deleted, Rearm
<1>2. /\ chain \in [Chain -> ChainState] /\ chain[c].todo # {} /\ chain[c].todo \subseteq Job
  BY <1>0, <1>1 DEF TypeChains, ChainState, ChainRecord, Busy
<1>3. k \in Job /\ ran[k] > 0
  BY <1>0, <1>1, <1>2, JobMin DEF RanBeforeDelete
<1> HIDE DEF k
<1>4. v \in ChainState /\ v.at \in {"armed", "getting"} /\ v.todo \subseteq chain[c].todo \ {k}
  BY <1>2 DEF ChainState, ChainRecord, Busy, Working
<1> HIDE DEF v
<1>5. /\ chain' \in [Chain -> ChainState] /\ chain'[c] = v
      /\ \A d \in Chain : d # c => chain'[d] = chain[d]
  BY <1>0, <1>1, <1>4, OneChainSet
<1>6. TypeStores' /\ TypeFlags' /\ TypeChains' /\ TypeRunners'
  BY <1>0, <1>1, <1>5 DEF TypeStores, TypeFlags, TypeChains, TypeRunners, enqueueing, flags, workers,
                          jobs, histories
<1>7. DownIsClean' /\ StoppingIsFault'
  BY <1>0, <1>1 DEF DownIsClean, StoppingIsFault, flags, histories
<1>8. OnlyChain'
  BY <1>0, <1>1, <1>5, ChainGoesOn DEF histories
<1>9. PollsS3'
  BY <1>4, <1>5 DEF PollsS3
<1>10. OneRunner'
  BY <1>0, <1>1, RunnerQuiet DEF flags, histories
<1>11. RanBeforeDelete'
  BY <1>0, <1>1, <1>4, <1>5 DEF RanBeforeDelete, jobs
<1>12. AcceptedIsKept'
  BY <1>0, <1>1, <1>3 DEF AcceptedIsKept, enqueueing, jobs
<1>13. OnePlace'
  <2> SUFFICES ASSUME faults = 0, "s3" \notin overtaken PROVE OnePlace'
    BY <1>1 DEF OnePlace, histories
  <2>1. \A d \in Chain : d # c => chain[d].at = "free" /\ chain[d].todo = {}
    BY <1>0, <1>1, <1>2 DEF OnlyChain, ChainState, Busy
  <2>2. \A d \in Chain : chain'[d].todo \subseteq s3'
    BY <1>0, <1>1, <1>4, <1>5, <2>1 DEF OnePlace
  <2>3. \A j \in Job : ran[j] = 1 => j \in accepted \ (graphile \cup handed) /\ j \notin s3'
    <3> SUFFICES ASSUME NEW j \in Job, ran[j] = 1, j \in s3' PROVE FALSE
      BY <1>0 DEF OnePlace
    <3>1. PICK d \in Chain : chain[d].at = "deleting" /\ j = Min(chain[d].todo)
      BY <1>0, <1>1 DEF OnePlace
    <3>2. d = c
      BY <2>1, <3>1
    <3> QED BY <1>1, <3>1, <3>2 DEF k
  <2> QED BY <1>0, <1>1, <2>2, <2>3 DEF OnePlace, enqueueing, jobs
<1> QED BY <1>6, <1>7, <1>8, <1>9, <1>10, <1>11, <1>12, <1>13, IInvPartsNext

-----------------------------------------------------------------------------
(* The Graphile workers                                                     *)

(* A step of the workers only. *)
LEMMA WorkersOnly ==
  ASSUME IInv, TypeRunners', OneRunner', died \subseteq died', died' \subseteq Queue,
         faults' \in 0..MaxFaults, faults <= faults', MaxFaults \in Nat, phase # "down",
         UNCHANGED <<stores, enqueueing, flags, polling, jobs, overtaken>>
  PROVE  IInv'
<1>0. /\ TypeStores /\ TypeFlags /\ TypeChains /\ TypeRunners
      /\ DownIsClean /\ StoppingIsFault /\ RanBeforeDelete /\ OnlyChain /\ PollsS3
      /\ OneRunner /\ AcceptedIsKept /\ OnePlace
  BY IInvParts
<1>1. faults \in Nat /\ faults' \in Nat /\ faults <= faults'
  BY <1>0 DEF TypeFlags
<1>2. TypeStores' /\ TypeFlags' /\ TypeChains'
  BY <1>0 DEF TypeStores, TypeFlags, TypeChains, stores, enqueueing, flags, polling, jobs
<1>3. DownIsClean' /\ StoppingIsFault'
  BY <1>0, <1>1 DEF DownIsClean, StoppingIsFault, flags
<1>4. OnlyChain'
  BY <1>0 DEF OnlyChain, polling
<1>5. PollsS3'
  BY <1>0 DEF PollsS3, polling, flags
<1>6. ChainsQuiet
  BY DEF ChainsQuiet, polling
<1>7. RanBeforeDelete' /\ AcceptedIsKept' /\ OnePlace'
  <2>1. faults' = 0 => faults = 0
    BY <1>1
  <2> QED BY <1>0, <1>6, <2>1, JobsQuiet DEF stores, enqueueing, jobs
<1> QED BY <1>2, <1>3, <1>4, <1>5, <1>7, IInvPartsNext

(* One worker is given another state. *)
LEMMA RunnerSet ==
  ASSUME TypeRunners, NEW r \in Runner, NEW to \in RunnerState, runner' = [runner EXCEPT ![r] = to]
  PROVE  /\ runner' \in [Runner -> RunnerState] /\ runner'[r] = to
         /\ \A q \in Runner : q # r => runner'[q] = runner[q]
BY DEF TypeRunners

LEMMA PoolCreatedInv ==
  ASSUME JobQueuesAssumption, IInv, NEW r \in Runner, PoolCreated(r)
  PROVE  IInv'
<1>0. TypeRunners /\ TypeFlags /\ OneRunner /\ DownIsClean
  BY IInvParts
<1>1. /\ runner[r] = "connecting" /\ runner' = [runner EXCEPT ![r] = "starting"] /\ pool' = r
      /\ UNCHANGED <<stores, enqueueing, flags, polling, current, ended, jobs, histories>>
  BY DEF PoolCreated, Step
<1>2. /\ runner' \in [Runner -> RunnerState] /\ runner'[r] = "starting"
      /\ \A q \in Runner : q # r => runner'[q] = runner[q]
  BY <1>0, <1>1, RunnerSet DEF RunnerState
<1>3. TypeRunners'
  BY <1>0, <1>1, <1>2 DEF TypeRunners
<1>4. OneRunner'
  <2> SUFFICES ASSUME "graphile" \notin overtaken \cup died PROVE OneRunner'
    BY <1>1 DEF OneRunner, histories
  <2>1. /\ \A q \in Runner : q # r => runner[q] = "unused"
        /\ ended = {} /\ \A q \in Runner : current # q
    BY <1>0, <1>1 DEF OneRunner
  <2>2. Wanted
    BY <1>0, <1>1 DEF OneRunner, Making
  <2>3. Wanted' /\ Making(r)'
    BY <1>1, <1>2, <2>2 DEF Wanted, Making, flags
  <2>4. \A q \in Runner : runner'[q] = IF q = r THEN "starting" ELSE "unused"
    BY <1>2, <2>1
  <2> QED BY <1>1, <2>1, <2>3, <2>4 DEF OneRunner
<1>5. phase # "down"
  BY <1>0, <1>1 DEF DownIsClean
<1> QED BY <1>0, <1>1, <1>3, <1>4, <1>5, WorkersOnly DEF histories, TypeFlags, JobQueuesAssumption

LEMMA RunnerCreatedInv ==
  ASSUME JobQueuesAssumption, IInv, NEW r \in Runner, RunnerCreated(r)
  PROVE  IInv'
<1>0. TypeRunners /\ TypeFlags /\ OneRunner /\ DownIsClean
  BY IInvParts
<1>1. /\ runner[r] = "starting" /\ runner' = [runner EXCEPT ![r] = "running"] /\ current' = r
      /\ UNCHANGED <<stores, enqueueing, flags, polling, pool, ended, jobs, histories>>
  BY DEF RunnerCreated, Step
<1>2. /\ runner' \in [Runner -> RunnerState] /\ runner'[r] = "running"
      /\ \A q \in Runner : q # r => runner'[q] = runner[q]
  BY <1>0, <1>1, RunnerSet DEF RunnerState
<1>3. TypeRunners'
  BY <1>0, <1>1, <1>2 DEF TypeRunners
<1>4. OneRunner'
  <2> SUFFICES ASSUME "graphile" \notin overtaken \cup died PROVE OneRunner'
    BY <1>1 DEF OneRunner, histories
  <2>1. (\A q \in Runner : q # r => runner[q] = "unused") /\ ended = {} /\ pool = r
    BY <1>0, <1>1 DEF OneRunner
  <2>2. Wanted
    BY <1>0, <1>1 DEF OneRunner, Making
  <2>3. Wanted'
    BY <1>1, <2>2 DEF Wanted, flags
  <2>4. \A q \in Runner : runner'[q] = IF q = r THEN "running" ELSE "unused"
    BY <1>2, <2>1
  <2> QED BY <1>1, <2>1, <2>3, <2>4 DEF OneRunner
<1>5. phase # "down"
  BY <1>0, <1>1 DEF DownIsClean
<1> QED BY <1>0, <1>1, <1>3, <1>4, <1>5, WorkersOnly DEF histories, TypeFlags, JobQueuesAssumption

LEMMA CreationFailsInv ==
  ASSUME JobQueuesAssumption, IInv, NEW r \in Runner, CreationFails(r)
  PROVE  IInv'
<1>0. TypeRunners /\ TypeFlags /\ OneRunner /\ DownIsClean
  BY IInvParts
<1>1. /\ runner[r] \in {"connecting", "starting"} /\ runner' = [runner EXCEPT ![r] = "unused"]
      /\ ended' = ended \ {r} /\ pool' = IF pool = r THEN None ELSE pool
      /\ died' = died \cup {"graphile"} /\ faults < MaxFaults /\ faults' = faults + 1
      /\ UNCHANGED <<stores, enqueueing, flags, polling, current, jobs, overtaken>>
  BY DEF CreationFails, Fault
<1>2. runner' \in [Runner -> RunnerState]
  BY <1>0, <1>1, RunnerSet DEF RunnerState
<1>3. TypeRunners'
  BY <1>0, <1>1, <1>2 DEF TypeRunners
<1>4. OneRunner'
  BY <1>1 DEF OneRunner
<1>5. phase # "down"
  BY <1>0, <1>1 DEF DownIsClean
<1>6. MaxFaults \in Nat /\ faults' \in 0..MaxFaults /\ faults <= faults' /\ died' \subseteq Queue
  BY <1>0, <1>1 DEF TypeFlags, JobQueuesAssumption, Queue
<1> QED BY <1>1, <1>3, <1>4, <1>5, <1>6, WorkersOnly

LEMMA StoppedInv ==
  ASSUME JobQueuesAssumption, IInv, NEW r \in Runner, Stopped(r)
  PROVE  IInv'
<1>0. TypeRunners /\ TypeFlags /\ OneRunner /\ DownIsClean
  BY IInvParts
<1>1. /\ runner[r] = "stopping" /\ runner' = [runner EXCEPT ![r] = "unused"]
      /\ ended' = (IF pool = None THEN ended ELSE ended \cup {pool}) \ {r}
      /\ pool' = IF pool = r THEN None ELSE pool
      /\ UNCHANGED <<stores, enqueueing, flags, polling, current, jobs, histories>>
  BY DEF Stopped, Step
<1>2. /\ runner' \in [Runner -> RunnerState] /\ runner'[r] = "unused"
      /\ \A q \in Runner : q # r => runner'[q] = runner[q]
  BY <1>0, <1>1, RunnerSet DEF RunnerState
<1>3. TypeRunners'
  BY <1>0, <1>1, <1>2 DEF TypeRunners
<1>4. OneRunner'
  <2> SUFFICES ASSUME "graphile" \notin overtaken \cup died PROVE OneRunner'
    BY <1>1 DEF OneRunner, histories
  <2>1. /\ \A q \in Runner : q # r => runner[q] = "unused"
        /\ ended = {} /\ pool = r /\ \A q \in Runner : current # q
    BY <1>0, <1>1 DEF OneRunner
  <2>2. \A q \in Runner : runner'[q] = "unused"
    BY <1>2, <2>1
  <2>3. ~ Wanted
    BY <1>0, <1>1, <2>1 DEF OneRunner, Making
  <2>4. ~ Wanted' /\ \A q \in Runner : ~ Making(q)'
    BY <1>1, <2>2, <2>3 DEF Wanted, Making, flags
  <2> QED BY <1>1, <2>1, <2>2, <2>4 DEF OneRunner
<1>5. phase # "down"
  BY <1>0, <1>1 DEF DownIsClean
<1> QED BY <1>0, <1>1, <1>3, <1>4, <1>5, WorkersOnly DEF histories, TypeFlags, JobQueuesAssumption

LEMMA TakeInv ==
  ASSUME JobQueuesAssumption, IInv, NEW r \in Runner, NEW j \in Job, Take(r, j)
  PROVE  IInv'
<1>0. /\ TypeStores /\ TypeFlags /\ TypeChains /\ TypeRunners
      /\ DownIsClean /\ StoppingIsFault /\ RanBeforeDelete /\ OnlyChain /\ PollsS3
      /\ OneRunner /\ AcceptedIsKept /\ OnePlace
  BY IInvParts
<1>1. /\ runner[r] = "running" /\ j \in graphile
      /\ graphile' = graphile \ {j} /\ handed' = handed \cup {j} /\ PauseIfWorkerFull(chain)
      /\ UNCHANGED <<now, s3, enqueueing, phase, consuming, handle, ran, lost, died, faults>>
  BY DEF Take
<1>2. chain \in [Chain -> ChainState] /\ phase # "down"
  BY <1>0, <1>1 DEF TypeChains, DownIsClean
<1>3. /\ TypeChains' /\ TypeRunners' /\ OneRunner'
      /\ \A d \in Chain :
           chain'[d] = chain[d] \/ (paused' /\ chain[d].at = "armed" /\ chain'[d] = Free)
      /\ started' = started /\ paused' \in BOOLEAN /\ (paused => paused')
      /\ overtaken \subseteq overtaken' /\ overtaken' \subseteq Queue
  BY <1>0, <1>1, <1>2, PauseEffect
<1>4. TypeStores' /\ TypeFlags'
  BY <1>0, <1>1, <1>3 DEF TypeStores, TypeFlags, enqueueing
<1>5. DownIsClean' /\ StoppingIsFault'
  BY <1>0, <1>1, <1>2 DEF DownIsClean, StoppingIsFault
<1>6. OnlyChain'
  BY <1>0, <1>1, <1>3, FreeIsState, FewerChains
<1>7. PollsS3'
  BY <1>0, <1>1, <1>3, PollsQuiet
<1>8. /\ \A c \in Chain : chain[c].at = "deleting" \/ chain'[c].at = "deleting" => chain'[c] = chain[c]
      /\ \A c \in Chain : chain'[c].todo \subseteq chain[c].todo
  BY <1>3, FreeIsState
<1>9. RanBeforeDelete' /\ AcceptedIsKept'
  BY <1>0, <1>1, <1>8 DEF RanBeforeDelete, AcceptedIsKept, enqueueing
<1>10. OnePlace'
  <2> SUFFICES ASSUME faults = 0, "s3" \notin overtaken PROVE OnePlace'
    BY <1>1, <1>3 DEF OnePlace
  <2>1. /\ s3 \cap graphile' = {} /\ (s3 \cup graphile') \cap handed' = {}
        /\ s3 \cup graphile' \cup handed' \subseteq accepted
    BY <1>0, <1>1 DEF OnePlace
  <2>2. \A d \in Chain : chain'[d].todo \subseteq s3
    BY <1>0, <1>8 DEF OnePlace
  <2>3. ASSUME NEW k \in Job, ran[k] = 1
        PROVE  /\ k \in accepted \ (graphile' \cup handed')
               /\ k \in s3 => \E d \in Chain : chain'[d].at = "deleting" /\ k = Min(chain'[d].todo)
    <3>1. /\ k \in accepted \ (graphile \cup handed) /\ k # j
          /\ k \in s3 => \E d \in Chain : chain[d].at = "deleting" /\ k = Min(chain[d].todo)
      BY <1>0, <1>1, <2>3 DEF OnePlace
    <3>2. ASSUME k \in s3
          PROVE  \E d \in Chain : chain'[d].at = "deleting" /\ k = Min(chain'[d].todo)
      <4>1. PICK d \in Chain : chain[d].at = "deleting" /\ k = Min(chain[d].todo)
        BY <3>1, <3>2
      <4>2. chain'[d] = chain[d]
        BY <1>8, <4>1
      <4> QED BY <4>1, <4>2
    <3> QED BY <1>1, <3>1, <3>2
  <2> QED BY <1>0, <1>1, <2>1, <2>2, <2>3 DEF OnePlace, enqueueing
<1> QED BY <1>3, <1>4, <1>5, <1>6, <1>7, <1>9, <1>10, IInvPartsNext

-----------------------------------------------------------------------------
(* Jobs                                                                     *)

(* A step of the stores and jobs only. *)
LEMMA StoresOnly ==
  ASSUME IInv, TypeStores', RanBeforeDelete', AcceptedIsKept', OnePlace',
         faults' \in 0..MaxFaults, faults <= faults',
         UNCHANGED <<flags, polling, workers, overtaken, died>>
  PROVE  IInv'
<1>0. /\ TypeFlags /\ TypeChains /\ TypeRunners
      /\ DownIsClean /\ StoppingIsFault /\ OnlyChain /\ PollsS3 /\ OneRunner
  BY IInvParts
<1>1. TypeFlags' /\ TypeChains' /\ TypeRunners'
  BY <1>0 DEF TypeFlags, TypeChains, TypeRunners, flags, polling, workers
<1>2. StoppingIsFault'
  <2>1. faults \in Nat /\ faults' \in Nat
    BY <1>0 DEF TypeFlags
  <2> QED BY <1>0, <2>1 DEF StoppingIsFault, flags
<1>3. DownIsClean' /\ OnlyChain' /\ PollsS3'
  BY <1>0 DEF DownIsClean, OnlyChain, PollsS3, flags, polling, workers
<1>4. OneRunner'
  BY <1>0, RunnerQuiet DEF flags
<1> QED BY <1>1, <1>2, <1>3, <1>4, IInvPartsNext

LEMMA StoreEffect ==
  ASSUME NEW j \in Job, NEW q, Store(j, q)
  PROVE  \/ s3' = s3 \cup {j} /\ graphile' = graphile
         \/ graphile' = graphile \cup {j} /\ s3' = s3
BY DEF Store, Upload, AddJob

LEMMA EnqueueInv ==
  ASSUME IInv, NEW j \in Job, Enqueue(j)
  PROVE  IInv'
<1>0. TypeStores /\ TypeFlags /\ RanBeforeDelete /\ AcceptedIsKept /\ OnePlace
  BY IInvParts
<1>1. /\ j \notin accepted /\ accepted' = accepted \cup {j}
      /\ UNCHANGED <<now, tried, flags, polling, workers, jobs, histories>>
  BY DEF Enqueue
<1>2. \/ s3' = s3 \cup {j} /\ graphile' = graphile
      \/ graphile' = graphile \cup {j} /\ s3' = s3
  BY StoreEffect DEF Enqueue
<1>3. TypeStores' /\ RanBeforeDelete' /\ AcceptedIsKept'
  BY <1>0, <1>1, <1>2 DEF TypeStores, RanBeforeDelete, AcceptedIsKept, polling, jobs
<1>4. OnePlace'
  <2> SUFFICES ASSUME faults = 0, "s3" \notin overtaken PROVE OnePlace'
    BY <1>1 DEF OnePlace, histories
  <2>1. /\ s3' \cap graphile' = {} /\ (s3' \cup graphile') \cap handed = {}
        /\ s3' \cup graphile' \cup handed \subseteq accepted'
        /\ s3 \subseteq s3' /\ \A c \in Chain : chain[c].todo \subseteq s3'
    BY <1>0, <1>1, <1>2 DEF OnePlace
  <2>2. \A k \in Job : ran[k] = 1 =>
          /\ k \in accepted' \ (graphile' \cup handed)
          /\ k \in s3' => \E c \in Chain : chain[c].at = "deleting" /\ k = Min(chain[c].todo)
    BY <1>0, <1>1, <1>2 DEF OnePlace
  <2> QED BY <1>0, <1>1, <2>1, <2>2 DEF OnePlace, polling, jobs
<1> QED BY <1>0, <1>1, <1>3, <1>4, StoresOnly DEF histories, TypeFlags

LEMMA EnqueueFailsInv ==
  ASSUME JobQueuesAssumption, IInv, NEW j \in Job, EnqueueFails(j)
  PROVE  IInv'
<1>0. TypeStores /\ TypeFlags /\ RanBeforeDelete /\ AcceptedIsKept
  BY IInvParts
<1>1. PICK q \in NextQueue(j) :
        /\ tried' = [tried EXCEPT ![j] = @ \cup {q}]
        /\ Store(j, q) \/ UNCHANGED <<s3, graphile>>
  BY DEF EnqueueFails
<1>2. /\ UNCHANGED <<now, accepted, flags, polling, workers, jobs, overtaken, died>>
      /\ faults < MaxFaults /\ faults' = faults + 1
  BY DEF EnqueueFails, Fault
<1>3. /\ s3 \subseteq s3' /\ s3' \subseteq s3 \cup {j}
      /\ graphile \subseteq graphile' /\ graphile' \subseteq graphile \cup {j}
  BY <1>1, StoreEffect
<1>4. q \in Queue
  BY DEF NextQueue
<1>5. TypeStores' /\ RanBeforeDelete' /\ AcceptedIsKept'
  BY <1>0, <1>1, <1>2, <1>3, <1>4 DEF TypeStores, RanBeforeDelete, AcceptedIsKept, polling, jobs
<1>6. faults \in Nat /\ faults' \in 0..MaxFaults /\ faults <= faults' /\ faults' # 0
  BY <1>0, <1>2 DEF TypeFlags, JobQueuesAssumption
<1>7. OnePlace'
  BY <1>6 DEF OnePlace
<1> QED BY <1>2, <1>5, <1>6, <1>7, StoresOnly

LEMMA HandedDoneInv ==
  ASSUME IInv, NEW j \in Job, HandedDone(j)
  PROVE  IInv'
<1>0. TypeStores /\ TypeFlags /\ TypeChains /\ RanBeforeDelete /\ AcceptedIsKept /\ OnePlace
  BY IInvParts
<1>1. /\ j \in handed /\ handed' = handed \ {j} /\ Ran(j)
      /\ UNCHANGED <<stores, enqueueing, flags, polling, workers, lost, histories>>
  BY DEF HandedDone
<1>2. /\ ran' \in [Job -> 0..2]
      /\ ran'[j] = IF ran[j] < 2 THEN ran[j] + 1 ELSE 2
      /\ \A k \in Job : k # j => ran'[k] = ran[k]
  BY <1>0, <1>1, RanOnceMore
<1>3. ran[j] \in 0..2 /\ ran'[j] > 0
  BY <1>0, <1>2 DEF TypeStores
<1>4. TypeStores' /\ AcceptedIsKept'
  BY <1>0, <1>1, <1>2, <1>3 DEF TypeStores, AcceptedIsKept, stores, enqueueing
<1>5. RanBeforeDelete'
  <2> SUFFICES ASSUME NEW c \in Chain, chain[c].at = "deleting" PROVE ran'[Min(chain[c].todo)] > 0
    BY <1>1 DEF RanBeforeDelete, polling
  <2>1. ran[Min(chain[c].todo)] > 0
    BY <1>0 DEF RanBeforeDelete
  <2>2. CASE Min(chain[c].todo) \in Job
    BY <1>2, <1>3, <2>1, <2>2
  <2>3. Min(chain[c].todo) \in Job
    <3>1. chain[c].todo # {} /\ chain[c].todo \subseteq Job
      BY <1>0 DEF TypeChains, ChainState, ChainRecord, Busy
    <3> QED BY <3>1, JobMin, JobQueuesAssumption
  <2> QED BY <2>2, <2>3
<1>6. OnePlace'
  <2> SUFFICES ASSUME faults = 0, "s3" \notin overtaken PROVE OnePlace'
    BY <1>1 DEF OnePlace, histories
  <2>1. /\ j \notin s3 \cup graphile /\ j \in accepted /\ ran[j] # 1 /\ ran[j] <= 1
    BY <1>0, <1>1 DEF OnePlace
  <2>2. ran'[j] = 1
    BY <1>2, <1>3, <2>1
  <2>3. \A k \in Job : ran'[k] <= 1
    BY <1>0, <1>2, <2>2 DEF OnePlace
  <2>4. \A k \in Job : ran'[k] = 1 =>
          /\ k \in accepted \ (graphile \cup handed')
          /\ k \in s3 => \E c \in Chain : chain[c].at = "deleting" /\ k = Min(chain[c].todo)
    BY <1>0, <1>1, <1>2, <2>1 DEF OnePlace
  <2> QED BY <1>0, <1>1, <2>3, <2>4 DEF OnePlace, stores, enqueueing, polling
<1> QED BY <1>0, <1>1, <1>4, <1>5, <1>6, StoresOnly DEF histories, TypeFlags

LEMMA TickInv ==
  ASSUME IInv, Tick
  PROVE  IInv'
<1>0. TypeStores /\ TypeFlags /\ RanBeforeDelete /\ AcceptedIsKept /\ OnePlace
  BY IInvParts
<1>1. /\ now' = now + 1
      /\ UNCHANGED <<s3, graphile, enqueueing, flags, polling, workers, jobs, histories>>
  BY DEF Tick
<1>2. TypeStores'
  BY <1>0, <1>1 DEF TypeStores, enqueueing, jobs
<1>3. ChainsQuiet
  BY <1>1 DEF ChainsQuiet, polling
<1>4. RanBeforeDelete' /\ AcceptedIsKept' /\ OnePlace'
  BY <1>0, <1>1, <1>3, JobsQuiet DEF enqueueing, jobs, histories
<1> QED BY <1>0, <1>1, <1>2, <1>4, StoresOnly DEF histories, TypeFlags

-----------------------------------------------------------------------------
(* The server                                                               *)

LEMMA LaunchInv ==
  ASSUME JobQueuesAssumption, IInv, Launch
  PROVE  IInv'
<1>0. /\ TypeStores /\ TypeFlags /\ TypeChains /\ TypeRunners
      /\ DownIsClean /\ StoppingIsFault /\ RanBeforeDelete /\ OnlyChain /\ PollsS3
      /\ OneRunner /\ AcceptedIsKept /\ OnePlace
  BY IInvParts
<1>1. /\ phase = "down" /\ phase' = "up" /\ consuming' \subseteq Configured /\ died' \subseteq Configured
      /\ UNCHANGED <<stores, enqueueing, started, paused, polling, workers, jobs, overtaken, faults>>
  BY DEF Launch
<1>2. Configured \subseteq Queue
  BY DEF Configured, Queue, JobQueuesAssumption
<1>3. TypeStores' /\ TypeFlags' /\ TypeChains' /\ TypeRunners'
  BY <1>0, <1>1, <1>2 DEF TypeStores, TypeFlags, TypeChains, TypeRunners, stores, enqueueing, polling,
                          workers, jobs
<1>4. DownIsClean' /\ StoppingIsFault'
  BY <1>1 DEF DownIsClean, StoppingIsFault
<1>5. OnlyChain'
  BY <1>0, <1>1 DEF OnlyChain, polling
<1>6. /\ ~ started /\ (\A r \in Runner : runner[r] = "unused")
      /\ current = None /\ ended = {} /\ None \notin Runner
  BY <1>0, <1>1 DEF DownIsClean, JobQueuesAssumption
<1>7. PollsS3' /\ ~ Wanted'
  BY <1>1, <1>6 DEF PollsS3, Wanted
<1>8. OneRunner'
  <2>1. /\ \A r \in Runner : runner'[r] = "unused" /\ current' # r /\ ~ Making(r)'
        /\ ended' = {}
    BY <1>1, <1>6 DEF workers, Making
  <2> QED BY <1>7, <2>1 DEF OneRunner
<1>9. ChainsQuiet
  BY <1>1 DEF ChainsQuiet, polling
<1>10. RanBeforeDelete' /\ AcceptedIsKept' /\ OnePlace'
  BY <1>0, <1>1, <1>9, JobsQuiet DEF stores, enqueueing, jobs
<1> QED BY <1>3, <1>4, <1>5, <1>7, <1>8, <1>10, IInvPartsNext

LEMMA DownInv ==
  ASSUME JobQueuesAssumption, IInv, Down
  PROVE  IInv'
<1>0. /\ TypeStores /\ TypeFlags /\ StoppingIsFault /\ AcceptedIsKept
  BY IInvParts
<1>1. /\ phase # "down" /\ phase' = "down" /\ started' = FALSE /\ paused' = FALSE
      /\ chain' = [c \in Chain |-> Free] /\ handle' = None
      /\ runner' = [r \in Runner |-> "unused"]
      /\ current' = None /\ pool' = None /\ ended' = {}
      /\ lost' = lost \cup handed /\ handed' = {} /\ overtaken' = {}
      /\ UNCHANGED <<stores, enqueueing, consuming, ran, died>>
      /\ (phase = "up" /\ faults < MaxFaults /\ faults' = faults + 1) \/ (phase # "up" /\ faults' = faults)
  BY DEF Down, Fault
<1>2. faults' \in 0..MaxFaults /\ faults' # 0
  <2>1. faults \in 0..MaxFaults /\ MaxFaults \in Nat /\ phase \in {"down", "up", "stopping"}
    BY <1>0 DEF TypeFlags, JobQueuesAssumption
  <2> QED BY <1>0, <1>1, <2>1 DEF StoppingIsFault
<1>3. \A c \in Chain : chain'[c] = Free
  BY <1>1
<1>4. TypeStores' /\ TypeFlags'
  BY <1>0, <1>1, <1>2 DEF TypeStores, TypeFlags, stores, enqueueing
<1>5. TypeChains' /\ TypeRunners'
  BY <1>1, FreeIsState DEF TypeChains, TypeRunners, RunnerState
<1>6. DownIsClean' /\ StoppingIsFault' /\ RanBeforeDelete' /\ OnlyChain' /\ PollsS3'
  BY <1>1, <1>3, FreeIsState DEF DownIsClean, StoppingIsFault, RanBeforeDelete, OnlyChain, PollsS3
<1>7. OneRunner'
  <2>1. /\ \A r \in Runner : runner'[r] = "unused" /\ current' # r /\ ~ Making(r)'
        /\ ~ Wanted' /\ ended' = {}
    BY <1>1 DEF Making, Wanted, JobQueuesAssumption
  <2> QED BY <2>1 DEF OneRunner
<1>8. AcceptedIsKept'
  BY <1>0, <1>1 DEF AcceptedIsKept, stores, enqueueing
<1>9. OnePlace'
  BY <1>2 DEF OnePlace
<1> QED BY <1>4, <1>5, <1>6, <1>7, <1>8, <1>9, IInvPartsNext

-----------------------------------------------------------------------------
(* The invariant holds *)

LEMMA InitInv == Init => IInv
<1> SUFFICES ASSUME Init PROVE IInv
  OBVIOUS
<1>0. JobQueuesAssumption /\ Job \subseteq Nat /\ Job # {} /\ MaxFaults \in Nat /\ None \notin Chain \cup Runner
  BY JobQueuesAssumption DEF JobQueuesAssumption
<1>1. now \in Nat
  BY <1>0, MinIsThere DEF Init
<1>2. TypeStores /\ TypeFlags
  <2>1. TypeStores
    BY <1>1 DEF Init, TypeStores
  <2>2. phase \in {"down", "up", "stopping"} /\ consuming \subseteq Queue
    BY DEF Init
  <2>3. started \in BOOLEAN /\ paused \in BOOLEAN
    BY DEF Init
  <2>4. overtaken \subseteq Queue /\ died \subseteq Queue /\ faults \in 0..MaxFaults
    BY <1>0 DEF Init
  <2> QED BY <2>1, <2>2, <2>3, <2>4 DEF TypeFlags
<1>3. TypeChains /\ TypeRunners /\ \A c \in Chain : chain[c] = Free
  BY FreeIsState DEF Init, TypeChains, TypeRunners, RunnerState
<1>4. DownIsClean /\ StoppingIsFault /\ RanBeforeDelete /\ OnlyChain /\ PollsS3
  BY <1>3, FreeIsState
     DEF Init, DownIsClean, StoppingIsFault, RanBeforeDelete, OnlyChain, PollsS3
<1>5. OneRunner
  <2>1. /\ \A r \in Runner : runner[r] = "unused" /\ current # r /\ ~ Making(r)
        /\ ~ Wanted /\ ended = {}
    BY <1>0 DEF Init, Making, Wanted
  <2> QED BY <2>1 DEF OneRunner
<1>6. AcceptedIsKept /\ OnePlace
  BY <1>3, FreeIsState DEF Init, AcceptedIsKept, OnePlace
<1>7. TypeOK
  BY <1>2, <1>3, TypeParts
<1> QED BY <1>4, <1>5, <1>6, <1>7 DEF IInv

LEMMA Invariance == Spec => []IInv
<1>1. IInv /\ [Next]_vars => IInv'
  <2> SUFFICES ASSUME IInv, [Next]_vars PROVE IInv'
    OBVIOUS
  <2>1. ASSUME NEW c \in Chain,
               \/ Fire(c) \/ Listed(c) \/ Get(c) \/ GetNothing(c) \/ JobDone(c)
               \/ Deleted(c) \/ S3Fails(c)
        PROVE  IInv'
    BY <2>1, JobQueuesAssumption, FireInv, ListedInv, GetInv, ChainEndsInv, JobDoneInv, DeletedInv
  <2>2. ASSUME NEW r \in Runner,
               \/ PoolCreated(r) \/ RunnerCreated(r) \/ CreationFails(r) \/ Stopped(r)
               \/ \E j \in Job : Take(r, j)
        PROVE  IInv'
    BY <2>2, JobQueuesAssumption, PoolCreatedInv, RunnerCreatedInv, CreationFailsInv, StoppedInv, TakeInv
  <2>3. ASSUME NEW j \in Job, Enqueue(j) \/ EnqueueFails(j) \/ HandedDone(j)
        PROVE  IInv'
    BY <2>3, JobQueuesAssumption, EnqueueInv, EnqueueFailsInv, HandedDoneInv
  <2>4. CASE Tick \/ Launch \/ StartConsumer \/ ResumeConsumer \/ StopConsumer \/ Down
    BY <2>4, JobQueuesAssumption, TickInv, LaunchInv, SyncInv, DownInv
  <2>5. CASE UNCHANGED vars
    <3>1. /\ TypeStores /\ TypeFlags /\ RanBeforeDelete /\ AcceptedIsKept /\ OnePlace
          /\ UNCHANGED <<stores, enqueueing, flags, polling, workers, jobs, histories>>
      BY <2>5, IInvParts DEF vars
    <3>2. ChainsQuiet
      BY <3>1 DEF ChainsQuiet, polling
    <3>3. RanBeforeDelete' /\ AcceptedIsKept' /\ OnePlace' /\ TypeStores'
      BY <3>1, <3>2, JobsQuiet DEF stores, enqueueing, jobs, histories, TypeStores
    <3> QED BY <3>1, <3>3, StoresOnly DEF histories, TypeFlags
  <2> QED BY <2>1, <2>2, <2>3, <2>4, <2>5 DEF Next
<1> QED BY <1>1, InitInv, PTL DEF Spec

(* No accepted job is lost, but a Graphile job with the worker threads: an    *)
(* object of S3 is deleted after its job has run.                           *)
THEOREM AcceptedIsKeptHolds == Spec => []AcceptedIsKept
<1>1. IInv => AcceptedIsKept
  BY DEF IInv
<1> QED BY <1>1, Invariance, PTL

(* A job runs twice only after an overlap of syncState or a fault. *)
THEOREM RunsOnceHolds == Spec => []RunsOnce
<1>1. IInv => RunsOnce
  <2> SUFFICES ASSUME IInv, NEW j \in Job, ran[j] > 1, "s3" \notin overtaken, ~(faults > 0)
               PROVE  FALSE
    BY DEF RunsOnce
  <2>1. faults = 0
    BY IInvParts DEF TypeFlags
  <2>2. ran[j] <= 1 /\ ran[j] \in 0..2
    BY <2>1, IInvParts DEF OnePlace, TypeStores
  <2> QED BY <2>2
<1> QED BY <1>1, Invariance, PTL

(* Both consumers go on, alone, while they are started and not paused. *)
THEOREM ConsumersOKHolds == Spec => []ConsumersOK
<1>1. ASSUME IInv PROVE OneChain
  <2> SUFFICES ASSUME "s3" \notin overtaken
               PROVE  Cardinality({c \in Chain : chain[c].at # "free"}) <= 1
    BY DEF OneChain
  <2> DEFINE live == {c \in Chain : chain[c].at # "free"}
  <2>1. \A c, d \in live : c = d
    BY <1>1 DEF IInv, OnlyChain
  <2> HIDE DEF live
  <2>2. Cardinality(live) <= 1
    <3>1. CASE live = {}
      BY <3>1, FS_EmptySet
    <3>2. CASE live # {}
      <4>1. PICK c : live = {c}
        BY <2>1, <3>2
      <4>2. Cardinality({c}) = 1
        BY FS_Singleton
      <4> QED BY <4>1, <4>2
    <3> QED BY <3>1, <3>2
  <2> QED BY <2>2 DEF live
<1>2. ASSUME IInv PROVE RunnerFollowsFlags
  <2> DEFINE live == {r \in Runner : runner[r] = "running"}
  <2> SUFFICES ASSUME "graphile" \notin overtaken \cup died,
                      \A r \in Runner : runner[r] \in {"unused", "running", "stopping"}
               PROVE  /\ ended \cap live = {}
                      /\ live = IF current = None THEN {} ELSE {current}
                      /\ (started /\ ~paused /\ "graphile" \in consuming) <=> live # {}
    BY DEF RunnerFollowsFlags
  <2>1. /\ Wanted <=> \E r \in Runner : Making(r) \/ runner[r] = "running"
        /\ \A r \in Runner : runner[r] = "running" <=> current = r
        /\ ended = {} /\ current \in Runner \cup {None} /\ None \notin Runner
    BY <1>2, IInvParts, JobQueuesAssumption DEF OneRunner, TypeRunners, JobQueuesAssumption
  <2>2. \A r \in Runner : ~ Making(r)
    BY DEF Making
  <2>3. Wanted <=> live # {}
    BY <2>1, <2>2
  <2>4. live = IF current = None THEN {} ELSE {current}
    BY <2>1
  <2> QED BY <2>1, <2>3, <2>4 DEF Wanted
<1>3. IInv => ConsumersOK
  BY <1>1, <1>2 DEF IInv, ConsumersOK
<1> QED BY <1>3, Invariance, PTL
=============================================================================
