--------------------------- MODULE PersonIdentity ---------------------------
(***************************************************************************)
(* How events decide which person a distinct ID belongs to: EventsProcessor *)
(* (src/src/worker/ingestion/process-event.ts) running as many concurrent   *)
(* tasks, in several worker threads, against one Postgres database.         *)
(*                                                                          *)
(* A task handles one event.  $identify and $create_alias events first run  *)
(* alias(), which attaches a distinct ID, creates a person or merges two    *)
(* persons; then every event runs createPersonIfDistinctIdIsNew().  Each    *)
(* await of a query is a step of its own, so tasks interleave between       *)
(* queries.  What Postgres does (row locks, unique and foreign-key          *)
(* constraints, deadlock detection, read-committed visibility) is external. *)
(*                                                                          *)
(* Abstracted: the team (all events are of one team), person properties and *)
(* created_at (overwritten from the same snapshots as is_identified),       *)
(* cohort rows, and the Kafka person topic.                                 *)
(***************************************************************************)
EXTENDS Integers, FiniteSets

CONSTANTS
  Task,        \* concurrent runs of processEvent
  Thread,      \* worker threads: a PersonManager and a Postgres pool each
  ThreadOf,    \* the thread a task runs in
  DistinctId,  \* distinct IDs sent by clients
  PersonId,    \* primary keys of posthog_person, a superset of those used
  NoPerson,    \* "no row"
  NoId,        \* the distinct ID of a task that handles no event
  IllegalId,   \* the distinct IDs isDistinctIdIllegal() rejects
  Calls,       \* the events that may arrive
  Databases,   \* the tables persons and distinct IDs may start with
  CacheForgets, \* whether personSeen is small or old enough to drop entries
  PoolSize,    \* clients in a thread's Postgres pool
  MAX_FAILED_PERSON_MERGE_ATTEMPTS,
  MaxCalls,    \* bound: events handled in a behaviour
  MaxFaults    \* bound: lost connections and killed threads in a behaviour

Kind == {"capture", "$identify", "$create_alias"}

ASSUME ConstantsAssumption ==
  /\ ThreadOf \in [Task -> Thread]
  /\ NoPerson \notin PersonId
  /\ NoId \notin DistinctId
  /\ IllegalId \subseteq DistinctId
  /\ Calls \subseteq [kind : Kind, prev : DistinctId, id : DistinctId]
  /\ Databases \subseteq [DistinctId -> PersonId \cup {NoPerson}]
  /\ \A f \in Databases : \A d, e \in DistinctId :
       f[d] = f[e] /\ f[d] # NoPerson => d = e
  /\ CacheForgets \in BOOLEAN
  /\ PoolSize \in Nat \ {0}
  /\ MAX_FAILED_PERSON_MERGE_ATTEMPTS \in Nat \ {0}
  /\ MaxCalls \in Nat
  /\ MaxFaults \in Nat

VARIABLES
  live,        \* posthog_person: the committed rows
  used,        \* primary keys handed out so far
  identified,  \* the committed rows with is_identified
  pdi,         \* posthog_persondistinctid: the person of each distinct ID
  seen,        \* personSeen of each thread's PersonManager
  clients,     \* pool clients in use, for each thread
  task,        \* the local state of each task
  mirror,      \* the person of each distinct ID according to Kafka
  issued,      \* history: the <<previous, distinct ID>> pairs aliased so far
  abandoned,   \* history: persons emptied by a merge that did not commit
  calls,       \* events started so far
  faults       \* faults so far

db == <<live, used, identified, pdi>>
history == <<issued, abandoned>>
bounds == <<calls, faults>>
vars == <<live, used, identified, pdi, seen, clients, task, mirror, issued,
          abandoned, calls, faults>>

PC == {"idle", "fetchOld", "fetchNew", "add", "create", "begin", "update",
       "move", "delete", "commit", "publish", "identifyFetch",
       "identifyUpdate", "identifyWait", "isNew", "count", "createNew",
       "publishNew"}

Idle == [pc |-> "idle", kind |-> "capture", prev |-> NoId, id |-> NoId,
         old |-> NoPerson, oldIdentified |-> FALSE,
         new |-> NoPerson, newIdentified |-> FALSE,
         retry |-> FALSE, attempts |-> 0, depth |-> 0, held |-> 0,
         out |-> {}, outPerson |-> NoPerson]

TaskState ==
  [pc : PC, kind : Kind, prev : DistinctId \cup {NoId},
   id : DistinctId \cup {NoId},
   old : PersonId \cup {NoPerson}, oldIdentified : BOOLEAN,
   new : PersonId \cup {NoPerson}, newIdentified : BOOLEAN,
   retry : BOOLEAN,     \* retryIfFailed of the innermost alias()
   attempts : Nat,      \* failed merges so far: totalMergeAttempts
   depth : Nat,         \* the callers of the innermost alias() still waiting
   held : Nat,          \* pool clients the task holds
   out : SUBSET DistinctId,           \* rows to announce on Kafka, and
   outPerson : PersonId \cup {NoPerson}]  \* the person they now have

(* Types of all variables. *)
TypeOK ==
  /\ live \subseteq PersonId
  /\ used \subseteq PersonId
  /\ identified \subseteq PersonId
  /\ pdi \in [DistinctId -> PersonId \cup {NoPerson}]
  /\ seen \in [Thread -> SUBSET DistinctId]
  /\ clients \in [Thread -> Int]
  /\ task \in [Task -> TaskState]
  /\ mirror \in [DistinctId -> PersonId \cup {NoPerson}]
  /\ issued \subseteq DistinctId \X DistinctId
  /\ abandoned \subseteq PersonId
  /\ calls \in Nat
  /\ faults \in Nat

(* The database may already hold persons, each with one distinct ID. *)
Init ==
  /\ pdi \in Databases
  /\ live = {pdi[d] : d \in DistinctId} \ {NoPerson}
  /\ used = live
  /\ identified \in SUBSET live
  /\ seen = [h \in Thread |-> {}]
  /\ clients = [h \in Thread |-> 0]
  /\ task = [t \in Task |-> Idle]
  /\ mirror = pdi
  /\ issued = {}
  /\ abandoned = {}
  /\ calls = 0
  /\ faults = 0

-----------------------------------------------------------------------------
(* Postgres: rows, locks and the pool                                       *)

(* Mutant: moveDistinctIds without person_id in its WHERE. *)
IdsOfTeam(p) == {d \in DistinctId : pdi[d] # NoPerson}

IdsOf(p) == {d \in DistinctId : pdi[d] = p}

(* fetchPerson(): the committed person of a distinct ID, or none. *)
PersonOf(d) == pdi[d]

(* t's open transaction has updated row p, and keeps it locked. *)
Updated(t, p) ==
  /\ task[t].pc \in {"move", "delete", "commit"}
  /\ task[t].new = p
  /\ p \in live

(* t's open transaction has deleted row p. *)
Deleted(t, p) ==
  /\ task[t].pc = "commit"
  /\ task[t].old = p
  /\ p \in live

(* An UPDATE or DELETE of row p by t waits for the transactions of others. *)
RowLocked(t, p) == \E u \in Task \ {t} : Updated(u, p) \/ Deleted(u, p)

(* A reference to row p waits for a transaction that has deleted it. *)
DeletePending(t, p) == \E u \in Task \ {t} : Deleted(u, p)

FreeClient(t) == clients[ThreadOf[t]] < PoolSize

(* The transactions that wait for each other's row locks. *)
WaitsFor(t, u) ==
  /\ t # u
  /\ task[t].pc = "delete"
  /\ Updated(u, task[t].old) \/ Deleted(u, task[t].old)

Deadlocked(t) ==
  \E S \in SUBSET Task :
    /\ t \in S
    /\ \A s \in S : \E u \in S : WaitsFor(s, u)
    /\ \A s \in S : \E u \in S : WaitsFor(u, s)

-----------------------------------------------------------------------------
(* Control of a task                                                        *)

At(t, where) == task[t].pc = where

(* Mutant: postgresTransaction without its finally. *)
ContinueUnreleased(t, r) ==
  /\ task' = [task EXCEPT ![t] = r]
  /\ clients' = [clients EXCEPT
                   ![ThreadOf[t]] = IF r.held > task[t].held
                                    THEN (@ + r.held) - task[t].held ELSE @]

(* t continues with local state r; clients are taken from the pool or given *)
(* back as r.held says.                                                     *)
Continue(t, r) ==
  /\ task' = [task EXCEPT ![t] = r]
  /\ clients' = [clients EXCEPT
                   ![ThreadOf[t]] = (@ + r.held) - task[t].held]

(* handleIdentifyOrAlias() is over, normally or not: processEvent catches   *)
(* what it throws.  Every transaction still open is rolled back.            *)
Handled(r) == [Idle EXCEPT !.pc = "isNew", !.kind = r.kind, !.id = r.id]

Throw(t) == Continue(t, Handled(task[t]))

(* r with nothing fetched and nothing to announce. *)
Cleared(r) == [r EXCEPT !.old = NoPerson, !.oldIdentified = FALSE,
                        !.new = NoPerson, !.newIdentified = FALSE,
                        !.out = {}, !.outPerson = NoPerson]

(* The last statement of alias(): setIsIdentified, for $identify only; then *)
(* control returns to the caller.                                           *)
AfterMerge(r) ==
  IF r.kind = "$identify" THEN [Cleared(r) EXCEPT !.pc = "identifyFetch"]
                          ELSE Handled(r)

(* Mutant: every caller gives a client back, also one without a transaction. *)
AliasReturnReleasing(r) ==
  IF r.depth = 0
  THEN Handled(r)
  ELSE [Cleared(r) EXCEPT !.pc = "identifyFetch", !.depth = @ - 1,
                          !.held = @ - 1]

(* alias() returns.  Its caller, if any, is another alias(), which in turn  *)
(* runs setIsIdentified; a caller in mergePeople first ends its failed      *)
(* transaction and gives its client back.                                   *)
AliasReturn(r) ==
  IF r.depth = 0
  THEN Handled(r)
  ELSE [Cleared(r) EXCEPT !.pc = "identifyFetch", !.depth = @ - 1,
                          !.held = IF @ = 0 THEN 0 ELSE @ - 1]

(* A call of alias() from alias(), with the same distinct IDs and without   *)
(* another retry.                                                           *)
AliasAgain(r, failedAttempts) ==
  [Cleared(r) EXCEPT !.pc = "fetchOld", !.retry = FALSE, !.depth = @ + 1,
                     !.attempts = failedAttempts]

(* Merges of t's innermost transaction that emptied a person for nothing. *)
Abandon(ts) ==
  abandoned' = abandoned \cup
    {task[t].old : t \in {u \in ts : task[u].pc \in {"delete", "commit"}}}

(* The catch of mergePeople, for a DatabaseError: give up or alias again    *)
(* inside the transaction, which Postgres has already aborted.              *)
MergeFailed(t) ==
  LET failedAttempts == task[t].attempts + 1
  IN  /\ Abandon({t})
      /\ IF failedAttempts = MAX_FAILED_PERSON_MERGE_ATTEMPTS
         THEN Throw(t)
         ELSE Continue(t, AliasAgain(task[t], failedAttempts))

-----------------------------------------------------------------------------
(* processEvent() and alias()                                               *)

(* processEvent: an event arrives.  handleIdentifyOrAlias does nothing for  *)
(* an illegal distinct ID, and alias() nothing for one aliased to itself.   *)
StartEvent(t, c) ==
  /\ At(t, "idle")
  /\ calls < MaxCalls
  /\ calls' = calls + 1
  /\ LET aliases == c.kind # "capture" /\ c.id \notin IllegalId /\ c.prev # c.id
     IN /\ issued' = IF aliases THEN issued \cup {<<c.prev, c.id>>} ELSE issued
        /\ Continue(t, IF aliases
                       THEN [Idle EXCEPT !.pc = "fetchOld", !.kind = c.kind,
                                         !.prev = c.prev, !.id = c.id,
                                         !.retry = TRUE]
                       ELSE [Idle EXCEPT !.pc = "isNew", !.kind = c.kind,
                                         !.id = c.id])
  /\ UNCHANGED <<db, seen, mirror, abandoned, faults>>

(* alias: oldPerson = await fetchPerson(previousDistinctId). *)
FetchOld(t) ==
  /\ At(t, "fetchOld")
  /\ FreeClient(t)
  /\ LET p == PersonOf(task[t].prev)
     IN  Continue(t, [task[t] EXCEPT !.pc = "fetchNew", !.old = p,
                                     !.oldIdentified = p \in identified])
  /\ UNCHANGED <<db, seen, mirror, history, bounds>>

(* The branch alias() takes for the persons o and n it fetched. *)
Branch(t, o, n) ==
  CASE o # NoPerson /\ n = NoPerson -> "add"
    [] o = NoPerson /\ n # NoPerson -> "add"
    [] o = NoPerson /\ n = NoPerson -> "create"
    [] o # NoPerson /\ n # NoPerson /\ o = n -> "same"
    [] o # NoPerson /\ n # NoPerson /\ o # n ->
         IF task[t].kind = "$identify" /\ task[t].oldIdentified
         THEN "refuse" ELSE "begin"

(* alias: newPerson = await fetchPerson(distinctId), and the branch taken. *)
FetchNew(t) ==
  /\ At(t, "fetchNew")
  /\ FreeClient(t)
  /\ LET p == PersonOf(task[t].id)
         b == Branch(t, task[t].old, p)
     IN  Continue(t, IF b \in {"same", "refuse"}
                     THEN AfterMerge(task[t])
                     ELSE [task[t] EXCEPT !.pc = b, !.new = p,
                                          !.newIdentified = p \in identified])
  /\ UNCHANGED <<db, seen, mirror, history, bounds>>

(* The first branches: the insert failed, alias() is run once more. *)
InsertFailed(t) ==
  Continue(t, IF task[t].retry THEN AliasAgain(task[t], 0)
                               ELSE AfterMerge(task[t]))

(* alias: addDistinctId gives the unclaimed one of the two IDs to the       *)
(* person of the other, unless the ID is taken or the person gone.          *)
AddDistinctId(t) ==
  LET p == IF task[t].old # NoPerson THEN task[t].old ELSE task[t].new
      d == IF task[t].old # NoPerson THEN task[t].id ELSE task[t].prev
  IN  /\ At(t, "add")
      /\ FreeClient(t)
      /\ ~ DeletePending(t, p)
      /\ \/ /\ pdi[d] = NoPerson
            /\ p \in live
            /\ pdi' = [pdi EXCEPT ![d] = p]
            /\ Continue(t, [task[t] EXCEPT !.pc = "publish", !.out = {d},
                                           !.outPerson = p])
         \/ /\ pdi[d] # NoPerson \/ p \notin live
            /\ InsertFailed(t)
            /\ UNCHANGED pdi
      /\ UNCHANGED <<live, used, identified, seen, mirror, history, bounds>>

(* Mutant: createPerson without a transaction, IDs inserted where they can. *)
InsertPersonPieceByPiece(p, ids) ==
  /\ p \in PersonId \ used
  /\ live' = live \cup {p}
  /\ used' = used \cup {p}
  /\ pdi' = [d \in DistinctId |-> IF d \in ids /\ pdi[d] = NoPerson THEN p ELSE pdi[d]]

(* db.createPerson: a person and its distinct IDs in one transaction, which *)
(* fails if one of the IDs is taken.                                        *)
InsertPerson(p, ids) ==
  /\ p \in PersonId \ used
  /\ \A d \in ids : pdi[d] = NoPerson
  /\ live' = live \cup {p}
  /\ used' = used \cup {p}
  /\ pdi' = [d \in DistinctId |-> IF d \in ids THEN p ELSE pdi[d]]

(* alias: createPerson with both distinct IDs. *)
CreatePerson(t) ==
  LET ids == {task[t].id, task[t].prev}
  IN  /\ At(t, "create")
      /\ FreeClient(t)
      /\ \/ \E p \in PersonId :
              /\ InsertPerson(p, ids)
              /\ identified' = IF task[t].kind = "$identify"
                               THEN identified \cup {p} ELSE identified
              /\ Continue(t, [task[t] EXCEPT !.pc = "publish", !.out = ids,
                                             !.outPerson = p])
         \/ /\ \E d \in ids : pdi[d] # NoPerson
            /\ InsertFailed(t)
            /\ UNCHANGED db
      /\ UNCHANGED <<seen, mirror, history, bounds>>

(* Mutant: only the event's own distinct ID is announced. *)
AnnounceOne(t) ==
  mirror' = [d \in DistinctId |-> IF d \in task[t].out \cap {task[t].id}
                                  THEN task[t].outPerson ELSE mirror[d]]

(* queueMessage for the rows written, after the transaction: the Kafka      *)
(* topic now says t.outPerson for them.                                     *)
Announce(t) ==
  mirror' = [d \in DistinctId |-> IF d \in task[t].out THEN task[t].outPerson
                                                       ELSE mirror[d]]

Publish(t) ==
  /\ At(t, "publish")
  /\ Announce(t)
  /\ Continue(t, AfterMerge(task[t]))
  /\ UNCHANGED <<db, seen, history, bounds>>

(* setIsIdentified: fetchPerson; no person is an error, an identified one   *)
(* needs nothing.                                                           *)
IdentifyFetch(t) ==
  /\ At(t, "identifyFetch")
  /\ FreeClient(t)
  /\ LET p == PersonOf(task[t].id)
     IN  Continue(t, CASE p = NoPerson -> Handled(task[t])
                       [] p \in identified -> AliasReturn(task[t])
                       [] p # NoPerson /\ p \notin identified ->
                            [task[t] EXCEPT !.pc = "identifyUpdate", !.new = p])
  /\ UNCHANGED <<db, seen, mirror, history, bounds>>

(* setIsIdentified: the UPDATE takes a client and, while the row is locked, *)
(* keeps it.                                                                *)
IdentifyWait(t) ==
  /\ At(t, "identifyUpdate")
  /\ FreeClient(t)
  /\ RowLocked(t, task[t].new)
  /\ Continue(t, [task[t] EXCEPT !.pc = "identifyWait", !.held = @ + 1])
  /\ UNCHANGED <<db, seen, mirror, history, bounds>>

(* setIsIdentified: UPDATE ... SET is_identified = true WHERE id = ... *)
IdentifyUpdate(t) ==
  /\ \/ At(t, "identifyUpdate") /\ FreeClient(t)
     \/ At(t, "identifyWait")
  /\ ~ RowLocked(t, task[t].new)
  /\ identified' = identified \cup ({task[t].new} \cap live)
  /\ Continue(t, AliasReturn(IF At(t, "identifyWait")
                             THEN [task[t] EXCEPT !.held = @ - 1]
                             ELSE task[t]))
  /\ UNCHANGED <<live, used, pdi, seen, mirror, history, bounds>>

-----------------------------------------------------------------------------
(* mergePeople()                                                            *)

(* postgresTransaction: a client of the pool, BEGIN. *)
Begin(t) ==
  /\ At(t, "begin")
  /\ FreeClient(t)
  /\ Continue(t, [task[t] EXCEPT !.pc = "update", !.held = @ + 1])
  /\ UNCHANGED <<db, seen, mirror, history, bounds>>

(* updatePerson(mergeInto), then the UPDATE of cohortpeople, which violates *)
(* a foreign key if there are rows to move and mergeInto is gone.           *)
UpdatePerson(t) ==
  /\ At(t, "update")
  /\ ~ RowLocked(t, task[t].new)
  /\ \/ /\ Continue(t, [task[t] EXCEPT !.pc = "move"])
        /\ UNCHANGED abandoned
     \/ /\ task[t].new \notin live
        /\ MergeFailed(t)
  /\ UNCHANGED <<db, seen, mirror, issued, bounds>>

(* moveDistinctIds, through the pool and not through the transaction's      *)
(* client: it commits at once.  RaceConditionError if otherPerson has no    *)
(* distinct IDs or mergeInto is gone.                                       *)
MoveDistinctIds(t) ==
  LET source == task[t].old
      target == task[t].new
      ids == IdsOf(source)
  IN  /\ At(t, "move")
      /\ FreeClient(t)
      /\ \/ /\ ids # {} /\ target \in live
            /\ pdi' = [d \in DistinctId |-> IF d \in ids THEN target
                                                         ELSE pdi[d]]
            /\ Continue(t, [task[t] EXCEPT !.pc = "delete", !.out = ids,
                                           !.outPerson = target])
         \/ /\ ids = {} \/ target \notin live
            /\ Throw(t)
            /\ UNCHANGED pdi
      /\ UNCHANGED <<live, used, identified, seen, mirror, history, bounds>>

(* deletePerson(otherPerson): fails while a distinct ID refers to the row,  *)
(* or as the victim of a deadlock.                                          *)
DeletePerson(t) ==
  /\ At(t, "delete")
  /\ \/ /\ ~ RowLocked(t, task[t].old)
        /\ IdsOf(task[t].old) = {} \/ task[t].old \notin live
        /\ Continue(t, [task[t] EXCEPT !.pc = "commit"])
        /\ UNCHANGED abandoned
     \/ /\ ~ RowLocked(t, task[t].old)
        /\ IdsOf(task[t].old) # {} /\ task[t].old \in live
        /\ MergeFailed(t)
     \/ /\ Deadlocked(t)
        /\ MergeFailed(t)
  /\ UNCHANGED <<db, seen, mirror, issued, bounds>>

(* Mutant: is_identified of mergeInto only, not of either person. *)
CommitMergeOneSided(t) ==
  /\ live' = live \ {task[t].old}
  /\ identified' = LET kept == identified \ {task[t].old, task[t].new}
                   IN  IF task[t].newIdentified /\ task[t].new \in live
                       THEN kept \cup {task[t].new} ELSE kept

(* What COMMIT makes visible: mergeInto with the is_identified computed     *)
(* from what alias() fetched, and otherPerson gone.                         *)
CommitMerge(t) ==
  LET becomes == task[t].newIdentified \/ task[t].oldIdentified
      kept == identified \ {task[t].old, task[t].new}
  IN  /\ live' = live \ {task[t].old}
      /\ identified' = IF becomes /\ task[t].new \in live
                       THEN kept \cup {task[t].new} ELSE kept

Commit(t) ==
  /\ At(t, "commit")
  /\ CommitMerge(t)
  /\ Continue(t, [task[t] EXCEPT !.pc = "publish", !.held = @ - 1,
                                 !.old = NoPerson, !.oldIdentified = FALSE,
                                 !.new = NoPerson, !.newIdentified = FALSE])
  /\ UNCHANGED <<used, pdi, seen, mirror, history, bounds>>

-----------------------------------------------------------------------------
(* createPersonIfDistinctIdIsNew()                                          *)

Done(t) == Continue(t, Idle)

(* isNewPerson: a distinct ID this thread has seen is not new; otherwise it *)
(* is marked as seen before the database is asked.                          *)
IsNewPerson(t) ==
  /\ At(t, "isNew")
  /\ LET h == ThreadOf[t]
         d == task[t].id
     IN  IF d \in seen[h]
         THEN Done(t) /\ UNCHANGED seen
         ELSE /\ seen' = [seen EXCEPT ![h] = @ \cup {d}]
              /\ Continue(t, [task[t] EXCEPT !.pc = "count"])
  /\ UNCHANGED <<db, mirror, history, bounds>>

(* Mutant: the count tested the wrong way round. *)
CountDistinctIdInverted(t) ==
  /\ At(t, "count")
  /\ FreeClient(t)
  /\ IF PersonOf(task[t].id) # NoPerson
     THEN Continue(t, [task[t] EXCEPT !.pc = "createNew"])
     ELSE Done(t)
  /\ UNCHANGED <<db, seen, mirror, history, bounds>>

(* isNewPerson: SELECT COUNT( * ) of the distinct ID. *)
CountDistinctId(t) ==
  /\ At(t, "count")
  /\ FreeClient(t)
  /\ IF PersonOf(task[t].id) = NoPerson
     THEN Continue(t, [task[t] EXCEPT !.pc = "createNew"])
     ELSE Done(t)
  /\ UNCHANGED <<db, seen, mirror, history, bounds>>

(* createPerson with the event's distinct ID; failing is no error. *)
CreatePersonIfNew(t) ==
  LET ids == {task[t].id}
  IN  /\ At(t, "createNew")
      /\ FreeClient(t)
      /\ \/ \E p \in PersonId :
              /\ InsertPerson(p, ids)
              /\ Continue(t, [task[t] EXCEPT !.pc = "publishNew", !.out = ids,
                                             !.outPerson = p])
         \/ /\ \E d \in ids : pdi[d] # NoPerson
            /\ Done(t)
            /\ UNCHANGED <<live, used, pdi>>
      /\ UNCHANGED <<identified, seen, mirror, history, bounds>>

PublishNew(t) ==
  /\ At(t, "publishNew")
  /\ Announce(t)
  /\ Done(t)
  /\ UNCHANGED <<db, seen, history, bounds>>

(* The LRU of personSeen drops an entry: it is full, or an hour old. *)
ForgetSeen(h, d) ==
  /\ CacheForgets
  /\ d \in seen[h]
  /\ seen' = [seen EXCEPT ![h] = @ \ {d}]
  /\ UNCHANGED <<db, clients, task, mirror, history, bounds>>

-----------------------------------------------------------------------------
(* Failures                                                                 *)

(* The connection of t's statement is lost.  An insert of alias() is tried  *)
(* again, one of createPersonIfDistinctIdIsNew is forgotten; elsewhere the  *)
(* error, which is no DatabaseError, ends alias() or the whole event.       *)
LoseConnection(t) ==
  /\ faults < MaxFaults
  /\ faults' = faults + 1
  /\ \/ /\ task[t].pc \in {"add", "create"}
        /\ InsertFailed(t)
     \/ /\ task[t].pc \in {"count", "createNew"}
        /\ Done(t)
     \/ /\ task[t].pc \in {"fetchOld", "fetchNew", "begin", "update", "move",
                        "delete", "commit", "identifyFetch",
                        "identifyUpdate", "identifyWait"}
        /\ Throw(t)
  /\ Abandon({t})
  /\ UNCHANGED <<db, seen, mirror, issued, calls>>

(* The connection is lost after COMMIT took effect: nothing is announced. *)
LoseCommitReply(t) ==
  /\ At(t, "commit")
  /\ faults < MaxFaults
  /\ faults' = faults + 1
  /\ CommitMerge(t)
  /\ Throw(t)
  /\ UNCHANGED <<used, pdi, seen, mirror, history, calls>>

(* A worker thread dies with its tasks; Postgres rolls their transactions   *)
(* back and piscina starts a new thread.                                    *)
KillThread(h) ==
  LET lost == {t \in Task : ThreadOf[t] = h}
  IN  /\ faults < MaxFaults
      /\ \E t \in lost : ~ At(t, "idle")
      /\ faults' = faults + 1
      /\ task' = [t \in Task |-> IF t \in lost THEN Idle ELSE task[t]]
      /\ clients' = [clients EXCEPT ![h] = 0]
      /\ seen' = [seen EXCEPT ![h] = {}]
      /\ Abandon(lost)
      /\ UNCHANGED <<db, mirror, issued, calls>>

(* All the events of this behaviour are handled. *)
Quiescent ==
  /\ calls = MaxCalls
  /\ \A t \in Task : At(t, "idle")
  /\ UNCHANGED vars

-----------------------------------------------------------------------------
(* The step a task is at. *)
Step(t) ==
  \/ FetchOld(t) \/ FetchNew(t) \/ AddDistinctId(t) \/ CreatePerson(t)
  \/ Begin(t) \/ UpdatePerson(t) \/ MoveDistinctIds(t) \/ DeletePerson(t)
  \/ Commit(t) \/ Publish(t)
  \/ IdentifyFetch(t) \/ IdentifyWait(t) \/ IdentifyUpdate(t)
  \/ IsNewPerson(t) \/ CountDistinctId(t) \/ CreatePersonIfNew(t)
  \/ PublishNew(t)

Next ==
  \/ \E t \in Task, c \in Calls : StartEvent(t, c)
  \/ \E t \in Task : Step(t) \/ LoseConnection(t) \/ LoseCommitReply(t)
  \/ \E h \in Thread, d \in DistinctId : ForgetSeen(h, d)
  \/ \E h \in Thread : KillThread(h)
  \/ Quiescent

Spec == Init /\ [][Next]_vars

(* A runnable task runs, and Postgres answers. *)
FairSpec == Spec /\ \A t \in Task : WF_vars(Step(t))

-----------------------------------------------------------------------------
(* Properties                                                               *)

(* S is a set of distinct IDs no alias issued so far crosses. *)
Unlinked(S) == \A c \in issued : c[1] \in S <=> c[2] \in S

(* Two distinct IDs share a person only if a chain of $identify and         *)
(* $create_alias events connects them: no interleaving of stale fetches,    *)
(* retries, moves outside the transaction and crashes merges strangers.     *)
NoSpuriousMerge ==
  \A S \in SUBSET DistinctId : Unlinked(S) =>
    \A d, e \in DistinctId :
      pdi[d] = pdi[e] /\ pdi[d] # NoPerson => (d \in S <=> e \in S)

(* Distinct ID d speaks for person p: its row says so, or a task fetched p  *)
(* by it and still goes by that, however stale.                             *)
Claim(p, d) ==
  \/ pdi[d] = p
  \/ \E t \in Task : \/ task[t].old = p /\ task[t].prev = d
                     \/ task[t].new = p /\ task[t].id = d

(* The inductive strengthening of NoSpuriousMerge: all that speaks for a    *)
(* person is connected, and what tasks are about to connect was issued.     *)
ClaimsAgree ==
  \A S \in SUBSET DistinctId : Unlinked(S) =>
    \A p \in PersonId : \A d, e \in DistinctId :
      Claim(p, d) /\ Claim(p, e) => (d \in S <=> e \in S)

AliasPC == PC \ {"idle", "isNew", "count", "createNew", "publishNew"}

Consistent(r) ==
  /\ r.pc \in AliasPC => <<r.prev, r.id>> \in issued
  /\ r.pc \notin AliasPC => r.old = NoPerson /\ r.new = NoPerson
  /\ r.pc # "idle" => r.id \in DistinctId
  /\ r.pc \in {"update", "move", "delete", "commit", "identifyWait"} => r.held > 0
  /\ r.pc \in {"begin", "update", "move", "delete", "commit"} =>
       r.old # NoPerson /\ r.new # NoPerson

TasksConsistent == \A t \in Task : Consistent(task[t])

ClaimedAreUsed ==
  \A p \in PersonId : (\E d \in DistinctId : Claim(p, d)) => p \in used

IInv == TypeOK /\ TasksConsistent /\ ClaimedAreUsed /\ ClaimsAgree

InMerge(p) ==
  \E t \in Task : task[t].pc \in {"delete", "commit"} /\ task[t].old = p

(* A person has no distinct ID only while a merge is about to delete it, or *)
(* because a merge failed after moveDistinctIds, which its rollback does    *)
(* not undo: createPerson, addDistinctId and races between them leave no    *)
(* empty person.                                                            *)
EmptyPersonHasCause ==
  \A p \in live : IdsOf(p) = {} => InMerge(p) \/ p \in abandoned

(* A distinct ID a thread's cache calls seen has a person, or a task of that *)
(* thread is about to create it, as long as no statement fails: the cache is *)
(* written before the database is asked.                                    *)
SeenIdHasPerson ==
  faults = 0 =>
    \A h \in Thread : \A d \in seen[h] :
      \/ pdi[d] # NoPerson
      \/ \E t \in Task : /\ ThreadOf[t] = h
                         /\ task[t].pc \in {"count", "createNew"}
                         /\ task[t].id = d

(* Every event is handled to its end: lock waits, deadlocks and retries are *)
(* over after finitely many steps.                                          *)
EventsAreHandled ==
  \A t \in Task : task[t].pc # "idle" ~> task[t].pc = "idle"

(* Kafka's copy of posthog_persondistinctid agrees with Postgres whenever no *)
(* event is being handled: every row written was announced, in order.       *)
MirrorAgrees == (\A t \in Task : At(t, "idle")) => mirror = pdi

-----------------------------------------------------------------------------
(* What comments and tests say of concurrent events, and the code does not  *)
(* do.                                                                      *)

(* moveDistinctIds, db.ts: a RaceConditionError "will trigger a retry with  *)
(* updated persons".                                                        *)
RaceErrorIsRetried ==
  [][\A t \in Task :
       At(t, "move") /\ (IdsOf(task[t].old) = {} \/ task[t].new \notin live)
         => task'[t].pc \in {"move", "fetchOld"}]_vars

-----------------------------------------------------------------------------
(* Refinement: one event at a time and nothing failing                      *)

(* The persons identified once the open transactions commit. *)
identifiedSoon ==
  identified \cup
    {task[t].new : t \in {u \in Task : /\ task[u].pc \in {"delete", "commit"}
                                       /\ task[u].newIdentified \/ task[u].oldIdentified}}

Partition ==
  INSTANCE PersonPartition WITH
    personOf <- pdi,
    known <- {d \in DistinctId : pdi[d] \in identifiedSoon}

(* Handled one by one, events change persons only by the atomic operations  *)
(* of PersonPartition: a merge appears to happen at moveDistinctIds.        *)
ImplementsPartition == Partition!Spec

=============================================================================
