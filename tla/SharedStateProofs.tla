-------------------------- MODULE SharedStateProofs ---------------------------
(***************************************************************************)
(* Proofs about ScheduleLock, Actions, TeamDefinitions and ActionMatching,   *)
(* which share no variable: what servers and worker threads may believe of   *)
(* the state they share in Redis and Postgres, and what a thread makes of    *)
(* the actions it has cached. A server that schedules tasks holds the lock;  *)
(* the caches of threads agree with the rows they were read from, as far as  *)
(* they say; the matcher does what selectors, filters and steps say. For any *)
(* servers, plugin configs, threads, tasks, actions, events, types of        *)
(* groups, elements and selectors.                                           *)
(***************************************************************************)
EXTENDS ScheduleLock, Actions, TeamDefinitions, ActionMatching, FiniteSetTheorems, SequenceTheorems,
        WellFoundedInduction, TLAPS

-----------------------------------------------------------------------------
(* ScheduleLock. OneActiveServer speaks of what servers believe and run; it  *)
(* is inductive together with what they know of the key: a server that is    *)
(* active, and not stopping, holds the key and is going to extend it.        *)

(* The key belongs to its owner's `lock' or to nobody's, and what is about  *)
(* to be released is held.                                                  *)
LockIsOwners == lock \subseteq {owner} \ {NoServer} /\ releasing \subseteq lock

(* Nothing lost, and active: so the lock is held and extended. *)
ActiveAttends ==
  faults = 0 => \A s \in Server : Active(s) => Attended(s)

ScheduleInv == TypeOK /\ LockIsOwners /\ ActiveAttends

LEMMA ScheduleInit == Init => ScheduleInv
BY ScheduleAssumption DEF Init, ScheduleInv, TypeOK, LockIsOwners, ActiveAttends, Active

(* The steps of redlock. *)
LEMMA RedlockSteps ==
  ASSUME ScheduleInv, NEW s \in Server, Redlock(s) \/ LoseReply(s)
  PROVE  ScheduleInv'
<1> USE DEF ScheduleInv, TypeOK, LockIsOwners, ActiveAttends, Active, Attended, Goto, tasks
<1>1. CASE TryLock(s)
  BY <1>1 DEF TryLock
<1>2. CASE Acquire(s)
  BY <1>2, ScheduleAssumption DEF Acquire
<1>3. CASE Refused(s)
  BY <1>3 DEF Refused, Retry
<1>4. CASE ExtendLock(s)
  BY <1>4 DEF ExtendLock
<1>5. CASE Extended(s)
  BY <1>5 DEF Extended
<1>6. CASE ExtendFails(s)
  BY <1>6 DEF ExtendFails, NotExtended
<1>7. CASE LoseReply(s)
  <2>1. faults' \in Nat /\ faults' # 0
    BY <1>7 DEF LoseReply
  <2>2. owner' \in Server \cup {NoServer} /\ LockIsOwners'
    BY <1>7 DEF LoseReply, NotExtended
  <2>3. TypeOK'
    BY <1>7, <2>1, <2>2 DEF LoseReply, NotExtended, Retry
  <2> QED BY <2>1, <2>2, <2>3
<1> QED BY <1>1, <1>2, <1>3, <1>4, <1>5, <1>6, <1>7 DEF Redlock

(* The key expires. *)
LEMMA ExpireSteps ==
  ASSUME ScheduleInv, Expire \/ ExpireLate
  PROVE  ScheduleInv'
<1> USE DEF ScheduleInv, TypeOK, LockIsOwners, ActiveAttends, Active, Attended, KeyExpires, tasks
<1>1. CASE Expire
  BY <1>1 DEF Expire
<1>2. CASE ExpireLate
  BY <1>2 DEF ExpireLate
<1> QED BY <1>1, <1>2

(* The jobs of the schedule. *)
LEMMA TaskSteps ==
  ASSUME ScheduleInv, NEW s \in Server,
         \/ RunEveryMinute(s) \/ ReloadSchedule(s) \/ LoadPluginSchedule(s)
         \/ \E c \in Config : TaskDone(s, c)
  PROVE  ScheduleInv'
<1> USE DEF ScheduleInv, TypeOK, LockIsOwners, ActiveAttends, Active, Attended, redlock,
            RunScheduleDebounced
<1>1. CASE RunEveryMinute(s)
  BY <1>1 DEF RunEveryMinute
<1>2. CASE ReloadSchedule(s)
  BY <1>2 DEF ReloadSchedule
<1>3. CASE LoadPluginSchedule(s)
  BY <1>3 DEF LoadPluginSchedule
<1>4. ASSUME NEW c \in Config, TaskDone(s, c) PROVE ScheduleInv'
  BY <1>4 DEF TaskDone
<1> QED BY <1>1, <1>2, <1>3, <1>4

(* A server stops or dies. *)
LEMMA StopSteps ==
  ASSUME ScheduleInv, NEW s \in Server, StopSchedule(s) \/ Stopping(s) \/ Crash(s)
  PROVE  ScheduleInv'
<1> USE DEF ScheduleInv, TypeOK, LockIsOwners, ActiveAttends, Active, Attended, Goto, tasks, redlock
<1>1. CASE StopSchedule(s)
  BY <1>1 DEF StopSchedule
<1>2. CASE Unlock(s)
  BY <1>2 DEF Unlock
<1>3. CASE Quit(s)
  BY <1>3 DEF Quit
<1>4. CASE WaitForTasksToFinish(s)
  BY <1>4 DEF WaitForTasksToFinish
<1>5. CASE Crash(s)
  BY <1>5 DEF Crash
<1> QED BY <1>1, <1>2, <1>3, <1>4, <1>5 DEF Stopping

LEMMA ScheduleInductive == Spec => []ScheduleInv
<1>1. ScheduleInv /\ [Next]_vars => ScheduleInv'
  <2> SUFFICES ASSUME ScheduleInv, [Next]_vars PROVE ScheduleInv'
    OBVIOUS
  <2>1. CASE UNCHANGED vars
    BY <2>1 DEF vars, redlock, tasks, ScheduleInv, TypeOK, LockIsOwners, ActiveAttends, Active, Attended
  <2>2. CASE Next
    BY <2>2, RedlockSteps, ExpireSteps, TaskSteps, StopSteps DEF Next
  <2> QED BY <2>1, <2>2
<1> QED BY <1>1, ScheduleInit, PTL DEF Spec

(* The model's values keep their types. *)
THEOREM ScheduleTypeCorrect == Spec => []TypeOK
<1>1. ScheduleInv => TypeOK
  BY DEF ScheduleInv
<1> QED BY <1>1, ScheduleInductive, PTL

(* As long as no lock is lost, a server of a cluster of any size that        *)
(* schedules tasks, and is not stopping, holds the lock.                    *)
THEOREM OneActiveServerHolds == Spec => []OneActiveServer
<1>1. ScheduleInv => OneActiveServer
  BY DEF ScheduleInv, LockIsOwners, ActiveAttends, Attended, OneActiveServer
<1> QED BY <1>1, ScheduleInductive, PTL

-----------------------------------------------------------------------------
(* Actions: the cache of a thread. Whenever it differs from Postgres without *)
(* doubt, a message on the way, or the only fetch under way, will correct   *)
(* it.                                                                       *)

ActionsNoFairness == ActionsInit /\ [][ActionsNext]_actionsVars

Messages == [name : {"reloadAction", "dropAction", "reloadAllActions"}, action : Action]
Entries == {e \in [row : Nat, steps : Nat] : e.row = 0 => e = NoAction}
ActionRows == [Action -> [version : 0 .. MaxVersion, there : BOOLEAN]]
FetchTypes ==
  {f \in [of : SUBSET Action, all : BOOLEAN, at : {"rows", "steps", "answer"},
          found : [Action -> Entries], alone : BOOLEAN] :
     f.of # {} /\ (f.all => f.of = Action)}

(* Fetches that something else happened to the cache during.                 *)
Shared == {f \in FetchTypes : ~ f.alone}

TypesOK ==
  /\ stored \in ActionRows
  /\ \A a \in Action : stored[a].there => stored[a].version > 0
  /\ channel \in Seq(Messages) /\ inbox \in [Thread -> Seq(Messages)]
  /\ subscribed \in BOOLEAN /\ ready \in [Thread -> BOOLEAN] /\ doubt \in [Thread -> BOOLEAN]
  /\ cache \in [Thread -> [Action -> Entries]]
  /\ fetches \in [Thread -> Seq(FetchTypes)]
  /\ losses \in 0 .. MaxLosses

(* The view of one thread: Postgres (rows), the channel, its inbox, cache,   *)
(* fetches and doubt.  A message on the way to the thread concerns action a. *)
Concerns(m, a) == m.name = "reloadAllActions" \/ m.action = a
Pending(ch, box, a) == \E m \in ToSet(box) \cup ToSet(ch) : Concerns(m, a)

Row(rows, a) == IF rows[a].there THEN [row |-> rows[a].version, steps |-> rows[a].version]
                ELSE NoAction

(* The fetch will answer what Postgres has of action a.                      *)
Coming(rows, f, a) ==
  \/ f.at = "rows"
  \/ f.at = "steps" /\ f.found[a].row = Row(rows, a).row /\ f.found[a].steps = 0
  \/ f.at = "answer" /\ f.found[a] = Row(rows, a)

(* A reload of action a comes after place i of the queue.                    *)
Reloaded(q, a, i) == \E j \in DOMAIN q : j > i /\ q[j] = Message("reloadAction", a)

(* An action that is about to be dropped is not there, or about to be        *)
(* reloaded after that.                                                      *)
DropsRight(rows, ch, box) ==
  /\ \A i \in DOMAIN box : box[i].name = "dropAction" =>
       \/ ~ rows[box[i].action].there
       \/ Reloaded(box, box[i].action, i)
       \/ Reloaded(ch, box[i].action, 0)
  /\ \A i \in DOMAIN ch : ch[i].name = "dropAction" =>
       ~ rows[ch[i].action].there \/ Reloaded(ch, ch[i].action, i)

(* The only fetch under way is f, undisturbed: each of its actions will be   *)
(* answered right, or is about to be reloaded or dropped.                    *)
OnlyFetch(rows, ch, box, fs, f) ==
  /\ fs = <<f>> /\ f.alone
  /\ \A a \in f.of : Coming(rows, f, a) \/ Pending(ch, box, a)

ThreadRight(rows, ch, box, ca, fs, db) ==
  /\ fs \in Seq(Shared) \/ \E f \in FetchTypes : OnlyFetch(rows, ch, box, fs, f)
  /\ ~ db =>
       /\ DropsRight(rows, ch, box)
       /\ \/ fs = <<>> /\ \A a \in Action : Pending(ch, box, a) \/ ca[a] = Row(rows, a)
          \/ \E f \in FetchTypes :
               /\ OnlyFetch(rows, ch, box, fs, f)
               /\ \A a \in Action \ f.of : Pending(ch, box, a) \/ ca[a] = Row(rows, a)

ThreadsRight ==
  \A t \in Thread : ThreadRight(stored, channel, inbox[t], cache[t], fetches[t], doubt[t])

ActionsIInv == TypesOK /\ ThreadsRight

-----------------------------------------------------------------------------
LEMMA Appended ==
  ASSUME NEW S, NEW s \in Seq(S), NEW e \in S
  PROVE  /\ Append(s, e) \in Seq(S) /\ Len(Append(s, e)) = Len(s) + 1
         /\ \A i \in DOMAIN s : i \in DOMAIN Append(s, e) /\ Append(s, e)[i] = s[i]
         /\ Len(s) + 1 \in DOMAIN Append(s, e) /\ Append(s, e)[Len(s) + 1] = e
         /\ \A i \in DOMAIN Append(s, e) : i \in DOMAIN s \/ i = Len(s) + 1
         /\ \A i \in DOMAIN s : i < Len(s) + 1 /\ i \in Nat /\ i > 0
         /\ ToSet(Append(s, e)) = ToSet(s) \cup {e}
<1>1. /\ Append(s, e) \in Seq(S) /\ Len(Append(s, e)) = Len(s) + 1
      /\ \A i \in DOMAIN s : i \in DOMAIN Append(s, e) /\ Append(s, e)[i] = s[i]
      /\ Len(s) + 1 \in DOMAIN Append(s, e) /\ Append(s, e)[Len(s) + 1] = e
      /\ \A i \in DOMAIN Append(s, e) : i \in DOMAIN s \/ i = Len(s) + 1
      /\ \A i \in DOMAIN s : i < Len(s) + 1 /\ i \in Nat /\ i > 0
  OBVIOUS
<1>2. ToSet(Append(s, e)) \subseteq ToSet(s) \cup {e}
  BY <1>1 DEF ToSet
<1>3. ASSUME NEW i \in DOMAIN Append(s, e) PROVE Append(s, e)[i] \in ToSet(Append(s, e))
  BY <1>3 DEF ToSet
<1>4. ToSet(s) \subseteq ToSet(Append(s, e)) /\ e \in ToSet(Append(s, e))
  <2>1. \A i \in DOMAIN s : s[i] \in ToSet(Append(s, e))
    BY <1>1, <1>3
  <2>2. ToSet(s) \subseteq ToSet(Append(s, e))
    BY <2>1 DEF ToSet
  <2> QED
    BY <1>1, <1>3, <2>2
<1> QED
  BY <1>1, <1>2, <1>3, <1>4

LEMMA HeadAndTail ==
  ASSUME NEW S, NEW s \in Seq(S), s # <<>>
  PROVE  /\ Head(s) \in S /\ Tail(s) \in Seq(S)
         /\ ToSet(s) = {Head(s)} \cup ToSet(Tail(s))
         /\ 1 \in DOMAIN s /\ s[1] = Head(s)
         /\ \A i \in DOMAIN Tail(s) : i + 1 \in DOMAIN s /\ Tail(s)[i] = s[i + 1] /\ i \in Nat /\ i > 0
         /\ \A i \in DOMAIN s : i \in Nat /\ i > 0 /\ (i # 1 => i - 1 \in DOMAIN Tail(s) /\ Tail(s)[i - 1] = s[i])
<1>1. /\ Head(s) \in S /\ Tail(s) \in Seq(S)
      /\ 1 \in DOMAIN s /\ s[1] = Head(s)
      /\ \A i \in DOMAIN Tail(s) : i + 1 \in DOMAIN s /\ Tail(s)[i] = s[i + 1] /\ i \in Nat /\ i > 0
      /\ \A i \in DOMAIN s : i \in Nat /\ i > 0 /\ (i # 1 => i - 1 \in DOMAIN Tail(s) /\ Tail(s)[i - 1] = s[i])
  OBVIOUS
<1>2. ToSet(s) \subseteq {Head(s)} \cup ToSet(Tail(s))
  <2>1. \A j \in DOMAIN Tail(s) : Tail(s)[j] \in ToSet(Tail(s))
    BY DEF ToSet
  <2>2. \A i \in DOMAIN s : s[i] \in {Head(s)} \cup ToSet(Tail(s))
    BY <1>1, <2>1
  <2> QED
    BY <2>2 DEF ToSet
<1>3. \A i \in DOMAIN s : s[i] \in ToSet(s)
  BY DEF ToSet
<1>4. \A i \in DOMAIN Tail(s) : Tail(s)[i] \in ToSet(s)
  BY <1>1, <1>3
<1>5. ToSet(Tail(s)) \subseteq ToSet(s)
  BY <1>4 DEF ToSet
<1> QED
  BY <1>1, <1>2, <1>3, <1>5

LEMMA Removed ==
  ASSUME NEW S, NEW s \in Seq(S), NEW i \in DOMAIN s
  PROVE  RemoveAt(s, i) \in Seq(S) /\ (Len(s) = 1 => RemoveAt(s, i) = <<>>)
<1>1. i \in 1 .. Len(s) /\ Len(s) \in Nat
  OBVIOUS
<1>2. SubSeq(s, 1, i - 1) \in Seq(S) /\ SubSeq(s, i + 1, Len(s)) \in Seq(S)
  BY <1>1
<1>3. RemoveAt(s, i) \in Seq(S)
  BY <1>2, ConcatProperties DEF RemoveAt
<1>4. ASSUME Len(s) = 1 PROVE RemoveAt(s, i) = <<>>
  <2>1. i = 1
    BY <1>1, <1>4
  <2>2. SubSeq(s, 1, i - 1) = <<>> /\ SubSeq(s, i + 1, Len(s)) = <<>>
    BY <1>4, <2>1
  <2> QED
    BY <2>2 DEF RemoveAt
<1> QED
  BY <1>3, <1>4

(* Fetches that are disturbed. *)
LEMMA AreShared ==
  ASSUME NEW fs \in Seq(FetchTypes)
  PROVE  Alone(fs, FALSE) \in Seq(Shared)
<1>1. \A f \in FetchTypes : [f EXCEPT !.alone = f.alone /\ FALSE] \in Shared
  BY DEF FetchTypes, Shared
<1>2. DOMAIN fs = 1 .. Len(fs) /\ Len(fs) \in Nat /\ \A k \in DOMAIN fs : fs[k] \in FetchTypes
  OBVIOUS
<1>3. /\ DOMAIN Alone(fs, FALSE) = 1 .. Len(fs)
      /\ \A k \in 1 .. Len(fs) : Alone(fs, FALSE)[k] \in Shared
      /\ Alone(fs, FALSE) = [k \in 1 .. Len(fs) |-> Alone(fs, FALSE)[k]]
  BY <1>1, <1>2 DEF Alone
<1>4. Alone(fs, FALSE) \in [1 .. Len(fs) -> Shared]
  BY <1>3
<1> QED
  BY <1>2, <1>4, SeqDef

LEMMA SharedAreFetches ==
  ASSUME NEW fs \in Seq(Shared)
  PROVE  fs \in Seq(FetchTypes)
BY DEF Shared

(* A thread in doubt whose fetches are disturbed has nothing to be right.    *)
LEMMA InDoubt ==
  ASSUME NEW rows, NEW ch, NEW box, NEW ca, NEW fs \in Seq(Shared)
  PROVE  ThreadRight(rows, ch, box, ca, fs, TRUE)
BY DEF ThreadRight

LEMMA ReloadAllIsMessage ==
  ReloadAll \in Messages /\ ReloadAll.name = "reloadAllActions"
BY ActionsAssumption DEF ReloadAll, Message, Messages

(* What a thread relies on goes on to hold as long as its caches and fetches *)
(* stay, nothing it is about to hear of is forgotten and no row changes but  *)
(* that of an action which is about to be reloaded or dropped.               *)
LEMMA RightStays ==
  ASSUME NEW rows, NEW ch, NEW box, NEW rows2, NEW ch2, NEW box2, NEW ca, NEW fs, NEW db,
         ThreadRight(rows, ch, box, ca, fs, db),
         \A a \in Action : Pending(ch, box, a) => Pending(ch2, box2, a),
         \A a \in Action : rows2[a] = rows[a] \/ Pending(ch2, box2, a),
         ~ db /\ DropsRight(rows, ch, box) => DropsRight(rows2, ch2, box2)
  PROVE  ThreadRight(rows2, ch2, box2, ca, fs, db)
<1>1. \A a \in Action : Row(rows2, a) = Row(rows, a) \/ Pending(ch2, box2, a)
  BY DEF Row
<1>2. ASSUME NEW f \in FetchTypes, OnlyFetch(rows, ch, box, fs, f)
      PROVE  OnlyFetch(rows2, ch2, box2, fs, f)
  <2>1. f.of \subseteq Action
    BY DEF FetchTypes
  <2> QED
    BY <1>1, <1>2, <2>1 DEF OnlyFetch, Coming
<1>3. fs \in Seq(Shared) \/ \E f \in FetchTypes : OnlyFetch(rows2, ch2, box2, fs, f)
  BY <1>2 DEF ThreadRight
<1>4. ASSUME ~ db
      PROVE  /\ DropsRight(rows2, ch2, box2)
             /\ \/ fs = <<>> /\ \A a \in Action : Pending(ch2, box2, a) \/ ca[a] = Row(rows2, a)
                \/ \E f \in FetchTypes :
                     /\ OnlyFetch(rows2, ch2, box2, fs, f)
                     /\ \A a \in Action \ f.of : Pending(ch2, box2, a) \/ ca[a] = Row(rows2, a)
  <2>1. DropsRight(rows2, ch2, box2)
    BY <1>4 DEF ThreadRight
  <2>2. CASE fs = <<>> /\ \A a \in Action : Pending(ch, box, a) \/ ca[a] = Row(rows, a)
    BY <1>1, <2>1, <2>2
  <2>3. ASSUME NEW f \in FetchTypes, OnlyFetch(rows, ch, box, fs, f),
               \A a \in Action \ f.of : Pending(ch, box, a) \/ ca[a] = Row(rows, a)
        PROVE  \A a \in Action \ f.of : Pending(ch2, box2, a) \/ ca[a] = Row(rows2, a)
    BY <1>1, <2>3
  <2> QED
    BY <1>2, <1>4, <2>1, <2>2, <2>3 DEF ThreadRight
<1> QED
  BY <1>3, <1>4 DEF ThreadRight

(* A message on the way, published or broadcast, is one more to come.        *)
LEMMA PendingGrows ==
  ASSUME NEW ch, NEW box, NEW ch2, NEW box2,
         ToSet(box) \cup ToSet(ch) \subseteq ToSet(box2) \cup ToSet(ch2)
  PROVE  \A a : Pending(ch, box, a) => Pending(ch2, box2, a)
BY DEF Pending

(* Saving an action, and publishing it.                                      *)
LEMMA SavedRight ==
  ASSUME NEW rows \in ActionRows, NEW ch \in Seq(Messages), NEW box \in Seq(Messages), NEW ca, NEW fs, NEW db,
         ThreadRight(rows, ch, box, ca, fs, db), NEW a \in Action, NEW row
  PROVE  ThreadRight([rows EXCEPT ![a] = row], Append(ch, Message("reloadAction", a)), box, ca, fs, db)
<1> DEFINE m == Message("reloadAction", a)
           rows2 == [rows EXCEPT ![a] = row]
           ch2 == Append(ch, m)
<1>1. m \in Messages /\ m.name = "reloadAction" /\ m.action = a
  BY DEF Message, Messages
<1>2. \A b \in Action : b # a => rows2[b] = rows[b]
  BY DEF ActionRows
<1> HIDE DEF m, rows2
<1>3. /\ ToSet(ch2) = ToSet(ch) \cup {m}
      /\ \A i \in DOMAIN ch : i \in DOMAIN ch2 /\ ch2[i] = ch[i]
      /\ Len(ch) + 1 \in DOMAIN ch2 /\ ch2[Len(ch) + 1] = m
      /\ \A i \in DOMAIN ch2 : i \in DOMAIN ch \/ i = Len(ch) + 1
      /\ \A i \in DOMAIN ch : i < Len(ch) + 1 /\ i \in Nat /\ i > 0
  BY <1>1, Appended
<1>4. Pending(ch2, box, a)
  BY <1>1, <1>3 DEF Pending, Concerns
<1>5. ASSUME DropsRight(rows, ch, box) PROVE DropsRight(rows2, ch2, box)
  <2>1. \A b \in Action, i \in DOMAIN ch \cup {0} : Reloaded(ch, b, i) => Reloaded(ch2, b, i)
    BY <1>3 DEF Reloaded
  <2>2. \A i \in DOMAIN ch \cup {0} : Reloaded(ch2, a, i)
    <3>1. \A i \in DOMAIN ch \cup {0} : Len(ch) + 1 > i
      BY <1>3, LenProperties
    <3> QED
      BY <1>3, <3>1 DEF Reloaded, m
  <2>3. \A i \in DOMAIN box : box[i].action \in Action
    <3>1. \A i \in DOMAIN box : box[i] \in Messages
      OBVIOUS
    <3> QED
      BY <3>1 DEF Messages
  <2>4. \A i \in DOMAIN ch : ch[i].action \in Action
    <3>1. \A i \in DOMAIN ch : ch[i] \in Messages
      OBVIOUS
    <3> QED
      BY <3>1 DEF Messages
  <2>5. ASSUME NEW i \in DOMAIN box, box[i].name = "dropAction"
        PROVE  \/ ~ rows2[box[i].action].there
               \/ Reloaded(box, box[i].action, i)
               \/ Reloaded(ch2, box[i].action, 0)
    <3>1. CASE box[i].action = a
      BY <2>2, <3>1
    <3>2. CASE box[i].action # a
      BY <1>2, <1>5, <2>1, <2>3, <2>5, <3>2 DEF DropsRight
    <3> QED
      BY <3>1, <3>2
  <2>6. ASSUME NEW i \in DOMAIN ch2, ch2[i].name = "dropAction"
        PROVE  ~ rows2[ch2[i].action].there \/ Reloaded(ch2, ch2[i].action, i)
    <3>1. i \in DOMAIN ch /\ ch2[i] = ch[i]
      BY <1>1, <1>3, <2>6
    <3>2. CASE ch[i].action = a
      BY <2>2, <3>1, <3>2
    <3>3. CASE ch[i].action # a
      BY <1>2, <1>5, <2>1, <2>4, <2>6, <3>1, <3>3 DEF DropsRight
    <3> QED
      BY <3>2, <3>3
  <2> QED
    BY <2>5, <2>6 DEF DropsRight
<1>6. \A b \in Action : Pending(ch, box, b) => Pending(ch2, box, b)
  BY <1>3, PendingGrows
<1> HIDE DEF ch2
<1>7. ThreadRight(rows2, ch2, box, ca, fs, db)
  BY <1>2, <1>4, <1>5, <1>6, RightStays
<1> QED
  BY <1>7 DEF rows2, ch2, m

(* Deleting an action, and publishing it.                                    *)
LEMMA DeletedRight ==
  ASSUME NEW rows \in ActionRows, NEW ch \in Seq(Messages), NEW box \in Seq(Messages), NEW ca, NEW fs, NEW db,
         ThreadRight(rows, ch, box, ca, fs, db), NEW a \in Action
  PROVE  ThreadRight([rows EXCEPT ![a].there = FALSE], Append(ch, Message("dropAction", a)), box, ca, fs, db)
<1> DEFINE m == Message("dropAction", a)
           rows2 == [rows EXCEPT ![a].there = FALSE]
           ch2 == Append(ch, m)
<1>1. m \in Messages /\ m.name = "dropAction" /\ m.action = a
  BY DEF Message, Messages
<1>2. (\A b \in Action : b # a => rows2[b] = rows[b]) /\ ~ rows2[a].there
  BY DEF ActionRows
<1> HIDE DEF m, rows2
<1>3. /\ ToSet(ch2) = ToSet(ch) \cup {m}
      /\ \A i \in DOMAIN ch : i \in DOMAIN ch2 /\ ch2[i] = ch[i]
      /\ Len(ch) + 1 \in DOMAIN ch2 /\ ch2[Len(ch) + 1] = m
      /\ \A i \in DOMAIN ch2 : i \in DOMAIN ch \/ i = Len(ch) + 1
  BY <1>1, Appended
<1>4. Pending(ch2, box, a)
  BY <1>1, <1>3 DEF Pending, Concerns
<1>5. ASSUME DropsRight(rows, ch, box) PROVE DropsRight(rows2, ch2, box)
  <2>1. \A b \in Action, i \in DOMAIN ch \cup {0} : Reloaded(ch, b, i) => Reloaded(ch2, b, i)
    BY <1>3 DEF Reloaded
  <2>2. \A b \in Action : ~ rows[b].there => ~ rows2[b].there
    BY <1>2
  <2>3. \A i \in DOMAIN box : box[i].action \in Action
    <3>1. \A i \in DOMAIN box : box[i] \in Messages
      OBVIOUS
    <3> QED
      BY <3>1 DEF Messages
  <2>4. \A i \in DOMAIN ch : ch[i].action \in Action
    <3>1. \A i \in DOMAIN ch : ch[i] \in Messages
      OBVIOUS
    <3> QED
      BY <3>1 DEF Messages
  <2>5. ASSUME NEW i \in DOMAIN ch2, ch2[i].name = "dropAction"
        PROVE  ~ rows2[ch2[i].action].there \/ Reloaded(ch2, ch2[i].action, i)
    <3>1. CASE i \in DOMAIN ch
      BY <1>3, <1>5, <2>1, <2>2, <2>4, <2>5, <3>1 DEF DropsRight
    <3>2. CASE i = Len(ch) + 1
      BY <1>1, <1>2, <1>3, <3>2
    <3> QED
      BY <1>3, <3>1, <3>2
  <2> QED
    BY <1>5, <2>1, <2>2, <2>3, <2>5 DEF DropsRight
<1>6. \A b \in Action : Pending(ch, box, b) => Pending(ch2, box, b)
  BY <1>3, PendingGrows
<1> HIDE DEF ch2
<1>7. ThreadRight(rows2, ch2, box, ca, fs, db)
  BY <1>2, <1>4, <1>5, <1>6, RightStays
<1> QED
  BY <1>7 DEF rows2, ch2, m

(* The main thread broadcasts the oldest message.                            *)
LEMMA BroadcastRight ==
  ASSUME NEW rows, NEW ch \in Seq(Messages), NEW box \in Seq(Messages), NEW ca, NEW fs, NEW db,
         ThreadRight(rows, ch, box, ca, fs, db), ch # <<>>
  PROVE  ThreadRight(rows, Tail(ch), Append(box, Head(ch)), ca, fs, db)
<1> DEFINE m == Head(ch)
           box2 == Append(box, m)
           ch2 == Tail(ch)
<1>1. /\ m \in Messages /\ ToSet(ch) = {m} \cup ToSet(ch2)
      /\ 1 \in DOMAIN ch /\ ch[1] = m
      /\ \A i \in DOMAIN ch2 : i + 1 \in DOMAIN ch /\ ch2[i] = ch[i + 1] /\ i \in Nat /\ i > 0
      /\ \A i \in DOMAIN ch : i \in Nat /\ i > 0 /\ (i # 1 => i - 1 \in DOMAIN ch2 /\ ch2[i - 1] = ch[i])
  BY HeadAndTail
<1> HIDE DEF m, ch2
<1>2. /\ ToSet(box2) = ToSet(box) \cup {m}
      /\ \A i \in DOMAIN box : i \in DOMAIN box2 /\ box2[i] = box[i]
      /\ Len(box) + 1 \in DOMAIN box2 /\ box2[Len(box) + 1] = m
      /\ \A i \in DOMAIN box2 : i \in DOMAIN box \/ i = Len(box) + 1
      /\ \A i \in DOMAIN box : i < Len(box) + 1 /\ i \in Nat /\ i > 0
  BY <1>1, Appended
<1>3. \A a \in Action : Pending(ch, box, a) => Pending(ch2, box2, a)
  BY <1>1, <1>2, PendingGrows
<1> HIDE DEF box2
<1>4. ASSUME DropsRight(rows, ch, box) PROVE DropsRight(rows, ch2, box2)
  <2>1. ASSUME NEW a, NEW i \in DOMAIN ch, Reloaded(ch, a, i)
        PROVE  Reloaded(ch2, a, i - 1)
    <3>1. PICK j \in DOMAIN ch : j > i /\ ch[j] = Message("reloadAction", a)
      BY <2>1 DEF Reloaded
    <3>2. j # 1 /\ j - 1 > i - 1
      BY <1>1, <3>1
    <3> QED
      BY <1>1, <3>1, <3>2 DEF Reloaded
  <2>2. ASSUME NEW a, NEW i \in DOMAIN box, Reloaded(ch, a, 0)
        PROVE  Reloaded(box2, a, i) \/ Reloaded(ch2, a, 0)
    <3>1. PICK j \in DOMAIN ch : j > 0 /\ ch[j] = Message("reloadAction", a)
      BY <2>2 DEF Reloaded
    <3>2. CASE j = 1
      BY <1>1, <1>2, <3>1, <3>2 DEF Reloaded
    <3>3. CASE j # 1
      <4>1. j - 1 \in DOMAIN ch2 /\ ch2[j - 1] = Message("reloadAction", a) /\ j - 1 > 0
        BY <1>1, <3>1, <3>3
      <4> QED
        BY <4>1 DEF Reloaded
    <3> QED
      BY <3>2, <3>3
  <2>3. \A a : \A i \in DOMAIN box : Reloaded(box, a, i) => Reloaded(box2, a, i)
    BY <1>2 DEF Reloaded
  <2>4. ASSUME NEW i \in DOMAIN box2, box2[i].name = "dropAction"
        PROVE  \/ ~ rows[box2[i].action].there
               \/ Reloaded(box2, box2[i].action, i)
               \/ Reloaded(ch2, box2[i].action, 0)
    <3>1. CASE i \in DOMAIN box
      <4>1. \/ ~ rows[box[i].action].there
            \/ Reloaded(box, box[i].action, i)
            \/ Reloaded(ch, box[i].action, 0)
        BY <1>2, <1>4, <2>4, <3>1 DEF DropsRight
      <4>2. box2[i] = box[i]
        BY <1>2, <3>1
      <4>3. Reloaded(box, box[i].action, i) => Reloaded(box2, box[i].action, i)
        BY <2>3, <3>1
      <4>4. Reloaded(ch, box[i].action, 0) =>
              Reloaded(box2, box[i].action, i) \/ Reloaded(ch2, box[i].action, 0)
        BY <2>2, <3>1
      <4> QED
        BY <4>1, <4>2, <4>3, <4>4
    <3>2. CASE i = Len(box) + 1
      <4>0. ch[1].name = "dropAction"
        BY <1>1, <1>2, <2>4, <3>2
      <4>1. ~ rows[m.action].there \/ Reloaded(ch, m.action, 1)
        BY <1>1, <1>4, <4>0 DEF DropsRight
      <4>2. Reloaded(ch, m.action, 1) => Reloaded(ch2, m.action, 0)
        BY <1>1, <2>1
      <4> QED
        BY <1>2, <3>2, <4>1, <4>2
    <3> QED
      BY <1>2, <3>1, <3>2
  <2>5. ASSUME NEW i \in DOMAIN ch2, ch2[i].name = "dropAction"
        PROVE  ~ rows[ch2[i].action].there \/ Reloaded(ch2, ch2[i].action, i)
    <3>1. i + 1 \in DOMAIN ch /\ ch2[i] = ch[i + 1] /\ (i + 1) - 1 = i
      BY <1>1
    <3> QED
      BY <1>4, <2>1, <2>5, <3>1 DEF DropsRight
  <2> QED
    BY <2>4, <2>5 DEF DropsRight
<1>5. ThreadRight(rows, ch2, box2, ca, fs, db)
  BY <1>3, <1>4, RightStays
<1> QED
  BY <1>5 DEF box2, ch2, m

(* All actions are to be reloaded.                                           *)
LEMMA ReloadAllRight ==
  ASSUME NEW rows, NEW ch \in Seq(Messages), NEW box \in Seq(Messages), NEW ca, NEW fs, NEW db,
         ThreadRight(rows, ch, box, ca, fs, db)
  PROVE  ThreadRight(rows, ch, Append(box, ReloadAll), ca, fs, db)
<1> DEFINE box2 == Append(box, ReloadAll)
<1>1. /\ ToSet(box2) = ToSet(box) \cup {ReloadAll}
      /\ \A i \in DOMAIN box : i \in DOMAIN box2 /\ box2[i] = box[i]
      /\ box2[Len(box) + 1] = ReloadAll
      /\ \A i \in DOMAIN box2 : i \in DOMAIN box \/ i = Len(box) + 1
  BY Appended, ReloadAllIsMessage
<1> HIDE DEF box2
<1>2. ASSUME DropsRight(rows, ch, box) PROVE DropsRight(rows, ch, box2)
  <2>1. \A a : \A i \in DOMAIN box : Reloaded(box, a, i) => Reloaded(box2, a, i)
    BY <1>1 DEF Reloaded
  <2>2. ASSUME NEW i \in DOMAIN box2, box2[i].name = "dropAction"
        PROVE  \/ ~ rows[box2[i].action].there
               \/ Reloaded(box2, box2[i].action, i)
               \/ Reloaded(ch, box2[i].action, 0)
    <3>1. i \in DOMAIN box /\ box2[i] = box[i]
      BY <1>1, <2>2, ReloadAllIsMessage
    <3>2. Reloaded(box, box[i].action, i) => Reloaded(box2, box[i].action, i)
      BY <2>1, <3>1
    <3> QED
      BY <1>2, <2>2, <3>1, <3>2 DEF DropsRight
  <2> QED
    BY <1>2, <2>2 DEF DropsRight
<1>3. \A a \in Action : Pending(ch, box, a) => Pending(ch, box2, a)
  BY <1>1, PendingGrows
<1>4. ThreadRight(rows, ch, box2, ca, fs, db)
  BY <1>2, <1>3, RightStays
<1> QED
  BY <1>4 DEF box2

-----------------------------------------------------------------------------
(* A thread handles the oldest message of its inbox. *)

(* Of what the inbox lacks after that, only the actions of the message are   *)
(* no more pending.                                                          *)
LEMMA Taken ==
  ASSUME NEW rows, NEW ch \in Seq(Messages), NEW box \in Seq(Messages), box # <<>>
  PROVE  /\ \A a \in Action :
              Pending(ch, box, a) => Pending(ch, Tail(box), a) \/ Concerns(Head(box), a)
         /\ DropsRight(rows, ch, box) => DropsRight(rows, ch, Tail(box))
         /\ DropsRight(rows, ch, box) /\ Head(box).name = "dropAction" =>
              ~ rows[Head(box).action].there \/ Pending(ch, Tail(box), Head(box).action)
<1> DEFINE m == Head(box)
           box2 == Tail(box)
<1>1. /\ m \in Messages /\ ToSet(box) = {m} \cup ToSet(box2)
      /\ 1 \in DOMAIN box /\ box[1] = m
      /\ \A i \in DOMAIN box2 : i + 1 \in DOMAIN box /\ box2[i] = box[i + 1] /\ i \in Nat /\ i > 0
      /\ \A i \in DOMAIN box : i \in Nat /\ i > 0 /\ (i # 1 => i - 1 \in DOMAIN box2 /\ box2[i - 1] = box[i])
  BY HeadAndTail
<1> HIDE DEF m, box2
<1>2. \A a \in Action : Pending(ch, box, a) => Pending(ch, box2, a) \/ Concerns(m, a)
  BY <1>1 DEF Pending
<1>3. ASSUME NEW a, NEW i \in DOMAIN box, Reloaded(box, a, i)
      PROVE  Reloaded(box2, a, i - 1)
  <2>1. PICK j \in DOMAIN box : j > i /\ box[j] = Message("reloadAction", a)
    BY <1>3 DEF Reloaded
  <2>2. j # 1 /\ j - 1 > i - 1
    BY <1>1, <2>1
  <2> QED
    BY <1>1, <2>1, <2>2 DEF Reloaded
<1>4. ASSUME DropsRight(rows, ch, box) PROVE DropsRight(rows, ch, box2)
  <2>1. ASSUME NEW i \in DOMAIN box2, box2[i].name = "dropAction"
        PROVE  \/ ~ rows[box2[i].action].there
               \/ Reloaded(box2, box2[i].action, i)
               \/ Reloaded(ch, box2[i].action, 0)
    <3>1. i + 1 \in DOMAIN box /\ box2[i] = box[i + 1] /\ (i + 1) - 1 = i
      BY <1>1
    <3> QED
      BY <1>3, <1>4, <2>1, <3>1 DEF DropsRight
  <2> QED
    BY <1>4, <2>1 DEF DropsRight
<1>5. ASSUME DropsRight(rows, ch, box), m.name = "dropAction"
      PROVE  ~ rows[m.action].there \/ Pending(ch, box2, m.action)
  <2>1. ~ rows[m.action].there \/ Reloaded(box, m.action, 1) \/ Reloaded(ch, m.action, 0)
    BY <1>1, <1>5 DEF DropsRight
  <2>2. \A q : Reloaded(q, m.action, 0) => Message("reloadAction", m.action) \in ToSet(q)
    BY DEF Reloaded, ToSet
  <2>3. Concerns(Message("reloadAction", m.action), m.action)
    BY DEF Concerns, Message
  <2>4. Reloaded(box, m.action, 1) => Reloaded(box2, m.action, 0)
    BY <1>1, <1>3
  <2> QED
    BY <2>1, <2>2, <2>3, <2>4 DEF Pending
<1> QED
  BY <1>2, <1>4, <1>5 DEF m, box2

(* The fetch that a reload of one or of all actions starts.                  *)
LEMMA NewFetchIs ==
  ASSUME NEW of \in SUBSET Action, of # {}, NEW all \in BOOLEAN, all => of = Action
  PROVE  /\ NewFetch(of, all) \in FetchTypes /\ NewFetch(of, all).alone
         /\ NewFetch(of, all).at = "rows" /\ NewFetch(of, all).of = of
<1>1. NoAction \in Entries
  BY DEF NoAction, Entries
<1> QED
  BY <1>1 DEF NewFetch, FetchTypes

(* It is the only one, or they disturb each other.                           *)
LEMMA StartedRight ==
  ASSUME NEW rows, NEW ch \in Seq(Messages), NEW box \in Seq(Messages), NEW ca,
         NEW db \in BOOLEAN, ThreadRight(rows, ch, box, ca, <<>>, db), box # <<>>,
         NEW f \in FetchTypes, f.alone, f.at = "rows",
         \A a \in Action : Concerns(Head(box), a) => a \in f.of
  PROVE  ThreadRight(rows, ch, Tail(box), ca, <<f>>, db)
<1>1. OnlyFetch(rows, ch, Tail(box), <<f>>, f)
  BY DEF OnlyFetch, Coming
<1>2. ASSUME ~ db
      PROVE  /\ DropsRight(rows, ch, Tail(box))
             /\ \A a \in Action \ f.of : Pending(ch, Tail(box), a) \/ ca[a] = Row(rows, a)
  <2>1. /\ DropsRight(rows, ch, box)
        /\ \A a \in Action : Pending(ch, box, a) \/ ca[a] = Row(rows, a)
    <3>1. \A g : <<>> # <<g>>
      OBVIOUS
    <3> QED
      BY <1>2, <3>1 DEF ThreadRight, OnlyFetch
  <2> QED
    BY <2>1, Taken
<1> QED
  BY <1>1, <1>2 DEF ThreadRight

(* An action is dropped, and nothing is under way.                           *)
LEMMA DroppedRight ==
  ASSUME NEW rows \in ActionRows, NEW ch \in Seq(Messages), NEW box \in Seq(Messages),
         NEW ca \in [Action -> Entries],
         NEW db \in BOOLEAN, ThreadRight(rows, ch, box, ca, <<>>, db), box # <<>>,
         Head(box).name = "dropAction"
  PROVE  ThreadRight(rows, ch, Tail(box), [ca EXCEPT ![Head(box).action] = NoAction], <<>>, db)
<1> DEFINE m == Head(box)
           ca2 == [ca EXCEPT ![m.action] = NoAction]
<1>0. m \in Messages
  BY HeadAndTail
<1>1. m.name = "dropAction" /\ m.action \in Action
  BY <1>0 DEF Messages
<1> HIDE DEF m
<1>2. \A a \in Action : ca2[a] = IF a = m.action THEN NoAction ELSE ca[a]
  BY <1>1
<1>3. ASSUME ~ db
      PROVE  /\ DropsRight(rows, ch, Tail(box))
             /\ \A a \in Action : Pending(ch, Tail(box), a) \/ ca2[a] = Row(rows, a)
  <2>1. /\ DropsRight(rows, ch, box)
        /\ \A a \in Action : Pending(ch, box, a) \/ ca[a] = Row(rows, a)
    <3>1. \A g : <<>> # <<g>>
      OBVIOUS
    <3> QED
      BY <1>3, <3>1 DEF ThreadRight, OnlyFetch
  <2>2. /\ DropsRight(rows, ch, Tail(box))
        /\ ~ rows[m.action].there \/ Pending(ch, Tail(box), m.action)
        /\ \A a \in Action : Pending(ch, box, a) => Pending(ch, Tail(box), a) \/ Concerns(m, a)
    BY <1>1, <2>1, Taken DEF m
  <2>3. \A a \in Action : Concerns(m, a) => a = m.action
    BY <1>1 DEF Concerns
  <2>4. ~ rows[m.action].there => Row(rows, m.action) = NoAction
    BY DEF Row
  <2> HIDE DEF ca2
  <2> QED
    BY <1>2, <2>1, <2>2, <2>3, <2>4
<1> HIDE DEF ca2
<1>4. <<>> \in Seq(Shared)
  OBVIOUS
<1>5. ThreadRight(rows, ch, Tail(box), ca2, <<>>, db)
  BY <1>3, <1>4 DEF ThreadRight
<1> QED
  BY <1>5 DEF ca2, m

-----------------------------------------------------------------------------
(* A fetch goes on. *)

(* A fetch under way that goes on without leaving the cache or its doubt.    *)
LEMMA FetchGoesOn ==
  ASSUME NEW rows, NEW ch, NEW box, NEW ca, NEW fs \in Seq(FetchTypes), NEW db,
         ThreadRight(rows, ch, box, ca, fs, db), NEW k \in DOMAIN fs, NEW f \in FetchTypes,
         f.of = fs[k].of, f.alone = fs[k].alone,
         \A a \in f.of : Coming(rows, fs[k], a) => Coming(rows, f, a)
  PROVE  ThreadRight(rows, ch, box, ca, [fs EXCEPT ![k] = f], db)
<1> DEFINE fs2 == [fs EXCEPT ![k] = f]
<1>1. fs[k] \in FetchTypes
  OBVIOUS
<1>2. CASE fs \in Seq(Shared)
  <2>1. fs[k] \in Shared /\ ~ fs[k].alone
    BY <1>2 DEF Shared
  <2>2. fs2 \in Seq(Shared)
    BY <1>2, <2>1, ExceptSeq DEF Shared
  <2>3. \A g : fs = <<g>> => g = fs[k]
    OBVIOUS
  <2>4. ~ \E g \in FetchTypes : OnlyFetch(rows, ch, box, fs, g)
    BY <2>1, <2>3 DEF OnlyFetch
  <2>5. fs # <<>>
    OBVIOUS
  <2>6. db
    BY <2>4, <2>5 DEF ThreadRight
  <2> HIDE DEF fs2
  <2>7. ThreadRight(rows, ch, box, ca, fs2, db)
    BY <2>2, <2>6 DEF ThreadRight
  <2> QED
    BY <2>7 DEF fs2
<1>3. ASSUME NEW g \in FetchTypes, OnlyFetch(rows, ch, box, fs, g)
      PROVE  /\ OnlyFetch(rows, ch, box, fs2, f) /\ g.of = f.of
             /\ fs # <<>>
  <2>1. fs = <<g>> /\ k = 1 /\ fs[k] = g
    BY <1>3 DEF OnlyFetch
  <2>2. fs2 = <<f>>
    BY <2>1
  <2> QED
    BY <1>3, <2>1, <2>2 DEF OnlyFetch
<1>4. ASSUME NEW g \in FetchTypes, OnlyFetch(rows, ch, box, fs, g)
      PROVE  ThreadRight(rows, ch, box, ca, fs2, db)
  <2>1. OnlyFetch(rows, ch, box, fs2, f) /\ fs # <<>> /\ fs = <<g>> /\ g.of = f.of
    BY <1>3, <1>4 DEF OnlyFetch
  <2>2. ASSUME ~ db
        PROVE  /\ DropsRight(rows, ch, box)
               /\ \A a \in Action \ f.of : Pending(ch, box, a) \/ ca[a] = Row(rows, a)
    <3>1. PICK h \in FetchTypes :
            /\ OnlyFetch(rows, ch, box, fs, h)
            /\ \A a \in Action \ h.of : Pending(ch, box, a) \/ ca[a] = Row(rows, a)
      BY <2>1, <2>2 DEF ThreadRight
    <3>2. h.of = f.of
      BY <1>3, <3>1
    <3> QED
      BY <2>2, <3>1, <3>2 DEF ThreadRight
  <2> HIDE DEF fs2
  <2> QED
    BY <2>1, <2>2 DEF ThreadRight
<1> QED
  BY <1>2, <1>4 DEF ThreadRight

(* A fetch is answered: the cache has what it found.                         *)
LEMMA AnsweredRight ==
  ASSUME NEW rows, NEW ch \in Seq(Messages), NEW box \in Seq(Messages), NEW ca, NEW fs \in Seq(FetchTypes), NEW db \in BOOLEAN,
         ThreadRight(rows, ch, box, ca, fs, db), NEW k \in DOMAIN fs, fs[k].at = "answer",
         NEW ca2, \A a \in Action : ca2[a] = IF a \in fs[k].of THEN fs[k].found[a] ELSE ca[a],
         NEW db2 \in BOOLEAN,
         db2 = (db /\ ~ (fs[k].alone /\ fs[k].all /\ box = <<>> /\ ch = <<>>))
  PROVE  ThreadRight(rows, ch, box, ca2, RemoveAt(fs, k), db2)
<1>0. fs[k] \in FetchTypes
  OBVIOUS
<1>1. CASE ~ \E g \in FetchTypes : OnlyFetch(rows, ch, box, fs, g)
  <2>1. fs \in Seq(Shared) /\ ~ fs[k].alone /\ fs # <<>>
    BY <1>1 DEF ThreadRight, Shared
  <2>2. RemoveAt(fs, k) \in Seq(Shared)
    BY <2>1, Removed
  <2>3. db /\ db2
    BY <1>1, <2>1 DEF ThreadRight
  <2> QED
    BY <2>2, <2>3 DEF ThreadRight
<1>2. ASSUME NEW g \in FetchTypes, OnlyFetch(rows, ch, box, fs, g)
      PROVE  ThreadRight(rows, ch, box, ca2, RemoveAt(fs, k), db2)
  <2>1. fs = <<g>> /\ k = 1 /\ fs[k] = g /\ Len(fs) = 1
    BY <1>2 DEF OnlyFetch
  <2>2. RemoveAt(fs, k) = <<>>
    <3>1. \A i \in DOMAIN fs : Len(fs) = 1 => RemoveAt(fs, i) = <<>>
      BY Removed
    <3> QED
      BY <2>1, <3>1
  <2>0. <<>> \in Seq(Shared)
    OBVIOUS
  <2>3. \A a \in g.of : g.found[a] = Row(rows, a) \/ Pending(ch, box, a)
    BY <1>2, <2>1 DEF OnlyFetch, Coming
  <2>4. ASSUME ~ db2
        PROVE  DropsRight(rows, ch, box) /\ \A a \in Action : Pending(ch, box, a) \/ ca2[a] = Row(rows, a)
    <3>1. CASE ~ db
      <4>1. PICK h \in FetchTypes :
              /\ OnlyFetch(rows, ch, box, fs, h)
              /\ \A a \in Action \ h.of : Pending(ch, box, a) \/ ca[a] = Row(rows, a)
        BY <2>1, <3>1 DEF ThreadRight
      <4>2. h = g
        BY <2>1, <4>1 DEF OnlyFetch
      <4> QED
        BY <2>1, <2>3, <3>1, <4>1, <4>2 DEF ThreadRight
    <3>2. CASE db
      <4>1. g.all /\ box = <<>> /\ ch = <<>>
        BY <2>1, <2>4, <3>2
      <4>2. g.of = Action
        BY <4>1 DEF FetchTypes
      <4>3. DropsRight(rows, ch, box)
        BY <4>1 DEF DropsRight
      <4> QED
        BY <2>1, <2>3, <4>2, <4>3
    <3> QED
      BY <3>1, <3>2
  <2> QED
    BY <2>0, <2>2, <2>4 DEF ThreadRight
<1> QED
  BY <1>1, <1>2

-----------------------------------------------------------------------------
(* Every step keeps the invariant. *)

LEMMA InitActionsIInv == ActionsInit => ActionsIInv
<1> SUFFICES ASSUME ActionsInit PROVE ActionsIInv
  OBVIOUS
<1> DEFINE f == NewFetch(Action, TRUE)
<1>1. f \in FetchTypes /\ f.alone /\ f.at = "rows" /\ f.of = Action
  BY ActionsAssumption, NewFetchIs
<1> HIDE DEF f
<1>2. NoAction \in Entries
  BY DEF NoAction, Entries
<1>3. /\ channel = <<>> /\ subscribed = FALSE /\ losses = 0
      /\ inbox = [t \in Thread |-> <<>>] /\ ready = [t \in Thread |-> FALSE]
      /\ cache = [t \in Thread |-> [a \in Action |-> NoAction]]
      /\ fetches = [t \in Thread |-> <<f>>] /\ doubt = [t \in Thread |-> FALSE]
  BY DEF ActionsInit, f
<1>4. stored \in ActionRows /\ \A a \in Action : stored[a].there => stored[a].version > 0
  <2>1. stored \in [Action -> {[version |-> 0, there |-> FALSE], [version |-> 1, there |-> TRUE]}]
    BY DEF ActionsInit
  <2>2. 0 \in 0 .. MaxVersion /\ 1 \in 0 .. MaxVersion /\ 1 > 0
    BY ActionsAssumption
  <2>3. ASSUME NEW a \in Action
        PROVE  /\ stored[a] \in [version : 0 .. MaxVersion, there : BOOLEAN]
               /\ stored[a].there => stored[a].version > 0
    <3>1. stored[a] \in {[version |-> 0, there |-> FALSE], [version |-> 1, there |-> TRUE]}
      BY <2>1
    <3>2. CASE stored[a] = [version |-> 0, there |-> FALSE]
      BY <2>2, <3>2
    <3>3. CASE stored[a] = [version |-> 1, there |-> TRUE]
      BY <2>2, <3>3
    <3> QED
      BY <3>1, <3>2, <3>3
  <2>4. stored = [a \in Action |-> stored[a]]
    BY <2>1
  <2> QED
    BY <2>3, <2>4 DEF ActionRows
<1>5. TypesOK
  <2>1. <<f>> \in Seq(FetchTypes) /\ <<>> \in Seq(Messages)
    BY <1>1
  <2>2. losses \in 0 .. MaxLosses
    BY <1>3, ActionsAssumption
  <2>3. inbox \in [Thread -> Seq(Messages)] /\ fetches \in [Thread -> Seq(FetchTypes)]
    BY <1>3, <2>1
  <2>4. cache \in [Thread -> [Action -> Entries]]
    BY <1>2, <1>3
  <2>5. /\ channel \in Seq(Messages) /\ subscribed \in BOOLEAN
        /\ ready \in [Thread -> BOOLEAN] /\ doubt \in [Thread -> BOOLEAN]
    BY <1>3, <2>1
  <2> QED
    BY <1>4, <2>2, <2>3, <2>4, <2>5 DEF TypesOK
<1>6. DropsRight(stored, <<>>, <<>>)
  BY DEF DropsRight
<1>7. OnlyFetch(stored, <<>>, <<>>, <<f>>, f)
  BY <1>1 DEF OnlyFetch, Coming
<1>8. \A t \in Thread : ThreadRight(stored, channel, inbox[t], cache[t], fetches[t], doubt[t])
  BY <1>1, <1>3, <1>6, <1>7 DEF ThreadRight
<1> QED
  BY <1>5, <1>8 DEF ActionsIInv, ThreadsRight

(* Threads in doubt whose fetches are disturbed.                             *)
LEMMA DisturbRight ==
  ASSUME TypesOK, NEW ts, Disturb(ts)
  PROVE  /\ doubt' \in [Thread -> BOOLEAN] /\ fetches' \in [Thread -> Seq(FetchTypes)]
         /\ \A t \in Thread : t \in ts => doubt'[t] = TRUE /\ fetches'[t] \in Seq(Shared)
         /\ \A t \in Thread : t \notin ts => doubt'[t] = doubt[t] /\ fetches'[t] = fetches[t]
<1>1. \A t \in Thread : Alone(fetches[t], FALSE) \in Seq(Shared) /\ Alone(fetches[t], FALSE) \in Seq(FetchTypes)
  BY AreShared, SharedAreFetches DEF TypesOK
<1>2. /\ doubt' = [t \in Thread |-> doubt[t] \/ t \in ts]
      /\ fetches' = [t \in Thread |-> IF t \in ts THEN Alone(fetches[t], FALSE) ELSE fetches[t]]
  BY DEF Disturb
<1>3. \A t \in Thread : doubt[t] \in BOOLEAN /\ fetches[t] \in Seq(FetchTypes)
  BY DEF TypesOK
<1>4. \A t \in Thread : t \in ts => doubt'[t] = TRUE /\ fetches'[t] \in Seq(Shared)
  BY <1>1, <1>2
<1>5. \A t \in Thread : t \notin ts => doubt'[t] = doubt[t] /\ fetches'[t] = fetches[t]
  BY <1>2, <1>3
<1>6. doubt' \in [Thread -> BOOLEAN]
  BY <1>2
<1>7. fetches' \in [Thread -> Seq(FetchTypes)]
  BY <1>1, <1>2, <1>3
<1> QED
  BY <1>4, <1>5, <1>6, <1>7

LEMMA AllInDoubt ==
  ASSUME TypesOK, Disturb(Thread)
  PROVE  ThreadsRight'
<1> SUFFICES ASSUME NEW t \in Thread
             PROVE  ThreadRight(stored', channel', inbox'[t], cache'[t], fetches'[t], doubt'[t])
  BY DEF ThreadsRight
<1>1. doubt'[t] = TRUE /\ fetches'[t] \in Seq(Shared)
  BY DisturbRight
<1>2. ThreadRight(stored', channel', inbox'[t], cache'[t], fetches'[t], TRUE)
  BY <1>1, InDoubt
<1> QED
  BY <1>1, <1>2

LEMMA SavePreserves ==
  ASSUME ActionsIInv, NEW a \in Action, Save(a)
  PROVE  ActionsIInv'
<1> DEFINE m == Message("reloadAction", a)
           row == [version |-> stored[a].version + 1, there |-> TRUE]
<1>1. m \in Messages
  BY DEF Message, Messages
<1>2. TypesOK /\ ThreadsRight
  BY DEF ActionsIInv
<1>3. stored' = [stored EXCEPT ![a] = row]
      /\ UNCHANGED <<subscribed, inbox, ready, cache, losses>>
  BY DEF Save
<1>4. stored' \in ActionRows /\ \A b \in Action : stored'[b].there => stored'[b].version > 0
  <2>1. stored[a].version \in 0 .. MaxVersion /\ stored[a].version < MaxVersion
    BY <1>2 DEF TypesOK, ActionRows, Save
  <2>2. row \in [version : 0 .. MaxVersion, there : BOOLEAN] /\ row.version > 0
    BY <2>1, ActionsAssumption
  <2>3. stored \in ActionRows /\ \A b \in Action : stored[b].there => stored[b].version > 0
    BY <1>2 DEF TypesOK
  <2> HIDE DEF row
  <2> QED
    BY <1>3, <2>2, <2>3 DEF ActionRows
<1>5. CASE subscribed
  <2>1. channel' = Append(channel, m) /\ UNCHANGED <<doubt, fetches>>
    BY <1>5 DEF Save, Publish
  <2>2. channel' \in Seq(Messages)
    BY <1>1, <1>2, <2>1 DEF TypesOK
  <2>3. TypesOK'
    BY <1>2, <1>3, <1>4, <2>1, <2>2 DEF TypesOK
  <2> HIDE DEF row
  <2>4. ASSUME NEW t \in Thread
        PROVE  ThreadRight(stored', channel', inbox'[t], cache'[t], fetches'[t], doubt'[t])
    BY <1>2, <1>3, <2>1, SavedRight DEF ThreadsRight, TypesOK
  <2> QED
    BY <2>3, <2>4 DEF ActionsIInv, ThreadsRight
<1>6. CASE ~ subscribed
  <2>1. UNCHANGED channel /\ Disturb(Thread)
    BY <1>6 DEF Save, Publish
  <2>2. TypesOK'
    BY <1>2, <1>3, <1>4, <2>1, DisturbRight DEF TypesOK
  <2>3. ThreadsRight'
    BY <1>2, <2>1, AllInDoubt
  <2> QED
    BY <2>2, <2>3 DEF ActionsIInv
<1> QED
  BY <1>5, <1>6

LEMMA DeletePreserves ==
  ASSUME ActionsIInv, NEW a \in Action, Delete(a)
  PROVE  ActionsIInv'
<1> DEFINE m == Message("dropAction", a)
<1>1. m \in Messages
  BY DEF Message, Messages
<1>2. TypesOK /\ ThreadsRight
  BY DEF ActionsIInv
<1>3. stored' = [stored EXCEPT ![a].there = FALSE]
      /\ UNCHANGED <<subscribed, inbox, ready, cache, losses>>
  BY DEF Delete
<1>4. stored' \in ActionRows /\ \A b \in Action : stored'[b].there => stored'[b].version > 0
  BY <1>2, <1>3 DEF ActionRows, TypesOK
<1>5. CASE subscribed
  <2>1. channel' = Append(channel, m) /\ UNCHANGED <<doubt, fetches>>
    BY <1>5 DEF Delete, Publish
  <2>2. channel' \in Seq(Messages)
    BY <1>1, <1>2, <2>1 DEF TypesOK
  <2>3. TypesOK'
    BY <1>2, <1>3, <1>4, <2>1, <2>2 DEF TypesOK
  <2>4. ASSUME NEW t \in Thread
        PROVE  ThreadRight(stored', channel', inbox'[t], cache'[t], fetches'[t], doubt'[t])
    BY <1>2, <1>3, <2>1, DeletedRight DEF ThreadsRight, TypesOK
  <2> QED
    BY <2>3, <2>4 DEF ActionsIInv, ThreadsRight
<1>6. CASE ~ subscribed
  <2>1. UNCHANGED channel /\ Disturb(Thread)
    BY <1>6 DEF Delete, Publish
  <2>2. TypesOK'
    BY <1>2, <1>3, <1>4, <2>1, DisturbRight DEF TypesOK
  <2>3. ThreadsRight'
    BY <1>2, <2>1, AllInDoubt
  <2> QED
    BY <2>2, <2>3 DEF ActionsIInv
<1> QED
  BY <1>5, <1>6

LEMMA ChannelPreserves ==
  ASSUME ActionsIInv, Subscribe \/ OnMessage \/ LoseMessage \/ ActionsReload
  PROVE  ActionsIInv'
<1>1. TypesOK /\ ThreadsRight
  BY DEF ActionsIInv
<1>2. CASE Subscribe
  BY <1>1, <1>2 DEF Subscribe, ActionsIInv, TypesOK, ThreadsRight
<1>3. CASE OnMessage
  <2>1. channel # <<>> /\ Head(channel) \in Messages /\ Tail(channel) \in Seq(Messages)
    BY <1>1, <1>3, HeadAndTail DEF OnMessage, TypesOK
  <2>2. /\ inbox' = [t \in Thread |-> Append(inbox[t], Head(channel))] /\ channel' = Tail(channel)
        /\ UNCHANGED <<stored, subscribed, ready, cache, fetches, losses, doubt>>
    BY <1>3 DEF OnMessage, Broadcast
  <2>3. TypesOK'
    BY <1>1, <2>1, <2>2 DEF TypesOK
  <2>4. ASSUME NEW t \in Thread
        PROVE  ThreadRight(stored', channel', inbox'[t], cache'[t], fetches'[t], doubt'[t])
    BY <1>1, <2>1, <2>2, BroadcastRight DEF ThreadsRight, TypesOK
  <2> QED
    BY <2>3, <2>4 DEF ActionsIInv, ThreadsRight
<1>4. CASE LoseMessage
  <2>1. channel # <<>> /\ Tail(channel) \in Seq(Messages)
    BY <1>1, <1>4, HeadAndTail DEF LoseMessage, TypesOK
  <2>2. /\ channel' = Tail(channel) /\ Disturb(Thread) /\ losses' = losses + 1 /\ losses < MaxLosses
        /\ UNCHANGED <<stored, subscribed, inbox, ready, cache>>
    BY <1>4 DEF LoseMessage
  <2>3. losses' \in 0 .. MaxLosses
    BY <1>1, <2>2, ActionsAssumption DEF TypesOK
  <2>4. TypesOK'
    BY <1>1, <2>1, <2>2, <2>3, DisturbRight DEF TypesOK
  <2>5. ThreadsRight'
    BY <1>1, <2>2, AllInDoubt
  <2> QED
    BY <2>4, <2>5 DEF ActionsIInv
<1>5. CASE ActionsReload
  <2>1. /\ inbox' = [t \in Thread |-> Append(inbox[t], ReloadAll)]
        /\ UNCHANGED <<stored, channel, subscribed, ready, cache, fetches, losses, doubt>>
    BY <1>5 DEF ActionsReload, Broadcast
  <2>2. TypesOK'
    BY <1>1, <2>1, ReloadAllIsMessage DEF TypesOK
  <2>3. ASSUME NEW t \in Thread
        PROVE  ThreadRight(stored', channel', inbox'[t], cache'[t], fetches'[t], doubt'[t])
    BY <1>1, <2>1, ReloadAllRight DEF ThreadsRight, TypesOK
  <2> QED
    BY <2>2, <2>3 DEF ActionsIInv, ThreadsRight
<1> QED
  BY <1>2, <1>3, <1>4, <1>5

(* A step of one thread, that changes its inbox, cache, fetches and doubt.   *)
LEMMA OneThreadRight ==
  ASSUME ThreadsRight, NEW t \in Thread, UNCHANGED <<stored, channel>>,
         \A u \in Thread : u # t => /\ inbox'[u] = inbox[u] /\ cache'[u] = cache[u]
                                    /\ fetches'[u] = fetches[u] /\ doubt'[u] = doubt[u],
         ThreadRight(stored, channel, inbox'[t], cache'[t], fetches'[t], doubt'[t])
  PROVE  ThreadsRight'
<1> SUFFICES ASSUME NEW u \in Thread
             PROVE  ThreadRight(stored', channel', inbox'[u], cache'[u], fetches'[u], doubt'[u])
  BY DEF ThreadsRight
<1>1. CASE u = t
  BY <1>1
<1>2. CASE u # t
  BY <1>2 DEF ThreadsRight
<1> QED
  BY <1>1, <1>2

(* A reload starts. *)
LEMMA StartFetchPreserves ==
  ASSUME ActionsIInv, NEW t \in Thread, inbox[t] # <<>>,
         inbox' = [inbox EXCEPT ![t] = Tail(inbox[t])],
         NEW f \in FetchTypes, f.alone, f.at = "rows", StartFetch(t, f),
         \A a \in Action : Concerns(Head(inbox[t]), a) => a \in f.of,
         UNCHANGED <<stored, channel, subscribed, ready, cache, losses>>
  PROVE  ActionsIInv'
<1>1. TypesOK /\ ThreadsRight
  BY DEF ActionsIInv
<1>2. inbox[t] \in Seq(Messages) /\ Tail(inbox[t]) \in Seq(Messages) /\ fetches[t] \in Seq(FetchTypes)
      /\ channel \in Seq(Messages) /\ doubt[t] \in BOOLEAN
  BY <1>1, HeadAndTail DEF TypesOK
<1>3. inbox' \in [Thread -> Seq(Messages)] /\ inbox'[t] = Tail(inbox[t])
      /\ \A u \in Thread : u # t => inbox'[u] = inbox[u]
  BY <1>1, <1>2 DEF TypesOK
<1>4. CASE fetches[t] = <<>>
  <2>1. fetches' = [fetches EXCEPT ![t] = <<f>>] /\ UNCHANGED doubt
    BY <1>4 DEF StartFetch
  <2>2. <<f>> \in Seq(FetchTypes)
    OBVIOUS
  <2>3. fetches' \in [Thread -> Seq(FetchTypes)] /\ fetches'[t] = <<f>>
        /\ \A u \in Thread : u # t => fetches'[u] = fetches[u]
    BY <1>1, <2>1, <2>2 DEF TypesOK
  <2>4. TypesOK'
    BY <1>1, <1>3, <2>1, <2>3 DEF TypesOK
  <2>5. ThreadRight(stored, channel, inbox[t], cache[t], <<>>, doubt[t])
    BY <1>1, <1>4 DEF ThreadsRight
  <2>6. ThreadRight(stored, channel, Tail(inbox[t]), cache[t], <<f>>, doubt[t])
    BY <1>2, <2>5, StartedRight
  <2>7. ThreadsRight'
    BY <1>1, <1>3, <2>1, <2>3, <2>6, OneThreadRight
  <2> QED
    BY <2>4, <2>7 DEF ActionsIInv
<1>5. CASE fetches[t] # <<>>
  <2> DEFINE fs == Append(fetches[t], f)
  <2>1. fetches' = [fetches EXCEPT ![t] = Alone(fs, FALSE)] /\ doubt' = [doubt EXCEPT ![t] = TRUE]
    BY <1>5 DEF StartFetch
  <2>2. fs \in Seq(FetchTypes)
    BY <1>2
  <2> HIDE DEF fs
  <2>3. Alone(fs, FALSE) \in Seq(Shared) /\ Alone(fs, FALSE) \in Seq(FetchTypes)
    BY <2>2, AreShared, SharedAreFetches
  <2>4. /\ fetches' \in [Thread -> Seq(FetchTypes)] /\ fetches'[t] \in Seq(Shared)
        /\ doubt' \in [Thread -> BOOLEAN] /\ doubt'[t] = TRUE
        /\ \A u \in Thread : u # t => fetches'[u] = fetches[u] /\ doubt'[u] = doubt[u]
    BY <1>1, <2>1, <2>3 DEF TypesOK
  <2>5. TypesOK'
    BY <1>1, <1>3, <2>4 DEF TypesOK
  <2>6. ThreadRight(stored, channel, inbox'[t], cache'[t], fetches'[t], doubt'[t])
    BY <2>4, InDoubt
  <2>7. ThreadsRight'
    BY <1>1, <1>3, <2>4, <2>6, OneThreadRight
  <2> QED
    BY <2>5, <2>7 DEF ActionsIInv
<1> QED
  BY <1>4, <1>5

LEMMA DropPreserves ==
  ASSUME ActionsIInv, NEW t \in Thread, inbox[t] # <<>>,
         inbox' = [inbox EXCEPT ![t] = Tail(inbox[t])],
         Head(inbox[t]).name = "dropAction", DropAction(t, Head(inbox[t]).action),
         UNCHANGED <<stored, channel, subscribed, ready, losses>>
  PROVE  ActionsIInv'
<1> DEFINE m == Head(inbox[t])
           ca == [cache[t] EXCEPT ![m.action] = NoAction]
<1>1. TypesOK /\ ThreadsRight
  BY DEF ActionsIInv
<1>2. inbox[t] \in Seq(Messages) /\ Tail(inbox[t]) \in Seq(Messages) /\ m \in Messages
      /\ channel \in Seq(Messages) /\ doubt[t] \in BOOLEAN /\ stored \in ActionRows
      /\ cache[t] \in [Action -> Entries]
  BY <1>1, HeadAndTail DEF TypesOK
<1>3. inbox' \in [Thread -> Seq(Messages)] /\ inbox'[t] = Tail(inbox[t])
      /\ \A u \in Thread : u # t => inbox'[u] = inbox[u]
  BY <1>1, <1>2 DEF TypesOK
<1>4. cache' = [cache EXCEPT ![t] = ca]
  BY DEF DropAction
<1>5. ca \in [Action -> Entries]
  <2>1. NoAction \in Entries /\ m.action \in Action
    BY <1>2 DEF NoAction, Entries, Messages
  <2> QED
    BY <1>2, <2>1
<1> HIDE DEF ca
<1>6. cache' \in [Thread -> [Action -> Entries]] /\ cache'[t] = ca
      /\ \A u \in Thread : u # t => cache'[u] = cache[u]
  BY <1>1, <1>4, <1>5 DEF TypesOK
<1>7. CASE fetches[t] = <<>>
  <2>1. UNCHANGED <<doubt, fetches>>
    BY <1>7 DEF DropAction
  <2>2. TypesOK'
    BY <1>1, <1>3, <1>6, <2>1 DEF TypesOK
  <2>3. ThreadRight(stored, channel, inbox[t], cache[t], <<>>, doubt[t])
    BY <1>1, <1>7 DEF ThreadsRight
  <2>4. ThreadRight(stored, channel, Tail(inbox[t]), ca, <<>>, doubt[t])
    BY <1>2, <2>3, DroppedRight DEF ca
  <2>5. ThreadsRight'
    BY <1>1, <1>3, <1>6, <1>7, <2>1, <2>4, OneThreadRight
  <2> QED
    BY <2>2, <2>5 DEF ActionsIInv
<1>8. CASE fetches[t] # <<>>
  <2>1. Disturb({t})
    BY <1>8 DEF DropAction
  <2>2. /\ doubt' \in [Thread -> BOOLEAN] /\ fetches' \in [Thread -> Seq(FetchTypes)]
        /\ doubt'[t] = TRUE /\ fetches'[t] \in Seq(Shared)
        /\ \A u \in Thread : u # t => doubt'[u] = doubt[u] /\ fetches'[u] = fetches[u]
    <3>1. t \in {t} /\ \A u \in Thread : u # t => u \notin {t}
      OBVIOUS
    <3> QED
      BY <1>1, <2>1, <3>1, DisturbRight
  <2>3. TypesOK'
    BY <1>1, <1>3, <1>6, <2>2 DEF TypesOK
  <2>4. ThreadRight(stored, channel, inbox'[t], cache'[t], fetches'[t], doubt'[t])
    BY <2>2, InDoubt
  <2>5. ThreadsRight'
    BY <1>1, <1>3, <1>6, <2>2, <2>4, OneThreadRight
  <2> QED
    BY <2>3, <2>5 DEF ActionsIInv
<1> QED
  BY <1>7, <1>8

LEMMA StartTaskPreserves ==
  ASSUME ActionsIInv, NEW t \in Thread, StartTask(t)
  PROVE  ActionsIInv'
<1> DEFINE m == Head(inbox[t])
<1>1. inbox[t] # <<>> /\ inbox' = [inbox EXCEPT ![t] = Tail(inbox[t])]
      /\ UNCHANGED <<stored, channel, subscribed, ready, losses>>
  BY DEF StartTask
<1>2. m \in Messages
  BY <1>1, HeadAndTail DEF ActionsIInv, TypesOK
<1>3. CASE m.name = "reloadAction" /\ StartFetch(t, NewFetch({m.action}, FALSE)) /\ UNCHANGED cache
  <2> DEFINE f == NewFetch({m.action}, FALSE)
  <2>1. f \in FetchTypes /\ f.alone /\ f.at = "rows" /\ f.of = {m.action}
    BY <1>2, NewFetchIs DEF Messages
  <2>2. \A a \in Action : Concerns(m, a) => a \in f.of
    BY <1>3, <2>1 DEF Concerns
  <2> HIDE DEF f
  <2>3. StartFetch(t, f)
    BY <1>3 DEF f
  <2> QED
    BY <1>1, <1>3, <2>1, <2>2, <2>3, StartFetchPreserves
<1>4. CASE m = ReloadAll /\ StartFetch(t, NewFetch(Action, TRUE)) /\ UNCHANGED cache
  <2> DEFINE f == NewFetch(Action, TRUE)
  <2>1. f \in FetchTypes /\ f.alone /\ f.at = "rows" /\ f.of = Action
    BY ActionsAssumption, NewFetchIs
  <2> HIDE DEF f
  <2>2. StartFetch(t, f)
    BY <1>4 DEF f
  <2> QED
    BY <1>1, <1>4, <2>1, <2>2, StartFetchPreserves
<1>5. CASE m.name = "dropAction" /\ DropAction(t, m.action)
  BY <1>1, <1>5, DropPreserves
<1> QED
  BY <1>3, <1>4, <1>5 DEF StartTask

-----------------------------------------------------------------------------
LEMMA FetchGoesOnPreserves ==
  ASSUME ActionsIInv, NEW t \in Thread, NEW k \in DOMAIN fetches[t], NEW at \in {"steps", "answer"},
         NEW found \in [Action -> Entries], SetFetch(t, k, at, found),
         \A a \in fetches[t][k].of : Coming(stored, fetches[t][k], a) =>
            \/ at = "steps" /\ found[a].row = Row(stored, a).row /\ found[a].steps = 0
            \/ at = "answer" /\ found[a] = Row(stored, a),
         UNCHANGED <<stored, channel, subscribed, inbox, ready, cache, losses, doubt>>
  PROVE  ActionsIInv'
<1> DEFINE fs == fetches[t]
           f == [fs[k] EXCEPT !.at = at, !.found = found]
<1>1. TypesOK /\ ThreadsRight
  BY DEF ActionsIInv
<1>2. fs \in Seq(FetchTypes) /\ fs[k] \in FetchTypes
  BY <1>1 DEF TypesOK
<1>3. /\ f \in FetchTypes /\ f.of = fs[k].of /\ f.alone = fs[k].alone
      /\ f.at = at /\ f.found = found
  <2>1. ASSUME NEW g \in FetchTypes
        PROVE  LET h == [g EXCEPT !.at = at, !.found = found]
               IN /\ h \in FetchTypes /\ h.of = g.of /\ h.alone = g.alone
                  /\ h.at = at /\ h.found = found
    BY DEF FetchTypes
  <2> QED
    BY <1>2, <2>1
<1>4. fetches' = [fetches EXCEPT ![t] = [fs EXCEPT ![k] = f]]
  BY DEF SetFetch
<1> HIDE DEF f
<1>5. \A a \in f.of : Coming(stored, fs[k], a) => Coming(stored, f, a)
  BY <1>3 DEF Coming
<1>6. [fs EXCEPT ![k] = f] \in Seq(FetchTypes)
  BY <1>2, <1>3, ExceptSeq
<1>7. fetches' \in [Thread -> Seq(FetchTypes)] /\ fetches'[t] = [fs EXCEPT ![k] = f]
      /\ \A u \in Thread : u # t => fetches'[u] = fetches[u]
  BY <1>1, <1>4, <1>6 DEF TypesOK
<1>8. TypesOK'
  BY <1>1, <1>7 DEF TypesOK
<1>9. ThreadRight(stored, channel, inbox[t], cache[t], fs, doubt[t])
  BY <1>1 DEF ThreadsRight
<1> HIDE DEF fs
<1>10. ThreadRight(stored, channel, inbox[t], cache[t], [fs EXCEPT ![k] = f], doubt[t])
  BY <1>2, <1>3, <1>5, <1>9, FetchGoesOn DEF fs
<1>11. ThreadsRight'
  BY <1>1, <1>7, <1>10, OneThreadRight
<1> QED
  BY <1>8, <1>11 DEF ActionsIInv

LEMMA FetchRowsPreserves ==
  ASSUME ActionsIInv, NEW t \in Thread, NEW k \in DOMAIN fetches[t], FetchRows(t, k)
  PROVE  ActionsIInv'
<1> DEFINE of == fetches[t][k].of
           at == IF \E a \in of : stored[a].there THEN "steps" ELSE "answer"
           found == [a \in Action |-> IF a \in of /\ stored[a].there
                                      THEN [row |-> stored[a].version, steps |-> 0] ELSE NoAction]
<1>1. fetches[t][k] \in FetchTypes /\ of \subseteq Action
  <2>1. fetches[t] \in Seq(FetchTypes)
    BY DEF ActionsIInv, TypesOK
  <2>2. fetches[t][k] \in FetchTypes
    BY <2>1
  <2> QED
    BY <2>2 DEF FetchTypes
<1>2. SetFetch(t, k, at, found)
      /\ UNCHANGED <<stored, channel, subscribed, inbox, ready, cache, losses, doubt>>
  BY DEF FetchRows
<1>3. \A a \in Action : stored[a].version \in Nat /\ (stored[a].there => stored[a].version > 0)
  BY ActionsAssumption DEF ActionsIInv, TypesOK, ActionRows
<1>4. found \in [Action -> Entries]
  <2>1. \A a \in Action : found[a] \in Entries
    BY <1>3 DEF NoAction, Entries
  <2> QED
    BY <2>1
<1>5. \A a \in of : \/ at = "steps" /\ found[a].row = Row(stored, a).row /\ found[a].steps = 0
                    \/ at = "answer" /\ found[a] = Row(stored, a)
  BY <1>1 DEF Row, NoAction
<1>6. at \in {"steps", "answer"}
  OBVIOUS
<1> HIDE DEF at, found
<1> QED
  BY <1>2, <1>4, <1>5, <1>6, FetchGoesOnPreserves

LEMMA FetchStepsPreserves ==
  ASSUME ActionsIInv, NEW t \in Thread, NEW k \in DOMAIN fetches[t], FetchSteps(t, k)
  PROVE  ActionsIInv'
<1> DEFINE fetch == fetches[t][k]
           found == fetch.found
           found2 == [a \in Action |->
                        IF found[a].row > 0 /\ (stored[a].there \/ ~ fetch.all)
                        THEN [found[a] EXCEPT !.steps = stored[a].version] ELSE found[a]]
<1>1. /\ fetch \in FetchTypes /\ fetch.of \subseteq Action /\ found \in [Action -> Entries]
      /\ fetch.at = "steps"
  <2>1. fetches[t] \in Seq(FetchTypes)
    BY DEF ActionsIInv, TypesOK
  <2>2. fetch \in FetchTypes
    BY <2>1
  <2> QED
    BY <2>2 DEF FetchTypes, FetchSteps
<1>2. SetFetch(t, k, "answer", found2)
      /\ UNCHANGED <<stored, channel, subscribed, inbox, ready, cache, losses, doubt>>
  BY DEF FetchSteps
<1>3. \A a \in Action : stored[a].version \in Nat /\ (stored[a].there => stored[a].version > 0)
  BY ActionsAssumption DEF ActionsIInv, TypesOK, ActionRows
<1>4. \A a \in Action : found[a] \in [row : Nat, steps : Nat] /\ (found[a].row = 0 => found[a] = NoAction)
  BY <1>1 DEF Entries
<1> HIDE DEF found
<1>5. ASSUME NEW a \in Action
      PROVE  /\ found2[a] \in Entries
             /\ found[a].row = Row(stored, a).row /\ found[a].steps = 0 => found2[a] = Row(stored, a)
  <2>1. CASE found[a].row > 0 /\ (stored[a].there \/ ~ fetch.all)
    <3>1. found2[a] = [row |-> found[a].row, steps |-> stored[a].version]
      BY <1>4, <2>1
    <3> QED
      BY <1>3, <1>4, <2>1, <3>1 DEF Entries, Row, NoAction
  <2>2. CASE ~ (found[a].row > 0 /\ (stored[a].there \/ ~ fetch.all))
    <3>1. found2[a] = found[a]
      BY <2>2
    <3> QED
      BY <1>3, <1>4, <2>2, <3>1 DEF Entries, Row, NoAction
  <2> QED
    BY <2>1, <2>2
<1>6. found2 \in [Action -> Entries]
  <2>1. found2 = [a \in Action |-> found2[a]]
    OBVIOUS
  <2> QED
    BY <1>5, <2>1
<1>7. \A a \in fetch.of : Coming(stored, fetch, a) => found2[a] = Row(stored, a)
  BY <1>1, <1>5 DEF Coming, found
<1> HIDE DEF found2
<1> QED
  BY <1>2, <1>6, <1>7, FetchGoesOnPreserves

LEMMA AnswerPreserves ==
  ASSUME ActionsIInv, NEW t \in Thread, NEW k \in DOMAIN fetches[t], Answer(t, k)
  PROVE  ActionsIInv'
<1> DEFINE f == fetches[t][k]
           ca == [a \in Action |-> IF a \in f.of THEN f.found[a] ELSE cache[t][a]]
           db == doubt[t] /\ ~ (f.alone /\ f.all /\ inbox[t] = <<>> /\ channel = <<>>)
<1>1. TypesOK /\ ThreadsRight
  BY DEF ActionsIInv
<1>2. /\ fetches[t] \in Seq(FetchTypes) /\ f \in FetchTypes /\ f.at = "answer"
      /\ cache[t] \in [Action -> Entries] /\ doubt[t] \in BOOLEAN
      /\ channel \in Seq(Messages) /\ inbox[t] \in Seq(Messages)
  BY <1>1 DEF TypesOK, Answer
<1>3. /\ cache' = [cache EXCEPT ![t] = ca] /\ ready' = [ready EXCEPT ![t] = TRUE]
      /\ fetches' = [fetches EXCEPT ![t] = RemoveAt(fetches[t], k)]
      /\ doubt' = [doubt EXCEPT ![t] = db]
      /\ UNCHANGED <<stored, channel, subscribed, inbox, losses>>
  BY DEF Answer, Answered, Undisturbed
<1>4. ca \in [Action -> Entries]
  BY <1>2 DEF FetchTypes
<1>5. RemoveAt(fetches[t], k) \in Seq(FetchTypes)
  BY <1>2, Removed
<1>6. db \in BOOLEAN
  BY <1>2 DEF FetchTypes
<1>7. \A a \in Action : ca[a] = IF a \in f.of THEN f.found[a] ELSE cache[t][a]
  OBVIOUS
<1>8. db = (doubt[t] /\ ~ (f.alone /\ f.all /\ inbox[t] = <<>> /\ channel = <<>>))
  OBVIOUS
<1> HIDE DEF ca, db
<1>9. /\ cache' \in [Thread -> [Action -> Entries]] /\ cache'[t] = ca
      /\ fetches' \in [Thread -> Seq(FetchTypes)] /\ fetches'[t] = RemoveAt(fetches[t], k)
      /\ doubt' \in [Thread -> BOOLEAN] /\ doubt'[t] = db
      /\ ready' \in [Thread -> BOOLEAN]
      /\ \A u \in Thread : u # t => /\ cache'[u] = cache[u] /\ fetches'[u] = fetches[u]
                                    /\ doubt'[u] = doubt[u]
  BY <1>1, <1>3, <1>4, <1>5, <1>6 DEF TypesOK
<1>10. TypesOK'
  BY <1>1, <1>3, <1>9 DEF TypesOK
<1>11. ThreadRight(stored, channel, inbox[t], cache[t], fetches[t], doubt[t])
  BY <1>1 DEF ThreadsRight
<1>12. ThreadRight(stored, channel, inbox[t], ca, RemoveAt(fetches[t], k), db)
  BY ZenonT(60), <1>2, <1>6, <1>7, <1>8, <1>11, AnsweredRight
<1>13. ThreadsRight'
  BY <1>1, <1>3, <1>9, <1>12, OneThreadRight
<1> QED
  BY <1>10, <1>13 DEF ActionsIInv

LEMMA FetchFailsPreserves ==
  ASSUME ActionsIInv, NEW t \in Thread, NEW k \in DOMAIN fetches[t], FetchFails(t, k)
  PROVE  ActionsIInv'
<1> DEFINE fs == RemoveAt(fetches[t], k)
<1>1. TypesOK /\ ThreadsRight
  BY DEF ActionsIInv
<1>2. fetches[t] \in Seq(FetchTypes)
  BY <1>1 DEF TypesOK
<1>3. fs \in Seq(FetchTypes)
  BY <1>2, Removed
<1>4. /\ losses' = losses + 1 /\ losses < MaxLosses
      /\ fetches' = [fetches EXCEPT ![t] = Alone(fs, FALSE)]
      /\ doubt' = [doubt EXCEPT ![t] = TRUE]
      /\ UNCHANGED <<stored, channel, subscribed, inbox, ready, cache>>
  BY DEF FetchFails
<1> HIDE DEF fs
<1>5. Alone(fs, FALSE) \in Seq(Shared) /\ Alone(fs, FALSE) \in Seq(FetchTypes)
  BY <1>3, AreShared, SharedAreFetches
<1>6. /\ fetches' \in [Thread -> Seq(FetchTypes)] /\ fetches'[t] \in Seq(Shared)
      /\ doubt' \in [Thread -> BOOLEAN] /\ doubt'[t] = TRUE
      /\ \A u \in Thread : u # t => fetches'[u] = fetches[u] /\ doubt'[u] = doubt[u]
  BY <1>1, <1>4, <1>5 DEF TypesOK
<1>7. losses' \in 0 .. MaxLosses
  BY <1>1, <1>4, ActionsAssumption DEF TypesOK
<1>8. TypesOK'
  BY <1>1, <1>4, <1>6, <1>7 DEF TypesOK
<1>9. ThreadRight(stored, channel, inbox'[t], cache'[t], fetches'[t], doubt'[t])
  BY <1>6, InDoubt
<1>10. ThreadsRight'
  BY <1>1, <1>4, <1>6, <1>9, OneThreadRight
<1> QED
  BY <1>8, <1>10 DEF ActionsIInv

LEMMA ActionsInvariance == ActionsNoFairness => []ActionsIInv
<1>1. ASSUME ActionsIInv, [ActionsNext]_actionsVars PROVE ActionsIInv'
  <2>1. CASE UNCHANGED actionsVars
    BY <1>1, <2>1 DEF actionsVars, ActionsIInv, TypesOK, ThreadsRight
  <2>2. ASSUME NEW t \in Thread, NEW k \in DOMAIN fetches[t], Fetching(t, k) \/ FetchFails(t, k)
        PROVE  ActionsIInv'
    BY <1>1, <2>2, FetchRowsPreserves, FetchStepsPreserves, AnswerPreserves, FetchFailsPreserves DEF Fetching
  <2> QED
    BY <1>1, <2>1, <2>2, ChannelPreserves, SavePreserves, DeletePreserves, StartTaskPreserves
    DEF ActionsNext
<1> QED
  BY <1>1, InitActionsIInv, PTL DEF ActionsNoFairness

(* ActionsOK: types, and whenever nothing is on the way and nothing under    *)
(* way, a thread's actions are those of Postgres, but for the mishaps that   *)
(* the five-minute reload is there for (ActionManager).                      *)
THEOREM ActionsOKHolds == ActionsSpec => []ActionsOK
<1>1. ActionsSpec => ActionsNoFairness
  BY DEF ActionsSpec, ActionsNoFairness
<1>2. ActionsIInv => ActionsTypeOK
  <2> SUFFICES ASSUME TypesOK PROVE ActionsTypeOK
    BY DEF ActionsIInv
  <2>1. ASSUME NEW t \in Thread, NEW a \in Action, cache[t][a].row = 0 PROVE cache[t][a] = NoAction
    <3>1. cache[t][a] \in Entries
      BY DEF TypesOK
    <3> QED
      BY <2>1, <3>1 DEF Entries
  <2>2. ASSUME NEW t \in Thread, NEW k \in DOMAIN fetches[t]
        PROVE  /\ fetches[t][k].at \in {"rows", "steps", "answer"}
               /\ fetches[t][k].of \subseteq Action /\ fetches[t][k].of # {}
               /\ fetches[t][k].all => fetches[t][k].of = Action
    <3>1. fetches[t] \in Seq(FetchTypes)
      BY DEF TypesOK
    <3>2. fetches[t][k] \in FetchTypes
      BY <3>1
    <3> QED
      BY <3>2 DEF FetchTypes
  <2> QED
    BY <2>1, <2>2 DEF TypesOK, ActionsTypeOK, ActionRows
<1>3. ActionsIInv => AgreesWhenQuiet
  <2> SUFFICES ASSUME ActionsIInv, channel = <<>>, NEW t \in Thread,
                      inbox[t] = <<>>, fetches[t] = <<>>, ~ doubt[t], NEW a \in Action
               PROVE  cache[t][a] = Stored(a)
    BY DEF AgreesWhenQuiet, Agrees
  <2>1. ThreadRight(stored, <<>>, <<>>, cache[t], <<>>, doubt[t])
    BY DEF ActionsIInv, ThreadsRight
  <2>2. ~ Pending(<<>>, <<>>, a)
    BY DEF Pending, ToSet
  <2>3. \A g : <<>> # <<g>>
    OBVIOUS
  <2> QED
    BY <2>1, <2>2, <2>3 DEF ThreadRight, OnlyFetch, Row, Stored
<1>4. ActionsOK <=> ActionsTypeOK /\ AgreesWhenQuiet
  BY DEF ActionsOK
<1> QED
  BY <1>1, <1>2, <1>3, <1>4, ActionsInvariance, PTL

-----------------------------------------------------------------------------
(* TeamDefinitions: handled events are defined, and their columns are those  *)
(* of Postgres, without a gap.                                               *)

(* What the database and the caches of the threads hold.                     *)
TablesOK ==
  /\ defined \subseteq Definition /\ ingested \in BOOLEAN
  /\ mapping \subseteq GroupType \X (0 .. MAX_GROUP_TYPES_PER_TEAM - 1)
  /\ teamCache \in [Worker -> SUBSET BOOLEAN]
  /\ namesCache \in [Worker -> [Kinds -> SUBSET SUBSET defined]]
  /\ groupsCache \in [Worker -> SUBSET SUBSET mapping]
  /\ reports \in Nat /\ handled \in 0 .. MaxEvents /\ failures \in 0 .. MaxFailures
  /\ unreported \in BOOLEAN /\ duplicated \subseteq GroupType
  /\ ColumnsAreDense

Inserting == {"insert", "inserting"}

(* What holds of a task d while defs are defined and map is the mapping: what *)
(* it has defined so far, and all of it when it has gone on; an answer it     *)
(* holds is still true; and it never tries an index past the first free one,  *)
(* unless another task has inserted its type meanwhile: then it inserts       *)
(* nothing.                                                                   *)
TaskOK(d, defs, map) ==
  /\ d \in Locals
  /\ \A j \in DOMAIN d.event.definitions : j < d.next => d.event.definitions[j] \in defs
  /\ d.at \in {"update", "members", "groups", "fetching", "insert", "inserting", "done"} =>
       ToSet(d.event.definitions) \subseteq defs
  /\ d.at = "defining" => d.next \in DOMAIN d.event.definitions
  /\ d.snapshot \subseteq map
  /\ d.at = "fetching" => d.event.groupType # {}
  /\ d.at \in Inserting =>
       /\ d.event.groupType # {}
       /\ d.index <= Cardinality(map) \/ \E m \in map : m[1] = The(d.event.groupType)
  /\ d.at = "inserting" => d.index < MAX_GROUP_TYPES_PER_TEAM
  /\ d.at = "done" /\ d.column # NoColumn =>
       \E type \in d.event.groupType : <<type, d.column>> \in map

IInv ==
  /\ TablesOK
  /\ doing \in [Handler -> Locals]
  /\ \A k \in Handler : TaskOK(doing[k], defined, mapping)

-----------------------------------------------------------------------------
(* The mapping has finitely many rows: types and columns are bounded.        *)
LEMMA MappingFinite ==
  ASSUME NEW map \in SUBSET (GroupType \X (0 .. MAX_GROUP_TYPES_PER_TEAM - 1))
  PROVE  IsFiniteSet(map)
<1>1. IsFiniteSet(0 .. MAX_GROUP_TYPES_PER_TEAM - 1)
  BY TeamAssumption, FS_Interval
<1>2. IsFiniteSet(GroupType \X (0 .. MAX_GROUP_TYPES_PER_TEAM - 1))
  BY <1>1, TeamAssumption, FS_Product
<1> QED
  BY <1>2, FS_Subset

(* A team's first group types have the first columns, one each.              *)
LEMMA FirstColumnsDense ==
  ASSUME NEW types \in SUBSET GroupType, Cardinality(types) <= MAX_GROUP_TYPES_PER_TEAM,
         NEW m \in FirstColumns(types)
  PROVE  /\ m \subseteq GroupType \X (0 .. MAX_GROUP_TYPES_PER_TEAM - 1)
         /\ {r[2] : r \in m} = 0 .. Cardinality(m) - 1
<1> DEFINE columns == 0 .. Cardinality(types) - 1
<1>1. IsFiniteSet(types) /\ Cardinality(types) \in Nat
  BY TeamAssumption, FS_Subset, FS_CardinalityType
<1>2. PICK f \in Bijection(columns, types) : m = {<<f[i], i>> : i \in columns}
  BY DEF FirstColumns
<1>3. f \in [columns -> types]
  BY <1>2 DEF Bijection, Injection
<1>4. m \subseteq GroupType \X (0 .. MAX_GROUP_TYPES_PER_TEAM - 1)
  <2> SUFFICES ASSUME NEW i \in columns
               PROVE  <<f[i], i>> \in GroupType \X (0 .. MAX_GROUP_TYPES_PER_TEAM - 1)
    BY <1>2
  <2> QED
    BY <1>1, <1>3, TeamAssumption
<1>5. {r[2] : r \in m} = columns
  <2>1. \A r \in m : r[2] \in columns
    BY <1>2
  <2>2. \A i \in columns : <<f[i], i>> \in m /\ <<f[i], i>>[2] = i
    BY <1>2
  <2> HIDE DEF columns
  <2> QED
    BY <2>1, <2>2
<1>6. Cardinality(m) = Cardinality(types)
  <2>1. IsFiniteSet(columns) /\ Cardinality(columns) = Cardinality(types)
    BY <1>1, FS_Interval
  <2> DEFINE g == [i \in columns |-> <<f[i], i>>]
  <2>2. g \in [columns -> m]
    BY <1>2
  <2>3. \A i, j \in columns : g[i] = g[j] => i = j
    BY <1>2
  <2>4. \A r \in m : \E i \in columns : g[i] = r
    BY <1>2
  <2>5. ExistsBijection(columns, m)
    BY <2>2, <2>3, <2>4 DEF ExistsBijection, Bijection, Injection, Surjection, IsInjective
  <2> QED
    BY <2>1, <2>5, FS_Bijection
<1> QED
  BY <1>4, <1>5, <1>6

(* What holds of a task goes on to hold when others add rows.                *)
LEMMA TaskOKGrows ==
  ASSUME NEW d, NEW defs, NEW map, NEW defs2, NEW map2, TaskOK(d, defs, map),
         defs \subseteq defs2, map \subseteq map2, IsFiniteSet(map2)
  PROVE  TaskOK(d, defs2, map2)
<1>1. /\ Cardinality(map) \in Nat /\ Cardinality(map2) \in Nat
      /\ Cardinality(map) <= Cardinality(map2)
  BY FS_Subset, FS_CardinalityType
<1>2. d.index \in Nat
  BY DEF TaskOK, Locals
<1> QED
  BY <1>1, <1>2 DEF TaskOK

(* A step of one task preserves the invariant if it does for its own task.   *)
LEMMA OneTaskMoves ==
  ASSUME IInv, NEW k \in Handler, NEW d, doing' = [doing EXCEPT ![k] = d],
         TaskOK(d, defined', mapping'), TablesOK', IsFiniteSet(mapping'),
         defined \subseteq defined', mapping \subseteq mapping'
  PROVE  IInv'
<1>1. d \in Locals /\ doing \in [Handler -> Locals]
  BY DEF TaskOK, IInv
<1>2. doing' \in [Handler -> Locals]
  BY <1>1
<1>3. ASSUME NEW j \in Handler PROVE TaskOK(doing'[j], defined', mapping')
  <2>1. CASE j = k
    BY <2>1, <1>1
  <2>2. CASE j # k
    BY <2>2, <1>1, TaskOKGrows DEF IInv
  <2> QED
    BY <2>1, <2>2
<1> QED
  BY <1>2, <1>3 DEF IInv

LEMMA InitIInv == TeamInit => IInv
<1> SUFFICES ASSUME TeamInit PROVE IInv
  OBVIOUS
<1> USE TeamAssumption DEF TeamInit
<1>1. mapping \subseteq GroupType \X (0 .. MAX_GROUP_TYPES_PER_TEAM - 1) /\ ColumnsAreDense
  BY FirstColumnsDense DEF ColumnsAreDense
<1>2. Idle \in Locals
  BY DEF Idle, Locals, NoEvent, NoColumn, Places
<1>3. TablesOK
  <2>1. /\ namesCache \in [Worker -> [Kinds -> SUBSET SUBSET defined]]
        /\ teamCache \in [Worker -> SUBSET BOOLEAN]
        /\ groupsCache \in [Worker -> SUBSET SUBSET mapping]
    OBVIOUS
  <2>2. 0 \in 0 .. MaxEvents /\ 0 \in 0 .. MaxFailures
    OBVIOUS
  <2>3. /\ defined \subseteq Definition /\ ingested \in BOOLEAN /\ reports \in Nat
        /\ unreported \in BOOLEAN /\ duplicated \subseteq GroupType
    OBVIOUS
  <2> QED
    BY <1>1, <2>1, <2>2, <2>3 DEF TablesOK
<1>4. TaskOK(Idle, defined, mapping)
  BY <1>2 DEF TaskOK, Idle, NoEvent, Inserting
<1> QED
  BY <1>2, <1>3, <1>4 DEF IInv

(* The mapping does not change: it stays finite, and dense.                  *)
LEMMA Unmapped ==
  ASSUME TablesOK, UNCHANGED mapping
  PROVE  IsFiniteSet(mapping') /\ ColumnsAreDense'
BY MappingFinite DEF TablesOK, ColumnsAreDense

-----------------------------------------------------------------------------
(* Every step preserves the invariant.                                       *)

LEMMA BeginPreserves ==
  ASSUME IInv, NEW k \in Handler, Begin(k)
  PROVE  IInv'
<1>1. PICK event \in Captured : doing' = [doing EXCEPT ![k] = [Idle EXCEPT !.at = "team", !.event = event]]
  BY DEF Begin
<1> DEFINE d == [Idle EXCEPT !.at = "team", !.event = event]
<1>2. d \in Locals
  <2>1. Idle \in Locals
    BY DEF Idle, Locals, NoEvent, NoColumn, Places
  <2> QED
    BY <2>1 DEF Locals, Places
<1>3. TaskOK(d, defined', mapping')
  <2>1. event.definitions \in Seq(Definition)
    BY TeamAssumption
  <2> QED
    BY <1>2, <2>1 DEF TaskOK, Idle, Inserting
<1>4. TablesOK'
  BY Unmapped, TeamAssumption DEF IInv, TablesOK, Begin, teamCaches
<1> QED
  BY <1>1, <1>3, <1>4, OneTaskMoves, Unmapped DEF IInv, Begin

(* The variables of a task that goes on to the groups.                       *)
LEMMA GroupsNext ==
  ASSUME NEW e \in Locals
  PROVE  LET d == [e EXCEPT !.at = "groups", !.next = 1, !.ingestedThen = FALSE]
         IN /\ d \in Locals /\ d.at = "groups"
            /\ d.event = e.event /\ d.snapshot = e.snapshot
<1> DEFINE a == [e EXCEPT !.at = "groups"]
           b == [a EXCEPT !.next = 1]
           c == [b EXCEPT !.ingestedThen = FALSE]
<1>1. a \in Locals
  BY DEF Locals, Places
<1>2. ASSUME NEW r \in Locals PROVE [r EXCEPT !.next = 1] \in Locals
  BY 1 \in Nat \ {0} DEF Locals
<1>3. ASSUME NEW r \in Locals PROVE [r EXCEPT !.ingestedThen = FALSE] \in Locals
  BY DEF Locals
<1>4. c \in Locals
  BY <1>1, <1>2, <1>3
<1>5. c = [e EXCEPT !.at = "groups", !.next = 1, !.ingestedThen = FALSE]
  BY DEF Locals
<1> QED
  BY <1>4, <1>5 DEF Locals

LEMMA FetchTeamAgainPreserves ==
  ASSUME IInv, NEW k \in Handler, FetchTeamAgain(k)
  PROVE  IInv'
<1> DEFINE d == [doing[k] EXCEPT !.at = "names", !.ingestedThen = Team(ThreadOf[k])]
<1>1. TaskOK(doing[k], defined, mapping) /\ doing[k] \in Locals /\ doing[k].at = "again"
  BY DEF IInv, FetchTeamAgain, At
<1>2. Team(ThreadOf[k]) \in BOOLEAN
  BY TeamAssumption DEF Team, The, IInv, TablesOK
<1>3. TablesOK'
  BY <1>2, Unmapped, TeamAssumption DEF IInv, TablesOK, FetchTeamAgain
<1>4. d \in Locals /\ d.at = "names" /\ d.event = doing[k].event
      /\ d.next = doing[k].next /\ d.snapshot = doing[k].snapshot
  <2>1. ASSUME NEW r \in Locals, NEW b \in BOOLEAN
        PROVE  LET e == [r EXCEPT !.at = "names", !.ingestedThen = b]
               IN /\ e \in Locals /\ e.at = "names" /\ e.event = r.event
                  /\ e.next = r.next /\ e.snapshot = r.snapshot
    BY DEF Locals, Places
  <2> QED
    BY <1>1, <1>2, <2>1
<1>5. doing' = [doing EXCEPT ![k] = d]
  BY DEF FetchTeamAgain
<1> HIDE DEF d
<1>6. TaskOK(d, defined', mapping')
  BY <1>1, <1>4 DEF TaskOK, Inserting, FetchTeamAgain
<1> QED
  BY <1>3, <1>5, <1>6, OneTaskMoves, Unmapped DEF IInv, FetchTeamAgain

(* A task that only goes on to a place of the same kind.                     *)
LEMMA GoesOn ==
  ASSUME IInv, NEW k \in Handler, NEW place \in Places, MoveTask(k, place), TablesOK',
         UNCHANGED <<defined, mapping>>,
         \/ place \in {"properties", "define", "again"}
         \/ place = "defining" /\ doing[k].next \in DOMAIN doing[k].event.definitions
         \/ place = "update" /\ ToSet(doing[k].event.definitions) \subseteq defined
         \/ place = "members" /\ doing[k].at = "update"
  PROVE  IInv'
<1> DEFINE d == [doing[k] EXCEPT !.at = place]
<1>1. TaskOK(doing[k], defined, mapping) /\ doing[k] \in Locals
  BY DEF IInv
<1>2. d \in Locals /\ d.at = place /\ d.event = doing[k].event
      /\ d.next = doing[k].next /\ d.snapshot = doing[k].snapshot
  BY <1>1 DEF Locals
<1>3. doing' = [doing EXCEPT ![k] = d]
  BY DEF MoveTask
<1> HIDE DEF d
<1>4. TaskOK(d, defined', mapping')
  BY <1>1, <1>2 DEF TaskOK, Inserting
<1> QED
  BY <1>3, <1>4, OneTaskMoves, Unmapped DEF IInv

LEMMA CacheNamesPreserves ==
  ASSUME IInv, NEW k \in Handler, NEW kind \in Kinds, NEW from, NEW to \in {"properties", "define"},
         CacheNames(k, kind, from, to)
  PROVE  IInv'
<1>1. namesCache' \in [Worker -> [Kinds -> SUBSET SUBSET defined]]
  BY TeamAssumption DEF IInv, TablesOK, CacheNames
<1>2. TablesOK'
  BY <1>1, Unmapped DEF IInv, TablesOK, CacheNames
<1> QED
  BY <1>2, GoesOn DEF CacheNames, Places

LEMMA UpdateTeamPreserves ==
  ASSUME IInv, NEW k \in Handler, UpdateTeam(k)
  PROVE  IInv'
<1>1. TablesOK'
  BY Unmapped DEF IInv, TablesOK, UpdateTeam, teamCaches
<1> QED
  BY <1>1, GoesOn DEF UpdateTeam, At, Places

(* A task with nothing left to define goes on to the groups.                 *)
LEMMA ToGroupsPreserves ==
  ASSUME IInv, NEW k \in Handler, ToGroups(k), TablesOK', UNCHANGED <<defined, mapping>>,
         ToSet(doing[k].event.definitions) \subseteq defined
  PROVE  IInv'
<1> DEFINE d == [doing[k] EXCEPT !.at = "groups", !.next = 1, !.ingestedThen = FALSE]
<1>1. TaskOK(doing[k], defined, mapping) /\ doing[k] \in Locals
  BY DEF IInv
<1>2. d \in Locals /\ d.at = "groups" /\ d.event = doing[k].event /\ d.snapshot = doing[k].snapshot
  BY <1>1, GroupsNext
<1>3. doing' = [doing EXCEPT ![k] = d]
  BY DEF ToGroups
<1> HIDE DEF d
<1>4. TaskOK(d, defined', mapping')
  BY <1>1, <1>2 DEF TaskOK, Inserting, ToSet
<1> QED
  BY <1>3, <1>4, OneTaskMoves, Unmapped DEF IInv

LEMMA FetchTeamPreserves ==
  ASSUME IInv, NEW k \in Handler, FetchTeam(k)
  PROVE  IInv'
<1>1. Team(ThreadOf[k]) \in BOOLEAN
  BY TeamAssumption DEF Team, The, IInv, TablesOK
<1>2. TablesOK'
  BY <1>1, Unmapped, TeamAssumption DEF IInv, TablesOK, FetchTeam
<1>3. CASE doing[k].event.definitions = <<>>
  BY <1>2, <1>3, ToGroupsPreserves DEF FetchTeam, ToSet
<1>4. CASE doing[k].event.definitions # <<>>
  BY <1>2, <1>4, GoesOn DEF FetchTeam, Places
<1> QED
  BY <1>3, <1>4

LEMMA ReportPreserves ==
  ASSUME IInv, NEW k \in Handler, Report(k)
  PROVE  IInv'
<1>1. TablesOK'
  BY Unmapped DEF IInv, TablesOK, Report, teamCaches
<1>2. ToSet(doing[k].event.definitions) \subseteq defined
  BY DEF IInv, TaskOK, Report, At
<1> QED
  BY <1>1, <1>2, ToGroupsPreserves DEF Report

(* The definitions of a task's event.                                        *)
LEMMA EventFacts ==
  ASSUME NEW d \in Locals
  PROVE  /\ d.event.definitions \in Seq(Definition) /\ d.next \in Nat \ {0}
         /\ d.event.groupType \subseteq GroupType
<1>1. d.event \in Captured \cup {NoEvent} /\ d.next \in Nat \ {0}
  BY DEF Locals
<1>2. CASE d.event = NoEvent
  BY <1>1, <1>2 DEF NoEvent
<1>3. CASE d.event \in Captured
  BY <1>1, <1>3, TeamAssumption
<1> QED
  BY <1>1, <1>2, <1>3

(* A task goes on to its next definition, the current one being defined.     *)
LEMMA NextDefinition ==
  ASSUME IInv, NEW k \in Handler, doing[k].at \in {"define", "defining"}, ~ NoneLeft(k),
         Current(k) \in defined', defined \subseteq defined', UNCHANGED mapping, TablesOK',
         doing' = [doing EXCEPT ![k] = [@ EXCEPT !.at = "define", !.next = doing[k].next + 1]]
  PROVE  IInv'
<1> DEFINE d == [doing[k] EXCEPT !.at = "define", !.next = doing[k].next + 1]
<1>1. TaskOK(doing[k], defined, mapping) /\ doing[k] \in Locals
  BY DEF IInv
<1>2. /\ d \in Locals /\ d.at = "define" /\ d.event = doing[k].event
      /\ d.next = doing[k].next + 1 /\ d.snapshot = doing[k].snapshot
  <2>1. ASSUME NEW r \in Locals, NEW n \in Nat \ {0}
        PROVE  LET e == [r EXCEPT !.at = "define", !.next = n]
               IN /\ e \in Locals /\ e.at = "define" /\ e.event = r.event
                  /\ e.next = n /\ e.snapshot = r.snapshot
    BY DEF Locals, Places
  <2>2. doing[k].next + 1 \in Nat \ {0}
    BY <1>1, EventFacts
  <2> QED
    BY <1>1, <2>1, <2>2
<1>3. doing' = [doing EXCEPT ![k] = d]
  OBVIOUS
<1> HIDE DEF d
<1>4. \A j \in DOMAIN doing[k].event.definitions :
        j < doing[k].next + 1 => doing[k].event.definitions[j] \in defined'
  BY <1>1, EventFacts DEF TaskOK, Current
<1>5. TaskOK(d, defined', mapping')
  BY <1>1, <1>2, <1>4 DEF TaskOK, Inserting
<1> QED
  BY <1>3, <1>5, OneTaskMoves, Unmapped DEF IInv

LEMMA DefinePreserves ==
  ASSUME IInv, NEW k \in Handler, Define(k)
  PROVE  IInv'
<1> DEFINE event == doing[k].event
           t == ThreadOf[k]
<1>1. TaskOK(doing[k], defined, mapping) /\ doing[k] \in Locals /\ doing[k].at = "define"
  BY DEF IInv, Define, At
<1>2. event.definitions \in Seq(Definition) /\ doing[k].next \in Nat \ {0}
  BY <1>1, EventFacts
<1>3. TablesOK' /\ UNCHANGED <<defined, mapping>>
  BY Unmapped DEF IInv, TablesOK, Define, teamCaches
<1>4. CASE NoneLeft(k)
  <2>1. ToSet(event.definitions) \subseteq defined
    BY <1>1, <1>2, <1>4 DEF TaskOK, ToSet, NoneLeft
  <2>2. CASE doing[k].ingestedThen
    BY <1>3, <1>4, <2>1, <2>2, ToGroupsPreserves DEF Define
  <2>3. CASE ~doing[k].ingestedThen
    BY <1>3, <1>4, <2>1, <2>3, GoesOn DEF Define, Places
  <2> QED
    BY <2>2, <2>3
<1>5. CASE ~ NoneLeft(k)
  <2>1. doing[k].next \in DOMAIN event.definitions
    BY <1>2, <1>5 DEF NoneLeft
  <2>2. CASE Cached(t, Current(k))
    <3>1. Current(k) \in Definition /\ Current(k)[1] \in Kinds /\ t \in Worker
      BY <1>2, <2>1, TeamAssumption DEF Current
    <3>2. Current(k) \in defined
      BY SMTT(20), <2>2, <3>1 DEF Cached, IInv, TablesOK
    <3>3. doing' = [doing EXCEPT ![k].next = @ + 1]
      BY <1>5, <2>2 DEF Define
    <3>4. doing' = [doing EXCEPT ![k] = [@ EXCEPT !.at = "define", !.next = doing[k].next + 1]]
      BY <1>1, <3>3 DEF IInv, Locals
    <3> QED
      BY <1>1, <1>3, <1>5, <3>2, <3>4, NextDefinition
  <2>3. CASE ~ Cached(t, Current(k))
    BY <1>3, <1>5, <2>1, <2>3, GoesOn DEF Define, Places
  <2> QED
    BY <2>2, <2>3
<1> QED
  BY <1>4, <1>5

LEMMA DefinedPreserves ==
  ASSUME IInv, NEW k \in Handler, Defined(k)
  PROVE  IInv'
<1> DEFINE t == ThreadOf[k]
           df == Current(k)
<1>1. TaskOK(doing[k], defined, mapping) /\ doing[k] \in Locals /\ doing[k].at = "defining"
  BY DEF IInv, Defined, At
<1>2. ~ NoneLeft(k) /\ df \in Definition /\ df[1] \in Kinds
  <2>1. doing[k].next \in DOMAIN doing[k].event.definitions
    BY <1>1 DEF TaskOK
  <2> QED
    BY <1>1, <2>1, EventFacts, TeamAssumption DEF NoneLeft, Current
<1>3. /\ defined' = defined \cup {df}
      /\ namesCache' = [namesCache EXCEPT ![t][df[1]] = {names \cup {df} : names \in @}]
      /\ UNCHANGED <<ingested, mapping, teamCache, groupsCache, reports, handled, failures, unreported, duplicated>>
  BY DEF Defined, Inserted, Remember
<1>4. df \in defined' /\ defined \subseteq defined' /\ defined' \subseteq Definition
  BY <1>2, <1>3 DEF IInv, TablesOK
<1>5. namesCache' \in [Worker -> [Kinds -> SUBSET SUBSET defined']]
  <2>1. namesCache \in [Worker -> [Kinds -> SUBSET SUBSET defined']] /\ t \in Worker
    BY <1>4, TeamAssumption DEF IInv, TablesOK
  <2>2. {names \cup {df} : names \in namesCache[t][df[1]]} \in SUBSET SUBSET defined'
    <3>1. namesCache[t][df[1]] \in SUBSET SUBSET defined'
      BY <1>2, <2>1
    <3>2. \A S : S \in SUBSET SUBSET defined' =>
                  {names \cup {df} : names \in S} \in SUBSET SUBSET defined'
      BY <1>4
    <3> QED BY <3>1, <3>2
  <2> HIDE DEF df, t
  <2> QED
    BY <1>2, <1>3, <2>1, <2>2
<1>6. TablesOK'
  BY <1>3, <1>4, <1>5, Unmapped DEF IInv, TablesOK
<1>7. doing' = [doing EXCEPT ![k] = [@ EXCEPT !.at = "define", !.next = doing[k].next + 1]]
  BY DEF Defined
<1> QED
  BY <1>1, <1>2, <1>3, <1>4, <1>6, <1>7, NextDefinition

-----------------------------------------------------------------------------
(* The column of a group *)

(* A task ends: the column it was given must be one of the mapping.          *)
LEMMA EndPreserves ==
  ASSUME IInv, NEW k \in Handler, NEW column \in Int, End(k, column), TablesOK', UNCHANGED defined,
         mapping \subseteq mapping', doing[k].at \in {"groups", "fetching", "insert", "inserting"},
         column # NoColumn => \E type \in doing[k].event.groupType : <<type, column>> \in mapping'
  PROVE  IInv'
<1> DEFINE d == [Idle EXCEPT !.at = "done", !.event = doing[k].event, !.column = column]
<1>1. TaskOK(doing[k], defined, mapping) /\ doing[k] \in Locals
  BY DEF IInv
<1>2. doing[k].event \in Captured \cup {NoEvent}
  BY <1>1 DEF Locals
<1>3. d \in Locals /\ d.at = "done" /\ d.event = doing[k].event /\ d.next = 1
      /\ d.snapshot = {} /\ d.column = column
  <2>1. Idle \in Locals
    BY DEF Idle, Locals, NoEvent, NoColumn, Places
  <2>2. d \in Locals
    BY <1>2, <2>1 DEF Locals, Places
  <2> QED
    BY <2>2 DEF Idle
<1>4. doing' = [doing EXCEPT ![k] = d]
  BY DEF End
<1>5. IsFiniteSet(mapping')
  BY MappingFinite DEF TablesOK
<1> HIDE DEF d
<1>6. TaskOK(d, defined', mapping')
  BY <1>1, <1>3 DEF TaskOK, Inserting, ToSet
<1> QED
  BY <1>4, <1>5, <1>6, OneTaskMoves

(* A task goes on to insert its type, or to the next index.                  *)
LEMMA TriesIndex ==
  ASSUME IInv, NEW k \in Handler, NEW index \in Nat, TablesOK', UNCHANGED <<defined, mapping>>,
         doing[k].at \in {"groups", "fetching", "inserting"}, doing[k].event.groupType # {},
         \/ index <= Cardinality(mapping)
         \/ \E m \in mapping : m[1] = The(doing[k].event.groupType),
         doing' = [doing EXCEPT ![k] = [@ EXCEPT !.at = "insert", !.index = index]]
  PROVE  IInv'
<1> DEFINE d == [doing[k] EXCEPT !.at = "insert", !.index = index]
<1>1. TaskOK(doing[k], defined, mapping) /\ doing[k] \in Locals
  BY DEF IInv
<1>2. d \in Locals /\ d.at = "insert" /\ d.event = doing[k].event /\ d.index = index
      /\ d.next = doing[k].next /\ d.snapshot = doing[k].snapshot
  BY <1>1 DEF Locals, Places
<1>3. doing' = [doing EXCEPT ![k] = d]
  OBVIOUS
<1> HIDE DEF d
<1>4. TaskOK(d, defined', mapping')
  BY <1>1, <1>2 DEF TaskOK, Inserting
<1> QED
  BY <1>3, <1>4, OneTaskMoves, Unmapped DEF IInv

(* A task goes by types of the mapping: its own is among them, or it inserts  *)
(* it after them.                                                            *)
LEMMA UseTypesPreserves ==
  ASSUME IInv, NEW k \in Handler, NEW types, UseTypes(k, types), types \subseteq mapping,
         doing[k].event.groupType # {}, doing[k].at \in {"groups", "fetching"},
         TablesOK', UNCHANGED <<defined, mapping>>
  PROVE  IInv'
<1> DEFINE columns == UNION {ColumnsOf(types, type) : type \in doing[k].event.groupType}
<1>1. CASE columns # {}
  <2>1. The(columns) \in columns
    BY <1>1 DEF The
  <2>2. PICK type \in doing[k].event.groupType, m \in types : m[1] = type /\ m[2] = The(columns)
    BY <2>1 DEF ColumnsOf
  <2>3. m \in mapping /\ m \in GroupType \X (0 .. MAX_GROUP_TYPES_PER_TEAM - 1)
    BY <2>2 DEF IInv, TablesOK
  <2>4. <<type, The(columns)>> \in mapping' /\ The(columns) \in Int
    BY <2>2, <2>3, TeamAssumption
  <2>5. End(k, The(columns))
    BY <1>1 DEF UseTypes
  <2> QED
    BY <2>4, <2>5, EndPreserves
<1>2. CASE columns = {}
  <2>1. Cardinality(types) \in Nat /\ Cardinality(types) <= Cardinality(mapping)
    BY MappingFinite, FS_Subset, FS_CardinalityType DEF IInv, TablesOK
  <2>2. doing' = [doing EXCEPT ![k] = [@ EXCEPT !.at = "insert", !.index = Cardinality(types)]]
    BY <1>2 DEF UseTypes, FirstFree
  <2> QED
    BY <2>1, <2>2, TriesIndex
<1> QED
  BY <1>1, <1>2

LEMMA FetchGroupTypesPreserves ==
  ASSUME IInv, NEW k \in Handler, FetchGroupTypes(k)
  PROVE  IInv'
<1>1. /\ TaskOK(doing[k], defined, mapping) /\ doing[k] \in Locals
      /\ doing[k].at = "groups" /\ UNCHANGED <<defined, mapping>>
  BY DEF FetchGroupTypes, At, IInv
<1>2. TablesOK'
  BY Unmapped DEF IInv, TablesOK, FetchGroupTypes, teamCaches
<1>3. CASE doing[k].event.groupType = {}
  BY <1>1, <1>2, <1>3, EndPreserves DEF FetchGroupTypes, NoColumn
<1>4. CASE doing[k].event.groupType # {} /\ groupsCache[ThreadOf[k]] # {}
  <2>1. The(groupsCache[ThreadOf[k]]) \subseteq mapping
    BY <1>4, TeamAssumption DEF The, IInv, TablesOK
  <2> QED
    BY <1>1, <1>2, <1>4, <2>1, UseTypesPreserves DEF FetchGroupTypes
<1>5. CASE doing[k].event.groupType # {} /\ groupsCache[ThreadOf[k]] = {}
  <2> DEFINE d == [doing[k] EXCEPT !.at = "fetching", !.snapshot = mapping]
  <2>1. mapping \in SUBSET (GroupType \X Nat)
    BY DEF IInv, TablesOK
  <2>2. /\ d \in Locals /\ d.at = "fetching" /\ d.event = doing[k].event
        /\ d.next = doing[k].next /\ d.snapshot = mapping
    BY <1>1, <2>1 DEF Locals, Places
  <2>3. doing' = [doing EXCEPT ![k] = d]
    BY <1>5 DEF FetchGroupTypes
  <2> HIDE DEF d
  <2>4. TaskOK(d, defined', mapping')
    BY <1>1, <1>5, <2>2 DEF TaskOK, Inserting
  <2> QED
    BY <1>1, <1>2, <2>3, <2>4, OneTaskMoves, Unmapped DEF IInv
<1> QED
  BY <1>3, <1>4, <1>5

LEMMA GroupTypesFetchedPreserves ==
  ASSUME IInv, NEW k \in Handler, GroupTypesFetched(k)
  PROVE  IInv'
<1>1. /\ TaskOK(doing[k], defined, mapping)
      /\ doing[k].at = "fetching" /\ UNCHANGED <<defined, mapping>>
  BY DEF GroupTypesFetched, At, IInv
<1>2. doing[k].snapshot \subseteq mapping /\ doing[k].event.groupType # {}
  BY <1>1 DEF TaskOK
<1>3. TablesOK'
  BY <1>2, Unmapped, TeamAssumption DEF IInv, TablesOK, GroupTypesFetched
<1> QED
  BY <1>1, <1>2, <1>3, UseTypesPreserves DEF GroupTypesFetched

LEMMA InsertGroupTypePreserves ==
  ASSUME IInv, NEW k \in Handler, InsertGroupType(k)
  PROVE  IInv'
<1>1. TablesOK'
  BY Unmapped DEF IInv, TablesOK, InsertGroupType, teamCaches
<1>2. doing[k].at = "insert" /\ UNCHANGED <<defined, mapping>>
  BY DEF InsertGroupType, At
<1>3. CASE doing[k].index >= MAX_GROUP_TYPES_PER_TEAM
  BY <1>1, <1>2, <1>3, EndPreserves DEF InsertGroupType, NoColumn
<1>4. CASE ~(doing[k].index >= MAX_GROUP_TYPES_PER_TEAM)
  <2> DEFINE d == [doing[k] EXCEPT !.at = "inserting", !.snapshot = mapping]
  <2>1. TaskOK(doing[k], defined, mapping) /\ doing[k] \in Locals
    BY DEF IInv
  <2>2. mapping \in SUBSET (GroupType \X Nat)
    BY DEF IInv, TablesOK
  <2>3. d \in Locals /\ d.at = "inserting" /\ d.event = doing[k].event /\ d.index = doing[k].index
        /\ d.next = doing[k].next /\ d.snapshot = mapping
    BY <2>1, <2>2 DEF Locals, Places
  <2>4. doing' = [doing EXCEPT ![k] = d]
    BY <1>4 DEF InsertGroupType
  <2>5. d.index < MAX_GROUP_TYPES_PER_TEAM
    BY <1>4, <2>1, <2>3, TeamAssumption DEF Locals
  <2> HIDE DEF d
  <2>6. TaskOK(d, defined', mapping')
    BY <1>2, <2>1, <2>3, <2>5 DEF TaskOK, Inserting
  <2> QED
    BY <1>1, <1>2, <2>4, <2>6, OneTaskMoves, Unmapped DEF IInv
<1> QED
  BY <1>3, <1>4

LEMMA GroupTypeInsertedPreserves ==
  ASSUME IInv, NEW k \in Handler, GroupTypeInserted(k)
  PROVE  IInv'
<1> DEFINE type == The(doing[k].event.groupType)
           index == doing[k].index
           free == \A m \in mapping : m[1] # type /\ m[2] # index
           found == UNION {ColumnsOf(doing[k].snapshot, g) : g \in doing[k].event.groupType}
<1>1. /\ TaskOK(doing[k], defined, mapping) /\ doing[k] \in Locals
      /\ doing[k].at = "inserting" /\ UNCHANGED defined
  BY DEF IInv, GroupTypeInserted, At
<1>2. /\ index \in Nat /\ index < MAX_GROUP_TYPES_PER_TEAM
      /\ type \in doing[k].event.groupType /\ type \in GroupType
      /\ index <= Cardinality(mapping) \/ \E m \in mapping : m[1] = type
  <2>1. index \in Nat /\ doing[k].event \in Captured \cup {NoEvent}
    BY <1>1 DEF Locals
  <2>2. doing[k].event.groupType # {} /\ index < MAX_GROUP_TYPES_PER_TEAM
        /\ (index <= Cardinality(mapping) \/ \E m \in mapping : m[1] = type)
    BY <1>1 DEF TaskOK, Inserting
  <2>3. type \in doing[k].event.groupType
    BY <2>2 DEF The
  <2>4. doing[k].event.groupType \subseteq GroupType
    BY <2>1, TeamAssumption DEF NoEvent
  <2> QED
    BY <2>1, <2>2, <2>3, <2>4
<1>3. /\ mapping \subseteq GroupType \X (0 .. MAX_GROUP_TYPES_PER_TEAM - 1)
      /\ {m[2] : m \in mapping} = 0 .. Cardinality(mapping) - 1
      /\ IsFiniteSet(mapping) /\ Cardinality(mapping) \in Nat
  BY MappingFinite, FS_CardinalityType DEF IInv, TablesOK, ColumnsAreDense
<1>4. CASE free
  <2>1. mapping' = mapping \cup {<<type, index>>} /\ <<type, index>> \notin mapping
    BY <1>4 DEF GroupTypeInserted
  <2>2. index = Cardinality(mapping)
    <3>1. index \notin {m[2] : m \in mapping}
      BY <1>4
    <3> QED
      BY <1>2, <1>3, <1>4, <3>1
  <2>3. IsFiniteSet(mapping') /\ Cardinality(mapping') = Cardinality(mapping) + 1
    BY <1>3, <2>1, FS_AddElement
  <2>4. {m[2] : m \in mapping'} = 0 .. Cardinality(mapping') - 1
    <3>1. {m[2] : m \in mapping'} = {m[2] : m \in mapping} \cup {index}
      BY <2>1
    <3>2. \A n \in Nat : (0 .. n - 1) \cup {n} = 0 .. (n + 1) - 1
      OBVIOUS
    <3> HIDE DEF index
    <3>3. {m[2] : m \in mapping'} = (0 .. Cardinality(mapping) - 1) \cup {Cardinality(mapping)}
      BY <1>3, <2>2, <3>1
    <3> QED
      BY <1>3, <2>3, <3>2, <3>3
  <2>5. mapping' \subseteq GroupType \X (0 .. MAX_GROUP_TYPES_PER_TEAM - 1)
    BY <1>2, <1>3, <2>1, TeamAssumption
  <2>6. End(k, The({index})) /\ groupsCache' = [groupsCache EXCEPT ![ThreadOf[k]] = {}]
        /\ UNCHANGED <<ingested, teamCache, namesCache, reports, handled, failures, unreported, duplicated>>
    BY <1>4 DEF GroupTypeInserted, Rows
  <2>7. The({index}) = index
    BY DEF The
  <2>8. groupsCache' \in [Worker -> SUBSET SUBSET mapping']
    BY <2>1, <2>6, TeamAssumption DEF IInv, TablesOK
  <2>9. TablesOK'
    BY <1>1, <2>4, <2>5, <2>6, <2>8 DEF IInv, TablesOK, ColumnsAreDense
  <2> QED
    BY <1>1, <1>2, <2>1, <2>6, <2>7, <2>9, EndPreserves
<1>5. CASE ~free
  <2>1. mapping' = mapping
    BY <1>5 DEF GroupTypeInserted
  <2>2. CASE found = {}
    <3>1. /\ doing' = [doing EXCEPT ![k] = [@ EXCEPT !.at = "insert", !.index = index + 1]]
          /\ duplicated' \subseteq GroupType
          /\ UNCHANGED <<ingested, groupsCache, teamCache, namesCache, reports, handled, failures, unreported>>
      BY <1>2, <1>5, <2>2 DEF GroupTypeInserted, Rows, IInv, TablesOK
    <3>2. TablesOK'
      BY <1>1, <2>1, <3>1, Unmapped DEF IInv, TablesOK
    <3>3. index + 1 <= Cardinality(mapping) \/ \E m \in mapping : m[1] = type
      <4>1. ASSUME NEW m \in mapping, m[2] = index PROVE index + 1 <= Cardinality(mapping)
        <5>1. index \in 0 .. Cardinality(mapping) - 1
          BY <1>3, <4>1
        <5> QED
          BY <1>3, <5>1
      <4> QED
        BY <1>5, <4>1
    <3>4. doing[k].event.groupType # {} /\ index + 1 \in Nat
      BY <1>2
    <3> QED
      BY <1>1, <2>1, <3>1, <3>2, <3>3, <3>4, TriesIndex
  <2>3. CASE found # {}
    <3>1. End(k, The(found)) /\ groupsCache' = [groupsCache EXCEPT ![ThreadOf[k]] = {}]
          /\ UNCHANGED <<ingested, teamCache, namesCache, reports, handled, failures, unreported, duplicated>>
      BY <1>5, <2>3 DEF GroupTypeInserted, Rows
    <3>2. TablesOK'
      BY <1>1, <2>1, <3>1, Unmapped, TeamAssumption DEF IInv, TablesOK
    <3>3. The(found) \in found
      BY <2>3 DEF The
    <3>4. PICK g \in doing[k].event.groupType, m \in doing[k].snapshot : m[1] = g /\ m[2] = The(found)
      BY <3>3 DEF ColumnsOf
    <3>5. m \in mapping
      BY <1>1, <3>4 DEF TaskOK
    <3>6. <<g, The(found)>> \in mapping' /\ The(found) \in Int
      BY <1>3, <2>1, <3>4, <3>5, TeamAssumption
    <3> QED
      BY <1>1, <2>1, <3>1, <3>2, <3>6, EndPreserves
  <2> QED
    BY <2>2, <2>3
<1> QED
  BY <1>4, <1>5

-----------------------------------------------------------------------------
LEMMA FailPreserves ==
  ASSUME IInv, NEW k \in Handler, Fail(k)
  PROVE  IInv'
<1>1. TablesOK'
  BY Unmapped, TeamAssumption DEF IInv, TablesOK, Fail, teamCaches
<1>2. TaskOK(Idle, defined', mapping')
  <2>1. Idle \in Locals
    BY DEF Idle, Locals, NoEvent, NoColumn, Places
  <2> QED
    BY <2>1 DEF TaskOK, Idle, NoEvent, Inserting
<1> QED
  BY <1>1, <1>2, OneTaskMoves, Unmapped DEF IInv, Fail

LEMMA ExpirePreserves ==
  ASSUME IInv, NEW t \in Worker, CacheExpires(t)
  PROVE  IInv'
<1>1. TablesOK'
  BY Unmapped DEF IInv, TablesOK, CacheExpires
<1> QED
  BY <1>1 DEF IInv, CacheExpires

LEMMA NextPreserves ==
  ASSUME IInv, [TeamNext]_teamVars
  PROVE  IInv'
<1>1. CASE UNCHANGED teamVars
  BY <1>1 DEF teamVars, teamCaches, IInv, TablesOK, ColumnsAreDense
<1>2. ASSUME NEW k \in Handler,
             \/ CacheNames(k, "event", "names", "properties")
             \/ CacheNames(k, "property", "properties", "define")
      PROVE  IInv'
  BY <1>2, CacheNamesPreserves DEF Kinds
<1> QED
  BY <1>1, <1>2, BeginPreserves, FetchTeamPreserves, FetchTeamAgainPreserves, DefinePreserves,
     DefinedPreserves, UpdateTeamPreserves, ReportPreserves, FetchGroupTypesPreserves,
     GroupTypesFetchedPreserves, InsertGroupTypePreserves,
     GroupTypeInsertedPreserves, FailPreserves, ExpirePreserves
  DEF TeamNext

(* IInv: what TeamManager and GroupTypeManager have in common with Postgres  *)
(* at each program point, from which all that follows is drawn.             *)
THEOREM Inductive == TeamSpec => []IInv
BY InitIInv, NextPreserves, PTL DEF TeamSpec

-----------------------------------------------------------------------------
(* The properties *)

(* TeamTypeOK: what tables, caches and tasks hold keeps its type.            *)
THEOREM TypeCorrect == TeamSpec => []TeamTypeOK
<1>1. ASSUME IInv PROVE TeamTypeOK
  <2>1. namesCache \in [Worker -> [Kinds -> SUBSET SUBSET Definition]]
    BY <1>1 DEF IInv, TablesOK
  <2>2. groupsCache \in [Worker -> SUBSET SUBSET (GroupType \X Nat)]
    <3>1. mapping \subseteq GroupType \X Nat
      BY <1>1 DEF IInv, TablesOK
    <3>2. groupsCache \in [Worker -> SUBSET SUBSET mapping]
      BY <1>1 DEF IInv, TablesOK
    <3> QED
      BY <3>1, <3>2
  <2> QED
    BY <1>1, <2>1, <2>2 DEF IInv, TablesOK, TeamTypeOK
<1> QED
  BY <1>1, Inductive, PTL

(* HandledIsDefined: name and properties of a handled event are defined,     *)
(* whoever inserted them (TeamManager.updateEventNamesAndProperties).        *)
THEOREM HandledIsDefinedHolds == TeamSpec => []HandledIsDefined
<1>1. IInv => HandledIsDefined
  BY DEF IInv, TaskOK, HandledIsDefined, At
<1> QED
  BY <1>1, Inductive, PTL

(* ColumnsAreDense: the columns of a team's group types have no gap, though  *)
(* the first index tried is a count of cached types (GroupTypeManager).      *)
THEOREM ColumnsAreDenseHolds == TeamSpec => []ColumnsAreDense
<1>1. IInv => ColumnsAreDense
  BY DEF IInv, TablesOK
<1> QED
  BY <1>1, Inductive, PTL

(* ColumnAgrees: the column an event is given is the one Postgres has for    *)
(* the type of its group (DB.insertGroupType).                               *)
THEOREM ColumnAgreesHolds == TeamSpec => []ColumnAgrees
<1>1. IInv => ColumnAgrees
  BY DEF IInv, TaskOK, ColumnAgrees, At
<1> QED
  BY <1>1, Inductive, PTL

-----------------------------------------------------------------------------
(* No column *)

(* A task that has run out of indices, or was given no column for its group. *)
PastTheLast(d) ==
  \/ d.at = "insert" /\ d.index >= MAX_GROUP_TYPES_PER_TEAM
  \/ d.at = "done" /\ d.event.groupType # {} /\ d.column = NoColumn

(* What the search of task d for a column relies on while map is the mapping *)
(* and dup the types two tasks inserted: it tries no index beyond the number *)
(* of types it may know of, in a statement those of its snapshot; past the   *)
(* last index no column is left for its type.                                *)
SearchOK(d, map, dup) ==
  /\ d.at = "insert" => d.index <= Cardinality(map)
  /\ d.at = "inserting" => d.index <= Cardinality(d.snapshot)
  /\ PastTheLast(d) =>
       /\ Cardinality(map) = MAX_GROUP_TYPES_PER_TEAM
       /\ \A type \in d.event.groupType : ColumnsOf(map, type) = {} \/ type \in dup

SearchesOK == \A k \in Handler : SearchOK(doing[k], mapping, duplicated)

(* A team has no more types than columns.                                    *)
LEMMA AtMostMax ==
  ASSUME IInv
  PROVE  /\ IsFiniteSet(mapping) /\ Cardinality(mapping) \in Nat
         /\ Cardinality(mapping) <= MAX_GROUP_TYPES_PER_TEAM
<1>1. mapping \subseteq GroupType \X (0 .. MAX_GROUP_TYPES_PER_TEAM - 1)
  BY DEF IInv, TablesOK
<1>2. IsFiniteSet(mapping) /\ Cardinality(mapping) \in Nat
  BY <1>1, MappingFinite, FS_CardinalityType
<1>3. 0 .. Cardinality(mapping) - 1 \subseteq 0 .. MAX_GROUP_TYPES_PER_TEAM - 1
  BY <1>1 DEF IInv, TablesOK, ColumnsAreDense
<1>4. CASE Cardinality(mapping) # 0
  <2>1. Cardinality(mapping) - 1 \in 0 .. Cardinality(mapping) - 1
    BY <1>2, <1>4
  <2> QED
    BY <1>2, <1>3, <2>1, TeamAssumption
<1> QED
  BY <1>2, <1>4, TeamAssumption

(* A search goes on to be right when the mapping grows, unless it was full.  *)
LEMMA SearchOKStays ==
  ASSUME NEW d \in Locals, NEW map, NEW dup, NEW map2, NEW dup2, SearchOK(d, map, dup),
         map \subseteq map2, dup \subseteq dup2, IsFiniteSet(map2),
         Cardinality(map) = MAX_GROUP_TYPES_PER_TEAM => map2 = map
  PROVE  SearchOK(d, map2, dup2)
<1>1. /\ Cardinality(map) \in Nat /\ Cardinality(map2) \in Nat
      /\ Cardinality(map) <= Cardinality(map2)
  BY FS_Subset, FS_CardinalityType
<1>2. d.index \in Nat
  BY DEF Locals
<1>3. d.at = "insert" => d.index <= Cardinality(map2)
  BY <1>1, <1>2 DEF SearchOK
<1>4. CASE PastTheLast(d)
  BY <1>3, <1>4 DEF SearchOK, ColumnsOf
<1>5. CASE ~ PastTheLast(d)
  BY <1>3, <1>5 DEF SearchOK
<1> QED
  BY <1>4, <1>5

(* A step of one task keeps all searches right if it does its own.           *)
LEMMA OneTaskSearches ==
  ASSUME IInv, SearchesOK, IInv', NEW k \in Handler, NEW d, doing' = [doing EXCEPT ![k] = d],
         SearchOK(d, mapping', duplicated'),
         mapping \subseteq mapping', duplicated \subseteq duplicated',
         Cardinality(mapping) = MAX_GROUP_TYPES_PER_TEAM => mapping' = mapping
  PROVE  SearchesOK'
<1>1. IsFiniteSet(mapping')
  BY MappingFinite DEF IInv, TablesOK
<1> SUFFICES ASSUME NEW j \in Handler PROVE SearchOK(doing'[j], mapping', duplicated')
  BY DEF SearchesOK
<1>2. CASE j = k
  BY <1>2 DEF IInv
<1>3. CASE j # k
  BY <1>1, <1>3, SearchOKStays DEF IInv, SearchesOK
<1> QED
  BY <1>2, <1>3

(* Steps before the search for a column.                                     *)
LEMMA NotSearching ==
  ASSUME IInv, SearchesOK, IInv', NEW k \in Handler,
         \/ Begin(k) \/ FetchTeam(k) \/ FetchTeamAgain(k) \/ Define(k) \/ Defined(k)
         \/ CacheNames(k, "event", "names", "properties")
         \/ CacheNames(k, "property", "properties", "define")
         \/ UpdateTeam(k) \/ Report(k) \/ Fail(k)
  PROVE  SearchesOK'
<1>1. UNCHANGED <<mapping, duplicated>>
  BY DEF Begin, FetchTeam, FetchTeamAgain, Define, Defined, CacheNames, UpdateTeam, Report, Fail
<1>2. doing[k] \in Locals
  BY DEF IInv
<1>3. \E d \in Locals : /\ doing' = [doing EXCEPT ![k] = d]
                        /\ d.at \notin {"insert", "inserting", "done"}
  <2>1. doing'[k] \in Locals
    BY DEF IInv
  <2>2. doing'[k].at \notin {"insert", "inserting", "done"}
    <3>0. doing \in [Handler -> Locals]
      BY DEF IInv
    <3>1. CASE Begin(k)
      <4>1. PICK event \in Captured :
              doing' = [doing EXCEPT ![k] = [Idle EXCEPT !.at = "team", !.event = event]]
        BY <3>1 DEF Begin
      <4>2. doing'[k].at = "team"
        BY <3>0, <4>1 DEF Idle
      <4> QED
        BY <4>2
    <3>a. ToGroups(k) => doing'[k].at = "groups"
      BY <1>2, <3>0, GroupsNext DEF ToGroups
    <3>b. \A place : MoveTask(k, place) => doing'[k].at = place
      BY <1>2, <3>0 DEF MoveTask, Locals
    <3>2. CASE FetchTeam(k)
      BY <3>2, <3>a, <3>b DEF FetchTeam
    <3>3. CASE FetchTeamAgain(k)
      <4>1. ASSUME NEW r \in Locals, NEW b
            PROVE  [r EXCEPT !.at = "names", !.ingestedThen = b].at = "names"
        BY DEF Locals
      <4>2. doing'[k] = [doing[k] EXCEPT !.at = "names", !.ingestedThen = Team(ThreadOf[k])]
        BY <3>0, <3>3 DEF FetchTeamAgain
      <4>3. doing'[k].at = "names"
        BY <1>2, <4>1, <4>2
      <4> QED
        BY <4>3
    <3>4. CASE Define(k)
      <4>1. CASE ToGroups(k) \/ MoveTask(k, "update") \/ MoveTask(k, "defining")
        BY <3>a, <3>b, <4>1
      <4>2. CASE doing' = [doing EXCEPT ![k].next = @ + 1]
        BY <1>2, <3>0, <3>4, <4>2 DEF Define, At, Locals
      <4> QED
        BY <3>4, <4>1, <4>2 DEF Define
    <3>9. CASE Defined(k)
      <4>1. doing'[k] = [doing[k] EXCEPT !.at = "define", !.next = doing[k].next + 1]
        BY <3>0, <3>9 DEF Defined
      <4> QED
        BY <1>2, <4>1 DEF Locals
    <3>5. CASE CacheNames(k, "event", "names", "properties") \/ CacheNames(k, "property", "properties", "define")
      BY <1>2, <3>5 DEF IInv, CacheNames, MoveTask, Locals
    <3>6. CASE UpdateTeam(k)
      BY <1>2, <3>6 DEF IInv, UpdateTeam, MoveTask, Locals
    <3>7. CASE Report(k)
      BY <1>2, <3>7 DEF IInv, Report, ToGroups, Locals
    <3>8. CASE Fail(k)
      BY <3>8 DEF IInv, Fail, Idle
    <3> QED
      BY <3>1, <3>2, <3>3, <3>4, <3>5, <3>6, <3>7, <3>8, <3>9
  <2>3. \E d : doing' = [doing EXCEPT ![k] = d]
    BY DEF Begin, FetchTeam, FetchTeamAgain, Define, Defined, CacheNames, UpdateTeam, Report, Fail, ToGroups, MoveTask
  <2>4. doing' = [doing EXCEPT ![k] = doing'[k]]
    BY <2>3 DEF IInv
  <2> QED
    BY <2>1, <2>2, <2>4
<1> QED
  BY <1>1, <1>3, OneTaskSearches DEF SearchOK, PastTheLast

(* A task that ends with a column, or without a group, or without a column   *)
(* when none is left.                                                        *)
LEMMA EndSearches ==
  ASSUME IInv, SearchesOK, IInv', NEW k \in Handler, NEW column \in Int, End(k, column),
         mapping \subseteq mapping', UNCHANGED duplicated,
         Cardinality(mapping) = MAX_GROUP_TYPES_PER_TEAM => mapping' = mapping,
         \/ doing[k].event.groupType = {}
         \/ column # NoColumn
         \/ UNCHANGED mapping /\ PastTheLast(doing[k])
  PROVE  SearchesOK'
<1> DEFINE d == [Idle EXCEPT !.at = "done", !.event = doing[k].event, !.column = column]
<1>1. doing' = [doing EXCEPT ![k] = d]
  BY DEF End
<1>2. d.at = "done" /\ d.event = doing[k].event /\ d.column = column
  BY DEF Idle
<1>3. SearchOK(doing[k], mapping, duplicated)
  BY DEF SearchesOK
<1> HIDE DEF d
<1>4. SearchOK(d, mapping', duplicated')
  BY <1>2, <1>3 DEF SearchOK, PastTheLast
<1> QED
  BY <1>1, <1>4, OneTaskSearches

(* A task goes on to try an index.                                           *)
LEMMA TriesSearches ==
  ASSUME IInv, SearchesOK, IInv', NEW k \in Handler, NEW index \in Nat, UNCHANGED mapping,
         doing' = [doing EXCEPT ![k] = [@ EXCEPT !.at = "insert", !.index = index]],
         duplicated \subseteq duplicated', index <= Cardinality(mapping),
         Cardinality(mapping) = MAX_GROUP_TYPES_PER_TEAM =>
           \A type \in doing[k].event.groupType : ColumnsOf(mapping, type) = {} \/ type \in duplicated'
  PROVE  SearchesOK'
<1> DEFINE d == [doing[k] EXCEPT !.at = "insert", !.index = index]
<1>1. doing[k] \in Locals /\ doing' = [doing EXCEPT ![k] = d]
  BY DEF IInv
<1>2. d.at = "insert" /\ d.event = doing[k].event /\ d.index = index
  BY <1>1 DEF Locals
<1>3. MAX_GROUP_TYPES_PER_TEAM \in Nat
  BY TeamAssumption
<1> HIDE DEF d
<1>4. PastTheLast(d) => Cardinality(mapping) = MAX_GROUP_TYPES_PER_TEAM
  BY <1>2, <1>3, AtMostMax DEF PastTheLast
<1>5. SearchOK(d, mapping', duplicated')
  BY <1>2, <1>4 DEF SearchOK
<1> QED
  BY <1>1, <1>5, OneTaskSearches

LEMMA UseTypesSearches ==
  ASSUME IInv, SearchesOK, IInv', NEW k \in Handler, NEW types, UseTypes(k, types),
         types \subseteq mapping, UNCHANGED <<mapping, duplicated>>
  PROVE  SearchesOK'
<1> DEFINE columns == UNION {ColumnsOf(types, type) : type \in doing[k].event.groupType}
<1>4. CASE columns # {}
  <2>1. The(columns) \in columns /\ End(k, The(columns))
    BY <1>4 DEF The, UseTypes
  <2>2. PICK type \in doing[k].event.groupType, m \in types : m[1] = type /\ m[2] = The(columns)
    BY <2>1 DEF ColumnsOf
  <2>3. m \in GroupType \X (0 .. MAX_GROUP_TYPES_PER_TEAM - 1)
    BY <2>2 DEF IInv, TablesOK
  <2>4. The(columns) \in Int /\ The(columns) # NoColumn
    BY <2>2, <2>3, TeamAssumption DEF NoColumn
  <2> QED
    BY <2>1, <2>4, EndSearches
<1>5. CASE columns = {}
  <2>1. Cardinality(types) \in Nat /\ Cardinality(types) <= Cardinality(mapping)
    BY AtMostMax, FS_Subset, FS_CardinalityType
  <2>2. doing' = [doing EXCEPT ![k] = [@ EXCEPT !.at = "insert", !.index = Cardinality(types)]]
    BY <1>5 DEF UseTypes, FirstFree
  <2>3. \A type \in doing[k].event.groupType : ColumnsOf(types, type) = {}
    BY <1>5
  <2> DEFINE d == [doing[k] EXCEPT !.at = "insert", !.index = Cardinality(types)]
  <2>4. doing[k] \in Locals
    BY DEF IInv
  <2>5. d.at = "insert" /\ d.event = doing[k].event /\ d.index = Cardinality(types)
    BY <2>4 DEF Locals
  <2>6. doing' = [doing EXCEPT ![k] = d]
    BY <2>2
  <2> HIDE DEF d
  <2>7. ASSUME PastTheLast(d)
        PROVE  Cardinality(mapping) = MAX_GROUP_TYPES_PER_TEAM /\ types = mapping
    <3>1. Cardinality(types) >= MAX_GROUP_TYPES_PER_TEAM
      BY <2>5, <2>7 DEF PastTheLast
    <3>2. Cardinality(mapping) = MAX_GROUP_TYPES_PER_TEAM /\ Cardinality(types) = Cardinality(mapping)
      BY <2>1, <3>1, AtMostMax, TeamAssumption
    <3> QED
      BY <3>2, AtMostMax, FS_Subset
  <2>8. SearchOK(d, mapping, duplicated)
    BY <2>1, <2>3, <2>5, <2>7 DEF SearchOK
  <2> QED
    BY <2>6, <2>8, OneTaskSearches
<1> QED
  BY <1>4, <1>5

LEMMA FetchGroupTypesSearches ==
  ASSUME IInv, SearchesOK, IInv', NEW k \in Handler, FetchGroupTypes(k)
  PROVE  SearchesOK'
<1>1. UNCHANGED <<mapping, duplicated>> /\ doing[k] \in Locals
  BY DEF FetchGroupTypes, IInv
<1>2. CASE doing[k].event.groupType = {}
  BY <1>1, <1>2, EndSearches DEF FetchGroupTypes, NoColumn
<1>3. CASE doing[k].event.groupType # {} /\ groupsCache[ThreadOf[k]] # {}
  <2>1. The(groupsCache[ThreadOf[k]]) \subseteq mapping
    BY <1>3, TeamAssumption DEF The, IInv, TablesOK
  <2> QED
    BY <1>1, <1>3, <2>1, UseTypesSearches DEF FetchGroupTypes
<1>4. CASE doing[k].event.groupType # {} /\ groupsCache[ThreadOf[k]] = {}
  <2> DEFINE d == [doing[k] EXCEPT !.at = "fetching", !.snapshot = mapping]
  <2>1. d.at = "fetching" /\ doing' = [doing EXCEPT ![k] = d]
    BY <1>1, <1>4 DEF FetchGroupTypes, Locals
  <2> HIDE DEF d
  <2>2. SearchOK(d, mapping', duplicated')
    BY <2>1 DEF SearchOK, PastTheLast
  <2> QED
    BY <1>1, <2>1, <2>2, OneTaskSearches
<1> QED
  BY <1>2, <1>3, <1>4

LEMMA GroupTypesFetchedSearches ==
  ASSUME IInv, SearchesOK, IInv', NEW k \in Handler, GroupTypesFetched(k)
  PROVE  SearchesOK'
<1>1. doing[k].snapshot \subseteq mapping
  BY DEF IInv, TaskOK
<1> QED
  BY <1>1, UseTypesSearches DEF GroupTypesFetched

LEMMA InsertGroupTypeSearches ==
  ASSUME IInv, SearchesOK, IInv', NEW k \in Handler, InsertGroupType(k)
  PROVE  SearchesOK'
<1>1. UNCHANGED <<mapping, duplicated>> /\ doing[k].at = "insert"
  BY DEF InsertGroupType, At
<1>2. doing[k] \in Locals /\ SearchOK(doing[k], mapping, duplicated)
  BY DEF IInv, SearchesOK
<1>3. CASE doing[k].index >= MAX_GROUP_TYPES_PER_TEAM
  BY <1>1, <1>3, EndSearches DEF InsertGroupType, PastTheLast, NoColumn
<1>4. CASE ~(doing[k].index >= MAX_GROUP_TYPES_PER_TEAM)
  <2> DEFINE d == [doing[k] EXCEPT !.at = "inserting", !.snapshot = mapping]
  <2>1. doing' = [doing EXCEPT ![k] = d]
    BY <1>4 DEF InsertGroupType
  <2>2. d.at = "inserting" /\ d.index = doing[k].index /\ d.snapshot = mapping
    BY <1>2 DEF Locals
  <2> HIDE DEF d
  <2>3. SearchOK(d, mapping', duplicated')
    BY <1>1, <1>2, <2>2 DEF SearchOK, PastTheLast
  <2> QED
    BY <1>1, <2>1, <2>3, OneTaskSearches
<1> QED
  BY <1>3, <1>4

LEMMA GroupTypeInsertedSearches ==
  ASSUME IInv, SearchesOK, IInv', NEW k \in Handler, GroupTypeInserted(k)
  PROVE  SearchesOK'
<1> DEFINE type == The(doing[k].event.groupType)
           index == doing[k].index
           free == \A m \in mapping : m[1] # type /\ m[2] # index
           found == UNION {ColumnsOf(doing[k].snapshot, g) : g \in doing[k].event.groupType}
<1>1. /\ TaskOK(doing[k], defined, mapping) /\ SearchOK(doing[k], mapping, duplicated)
      /\ doing[k].at = "inserting"
  BY DEF IInv, SearchesOK, GroupTypeInserted, At
<1>2. /\ index \in Nat /\ index < MAX_GROUP_TYPES_PER_TEAM /\ index <= Cardinality(doing[k].snapshot)
      /\ doing[k].snapshot \subseteq mapping
      /\ doing[k].event.groupType = {type}
  <2>1. index \in Nat /\ doing[k].event \in Captured \cup {NoEvent}
    BY <1>1 DEF TaskOK, Locals
  <2>2. /\ doing[k].event.groupType # {} /\ index < MAX_GROUP_TYPES_PER_TEAM
        /\ doing[k].snapshot \subseteq mapping
    BY <1>1 DEF TaskOK, Inserting
  <2>3. type \in doing[k].event.groupType
    BY <2>2 DEF The
  <2>4. \A g, h \in doing[k].event.groupType : g = h
    BY <2>1, TeamAssumption DEF NoEvent
  <2> QED
    BY <1>1, <2>1, <2>2, <2>3, <2>4 DEF SearchOK
<1>3. /\ {m[2] : m \in mapping} = 0 .. Cardinality(mapping) - 1
      /\ mapping \subseteq GroupType \X (0 .. MAX_GROUP_TYPES_PER_TEAM - 1)
      /\ Cardinality(mapping) \in Nat
  BY AtMostMax DEF IInv, TablesOK, ColumnsAreDense
<1>4. CASE free
  <2>1. End(k, The({index})) /\ mapping' = mapping \cup {<<type, index>>} /\ UNCHANGED duplicated
    BY <1>4 DEF GroupTypeInserted, Rows
  <2>2. The({index}) = index /\ index # NoColumn
    BY <1>2 DEF The, NoColumn
  <2>3. Cardinality(mapping) # MAX_GROUP_TYPES_PER_TEAM
    <3>1. index \notin {m[2] : m \in mapping}
      BY <1>4
    <3> QED
      BY <1>2, <1>3, <3>1, TeamAssumption
  <2> HIDE DEF index, type
  <2> QED
    BY <1>2, <2>1, <2>2, <2>3, EndSearches
<1>5. CASE ~free /\ found = {}
  <2>1. /\ doing' = [doing EXCEPT ![k] = [@ EXCEPT !.at = "insert", !.index = index + 1]]
        /\ UNCHANGED mapping
        /\ duplicated' = IF ColumnsOf(mapping, type) # {} THEN duplicated \cup {type} ELSE duplicated
    BY <1>5 DEF GroupTypeInserted, Rows
  <2>2. index + 1 <= Cardinality(mapping)
    <3>1. PICK m \in mapping : m[1] = type \/ m[2] = index
      BY <1>5
    <3>2. CASE m[2] = index
      <4>1. index \in 0 .. Cardinality(mapping) - 1
        BY <1>3, <3>2
      <4> QED
        BY <1>3, <4>1
    <3>3. CASE m[1] = type
      <4>1. m \notin doing[k].snapshot
        <5>1. ColumnsOf(doing[k].snapshot, type) = {}
          BY <1>2, <1>5
        <5> QED
          BY <3>3, <5>1 DEF ColumnsOf
      <4>2. /\ Cardinality(doing[k].snapshot) < Cardinality(mapping)
            /\ Cardinality(doing[k].snapshot) \in Nat
        BY <1>2, <3>1, <4>1, AtMostMax, FS_Subset, FS_CardinalityType
      <4> QED
        BY <1>2, <1>3, <4>2
    <3> QED
      BY <3>1, <3>2, <3>3
  <2>3. \A g \in doing[k].event.groupType : ColumnsOf(mapping, g) = {} \/ g \in duplicated'
    BY <1>2, <2>1
  <2>4. duplicated \subseteq duplicated' /\ index + 1 \in Nat
    BY <1>2, <2>1
  <2> HIDE DEF index, type
  <2> QED
    BY <2>1, <2>2, <2>3, <2>4, TriesSearches
<1>6. CASE ~free /\ found # {}
  <2>1. End(k, The(found)) /\ UNCHANGED <<mapping, duplicated>>
    BY <1>6 DEF GroupTypeInserted, Rows
  <2>2. The(found) \in found
    BY <1>6 DEF The
  <2>3. PICK m \in doing[k].snapshot : m[2] = The(found)
    BY <2>2 DEF ColumnsOf
  <2>4. The(found) \in Int /\ The(found) # NoColumn
    BY <1>2, <1>3, <2>3, TeamAssumption DEF NoColumn
  <2> QED
    BY <2>1, <2>4, EndSearches
<1> QED
  BY <1>4, <1>5, <1>6

LEMMA NextSearches ==
  ASSUME IInv, SearchesOK, [TeamNext]_teamVars
  PROVE  SearchesOK'
<1>1. IInv'
  BY NextPreserves
<1>2. CASE UNCHANGED teamVars
  BY <1>2 DEF teamVars, SearchesOK
<1>3. ASSUME NEW t \in Worker, CacheExpires(t) PROVE SearchesOK'
  BY <1>3 DEF CacheExpires, SearchesOK
<1> QED
  BY <1>1, <1>2, <1>3, NotSearching, FetchGroupTypesSearches, GroupTypesFetchedSearches, InsertGroupTypeSearches,
     GroupTypeInsertedSearches
  DEF TeamNext

(* NoColumnMeansFull: an event whose group gets no column finds all columns  *)
(* of its team taken by other types, but for the one race of insertGroupType *)
(* in which another task inserts the same type.                              *)
THEOREM NoColumnMeansFullHolds == TeamSpec => []NoColumnMeansFull
<1>1. TeamInit => SearchesOK
  BY DEF TeamInit, SearchesOK, SearchOK, PastTheLast, Idle
<1>2. SearchesOK => NoColumnMeansFull
  BY DEF SearchesOK, SearchOK, PastTheLast, NoColumnMeansFull, At
<1> QED
  BY <1>1, <1>2, NextSearches, Inductive, PTL DEF TeamSpec

(* ColumnsAgree: columns have no gap, events get theirs, and one gets none   *)
(* only if none is left (GroupTypeManager, DB.insertGroupType).              *)
THEOREM ColumnsAgreeHolds == TeamSpec => []ColumnsAgree
<1>1. ColumnsAgree <=> ColumnsAreDense /\ ColumnAgrees /\ NoColumnMeansFull
  BY DEF ColumnsAgree
<1> QED
  BY <1>1, ColumnsAreDenseHolds, ColumnAgreesHolds, NoColumnMeansFullHolds, PTL

-----------------------------------------------------------------------------
(* Whoever sets the flag goes on to the report, and only a failure keeps it  *)
(* from there.                                                               *)
LEMMA FirstEventStaysReported ==
  ASSUME TeamTypeOK, FirstEventIsReported, [TeamNext]_teamVars
  PROVE  FirstEventIsReported'
<1> USE DEF FirstEventIsReported, At, MoveTask
<1>1. doing \in [Handler -> Locals] /\ reports \in Nat
  BY TeamAssumption DEF TeamTypeOK
<1>2. CASE UNCHANGED teamVars
  BY <1>2 DEF teamVars
<1>3. ASSUME NEW k \in Handler, UpdateTeam(k) PROVE FirstEventIsReported'
  BY <1>1, <1>3 DEF UpdateTeam, Locals
<1>4. ASSUME NEW k \in Handler, Report(k) PROVE FirstEventIsReported'
  BY <1>1, <1>4 DEF Report
<1>5. ASSUME NEW k \in Handler, Fail(k) PROVE FirstEventIsReported'
  BY <1>1, <1>5 DEF Fail, Idle
<1>6. ASSUME NEW t \in Worker, CacheExpires(t) PROVE FirstEventIsReported'
  BY <1>6 DEF CacheExpires
<1>7. ASSUME NEW k \in Handler, ~ At(k, "members"), UNCHANGED <<ingested, reports, unreported>>,
             \A j \in Handler : j # k => doing'[j] = doing[j]
      PROVE  FirstEventIsReported'
  BY <1>7
<1>8. ASSUME NEW k \in Handler,
             \/ Begin(k) \/ FetchTeam(k) \/ FetchTeamAgain(k) \/ Define(k) \/ Defined(k)
             \/ CacheNames(k, "event", "names", "properties")
             \/ CacheNames(k, "property", "properties", "define")
             \/ FetchGroupTypes(k) \/ GroupTypesFetched(k) \/ InsertGroupType(k) \/ GroupTypeInserted(k)
      PROVE  FirstEventIsReported'
  <2>1. ~ At(k, "members") /\ UNCHANGED <<ingested, reports, unreported>>
    BY <1>8 DEF Begin, FetchTeam, FetchTeamAgain, Define, Defined, CacheNames, FetchGroupTypes,
                GroupTypesFetched, UseTypes,
                InsertGroupType, GroupTypeInserted, teamCaches
  <2>2. \E d : doing' = [doing EXCEPT ![k] = d]
    BY <1>8 DEF Begin, FetchTeam, FetchTeamAgain, Define, Defined, CacheNames, FetchGroupTypes,
                GroupTypesFetched, UseTypes,
                InsertGroupType, GroupTypeInserted, End, ToGroups
  <2> QED
    BY <1>1, <1>7, <2>1, <2>2
<1> QED
  BY <1>2, <1>3, <1>4, <1>5, <1>6, <1>8 DEF TeamNext

(* DefinitionsOK: types, what handled events need is there, and the first    *)
(* event of the team is reported (updateEventNamesAndProperties).            *)
THEOREM DefinitionsOKHolds == TeamSpec => []DefinitionsOK
<1>1. TeamInit => FirstEventIsReported
  BY DEF TeamInit, FirstEventIsReported
<1>2. DefinitionsOK <=> TeamTypeOK /\ HandledIsDefined /\ FirstEventIsReported
  BY DEF DefinitionsOK
<1> QED
  BY <1>1, <1>2, TypeCorrect, HandledIsDefinedHolds, FirstEventStaysReported, PTL DEF TeamSpec


-----------------------------------------------------------------------------
(* ActionMatching. The loop over the parts of a selector is related to an    *)
(* assignment of elements to tags in three steps: what is left without stars *)
(* is a selector that matches as much; its parts are its tags in order; and  *)
(* what the loop finds is such an assignment. Inductions are by a least      *)
(* counterexample (LeastNat).                                                *)

-----------------------------------------------------------------------------
(* Numbers and positions                                                    *)

(* A nonempty set of naturals has a least element.                           *)
LEMMA LeastNat ==
  ASSUME NEW T, T \subseteq Nat, T # {}
  PROVE  \E x \in T : \A y \in T : x <= y
<1>1. \E x \in T : \A y \in T : ~ (<<y, x>> \in OpToRel(<, Nat))
  BY WFMin, NatLessThanWellFounded
<1>2. PICK x \in T : \A y \in T : ~ (<<y, x>> \in OpToRel(<, Nat))
  BY <1>1
<1>3. \A y \in T : ~ (y < x)
  BY <1>2 DEF OpToRel
<1> QED BY <1>3

(* The rank of a position among those of a set.                              *)
UpTo(S, x) == {j \in S : j <= x}
Rank(S, x) == Cardinality(UpTo(S, x))

LEMMA RankBounds ==
  ASSUME NEW n \in Nat, NEW S, S \subseteq 1 .. n, NEW x \in Int
  PROVE  /\ IsFiniteSet(UpTo(S, x)) /\ Rank(S, x) \in Nat
         /\ Cardinality(S) \in Nat /\ Rank(S, x) <= Cardinality(S)
<1>1. IsFiniteSet(S) /\ Cardinality(S) \in Nat
  <2>1. IsFiniteSet(1 .. n)
    BY FS_Interval
  <2>2. IsFiniteSet(S)
    BY <2>1, FS_Subset
  <2> QED BY <2>2, FS_CardinalityType
<1>2. UpTo(S, x) \in SUBSET S
  BY DEF UpTo
<1> QED BY <1>1, <1>2, FS_Subset, FS_CardinalityType DEF Rank

(* A later position has a higher rank.                                       *)
LEMMA RankGrows ==
  ASSUME NEW n \in Nat, NEW S, S \subseteq 1 .. n, NEW x \in S, NEW y \in S, x < y
  PROVE  Rank(S, x) < Rank(S, y)
<1>1. x \in Int /\ y \in Int
  OBVIOUS
<1>2. IsFiniteSet(UpTo(S, x)) /\ IsFiniteSet(UpTo(S, y)) /\ Rank(S, x) \in Nat /\ Rank(S, y) \in Nat
  BY <1>1, RankBounds
<1>3. y \notin UpTo(S, x) /\ UpTo(S, x) \cup {y} \in SUBSET UpTo(S, y)
  <2>1. \A j \in S : j \in Int
    OBVIOUS
  <2>2. y \notin UpTo(S, x)
    BY <1>1 DEF UpTo
  <2>3. ASSUME NEW j \in UpTo(S, x) PROVE j \in UpTo(S, y)
    BY <1>1, <2>1, <2>3 DEF UpTo
  <2>4. y \in UpTo(S, y)
    BY <1>1 DEF UpTo
  <2> QED BY <2>2, <2>3, <2>4
<1>4. Cardinality(UpTo(S, x) \cup {y}) = Rank(S, x) + 1
  BY <1>2, <1>3, FS_AddElement DEF Rank
<1>5. Cardinality(UpTo(S, x) \cup {y}) <= Rank(S, y)
  BY <1>2, <1>3, FS_Subset DEF Rank
<1> QED BY <1>2, <1>4, <1>5

(* Each rank is that of some position.                                       *)
LEMMA RankExists ==
  ASSUME NEW n \in Nat, NEW S, S \subseteq 1 .. n, NEW k \in 1 .. Cardinality(S)
  PROVE  \E x \in S : Rank(S, x) = k
<1> DEFINE T == {x \in Nat : Rank(S, x) >= k}
<1>0. \A j \in S : j \in Int /\ 1 <= j /\ j <= n
  OBVIOUS
<1>1. UpTo(S, n) = S
  BY <1>0 DEF UpTo
<1>b. k \in Int /\ \A x \in Nat : Rank(S, x) \in Nat
  <2>1. Cardinality(S) \in Nat
    BY RankBounds, 0 \in Int
  <2>2. ASSUME NEW x \in Nat PROVE Rank(S, x) \in Nat
    BY x \in Int, RankBounds
  <2> QED BY <2>1, <2>2
<1>2. n \in T
  <2>1. Cardinality(S) \in Nat
    BY RankBounds, 0 \in Int
  <2> QED BY <1>1, <2>1 DEF Rank
<1>3. PICK x \in T : \A y \in T : x <= y
  BY <1>2, LeastNat
<1>4. UpTo(S, 0) = {} /\ Rank(S, 0) = 0
  <2>1. UpTo(S, 0) = {}
    <3>1. ASSUME NEW j \in UpTo(S, 0) PROVE FALSE
      BY <1>0, <3>1 DEF UpTo
    <3> QED BY <3>1
  <2> QED BY <2>1, FS_EmptySet DEF Rank
<1>5. x # 0 /\ x - 1 \in Nat /\ x - 1 \notin T
  BY <1>3, <1>4, <1>b
<1>6. Rank(S, x - 1) < k /\ Rank(S, x - 1) \in Nat /\ Rank(S, x) \in Nat /\ Rank(S, x) >= k
  BY <1>3, <1>5, <1>b
<1>7. ASSUME x \notin S PROVE FALSE
  <2>1. UpTo(S, x) = UpTo(S, x - 1)
    <3>1. ASSUME NEW j \in S PROVE j <= x <=> j <= x - 1
      BY <1>3, <1>5, <1>7, <1>0, <3>1
    <3> QED BY <3>1 DEF UpTo
  <2> QED BY <2>1, <1>6 DEF Rank
<1>8. UpTo(S, x) = UpTo(S, x - 1) \cup {x} /\ x \notin UpTo(S, x - 1)
  <2>1. ASSUME NEW j \in S PROVE j <= x <=> j <= x - 1 \/ j = x
    BY <1>3, <1>5, <1>0, <2>1
  <2>2. ~ (x <= x - 1)
    BY <1>3, <1>5
  <2> QED BY <2>1, <2>2, <1>7 DEF UpTo
<1>9. Rank(S, x) = Rank(S, x - 1) + 1
  <2>1. IsFiniteSet(UpTo(S, x - 1))
    BY <1>5, x - 1 \in Int, RankBounds
  <2> QED BY <2>1, <1>8, FS_AddElement DEF Rank
<1> QED BY <1>6, <1>7, <1>9

(* pos lists the m members of S in their order.                              *)
Lists(pos, m, S) ==
  /\ S \subseteq Int /\ m \in Nat /\ pos \in [1 .. m -> S]
  /\ \A i, j \in 1 .. m : i < j => pos[i] < pos[j]
  /\ \A x \in S : \E k \in 1 .. m : pos[k] = x

(* Ascending lists the positions of a set in their order.                    *)
LEMMA AscendingFacts ==
  ASSUME NEW n \in Nat, NEW S, S \subseteq 1 .. n
  PROVE  Lists(Ascending(S), Cardinality(S), S)
<1> DEFINE m == Cardinality(S)
           a == Ascending(S)
<1>1. m \in Nat /\ \A j \in S : j \in Int /\ Rank(S, j) \in Nat /\ Rank(S, j) <= m
  <2>1. \A j \in S : j \in Int
    OBVIOUS
  <2>2. m \in Nat
    <3>1. 0 \in Int
      OBVIOUS
    <3> QED BY <3>1, RankBounds
  <2> QED BY <2>1, <2>2, RankBounds
<1>2. \A k \in 1 .. m : a[k] \in S /\ Rank(S, a[k]) = k
  <2> TAKE k \in 1 .. m
  <2>1. a[k] = CHOOSE i \in S : Rank(S, i) = k
    BY DEF Ascending, Rank, UpTo
  <2>2. \E i \in S : Rank(S, i) = k
    BY RankExists
  <2> QED BY <2>1, <2>2
<1>3. a \in [1 .. m -> S]
  BY <1>2 DEF Ascending
<1> HIDE DEF a
<1>4. ASSUME NEW i \in 1 .. m, NEW j \in 1 .. m, i < j PROVE a[i] < a[j]
  <2>1. CASE a[j] < a[i]
    <3>1. Rank(S, a[j]) < Rank(S, a[i])
      BY <2>1, <1>2, RankGrows
    <3> QED BY <3>1, <1>1, <1>2, <1>4
  <2>2. CASE a[j] = a[i]
    BY <2>2, <1>1, <1>2, <1>4
  <2>3. a[i] \in Int /\ a[j] \in Int
    BY <1>1, <1>2
  <2> QED BY <2>1, <2>2, <2>3
<1>5. ASSUME NEW x \in S PROVE \E k \in 1 .. m : a[k] = x
  <2>1. x \in UpTo(S, x) /\ x \in Int
    BY DEF UpTo
  <2>2. Rank(S, x) \in 1 .. m
    <3>1. Rank(S, x) \in Nat /\ Rank(S, x) <= m
      BY <2>1, RankBounds
    <3>2. Rank(S, x) # 0
      BY <2>1, RankBounds, FS_EmptySet DEF Rank
    <3> QED BY <3>1, <3>2, <1>1
  <2>3. a[Rank(S, x)] \in S /\ Rank(S, a[Rank(S, x)]) = Rank(S, x)
    BY <2>2, <1>2
  <2>4. a[Rank(S, x)] = x
    <3>1. ASSUME a[Rank(S, x)] < x PROVE FALSE
      <4>1. Rank(S, a[Rank(S, x)]) < Rank(S, x)
        BY <3>1, <2>3, RankGrows
      <4> QED BY <4>1, <2>2, <2>3
    <3>2. ASSUME x < a[Rank(S, x)] PROVE FALSE
      <4>1. Rank(S, x) < Rank(S, a[Rank(S, x)])
        BY <3>2, <2>3, RankGrows
      <4> QED BY <4>1, <2>2, <2>3
    <3>3. a[Rank(S, x)] \in Int
      BY <2>3, <1>1
    <3> QED BY <3>1, <3>2, <3>3, <2>1
  <2> QED BY <2>2, <2>4
<1> QED BY <1>1, <1>3, <1>4, <1>5 DEF a, Lists

-----------------------------------------------------------------------------
(* Selectors                                                                *)

(* What MatchingAssumption says of a selector.                               *)
Selector(tokens) ==
  /\ tokens \in Seq(Range(tokens))
  /\ tokens # <<>> => tokens[1] # Child /\ tokens[Len(tokens)] # Child
  /\ \A i \in 1 .. Len(tokens) - 1 : tokens[i] = Child => tokens[i + 1] # Child

NoChildStarChild(tokens) ==
  \A i \in 1 .. Len(tokens) - 2 : ~ (tokens[i] = Child /\ tokens[i + 1] = Star /\ tokens[i + 2] = Child)

LEMMA ChildIsNotStar == Child # Star
BY DEF Child, Star

(* There is a set of occurrences to replace, as Replaced asks for.           *)
Leftmost(starts, occurrences, n) ==
  \A i \in occurrences : i \in starts <=> \A j \in starts : j < i => j + n <= i

LEMMA LeftmostExists ==
  ASSUME NEW E, NEW s \in Seq(E), NEW O, O \subseteq 1 .. Len(s), NEW n \in Nat \ {0}
  PROVE  \E starts \in SUBSET O : Leftmost(starts, O, n)
<1> DEFINE l == Len(s)
            Below(b) == {i \in O : i <= b}
           Bad == {b \in Nat : ~ \E starts \in SUBSET Below(b) : Leftmost(starts, Below(b), n)}
<1>0. \A i \in O : i \in Int /\ 1 <= i /\ i <= l
  OBVIOUS
<1>1. Below(l) = O
  BY <1>0
<1>2. CASE Bad = {}
  <2>1. l \notin Bad
    BY <1>2
  <2> QED BY <1>1, <2>1
<1>3. CASE Bad # {}
  <2>1. PICK b \in Bad : \A c \in Bad : b <= c
    BY <1>3, LeastNat
  <2>2. b # 0
    <3>1. Below(0) = {}
      <4>1. ASSUME NEW i \in Below(0) PROVE FALSE
        BY <1>0, <4>1
      <4> QED BY <4>1
    <3>2. {} \in SUBSET Below(0) /\ Leftmost({}, Below(0), n)
      BY <3>1 DEF Leftmost
    <3> QED BY <3>2
  <2>3. b - 1 \in Nat /\ b - 1 \notin Bad
    <3>1. b \in Nat
      BY <2>1
    <3> HIDE DEF Bad
    <3> QED BY <2>1, <2>2, <3>1
  <2>4. PICK S \in SUBSET Below(b - 1) : Leftmost(S, Below(b - 1), n)
    BY <2>3
  <2>5. \A i \in O : i <= b <=> i <= b - 1 \/ i = b
    BY <1>0, <2>3
  <2>6. \A i \in Below(b - 1) : i \in Below(b) /\ i # b /\ i < b
    BY <1>0, <2>3
  <2>7. CASE b \in O /\ \A j \in S : j + n <= b
    <3>1. S \cup {b} \in SUBSET Below(b)
      BY <2>4, <2>6, <2>7
    <3>2. ASSUME NEW i \in Below(b)
          PROVE  i \in S \cup {b} <=> \A j \in S \cup {b} : j < i => j + n <= i
      <4>1. CASE i = b
        BY <4>1, <2>7, <2>4, <1>0
      <4>2. CASE i # b
        <5>1. i \in Below(b - 1) /\ ~ (b < i)
          BY <4>2, <2>5, <1>0
        <5>2. i \in S <=> \A j \in S : j < i => j + n <= i
          BY <5>1, <2>4 DEF Leftmost
        <5> QED BY <4>2, <5>1, <5>2
      <4> QED BY <4>1, <4>2
    <3>3. Leftmost(S \cup {b}, Below(b), n)
      BY <3>2 DEF Leftmost
    <3> QED BY <2>1, <3>1, <3>3
  <2>8. CASE ~ (b \in O /\ \A j \in S : j + n <= b)
    <3>1. S \in SUBSET Below(b)
      BY <2>4, <2>6
    <3>2. ASSUME NEW i \in Below(b)
          PROVE  i \in S <=> \A j \in S : j < i => j + n <= i
      <4>1. CASE i = b
        <5>1. i \notin S /\ \A j \in S : j < b
          BY <4>1, <2>4, <2>6
        <5> QED BY <4>1, <5>1, <2>8
      <4>2. CASE i # b
        <5>1. i \in Below(b - 1)
          BY <4>2, <2>5, <1>0
        <5> QED BY <5>1, <2>4 DEF Leftmost
      <4> QED BY <4>1, <4>2
    <3>3. Leftmost(S, Below(b), n)
      BY <3>2 DEF Leftmost
    <3> QED BY <2>1, <3>1, <3>3
  <2> QED BY <2>7, <2>8
<1> QED BY <1>2, <1>3

(* Where pattern occurs in tokens, and what Replaced says of it.             *)
OccursAt(tokens, pattern, i) ==
  i + Len(pattern) - 1 <= Len(tokens) /\ SubSeq(tokens, i, i + Len(pattern) - 1) = pattern

LEMMA ReplacedFacts ==
  ASSUME NEW E, NEW tokens \in Seq(E), NEW F, NEW pattern \in Seq(F), pattern # <<>>
  PROVE  LET O == {i \in DOMAIN tokens : OccursAt(tokens, pattern, i)}
         IN  Replaced(tokens, pattern) \in SUBSET O /\ Leftmost(Replaced(tokens, pattern), O, Len(pattern))
<1> DEFINE O == {i \in DOMAIN tokens : OccursAt(tokens, pattern, i)}
<1>1. Len(tokens) \in Nat /\ Len(pattern) \in Nat \ {0} /\ DOMAIN tokens = 1 .. Len(tokens)
  OBVIOUS
<1>2. O \subseteq 1 .. Len(tokens)
  BY <1>1
<1> HIDE DEF O
<1>3. \E starts \in SUBSET O : Leftmost(starts, O, Len(pattern))
  BY <1>1, <1>2, LeftmostExists
<1>4. Replaced(tokens, pattern) = CHOOSE starts \in SUBSET O : Leftmost(starts, O, Len(pattern))
  BY DEF Replaced, O, OccursAt, Leftmost
<1> QED BY <1>3, <1>4 DEF O

(* The tokens kept are those of the positions pos, in their order.           *)
Kept(tokens, pattern) ==
  {i \in DOMAIN tokens : \A j \in Replaced(tokens, pattern) : i \notin j .. j + Len(pattern) - 1}

LEMMA WithoutFacts ==
  ASSUME NEW tokens, tokens \in Seq(Range(tokens)), NEW pattern
  PROVE  LET K == Kept(tokens, pattern)
             rest == Without(tokens, pattern)
         IN  /\ rest \in Seq(Range(rest)) /\ Len(rest) \in Nat
             /\ Lists(Ascending(K), Len(rest), K)
             /\ \A k \in 1 .. Len(rest) : rest[k] = tokens[Ascending(K)[k]]
<1> DEFINE K == Kept(tokens, pattern)
           pos == Ascending(K)
           rest == Without(tokens, pattern)
<1>1. K \subseteq 1 .. Len(tokens) /\ Len(tokens) \in Nat
  BY DEF Kept
<1> HIDE DEF K
<1>2. Lists(pos, Cardinality(K), K)
  BY <1>1, AscendingFacts
<1>3. rest = [k \in DOMAIN pos |-> tokens[pos[k]]]
  BY DEF Without, K, Kept
<1> HIDE DEF pos, rest
<1>4. rest = [k \in 1 .. Cardinality(K) |-> tokens[pos[k]]] /\ Cardinality(K) \in Nat
  BY <1>2, <1>3 DEF Lists
<1>5. \A k \in 1 .. Cardinality(K) : rest[k] = tokens[pos[k]]
  BY <1>4
<1>6. rest \in Seq(Range(rest))
  <2>1. DOMAIN rest = 1 .. Cardinality(K)
    BY <1>4
  <2>2. rest \in [1 .. Cardinality(K) -> Range(rest)]
    BY <1>4, <2>1 DEF Range
  <2>3. Cardinality(K) \in Nat
    BY <1>4
  <2> QED BY <2>2, <2>3, SeqDef
<1>7. Len(rest) = Cardinality(K)
  BY <1>4, <1>6, LenProperties
<1> QED BY <1>2, <1>4, <1>5, <1>6, <1>7 DEF pos, rest, K

(* What the positions of consecutive tokens are.                             *)
LEMMA Consecutive ==
  ASSUME NEW m, NEW K, NEW pos, Lists(pos, m, K)
  PROVE  \A k \in 1 .. m :
           /\ pos[k] + 1 \in K => k + 1 \in 1 .. m /\ pos[k + 1] = pos[k] + 1
           /\ pos[k] - 1 \in K => k - 1 \in 1 .. m /\ pos[k - 1] = pos[k] - 1
<1> TAKE k \in 1 .. m
<1> USE DEF Lists
<1>0. m \in Nat /\ \A i \in 1 .. m : pos[i] \in Int
  OBVIOUS
<1>1. ASSUME pos[k] + 1 \in K PROVE k + 1 \in 1 .. m /\ pos[k + 1] = pos[k] + 1
  <2>1. PICK j \in 1 .. m : pos[j] = pos[k] + 1
    BY <1>1
  <2>2. k < j
    BY <2>1, <1>0
  <2>3. k + 1 \in 1 .. m
    BY <2>2
  <2>4. CASE j = k + 1
    BY <2>1, <2>3, <2>4
  <2>5. CASE j # k + 1
    <3>1. k + 1 < j /\ k < k + 1
      BY <2>2, <2>5
    <3>2. pos[k + 1] < pos[j] /\ pos[k] < pos[k + 1]
      BY <3>1, <2>3
    <3> QED BY <3>2, <2>1, <2>3, <1>0
  <2> QED BY <2>4, <2>5
<1>2. ASSUME pos[k] - 1 \in K PROVE k - 1 \in 1 .. m /\ pos[k - 1] = pos[k] - 1
  <2>1. PICK j \in 1 .. m : pos[j] = pos[k] - 1
    BY <1>2
  <2>2. j < k
    BY <2>1, <1>0
  <2>3. k - 1 \in 1 .. m
    BY <2>2
  <2>4. CASE j = k - 1
    BY <2>1, <2>3, <2>4
  <2>5. CASE j # k - 1
    <3>1. j < k - 1 /\ k - 1 < k
      BY <2>2, <2>5
    <3>2. pos[j] < pos[k - 1] /\ pos[k - 1] < pos[k]
      BY <3>1, <2>3
    <3> QED BY <3>2, <2>1, <2>3, <1>0
  <2> QED BY <2>4, <2>5
<1> QED BY <1>1, <1>2

(* A > stands between two tags.                                              *)
LEMMA ChildIsBetween ==
  ASSUME NEW tokens, Selector(tokens), NEW p \in 1 .. Len(tokens), tokens[p] = Child
  PROVE  /\ p - 1 \in 1 .. Len(tokens) /\ tokens[p - 1] # Child
         /\ p + 1 \in 1 .. Len(tokens) /\ tokens[p + 1] # Child
<1>0. Len(tokens) \in Nat /\ DOMAIN tokens = 1 .. Len(tokens)
  BY DEF Selector
<1>1. p # 1 /\ p # Len(tokens)
  <2>1. tokens # <<>>
    BY <1>0
  <2> QED BY <2>1 DEF Selector
<1>2. p - 1 \in 1 .. Len(tokens) - 1 /\ p \in 1 .. Len(tokens) - 1
  <2> DEFINE l == Len(tokens)
  <2>1. l \in Nat /\ p \in 1 .. l /\ p # 1 /\ p # l
    BY <1>0, <1>1
  <2> HIDE DEF l
  <2>2. p - 1 \in 1 .. l - 1 /\ p \in 1 .. l - 1
    BY <2>1
  <2> QED BY <2>2 DEF l
<1>3. tokens[p + 1] # Child
  BY <1>2 DEF Selector
<1>4. tokens[(p - 1) + 1] = Child
  BY <1>2
<1>5. tokens[p - 1] # Child
  BY <1>2, <1>4 DEF Selector
<1> QED BY <1>0, <1>2, <1>3, <1>5

(* What the two patterns of WithoutStars look like where they occur.         *)
IsPattern(pattern) == pattern \in {<<Child, Star, Child>>, <<Child, Star>>}

LEMMA PatternLength ==
  ASSUME NEW pattern, IsPattern(pattern)
  PROVE  /\ pattern \in Seq({Child, Star}) /\ pattern # <<>> /\ Len(pattern) \in {2, 3}
         /\ Len(pattern) = 3 <=> pattern = <<Child, Star, Child>>
<1>1. CASE pattern = <<Child, Star, Child>>
  BY <1>1
<1>2. CASE pattern = <<Child, Star>>
  BY <1>2
<1> QED BY <1>1, <1>2 DEF IsPattern

LEMMA PatternOccurs ==
  ASSUME NEW tokens, Selector(tokens), NEW pattern, IsPattern(pattern), NEW i \in DOMAIN tokens
  PROVE  OccursAt(tokens, pattern, i) <=>
           /\ i + Len(pattern) - 1 <= Len(tokens)
           /\ tokens[i] = Child /\ tokens[i + 1] = Star
           /\ Len(pattern) = 3 => tokens[i + 2] = Child
<1>0. Len(tokens) \in Nat /\ DOMAIN tokens = 1 .. Len(tokens) /\ i \in Nat /\ i >= 1 /\ tokens \in Seq(Range(tokens))
  BY DEF Selector
<1>1. CASE pattern = <<Child, Star, Child>>
  <2>1. pattern \in Seq({Child, Star}) /\ pattern # <<>> /\ Len(pattern) = 3
    BY <1>1
  <2>2. ASSUME i + 2 <= Len(tokens)
        PROVE  SubSeq(tokens, i, i + 2) = pattern <=>
                 tokens[i] = Child /\ tokens[i + 1] = Star /\ tokens[i + 2] = Child
    <3> DEFINE t == SubSeq(tokens, i, i + 2)
    <3>2. t \in Seq(Range(tokens)) /\ Len(t) = 3 /\ t[1] = tokens[i] /\ t[2] = tokens[i + 1] /\ t[3] = tokens[i + 2]
      <4>1. /\ t \in Seq(Range(tokens)) /\ Len(t) = 3
            /\ \A j \in 1 .. 3 : t[j] = tokens[i + j - 1]
        <5>1. /\ t \in Seq(Range(tokens)) /\ Len(t) = (IF i <= i + 2 THEN i + 2 - i + 1 ELSE 0)
              /\ \A j \in 1 .. i + 2 - i + 1 : t[j] = tokens[i + j - 1]
          <6>1. i \in Int /\ i + 2 \in Int /\ \A k \in i .. i + 2 : tokens[k] \in Range(tokens)
            BY <1>0, <2>2
          <6> QED BY <6>1, SubSeqProperties
        <5>2. i <= i + 2 /\ i + 2 - i + 1 = 3
          BY <1>0
        <5> QED BY <5>1, <5>2
      <4>2. i + 1 - 1 = i /\ i + 2 - 1 = i + 1 /\ i + 3 - 1 = i + 2
        BY <1>0
      <4> HIDE DEF t
      <4>3. t[1] = tokens[i + 1 - 1] /\ t[2] = tokens[i + 2 - 1] /\ t[3] = tokens[i + 3 - 1]
        BY <4>1
      <4> QED BY <4>1, <4>2, <4>3
    <3> HIDE DEF t
    <3>3. t = <<t[1], t[2], t[3]>>
      BY <3>2
    <3>4. pattern[1] = Child /\ pattern[2] = Star /\ pattern[3] = Child
      BY <1>1
    <3> QED BY <3>2, <3>3, <3>4, <1>1 DEF t
  <2> QED BY <2>1, <2>2, <1>0, <1>1 DEF OccursAt
<1>2. CASE pattern = <<Child, Star>>
  <2>1. pattern \in Seq({Child, Star}) /\ pattern # <<>> /\ Len(pattern) = 2 /\ pattern # <<Child, Star, Child>>
    BY <1>2
  <2>2. ASSUME i + 1 <= Len(tokens)
        PROVE  SubSeq(tokens, i, i + 1) = pattern <=> tokens[i] = Child /\ tokens[i + 1] = Star
    <3> DEFINE t == SubSeq(tokens, i, i + 1)
    <3>2. t \in Seq(Range(tokens)) /\ Len(t) = 2 /\ t[1] = tokens[i] /\ t[2] = tokens[i + 1]
      BY <1>0, <2>2, SubSeqProperties
    <3> HIDE DEF t
    <3>3. t = <<t[1], t[2]>>
      BY <3>2
    <3>4. pattern[1] = Child /\ pattern[2] = Star
      BY <1>2
    <3> QED BY <3>2, <3>3, <3>4, <1>2 DEF t
  <2> QED BY <2>1, <2>2, <1>0, <1>2 DEF OccursAt
<1> QED BY <1>1, <1>2 DEF IsPattern

(* The tags a > that is kept stands between are kept.                        *)
LEMMA KeptNeighbours ==
  ASSUME NEW tokens, Selector(tokens), NEW pattern, IsPattern(pattern),
         pattern = <<Child, Star>> => NoChildStarChild(tokens),
         NEW p \in Kept(tokens, pattern), tokens[p] = Child
  PROVE  p - 1 \in Kept(tokens, pattern) /\ p + 1 \in Kept(tokens, pattern)
<1> DEFINE R == Replaced(tokens, pattern)
           n == Len(pattern)
<1>0. Len(tokens) \in Nat /\ DOMAIN tokens = 1 .. Len(tokens) /\ p \in 1 .. Len(tokens)
  BY DEF Selector, Kept
<1>1. /\ p - 1 \in 1 .. Len(tokens) /\ tokens[p - 1] # Child
      /\ p + 1 \in 1 .. Len(tokens) /\ tokens[p + 1] # Child
  BY <1>0, ChildIsBetween
<1>2. n \in {2, 3} /\ pattern \in Seq({Child, Star}) /\ pattern # <<>> /\ (n = 3 <=> pattern = <<Child, Star, Child>>)
  BY PatternLength
<1>3. ASSUME NEW r \in R
      PROVE  /\ r \in 1 .. Len(tokens) /\ r + n - 1 <= Len(tokens)
             /\ tokens[r] = Child /\ tokens[r + 1] = Star /\ (n = 3 => tokens[r + 2] = Child)
  <2>1. r \in DOMAIN tokens /\ OccursAt(tokens, pattern, r)
    BY <1>2, <1>3, ReplacedFacts DEF Selector
  <2> QED BY <2>1, <1>0, PatternOccurs
<1>4. \A r \in R : p \notin r .. r + n - 1
  BY DEF Kept
<1> HIDE DEF R, n
<1>5. ASSUME NEW r \in R, p + 1 \in r .. r + n - 1 PROVE FALSE
  <2>1. r = p + 1
    BY <1>0, <1>2, <1>3, <1>4, <1>5
  <2> QED BY <2>1, <1>1, <1>3
<1>6. ASSUME NEW r \in R, p - 1 \in r .. r + n - 1 PROVE FALSE
  <2>1. r + n = p /\ r \in Nat
    BY <1>0, <1>2, <1>3, <1>4, <1>6
  <2>2. CASE n = 3
    BY <2>1, <2>2, <1>1, <1>3
  <2>3. CASE n = 2
    <3>1. r = p - 2 /\ tokens[p - 2] = Child /\ tokens[p - 1] = Star
      BY <2>1, <2>3, <1>0, <1>3
    <3>2. p - 2 \in 1 .. Len(tokens) - 2 /\ (p - 2) + 1 = p - 1 /\ (p - 2) + 2 = p
      BY <2>1, <3>1, <1>0, <1>3
    <3>3. NoChildStarChild(tokens)
      BY <1>2, <2>3 DEF IsPattern
    <3> QED BY <3>1, <3>2, <3>3 DEF NoChildStarChild
  <2> QED BY <2>2, <2>3, <1>2
<1> QED BY <1>0, <1>1, <1>5, <1>6 DEF Kept, R, n

(* A replacement leaves a selector, which matches what the one before it does. *)
LEMMA ReplacementWeakens ==
  ASSUME NEW tokens, Selector(tokens), NEW pattern, IsPattern(pattern),
         pattern = <<Child, Star>> => NoChildStarChild(tokens)
  PROVE  /\ Selector(Without(tokens, pattern))
         /\ \A elements : MatchesCSS(elements, tokens) => MatchesCSS(elements, Without(tokens, pattern))
         /\ pattern = <<Child, Star, Child>> => NoChildStarChild(Without(tokens, pattern))
<1> DEFINE K == Kept(tokens, pattern)
           pos == Ascending(K)
           rest == Without(tokens, pattern)
           m == Len(rest)
<1>0. Len(tokens) \in Nat /\ DOMAIN tokens = 1 .. Len(tokens) /\ tokens \in Seq(Range(tokens))
  BY DEF Selector
<1>a. pattern \in Seq({Child, Star}) /\ pattern # <<>> /\ Len(pattern) \in {2, 3}
  BY PatternLength
<1>c. Lists(pos, m, K) /\ rest \in Seq(Range(rest)) /\ \A k \in 1 .. m : rest[k] = tokens[pos[k]]
  BY <1>0, WithoutFacts
<1>b. /\ rest \in Seq(Range(rest)) /\ m \in Nat
      /\ pos \in [1 .. m -> K]
      /\ \A i, j \in 1 .. m : i < j => pos[i] < pos[j]
      /\ \A x \in K : \E k \in 1 .. m : pos[k] = x
      /\ \A k \in 1 .. m : rest[k] = tokens[pos[k]]
  BY <1>c DEF Lists
<1>1. CASE tokens = <<>>
  <2>1. K = {}
    BY <1>1 DEF Kept
  <2>2. rest = <<>>
    BY <2>1, <1>b, FS_EmptySet
  <2>3. NoChildStarChild(rest)
    BY <2>2 DEF NoChildStarChild
  <2> QED BY <2>2, <2>3, <1>1
<1>2. CASE tokens # <<>>
  <2>2. m \in Nat
    BY <1>b
  <2>3. DOMAIN rest = 1 .. m
    BY <1>b
  <2>4. K \subseteq 1 .. Len(tokens) /\ K \subseteq Int
    BY <1>0 DEF Kept
  <2>5. \A p \in K : tokens[p] = Child => p - 1 \in K /\ p + 1 \in K
    BY KeptNeighbours
  <2> HIDE DEF K, pos, rest, m
  <2>6. ASSUME NEW k \in 1 .. m, rest[k] = Child
        PROVE  /\ k + 1 \in 1 .. m /\ pos[k + 1] = pos[k] + 1
               /\ k - 1 \in 1 .. m /\ pos[k - 1] = pos[k] - 1
               /\ pos[k] \in 1 .. Len(tokens) /\ tokens[pos[k]] = Child
               /\ tokens[pos[k] + 1] # Child /\ tokens[pos[k] - 1] # Child
    <3>1. pos[k] \in K /\ tokens[pos[k]] = Child
      BY <1>b, <2>6
    <3>2. pos[k] - 1 \in K /\ pos[k] + 1 \in K
      BY <3>1, <2>5
    <3>3. /\ k + 1 \in 1 .. m /\ pos[k + 1] = pos[k] + 1
          /\ k - 1 \in 1 .. m /\ pos[k - 1] = pos[k] - 1
      BY <1>c, <3>2, Consecutive
    <3> QED BY <3>1, <3>3, <2>4, ChildIsBetween
  <2>7. Selector(rest)
    <3>1. ASSUME rest # <<>> PROVE rest[1] # Child /\ rest[Len(rest)] # Child
      <4>1. 1 \in 1 .. m /\ m \in 1 .. m /\ 0 \notin 1 .. m /\ m + 1 \notin 1 .. m
        BY <3>1, <1>b DEF m
      <4>2. rest[1] # Child
        BY <4>1, <2>6
      <4>3. rest[m] # Child
        BY <4>1, <2>6
      <4> QED BY <4>2, <4>3 DEF m
    <3>2. ASSUME NEW i \in 1 .. m - 1, rest[i] = Child PROVE rest[i + 1] # Child
      <4>1. i \in 1 .. m /\ i + 1 \in 1 .. m
        BY <1>b
      <4>2. rest[i + 1] = tokens[pos[i + 1]]
        BY <4>1, <1>b
      <4> QED BY <4>1, <4>2, <3>2, <2>6
    <3> QED BY <3>1, <3>2, <1>b DEF Selector, m
  <2>8. ASSUME NEW elements, MatchesCSS(elements, tokens) PROVE MatchesCSS(elements, rest)
    <3> DEFINE old == TagPositions(tokens)
               tags == TagPositions(rest)
    <3>1. PICK at \in [old -> DOMAIN elements] :
            \A i \in old :
              /\ ElementMatches(elements[at[i]], tokens[i].requirements)
              /\ \A j \in old : j < i => at[i] < at[j]
              /\ i > 2 /\ tokens[i - 1] = Child => at[i] = at[i - 2] - 1
      BY <2>8 DEF MatchesCSS
    <3>2. ASSUME NEW k \in tags
          PROVE  k \in 1 .. m /\ pos[k] \in old /\ rest[k] = tokens[pos[k]]
      BY <1>b, <2>3, <2>4, <1>0 DEF TagPositions
    <3> DEFINE to == [k \in tags |-> at[pos[k]]]
    <3>3. to \in [tags -> DOMAIN elements] /\ \A k \in tags : to[k] = at[pos[k]]
      BY <3>1, <3>2
    <3> HIDE DEF to, tags, old
    <3>4. ASSUME NEW k \in tags
          PROVE  /\ ElementMatches(elements[to[k]], rest[k].requirements)
                 /\ \A j \in tags : j < k => to[k] < to[j]
                 /\ k > 2 /\ rest[k - 1] = Child => to[k] = to[k - 2] - 1
      <4>1. ElementMatches(elements[to[k]], rest[k].requirements)
        BY <3>1, <3>2, <3>3
      <4>2. ASSUME NEW j \in tags, j < k PROVE to[k] < to[j]
        <5>1. pos[j] < pos[k]
          BY <4>2, <3>2, <1>b
        <5> QED BY <5>1, <3>1, <3>2, <3>3
      <4>3. ASSUME k > 2, rest[k - 1] = Child PROVE to[k] = to[k - 2] - 1
        <5>1. k \in Int /\ k - 1 \in 1 .. m /\ (k - 1) + 1 = k /\ (k - 1) - 1 = k - 2
          BY <3>2, <2>2, <4>3
        <5>2. /\ pos[k] = pos[k - 1] + 1 /\ k - 2 \in 1 .. m /\ pos[k - 2] = pos[k - 1] - 1
              /\ pos[k - 1] \in 1 .. Len(tokens) /\ tokens[pos[k - 1]] = Child
              /\ tokens[pos[k - 1] - 1] # Child
          BY <5>1, <4>3, <2>6
        <5>3. rest[k - 2] # Child /\ k - 2 \in tags
          BY <5>2, <1>b, <2>3 DEF tags, TagPositions
        <5>4. pos[k - 1] - 1 \in 1 .. Len(tokens)
          BY <5>2, ChildIsBetween
        <5>5. pos[k] > 2 /\ pos[k] - 1 = pos[k - 1] /\ pos[k] - 2 = pos[k - 2]
          BY <5>2, <5>4, <1>0
        <5>6. at[pos[k]] = at[pos[k] - 2] - 1
          BY <3>1, <3>2, <5>2, <5>5
        <5> QED BY <5>3, <5>5, <5>6, <3>3
      <4> QED BY <4>1, <4>2, <4>3
    <3> QED BY <3>3, <3>4 DEF MatchesCSS, tags
  <2>9. ASSUME pattern = <<Child, Star, Child>> PROVE NoChildStarChild(rest)
    <3> SUFFICES ASSUME NEW k \in 1 .. m - 2, rest[k] = Child, rest[k + 1] = Star, rest[k + 2] = Child
                 PROVE  FALSE
      BY DEF NoChildStarChild, m
    <3> DEFINE p == pos[k]
               R == Replaced(tokens, pattern)
    <3>1. k \in 1 .. m /\ k + 2 \in 1 .. m /\ (k + 2) - 1 = k + 1 /\ k + 1 \in 1 .. m
      BY SMTT(40), <1>b
    <3>2. pos[k + 1] = p + 1 /\ p \in 1 .. Len(tokens) /\ tokens[p] = Child
      BY <3>1, <2>6
    <3>3. pos[k + 1] = pos[k + 2] - 1 /\ pos[k + 2] \in 1 .. Len(tokens) /\ tokens[pos[k + 2]] = Child
      BY <3>1, <2>6
    <3>4. pos[k + 2] = p + 2 /\ p + 2 <= Len(tokens) /\ tokens[p + 1] = Star
      <4>1. pos[k + 2] \in Int /\ p \in Int /\ rest[k + 1] = tokens[pos[k + 1]]
        BY SMTT(40), <3>1, <3>2, <3>3, <1>b
      <4> QED BY <4>1, <3>2, <3>3, <1>0
    <3>5. Len(pattern) = 3 /\ OccursAt(tokens, pattern, p)
      <4>1. p \in DOMAIN tokens /\ Len(pattern) = 3
        BY <3>2, <1>0, <2>9, PatternLength
      <4>2. p + Len(pattern) - 1 <= Len(tokens) /\ tokens[p] = Child /\ tokens[p + 1] = Star /\ tokens[p + 2] = Child
        BY <4>1, <3>2, <3>3, <3>4, <1>0
      <4> QED BY <4>1, <4>2, PatternOccurs
    <3>6. p \in R <=> \A j \in R : j < p => j + 3 <= p
      BY <3>2, <3>5, <1>a, <1>0, ReplacedFacts DEF Leftmost
    <3>7. R \subseteq Int /\ \A j \in R : p \notin j .. j + 2
      <4>1. R \subseteq DOMAIN tokens
        BY <1>a, <1>0, ReplacedFacts
      <4>2. p \in K
        BY <3>1, <1>b
      <4> QED BY <4>1, <4>2, <3>5, <1>0 DEF K, Kept
    <3> HIDE DEF R, p
    <3>8. p \in Int
      BY <3>2
    <3>9. \A j \in R : j < p => j + 3 <= p
      BY <3>7, <3>8
    <3> QED BY <3>6, <3>7, <3>8, <3>9
  <2> QED BY <2>7, <2>8, <2>9 DEF rest
<1> QED BY <1>1, <1>2

LEMMA WithoutStarsWeakens ==
  ASSUME NEW tokens, Selector(tokens)
  PROVE  /\ Selector(WithoutStars(tokens))
         /\ \A elements : MatchesCSS(elements, tokens) => MatchesCSS(elements, WithoutStars(tokens))
<1> DEFINE first == Without(tokens, <<Child, Star, Child>>)
<1>1. IsPattern(<<Child, Star, Child>>) /\ IsPattern(<<Child, Star>>) /\ <<Child, Star>> # <<Child, Star, Child>>
  BY DEF IsPattern
<1>2. /\ Selector(first) /\ NoChildStarChild(first)
      /\ \A elements : MatchesCSS(elements, tokens) => MatchesCSS(elements, first)
  BY <1>1, ReplacementWeakens
<1>3. WithoutStars(tokens) = Without(first, <<Child, Star>>)
  BY DEF WithoutStars
<1> HIDE DEF first
<1>4. /\ Selector(Without(first, <<Child, Star>>))
      /\ \A elements : MatchesCSS(elements, first) => MatchesCSS(elements, Without(first, <<Child, Star>>))
  BY <1>1, <1>2, ReplacementWeakens
<1> QED BY <1>2, <1>3, <1>4

LEMMA AscendingInterval ==
  ASSUME NEW n \in Nat
  PROVE  Ascending(1 .. n) = [k \in 1 .. n |-> k]
<1>1. Cardinality(1 .. n) = n
  BY FS_Interval
<1>2. ASSUME NEW x \in 1 .. n PROVE Rank(1 .. n, x) = x
  <2>1. UpTo(1 .. n, x) = 1 .. x
    BY DEF UpTo
  <2>2. Cardinality(1 .. x) = x
    BY FS_Interval
  <2> QED BY <2>1, <2>2 DEF Rank
<1>3. \A k \in 1 .. n : (CHOOSE i \in 1 .. n : Rank(1 .. n, i) = k) = k
  BY <1>2
<1>4. Ascending(1 .. n) = [k \in 1 .. n |-> CHOOSE i \in 1 .. n : Rank(1 .. n, i) = k]
  BY <1>1 DEF Ascending, Rank, UpTo
<1> QED BY <1>3, <1>4

(* A selector without a star after > is left as it is.                       *)
LEMMA NothingReplaced ==
  ASSUME NEW tokens, Selector(tokens), ~ChildStar(tokens), NEW pattern, IsPattern(pattern)
  PROVE  Without(tokens, pattern) = tokens
<1>0. Len(tokens) \in Nat /\ DOMAIN tokens = 1 .. Len(tokens) /\ tokens \in Seq(Range(tokens))
  BY DEF Selector
<1>1. pattern \in Seq({Child, Star}) /\ pattern # <<>> /\ Len(pattern) \in {2, 3}
  BY PatternLength
<1>2. ASSUME NEW i \in DOMAIN tokens, OccursAt(tokens, pattern, i) PROVE FALSE
  <2>1. i + Len(pattern) - 1 <= Len(tokens) /\ tokens[i] = Child /\ tokens[i + 1] = Star
    BY <1>2, PatternOccurs
  <2> DEFINE n == Len(pattern)
             l == Len(tokens)
  <2>2. n \in {2, 3} /\ l \in Nat /\ i \in 1 .. l /\ i + n - 1 <= l
    BY <1>0, <1>1, <2>1
  <2> HIDE DEF n, l
  <2>3. i + 1 \in 1 .. l
    BY <2>2
  <2> QED BY <2>1, <2>3, <1>0 DEF ChildStar, l
<1>3. Replaced(tokens, pattern) = {}
  BY <1>0, <1>1, <1>2, ReplacedFacts
<1>4. Kept(tokens, pattern) = 1 .. Len(tokens)
  BY <1>0, <1>3 DEF Kept
<1>5. Without(tokens, pattern) =
        [k \in DOMAIN Ascending(Kept(tokens, pattern)) |-> tokens[Ascending(Kept(tokens, pattern))[k]]]
  BY DEF Without, Kept
<1>6. Ascending(Kept(tokens, pattern)) = [k \in 1 .. Len(tokens) |-> k]
  BY <1>0, <1>4, AscendingInterval
<1>7. Without(tokens, pattern) = [k \in 1 .. Len(tokens) |-> tokens[k]]
  <2> DEFINE pos == Ascending(Kept(tokens, pattern))
  <2>1. Without(tokens, pattern) = [k \in DOMAIN pos |-> tokens[pos[k]]]
    BY <1>5
  <2>2. pos = [k \in 1 .. Len(tokens) |-> k]
    BY <1>6
  <2> HIDE DEF pos
  <2> QED BY <2>1, <2>2
<1> QED BY <1>0, <1>7

LEMMA WithoutStarsUnchanged ==
  ASSUME NEW tokens, Selector(tokens), ~ChildStar(tokens)
  PROVE  WithoutStars(tokens) = tokens
BY NothingReplaced DEF WithoutStars, IsPattern

-----------------------------------------------------------------------------
(* Parts of a selector                                                      *)

(* parts are those of tokens, whose tags are at pos.                         *)
PartsOf(tokens, parts, pos) ==
  /\ parts \in Seq(Range(parts)) /\ Lists(pos, Len(parts), TagPositions(tokens))
  /\ \A k \in 1 .. Len(parts) :
       /\ parts[k].requirements = tokens[pos[k]].requirements
       /\ parts[k].directDescendant <=> pos[k] > 2 /\ tokens[pos[k] - 1] = Child
       /\ parts[k].directDescendant => k - 1 \in 1 .. Len(parts) /\ pos[k - 1] = pos[k] - 2

LEMMA PartsFacts ==
  ASSUME NEW tokens, Selector(tokens)
  PROVE  PartsOf(tokens, SelectorParts(tokens), Ascending(TagPositions(tokens)))
<1> DEFINE T == TagPositions(tokens)
           m == Cardinality(T)
           pos == Ascending(T)
           parts == SelectorParts(tokens)
           l == Len(tokens)
<1>0. l \in Nat /\ DOMAIN tokens = 1 .. l
  BY DEF Selector
<1>1. T \subseteq 1 .. l /\ \A p \in 1 .. l : p \in T <=> tokens[p] # Child
  BY <1>0 DEF TagPositions
<1>2. Lists(pos, m, T)
  BY <1>0, <1>1, AscendingFacts
<1>3. parts = [k \in DOMAIN pos |->
                 [requirements |-> tokens[pos[k]].requirements,
                  directDescendant |-> pos[k] > 1 /\ tokens[pos[k] - 1] = Child]]
  BY DEF SelectorParts
<1> HIDE DEF T, m, pos, parts, l
<1>4. m \in Nat /\ DOMAIN pos = 1 .. m /\ \A k \in 1 .. m : pos[k] \in T /\ pos[k] \in 1 .. l /\ pos[k] \in Int
  BY <1>1, <1>2 DEF Lists
<1>5. DOMAIN parts = 1 .. m /\ Len(parts) = m /\ parts \in Seq(Range(parts))
  <2>1. DOMAIN parts = 1 .. m /\ parts \in [1 .. m -> Range(parts)]
    BY <1>3, <1>4 DEF Range
  <2> QED BY <2>1, <1>4, SeqDef, LenProperties
<1>6. ASSUME NEW k \in 1 .. m
      PROVE  /\ parts[k].requirements = tokens[pos[k]].requirements
             /\ parts[k].directDescendant <=> pos[k] > 2 /\ tokens[pos[k] - 1] = Child
             /\ parts[k].directDescendant => k - 1 \in 1 .. m /\ pos[k - 1] = pos[k] - 2
  <2>1. /\ parts[k].requirements = tokens[pos[k]].requirements
        /\ parts[k].directDescendant <=> pos[k] > 1 /\ tokens[pos[k] - 1] = Child
    BY <1>3, <1>4
  <2>2. ASSUME pos[k] > 1, tokens[pos[k] - 1] = Child
        PROVE  pos[k] > 2 /\ k - 1 \in 1 .. m /\ pos[k - 1] = pos[k] - 2
    <3>1. pos[k] - 1 \in 1 .. l
      BY <2>2, <1>4, <1>0
    <3>2. (pos[k] - 1) - 1 \in 1 .. l /\ tokens[(pos[k] - 1) - 1] # Child
      BY <3>1, <2>2, ChildIsBetween DEF l
    <3>3. pos[k] - 2 = (pos[k] - 1) - 1
      BY <1>4
    <3>4. pos[k] > 2 /\ pos[k] - 2 \in T /\ pos[k] - 1 \notin T
      BY <3>1, <3>2, <3>3, <2>2, <1>0, <1>1, <1>4
    <3>5. PICK j \in 1 .. m : pos[j] = pos[k] - 2
      BY <3>4, <1>2 DEF Lists
    <3>6. j < k
      <4>1. k < j => pos[k] < pos[j]
        BY <1>2 DEF Lists
      <4> QED BY <4>1, <3>5, <1>4
    <3>7. CASE j = k - 1
      BY <3>4, <3>5, <3>7
    <3>8. CASE j # k - 1
      <4>1. k - 1 \in 1 .. m /\ j < k - 1 /\ k - 1 < k
        BY <3>6, <3>8, <1>4
      <4>2. pos[j] < pos[k - 1] /\ pos[k - 1] < pos[k]
        BY <4>1, <1>2 DEF Lists
      <4>3. pos[k - 1] = pos[k] - 1
        BY <4>1, <4>2, <3>5, <1>4
      <4> QED BY <4>1, <4>3, <3>4, <1>4
    <3> QED BY <3>7, <3>8
  <2> QED BY <2>1, <2>2, <1>4
<1> QED BY <1>2, <1>5, <1>6 DEF PartsOf, T, pos, parts

(* The first n parts match elements further and further inwards.             *)
Embedding(elements, parts, n, at) ==
  /\ at \in [1 .. n -> 1 .. Len(elements)]
  /\ \A k \in 1 .. n :
       /\ ElementMatches(elements[at[k]], parts[k].requirements)
       /\ \A j \in 1 .. n : j < k => at[k] < at[j]
       /\ parts[k].directDescendant => k - 1 \in 1 .. n /\ at[k] = at[k - 1] - 1

LEMMA CSSAsEmbedding ==
  ASSUME NEW tokens, Selector(tokens), NEW elements, ListOf(elements)
  PROVE  MatchesCSS(elements, tokens) <=>
           \E at : Embedding(elements, SelectorParts(tokens), Len(SelectorParts(tokens)), at)
<1> DEFINE tags == TagPositions(tokens)
           parts == SelectorParts(tokens)
           m == Len(parts)
           pos == Ascending(tags)
<1>1. PartsOf(tokens, parts, pos)
  BY PartsFacts
<1>2. Len(elements) \in Nat /\ DOMAIN elements = 1 .. Len(elements)
  BY DEF ListOf
<1>3. MatchesCSS(elements, tokens) <=>
        \E at \in [tags -> 1 .. Len(elements)] :
          \A i \in tags :
            /\ ElementMatches(elements[at[i]], tokens[i].requirements)
            /\ \A j \in tags : j < i => at[i] < at[j]
            /\ i > 2 /\ tokens[i - 1] = Child => at[i] = at[i - 2] - 1
  BY <1>2 DEF MatchesCSS
<1> HIDE DEF tags, parts, m, pos
<1>a. /\ m \in Nat /\ Len(parts) = m /\ tags \subseteq Int /\ pos \in [1 .. m -> tags]
      /\ \A i, j \in 1 .. m : i < j => pos[i] < pos[j]
      /\ \A x \in tags : \E k \in 1 .. m : pos[k] = x
  BY <1>1 DEF PartsOf, Lists, tags, m
<1>b. \A k \in 1 .. m :
        /\ parts[k].requirements = tokens[pos[k]].requirements
        /\ parts[k].directDescendant <=> pos[k] > 2 /\ tokens[pos[k] - 1] = Child
        /\ parts[k].directDescendant => k - 1 \in 1 .. m /\ pos[k - 1] = pos[k] - 2
  BY <1>1 DEF PartsOf, m
<1>4. ASSUME NEW at \in [tags -> 1 .. Len(elements)],
             \A i \in tags :
               /\ ElementMatches(elements[at[i]], tokens[i].requirements)
               /\ \A j \in tags : j < i => at[i] < at[j]
               /\ i > 2 /\ tokens[i - 1] = Child => at[i] = at[i - 2] - 1
      PROVE  Embedding(elements, parts, m, [k \in 1 .. m |-> at[pos[k]]])
  <2> DEFINE to == [k \in 1 .. m |-> at[pos[k]]]
  <2>1. to \in [1 .. m -> 1 .. Len(elements)] /\ \A k \in 1 .. m : to[k] = at[pos[k]] /\ pos[k] \in tags
    BY <1>a
  <2> HIDE DEF to
  <2>2. ASSUME NEW k \in 1 .. m
        PROVE  /\ ElementMatches(elements[to[k]], parts[k].requirements)
               /\ \A j \in 1 .. m : j < k => to[k] < to[j]
               /\ parts[k].directDescendant => k - 1 \in 1 .. m /\ to[k] = to[k - 1] - 1
    <3>1. ElementMatches(elements[to[k]], parts[k].requirements)
      BY <1>4, <1>b, <2>1
    <3>2. ASSUME NEW j \in 1 .. m, j < k PROVE to[k] < to[j]
      <4>1. pos[j] < pos[k]
        BY <1>a, <3>2
      <4> QED BY <1>4, <2>1, <4>1
    <3>3. ASSUME parts[k].directDescendant PROVE k - 1 \in 1 .. m /\ to[k] = to[k - 1] - 1
      BY <1>4, <1>b, <2>1, <3>3
    <3> QED BY <3>1, <3>2, <3>3
  <2> QED BY <2>1, <2>2 DEF Embedding, to
<1>5. ASSUME NEW at, Embedding(elements, parts, m, at)
      PROVE  MatchesCSS(elements, tokens)
  <2> DEFINE rank == [i \in tags |-> CHOOSE k \in 1 .. m : pos[k] = i]
             to == [i \in tags |-> at[rank[i]]]
  <2>1. \A i \in tags : rank[i] \in 1 .. m /\ pos[rank[i]] = i
    BY <1>a
  <2>2. at \in [1 .. m -> 1 .. Len(elements)]
    BY <1>5 DEF Embedding
  <2>3. to \in [tags -> 1 .. Len(elements)] /\ \A i \in tags : to[i] = at[rank[i]]
    BY <2>1, <2>2
  <2> HIDE DEF rank, to
  <2>4. \A i, j \in tags : j < i => rank[j] < rank[i]
    <3> TAKE i, j \in tags
    <3>1. rank[i] < rank[j] => i < j
      BY <1>a, <2>1
    <3>2. rank[i] = rank[j] => i = j
      BY <2>1
    <3> QED BY <3>1, <3>2, <2>1, <1>a
  <2>5. ASSUME NEW i \in tags
        PROVE  /\ ElementMatches(elements[to[i]], tokens[i].requirements)
               /\ \A j \in tags : j < i => to[i] < to[j]
               /\ i > 2 /\ tokens[i - 1] = Child => to[i] = to[i - 2] - 1
    <3>1. ElementMatches(elements[to[i]], tokens[i].requirements)
      BY <1>5, <1>b, <2>1, <2>3 DEF Embedding
    <3>2. ASSUME NEW j \in tags, j < i PROVE to[i] < to[j]
      BY <1>5, <2>1, <2>3, <2>4, <3>2 DEF Embedding
    <3>3. ASSUME i > 2, tokens[i - 1] = Child PROVE to[i] = to[i - 2] - 1
      <4>1. parts[rank[i]].directDescendant
        BY <1>b, <2>1, <3>3
      <4>2. rank[i] - 1 \in 1 .. m /\ pos[rank[i] - 1] = i - 2
        BY <4>1, <1>b, <2>1
      <4>3. i - 2 \in tags /\ rank[i - 2] = rank[i] - 1
        <5>1. i - 2 \in tags
          BY <4>2, <1>a
        <5>2. pos[rank[i - 2]] = pos[rank[i] - 1] /\ rank[i - 2] \in 1 .. m
          BY <5>1, <4>2, <2>1
        <5>3. \A j, k \in 1 .. m : pos[j] = pos[k] => j = k
          <6> SUFFICES ASSUME NEW j \in 1 .. m, NEW k \in 1 .. m, pos[j] = pos[k], j # k PROVE FALSE
            OBVIOUS
          <6>1. pos[j] \in Int /\ pos[k] \in Int
            BY <1>a
          <6>2. j < k => pos[j] < pos[k]
            BY <1>a
          <6>3. k < j => pos[k] < pos[j]
            BY <1>a
          <6> QED BY <6>1, <6>2, <6>3
        <5> QED BY <5>1, <5>2, <5>3, <4>2
      <4>4. at[rank[i]] = at[rank[i] - 1] - 1
        BY <1>5, <2>1, <4>1 DEF Embedding
      <4> QED BY <4>3, <4>4, <2>3
    <3> QED BY <3>1, <3>2, <3>3
  <2> QED BY <1>3, <2>3, <2>5
<1> QED BY <1>3, <1>4, <1>5 DEF parts, m

-----------------------------------------------------------------------------
(* Loops                                                                    *)

(* A function that goes from state to state until one says TRUE or FALSE     *)
(* exists, whatever the steps: it is TRUE in the least set of states that    *)
(* contains the accepting ones and those that lead into it.                  *)
Follows(g, D, A, R, step) ==
  \A x \in D : g[x] = IF x \in A THEN TRUE ELSE IF x \in R THEN FALSE ELSE g[step[x]]

Leads(D, A, R, step) == \A x \in D : x \notin A /\ x \notin R => step[x] \in D

LEMMA LoopExists ==
  ASSUME NEW D, NEW A, NEW R, NEW step, Leads(D, A, R, step)
  PROVE  \E g \in [D -> BOOLEAN] : Follows(g, D, A, R, step)
<1> DEFINE Closed(S) == \A x \in D : x \in A \/ (x \notin R /\ step[x] \in S) => x \in S
           Good == {x \in D : \A S \in SUBSET D : Closed(S) => x \in S}
           g == [x \in D |-> x \in Good]
<1>1. Good \in SUBSET D /\ \A S \in SUBSET D : Closed(S) => Good \subseteq S
  OBVIOUS
<1>2. Closed(Good)
  <2> SUFFICES ASSUME NEW x \in D, x \in A \/ (x \notin R /\ step[x] \in Good),
                      NEW S \in SUBSET D, Closed(S)
               PROVE  x \in S
    OBVIOUS
  <2>1. step[x] \in Good => step[x] \in S
    BY <1>1
  <2> QED BY <2>1
<1> HIDE DEF Good
<1>3. ASSUME NEW x \in Good, x \notin A, x \in R \/ step[x] \notin Good PROVE FALSE
  <2>1. Closed(Good \ {x})
    BY <1>2, <1>3
  <2>2. Good \ {x} \in SUBSET D
    BY <1>1
  <2> QED BY <1>1, <2>1, <2>2
<1>4. \A x \in D : x \in Good <=> x \in A \/ (x \notin R /\ step[x] \in Good)
  BY <1>1, <1>2, <1>3
<1>5. g \in [D -> BOOLEAN] /\ \A x \in D : g[x] = (x \in Good)
  OBVIOUS
<1> HIDE DEF g
<1>6. ASSUME NEW x \in D
      PROVE  g[x] = IF x \in A THEN TRUE ELSE IF x \in R THEN FALSE ELSE g[step[x]]
  <2>1. CASE x \in A
    BY <2>1, <1>4, <1>5
  <2>2. CASE x \notin A /\ x \in R
    BY <2>2, <1>4, <1>5
  <2>3. CASE x \notin A /\ x \notin R
    BY <2>3, <1>4, <1>5 DEF Leads
  <2> QED BY <2>1, <2>2, <2>3
<1> QED BY <1>5, <1>6 DEF Follows

(* loop is what MatchParts defines.                                          *)
LoopStep(elements, parts, loop, i, base) ==
  LET found == Found(elements, parts[i], base)
  IN IF i > Len(parts) THEN TRUE
     ELSE IF base = 0 \/ i = 0 THEN FALSE
     ELSE IF found # {} THEN loop[<<i + 1, Max(found)>>]
     ELSE IF MovesBase(parts[i]) THEN loop[<<i, base - 1>>]
     ELSE loop[<<i - 1, base>>]

LoopOf(elements, parts, loop) ==
  \A i \in 0 .. Len(parts) + 1, base \in 0 .. Len(elements) :
    loop[<<i, base>>] = LoopStep(elements, parts, loop, i, base)

LEMMA FoundFacts ==
  ASSUME NEW elements, ListOf(elements), NEW part, NEW base \in 1 .. Len(elements),
         Found(elements, part, base) # {}
  PROVE  LET k == Max(Found(elements, part, base))
         IN  /\ k \in Found(elements, part, base) /\ k \in Nat /\ k < base
             /\ \A j \in Found(elements, part, base) : j <= k
<1> DEFINE S == Found(elements, part, base)
<1>1. base \in Nat \ {0} /\ Candidates(part, base) \subseteq 0 .. base - 1
  BY DEF Candidates, ListOf
<1>2. S \subseteq 0 .. base - 1 /\ S # {} /\ \A j \in S : j \in Nat /\ j < base
  BY <1>1 DEF Found
<1> HIDE DEF S
<1> DEFINE T == {b \in Nat : \A j \in S : j <= b}
<1>3. base \in T
  BY <1>1, <1>2
<1>4. PICK b \in T : \A c \in T : b <= c
  BY <1>3, LeastNat
<1>5. b \in S
  <2>1. CASE b = 0
    <3>1. PICK j \in S : j \in Nat
      BY <1>2
    <3>2. j <= 0
      BY <1>4, <2>1
    <3> QED BY <3>1, <3>2, <2>1
  <2>2. CASE b # 0
    <3>1. b - 1 \in Nat /\ b - 1 \notin T
      <4>1. b \in Nat
        BY <1>4
      <4> HIDE DEF T
      <4> QED BY <4>1, <1>4, <2>2
    <3>2. PICK j \in S : ~ (j <= b - 1)
      BY <3>1
    <3> QED BY <3>2, <1>2, <1>4
  <2> QED BY <2>1, <2>2
<1>6. Max(S) \in S /\ \A j \in S : Max(S) >= j
  BY <1>2, <1>4, <1>5 DEF Max
<1> QED BY <1>2, <1>6 DEF S

LEMMA MatchPartsLoop ==
  ASSUME NEW elements, ListOf(elements), NEW parts, parts \in Seq(Range(parts))
  PROVE  \E loop : /\ LoopOf(elements, parts, loop)
                   /\ MatchParts(elements, parts) = loop[<<1, Len(elements)>>]
<1> DEFINE m == Len(parts)
           l == Len(elements)
           D == (0 .. m + 1) \X (0 .. l)
           Body(loop) ==
             [at \in D |->
               LET i == at[1]
                   base == at[2]
                   found == Found(elements, parts[i], base)
               IN IF i > m THEN TRUE
                  ELSE IF base = 0 \/ i = 0 THEN FALSE
                  ELSE IF found # {} THEN loop[<<i + 1, Max(found)>>]
                  ELSE IF MovesBase(parts[i]) THEN loop[<<i, base - 1>>]
                  ELSE loop[<<i - 1, base>>]]
           A == {at \in D : at[1] > m}
           R == {at \in D : at[2] = 0 \/ at[1] = 0}
           step == [at \in D |->
               LET i == at[1]
                   base == at[2]
                   found == Found(elements, parts[i], base)
               IN IF found # {} THEN <<i + 1, Max(found)>>
                  ELSE IF MovesBase(parts[i]) THEN <<i, base - 1>>
                  ELSE <<i - 1, base>>]
           f == CHOOSE loop : loop = Body(loop)
<1>0. m \in Nat /\ l \in Nat
  BY DEF ListOf
<1>1. MatchParts(elements, parts) = f[<<1, l>>]
  BY DEF MatchParts
<1>a. ASSUME NEW at \in D, at \notin A, at \notin R PROVE step[at] \in D
  <2> DEFINE i == at[1]
             base == at[2]
             found == Found(elements, parts[i], base)
  <2>1. i \in 1 .. m /\ base \in 1 .. l
    BY <1>0, <1>a
  <2>2. step[at] = IF found # {} THEN <<i + 1, Max(found)>>
                   ELSE IF MovesBase(parts[i]) THEN <<i, base - 1>>
                   ELSE <<i - 1, base>>
    OBVIOUS
  <2> HIDE DEF i, base, step
  <2>3. CASE found # {}
    <3>1. Max(found) \in 0 .. l
      <4>1. Max(found) \in Nat /\ Max(found) < base
        BY <2>1, <2>3, FoundFacts
      <4> QED BY <4>1, <2>1, <1>0
    <3> HIDE DEF found
    <3>2. i + 1 \in 0 .. m + 1
      BY <2>1, <1>0
    <3> QED BY <2>2, <2>3, <3>1, <3>2
  <2>4. CASE found = {} /\ MovesBase(parts[i])
    <3>1. base - 1 \in 0 .. l /\ i \in 0 .. m + 1
      BY <2>1, <1>0
    <3> HIDE DEF found
    <3> QED BY <2>2, <2>4, <3>1
  <2>5. CASE found = {} /\ ~MovesBase(parts[i])
    <3>1. base \in 0 .. l /\ i - 1 \in 0 .. m + 1
      BY <2>1, <1>0
    <3> HIDE DEF found
    <3> QED BY <2>2, <2>5, <3>1
  <2> QED BY <2>3, <2>4, <2>5
<1>2. PICK g \in [D -> BOOLEAN] : Follows(g, D, A, R, step)
  <2> HIDE DEF D, A, R, step
  <2>1. Leads(D, A, R, step)
    BY <1>a DEF Leads
  <2> QED BY <2>1, LoopExists
<1>3. \A at \in D : g[at] = IF at \in A THEN TRUE ELSE IF at \in R THEN FALSE ELSE g[step[at]]
  BY <1>2 DEF Follows
<1>4. g = Body(g)
  <2>1. ASSUME NEW at \in D PROVE g[at] = Body(g)[at]
    BY <1>3
  <2>2. DOMAIN Body(g) = D /\ Body(g) = [at \in D |-> Body(g)[at]] /\ g = [at \in D |-> g[at]]
    BY <1>3
  <2> HIDE DEF Body, D
  <2> QED BY <2>1, <2>2
<1>5. f = Body(f)
  <2> HIDE DEF Body
  <2> QED BY <1>4
<1> HIDE DEF f
<1>6. LoopOf(elements, parts, f)
  <2>1. ASSUME NEW at \in D PROVE f[at] = LoopStep(elements, parts, f, at[1], at[2])
    BY <1>5 DEF LoopStep
  <2>2. ASSUME NEW i \in 0 .. m + 1, NEW base \in 0 .. l
        PROVE  f[<<i, base>>] = LoopStep(elements, parts, f, i, base)
    <3>1. <<i, base>> \in D
      OBVIOUS
    <3> QED BY <2>1, <3>1
  <2> HIDE DEF D, A, R, step, Body
  <2> QED BY <2>2 DEF LoopOf, m, l
<1> QED BY <1>1, <1>6

(* The loop of checkElementsAgainstSelector ends, although it goes back: a    *)
(* step moves the base further in, or keeps it and goes to the part before,   *)
(* so that the loop can only say one thing.                                   *)
THEOREM LoopDecides ==
  ASSUME NEW elements, ListOf(elements), NEW parts, parts \in Seq(Range(parts)),
         NEW first, LoopOf(elements, parts, first), NEW second, LoopOf(elements, parts, second)
  PROVE  \A i \in 0 .. Len(parts) + 1, base \in 0 .. Len(elements) :
           first[<<i, base>>] = second[<<i, base>>]
<1> DEFINE m == Len(parts)
           l == Len(elements)
           Differ(i, base) == first[<<i, base>>] # second[<<i, base>>]
           Bases == {base \in 0 .. l : \E i \in 0 .. m + 1 : Differ(i, base)}
<1>0. m \in Nat /\ l \in Nat
  BY DEF ListOf
<1> SUFFICES ASSUME NEW i0 \in 0 .. m + 1, NEW base0 \in 0 .. l, Differ(i0, base0) PROVE FALSE
  OBVIOUS
<1>1. base0 \in Bases
  OBVIOUS
<1>2. PICK base \in Bases : \A b \in Bases : base <= b
  <2>1. Bases \subseteq Nat
    <3> HIDE DEF Differ
    <3> QED BY <1>0
  <2> HIDE DEF Bases
  <2> QED BY <1>1, <2>1, LeastNat
<1> DEFINE Parts == {i \in 0 .. m + 1 : Differ(i, base)}
<1>3. PICK i \in Parts : \A j \in Parts : i <= j
  <2>1. Parts \subseteq Nat /\ Parts # {}
    <3> HIDE DEF Differ
    <3> QED BY <1>0, <1>2
  <2> HIDE DEF Parts
  <2> QED BY <2>1, LeastNat
<1>4. base \in 0 .. l /\ i \in 0 .. m + 1 /\ first[<<i, base>>] # second[<<i, base>>]
  BY <1>2, <1>3
<1>5. \A b \in 0 .. l, j \in 0 .. m + 1 :
        b < base \/ (b = base /\ j < i) => first[<<j, b>>] = second[<<j, b>>]
  <2> SUFFICES ASSUME NEW b \in 0 .. l, NEW j \in 0 .. m + 1, b < base \/ (b = base /\ j < i), Differ(j, b)
               PROVE  FALSE
    OBVIOUS
  <2>1. b \in Bases
    OBVIOUS
  <2>2. b = base => j \in Parts
    OBVIOUS
  <2> HIDE DEF Bases, Parts, Differ
  <2> QED BY <2>1, <2>2, <1>2, <1>3, <1>4
<1> HIDE DEF Bases, Parts, Differ, m, l
<1> DEFINE found == Found(elements, parts[i], base)
<1>6. /\ first[<<i, base>>] = LoopStep(elements, parts, first, i, base)
      /\ second[<<i, base>>] = LoopStep(elements, parts, second, i, base)
  BY <1>4 DEF LoopOf, m, l
<1>7. i \in 1 .. m /\ base \in 1 .. l
  <2>1. i > Len(parts) => first[<<i, base>>] = second[<<i, base>>]
    BY <1>6 DEF LoopStep
  <2>2. ~ (i > Len(parts)) /\ (base = 0 \/ i = 0) => first[<<i, base>>] = second[<<i, base>>]
    BY <1>6 DEF LoopStep
  <2>3. ~ (i > m) /\ base # 0 /\ i # 0
    BY <2>1, <2>2, <1>4 DEF m
  <2>4. i \in 0 .. m + 1 /\ base \in 0 .. l
    BY <1>4
  <2> QED BY <2>3, <2>4, <1>0
<1>8. ~ (i > Len(parts)) /\ ~ (base = 0 \/ i = 0)
  BY <1>7, <1>0 DEF m
<1>9. CASE found # {}
  <2>1. Max(found) \in Nat /\ Max(found) < base
    BY <1>7, <1>9, FoundFacts DEF l
  <2> HIDE DEF found
  <2>2. Max(found) \in 0 .. l /\ i + 1 \in 0 .. m + 1
    BY <2>1, <1>7, <1>0
  <2>3. first[<<i + 1, Max(found)>>] = second[<<i + 1, Max(found)>>]
    BY <2>1, <2>2, <1>5
  <2> QED BY <2>3, <1>4, <1>6, <1>8, <1>9 DEF LoopStep, found
<1>10. CASE found = {} /\ MovesBase(parts[i])
  <2>1. base - 1 \in 0 .. l /\ base - 1 < base /\ i \in 0 .. m + 1
    BY <1>7, <1>0
  <2>2. first[<<i, base - 1>>] = second[<<i, base - 1>>]
    BY <2>1, <1>5
  <2> QED BY <2>2, <1>4, <1>6, <1>8, <1>10 DEF LoopStep
<1>11. CASE found = {} /\ ~MovesBase(parts[i])
  <2>1. i - 1 \in 0 .. m + 1 /\ i - 1 < i /\ base \in 0 .. l
    BY <1>7, <1>0
  <2>2. first[<<i - 1, base>>] = second[<<i - 1, base>>]
    BY <2>1, <1>5
  <2> QED BY <2>2, <1>4, <1>6, <1>8, <1>11 DEF LoopStep
<1> QED BY <1>9, <1>10, <1>11

-----------------------------------------------------------------------------
(* The loop over the parts                                                  *)

(* It never goes past an element that an embedding has for the part it has   *)
(* come to: a part that may match anything further in finds that element or  *)
(* one before it, and the child of an element is there or the one before is  *)
(* matched once more, further in.                                            *)
LEMMA LoopFindsEmbedding ==
  ASSUME NEW elements, ListOf(elements), NEW parts, parts \in Seq(Range(parts)),
         NEW loop, LoopOf(elements, parts, loop),
         NEW at, Embedding(elements, parts, Len(parts), at)
  PROVE  loop[<<1, Len(elements)>>] = TRUE
<1> DEFINE m == Len(parts)
           l == Len(elements)
           Stuck(i, base) == (i > m \/ at[i] <= base) /\ loop[<<i, base>>] # TRUE
           Bases == {base \in 0 .. l : \E i \in 1 .. m + 1 : Stuck(i, base)}
<1>0. m \in Nat /\ l \in Nat /\ at \in [1 .. m -> 1 .. l]
  BY DEF ListOf, Embedding
<1> SUFFICES ASSUME loop[<<1, l>>] # TRUE PROVE FALSE
  OBVIOUS
<1>1. l \in Bases
  <2>1. 1 > m \/ at[1] <= l
    BY <1>0
  <2>2. 1 \in 1 .. m + 1 /\ l \in 0 .. l
    BY <1>0
  <2> QED BY <2>1, <2>2
<1>2. PICK base \in Bases : \A b \in Bases : base <= b
  <2>1. Bases \subseteq Nat
    <3> HIDE DEF Stuck
    <3> QED BY <1>0
  <2> HIDE DEF Bases
  <2> QED BY <1>1, <2>1, LeastNat
<1> DEFINE Parts == {i \in 1 .. m + 1 : Stuck(i, base)}
<1>3. PICK i \in Parts : \A j \in Parts : i <= j
  <2>1. Parts \subseteq Nat /\ Parts # {}
    <3> HIDE DEF Stuck
    <3> QED BY <1>0, <1>2
  <2> HIDE DEF Parts
  <2> QED BY <2>1, LeastNat
<1>4. base \in 0 .. l /\ i \in 1 .. m + 1 /\ (i > m \/ at[i] <= base) /\ loop[<<i, base>>] # TRUE
  BY <1>2, <1>3
<1>5. \A b \in 0 .. l, j \in 1 .. m + 1 :
        b < base \/ (b = base /\ j < i) => (j > m \/ at[j] <= b => loop[<<j, b>>] = TRUE)
  <2> SUFFICES ASSUME NEW b \in 0 .. l, NEW j \in 1 .. m + 1, b < base \/ (b = base /\ j < i),
                      Stuck(j, b)
               PROVE  FALSE
    OBVIOUS
  <2>1. b \in Bases
    OBVIOUS
  <2>2. b = base => j \in Parts
    OBVIOUS
  <2> HIDE DEF Bases, Parts, Stuck
  <2> QED BY <2>1, <2>2, <1>2, <1>3, <1>4
<1> HIDE DEF Bases, Parts, Stuck, m, l
<1> DEFINE found == Found(elements, parts[i], base)
<1>6. loop[<<i, base>>] = LoopStep(elements, parts, loop, i, base)
  <2>1. i \in 0 .. m + 1
    BY <1>4, <1>0
  <2> QED BY <2>1, <1>4 DEF LoopOf, m, l
<1>7. i <= m
  <2>1. i > m => loop[<<i, base>>] = TRUE
    BY <1>6 DEF LoopStep, m
  <2>2. i \in 1 .. m + 1 /\ ~ (i > m)
    BY <2>1, <1>4
  <2> QED BY <2>2, <1>0
<1>8. i \in 1 .. m /\ at[i] \in 1 .. l /\ at[i] <= base /\ base \in 1 .. l /\ at[i] - 1 \in 0 .. base - 1
  BY <1>0, <1>4, <1>7
<1>9. loop[<<i, base>>] =
        IF found # {} THEN loop[<<i + 1, Max(found)>>]
        ELSE IF MovesBase(parts[i]) THEN loop[<<i, base - 1>>]
        ELSE loop[<<i - 1, base>>]
  <2>1. ~ (i > Len(parts)) /\ ~ (base = 0 \/ i = 0)
    BY <1>8, <1>0 DEF m
  <2> QED BY <2>1, <1>6 DEF LoopStep
<1>10. /\ ElementMatches(elements[at[i]], parts[i].requirements)
       /\ i + 1 \in 1 .. m => at[i + 1] < at[i]
       /\ parts[i].directDescendant => i - 1 \in 1 .. m /\ at[i] = at[i - 1] - 1
  <2>1. i + 1 \in 1 .. m => i < i + 1
    BY <1>8
  <2> QED BY <1>8, <2>1 DEF Embedding, m
<1>11. at[i] - 1 \in Candidates(parts[i], base) => at[i] - 1 \in found
  <2>1. at[i] - 1 < Len(elements) /\ (at[i] - 1) + 1 = at[i]
    BY <1>8, <1>0 DEF l
  <2> QED BY <2>1, <1>10 DEF Found
<1>12. CASE found # {}
  <2>1. /\ Max(found) \in Nat /\ Max(found) < base
        /\ \A j \in found : j <= Max(found)
        /\ Max(found) \in Candidates(parts[i], base)
    BY <1>12, <1>8, FoundFacts DEF l, Found
  <2>2. at[i] - 1 <= Max(found)
    <3>1. CASE parts[i].directDescendant
      BY <3>1, <2>1, <1>8 DEF Candidates
    <3>2. CASE ~ parts[i].directDescendant
      BY <3>2, <2>1, <1>8, <1>11 DEF Candidates
    <3> QED BY <3>1, <3>2
  <2> HIDE DEF found
  <2>3. Max(found) \in 0 .. l /\ i + 1 \in 1 .. m + 1
    BY SMTT(40), <2>1, <1>8, <1>0
  <2>4. i + 1 > m \/ at[i + 1] <= Max(found)
    <3>1. CASE i + 1 > m
      BY <3>1
    <3>2. CASE ~ (i + 1 > m)
      <4>1. i + 1 \in 1 .. m /\ at[i + 1] \in 1 .. l
        BY <3>2, <1>8, <1>0
      <4> QED BY <4>1, <1>10, <1>8, <2>1, <2>2
    <3> QED BY <3>1, <3>2
  <2> QED BY <2>1, <2>3, <2>4, <1>4, <1>5, <1>9, <1>12
<1>13. CASE found = {}
  <2>1. parts[i].directDescendant /\ at[i] - 1 # base - 1
    BY <1>13, <1>8, <1>11 DEF Candidates
  <2>2. i - 1 \in 1 .. m /\ at[i - 1] = at[i] + 1 /\ at[i - 1] <= base
    <3>1. i - 1 \in 1 .. m /\ at[i] = at[i - 1] - 1
      BY <2>1, <1>10
    <3>2. at[i - 1] \in 1 .. l
      BY <3>1, <1>0
    <3>3. at[i - 1] = at[i] + 1 /\ at[i] # base
      BY SMTT(40), <3>1, <3>2, <2>1, <1>8
    <3> QED BY <3>1, <3>2, <3>3, <1>8
  <2>3. loop[<<i - 1, base>>] = TRUE
    <3>1. i - 1 \in 1 .. m + 1 /\ i - 1 < i
      BY <2>2, <1>0, <1>8
    <3> QED BY <3>1, <2>2, <1>4, <1>5
  <2> QED BY <2>1, <2>3, <1>4, <1>9, <1>13 DEF MovesBase
<1> QED BY <1>12, <1>13

(* The first part is nobody's child, and none is the child of a child.       *)
SingleChildren(parts) ==
  \A k \in 1 .. Len(parts) :
    parts[k].directDescendant => k - 1 \in 1 .. Len(parts) /\ ~parts[k - 1].directDescendant

(* An embedding of the first parts, with which the loop is at part i and the *)
(* base: the last element is outside the base, right there if its child is   *)
(* asked for.                                                                *)
Reached(elements, parts, i, base, at) ==
  /\ Embedding(elements, parts, i - 1, at)
  /\ i > 1 => at[i - 1] > base
  /\ i <= Len(parts) => (parts[i].directDescendant => at[i - 1] = base + 1)

(* What the loop finds is one: the elements it matched with the parts so far *)
(* are an embedding, whose last one is dropped when it goes back.            *)
LEMMA LoopFoundIsEmbedding ==
  ASSUME NEW elements, ListOf(elements), NEW parts, parts \in Seq(Range(parts)),
         SingleChildren(parts),
         NEW loop, LoopOf(elements, parts, loop), loop[<<1, Len(elements)>>] = TRUE
  PROVE  \E at : Embedding(elements, parts, Len(parts), at)
<1> DEFINE m == Len(parts)
           l == Len(elements)
           Passing(i, base) == loop[<<i, base>>] = TRUE /\ \E at : Reached(elements, parts, i, base, at)
           Bases == {base \in 0 .. l : \E i \in 1 .. m + 1 : Passing(i, base)}
<1>0. m \in Nat /\ l \in Nat /\ 1 \in 1 .. m + 1 /\ l \in 0 .. l
  BY DEF ListOf
<1>1. l \in Bases
  <2>1. Embedding(elements, parts, 1 - 1, <<>>)
    <3>1. 1 .. 1 - 1 = {} /\ <<>> \in [{} -> 1 .. Len(elements)]
      OBVIOUS
    <3> QED BY <3>1 DEF Embedding
  <2>2. 1 <= m => ~parts[1].directDescendant
    BY <1>0 DEF SingleChildren
  <2>3. Reached(elements, parts, 1, l, <<>>)
    BY <2>1, <2>2 DEF Reached
  <2> QED BY <2>3, <1>0
<1>2. PICK base \in Bases : \A b \in Bases : base <= b
  <2>1. Bases \subseteq Nat
    <3> HIDE DEF Passing
    <3> QED BY <1>0
  <2> HIDE DEF Bases
  <2> QED BY <1>1, <2>1, LeastNat
<1> DEFINE Parts == {i \in 1 .. m + 1 : Passing(i, base)}
<1>3. PICK i \in Parts : \A j \in Parts : i <= j
  <2>1. Parts \subseteq Nat /\ Parts # {}
    <3> HIDE DEF Passing
    <3> QED BY <1>0, <1>2
  <2> HIDE DEF Parts
  <2> QED BY <2>1, LeastNat
<1>4. base \in 0 .. l /\ i \in 1 .. m + 1 /\ loop[<<i, base>>] = TRUE
  BY <1>2, <1>3
<1>a. PICK at : Reached(elements, parts, i, base, at)
  BY <1>3
<1>5. \A b \in 0 .. l, j \in 1 .. m + 1 :
        b < base \/ (b = base /\ j < i) =>
          \A to : Reached(elements, parts, j, b, to) => loop[<<j, b>>] # TRUE
  <2> SUFFICES ASSUME NEW b \in 0 .. l, NEW j \in 1 .. m + 1, b < base \/ (b = base /\ j < i),
                      Passing(j, b)
               PROVE  FALSE
    OBVIOUS
  <2>1. b \in Bases
    OBVIOUS
  <2>2. b = base => j \in Parts
    OBVIOUS
  <2> HIDE DEF Bases, Parts, Passing
  <2> QED BY <2>1, <2>2, <1>2, <1>3, <1>4
<1> HIDE DEF Bases, Parts, Passing, m, l
<1> DEFINE found == Found(elements, parts[i], base)
<1>6. loop[<<i, base>>] = LoopStep(elements, parts, loop, i, base)
  <2>1. i \in 0 .. m + 1
    BY <1>4, <1>0
  <2> QED BY <2>1, <1>4 DEF LoopOf, m, l
<1>b. /\ at \in [1 .. i - 1 -> 1 .. l]
      /\ \A k \in 1 .. i - 1 :
           /\ ElementMatches(elements[at[k]], parts[k].requirements)
           /\ \A j \in 1 .. i - 1 : j < k => at[k] < at[j]
           /\ parts[k].directDescendant => k - 1 \in 1 .. i - 1 /\ at[k] = at[k - 1] - 1
  BY <1>a DEF Reached, Embedding, l
<1>7. CASE i > m
  <2>1. i - 1 = m
    BY <1>7, <1>4, <1>0
  <2> QED BY <2>1, <1>a DEF Reached, m
<1>8. CASE ~ (i > m)
  <2>1. i \in 1 .. m /\ i - 1 \in Nat /\ i \in Int
    BY <1>8, <1>4, <1>0
  <2>2. base \in 1 .. l
    <3>1. base # 0
      BY <1>4, <1>6, <1>8 DEF LoopStep, m
    <3> QED BY <3>1, <1>4, <1>0
  <2>3. IF found # {} THEN loop[<<i + 1, Max(found)>>] = TRUE
        ELSE IF MovesBase(parts[i]) THEN loop[<<i, base - 1>>] = TRUE
        ELSE loop[<<i - 1, base>>] = TRUE
    <3>1. ~ (i > Len(parts)) /\ ~ (base = 0 \/ i = 0)
      BY <2>1, <2>2, <1>8 DEF m
    <3> QED BY <3>1, <1>4, <1>6 DEF LoopStep
  <2>4. i > 1 => i - 1 \in 1 .. i - 1 /\ at[i - 1] \in 1 .. l /\ at[i - 1] > base
    BY <2>1, <1>a, <1>b DEF Reached
  <2>5. parts[i].directDescendant =>
          i > 1 /\ i - 1 \in 1 .. m /\ at[i - 1] = base + 1 /\ ~parts[i - 1].directDescendant
    <3>1. parts[i].directDescendant => i - 1 \in 1 .. m /\ ~parts[i - 1].directDescendant
      BY <2>1 DEF SingleChildren, m
    <3>2. i <= m
      BY <1>8, <2>1, <1>0
    <3> QED BY <3>1, <3>2, <2>1, <1>a DEF Reached, m
  <2>6. CASE found # {}
    <3> DEFINE k == Max(found)
               to == [j \in 1 .. i |-> IF j = i THEN k + 1 ELSE at[j]]
    <3>1. k \in Nat /\ k < base /\ k \in Candidates(parts[i], base)
          /\ ElementMatches(elements[k + 1], parts[i].requirements)
      BY <2>2, <2>6, FoundFacts DEF l, Found
    <3>2. parts[i].directDescendant => k = base - 1
      BY <3>1 DEF Candidates
    <3> HIDE DEF k
    <3>3. k \in 0 .. l /\ k + 1 \in 1 .. l /\ i + 1 \in 1 .. m + 1 /\ (i + 1) - 1 = i
      BY SMTT(40), <3>1, <2>1, <2>2, <1>0
    <3>4. to \in [1 .. i -> 1 .. l] /\ to[i] = k + 1 /\ \A j \in 1 .. i - 1 : j \in 1 .. i /\ to[j] = at[j] /\ j # i
      <4>1. \A j \in 1 .. i : j # i => j \in 1 .. i - 1
        BY <2>1
      <4> QED BY <4>1, <3>3, <1>b, <2>1
    <3> HIDE DEF to
    <3>5. ASSUME NEW h \in 1 .. i
          PROVE  /\ ElementMatches(elements[to[h]], parts[h].requirements)
                 /\ \A j \in 1 .. i : j < h => to[h] < to[j]
                 /\ parts[h].directDescendant => h - 1 \in 1 .. i /\ to[h] = to[h - 1] - 1
      <4>1. CASE h = i
        <5>1. ASSUME NEW j \in 1 .. i, j < h PROVE to[h] < to[j]
          <6>1. j \in 1 .. i - 1 /\ i > 1
            BY <5>1, <4>1, <2>1
          <6>2. at[i - 1] <= at[j]
            <7>1. CASE j = i - 1
              BY <7>1, <2>4, <6>1
            <7>2. CASE j # i - 1
              <8>1. j < i - 1 /\ i - 1 \in 1 .. i - 1
                BY <7>2, <6>1, <2>1
              <8>2. at[i - 1] < at[j] /\ at[j] \in 1 .. l
                BY <8>1, <6>1, <1>b
              <8> QED BY <8>2, <2>4, <6>1
            <7> QED BY <7>1, <7>2
          <6>3. at[j] \in 1 .. l /\ to[j] = at[j] /\ to[h] = k + 1
            BY <6>1, <3>4, <4>1, <1>b
          <6> QED BY <6>1, <6>2, <6>3, <3>1, <2>2, <2>4
        <5>2. ASSUME parts[h].directDescendant PROVE h - 1 \in 1 .. i /\ to[h] = to[h - 1] - 1
          <6>1. i > 1 /\ at[i - 1] = base + 1 /\ k = base - 1
            BY <5>2, <4>1, <2>5, <3>2
          <6>2. i - 1 \in 1 .. i /\ to[i - 1] = at[i - 1]
            BY <6>1, <3>4, <2>4
          <6> QED BY <6>1, <6>2, <3>4, <4>1, <2>2
        <5> QED BY <5>1, <5>2, <4>1, <3>1, <3>4
      <4>2. CASE h # i
        <5>1. h \in 1 .. i - 1
          BY <4>2, <2>1
        <5>2. ASSUME NEW j \in 1 .. i, j < h PROVE to[h] < to[j]
          <6>1. j \in 1 .. i - 1
            BY <5>2, <5>1, <2>1
          <6> QED BY <6>1, <5>1, <5>2, <3>4, <1>b
        <5>3. ASSUME parts[h].directDescendant PROVE h - 1 \in 1 .. i /\ to[h] = to[h - 1] - 1
          BY <5>1, <5>3, <3>4, <1>b
        <5> QED BY <5>1, <5>2, <5>3, <3>4, <1>b
      <4> QED BY <4>1, <4>2
    <3>6. Embedding(elements, parts, i, to)
      BY <3>4, <3>5 DEF Embedding, l
    <3>7. i + 1 <= m => (parts[i + 1].directDescendant => to[i] = k + 1)
      BY <3>4
    <3>8. Reached(elements, parts, i + 1, k, to)
      <4>1. to[i] > k
        BY <3>4, <3>1
      <4> QED BY <3>3, <3>6, <3>7, <4>1 DEF Reached, m
    <3>9. loop[<<i + 1, k>>] = TRUE
      BY <2>3, <2>6 DEF k
    <3> QED BY <3>1, <3>3, <3>8, <3>9, <1>5
  <2>7. CASE found = {} /\ MovesBase(parts[i])
    <3>1. ~parts[i].directDescendant
      BY <2>7 DEF MovesBase
    <3>2. Reached(elements, parts, i, base - 1, at)
      <4>1. i > 1 => at[i - 1] > base - 1
        BY <2>2, <2>4
      <4> QED BY <4>1, <3>1, <1>a DEF Reached
    <3>3. base - 1 \in 0 .. l /\ base - 1 < base
      BY <2>2, <1>0
    <3>4. loop[<<i, base - 1>>] = TRUE
      BY <2>3, <2>7
    <3> QED BY <3>2, <3>3, <3>4, <1>4, <1>5
  <2>8. CASE found = {} /\ ~MovesBase(parts[i])
    <3>1. i > 1 /\ i - 1 \in 1 .. m /\ at[i - 1] = base + 1 /\ ~parts[i - 1].directDescendant
      BY <2>5, <2>8 DEF MovesBase
    <3> DEFINE to == [j \in 1 .. i - 2 |-> at[j]]
    <3>2. \A j \in 1 .. i - 2 : j \in 1 .. i - 1
      BY <2>1
    <3>3. to \in [1 .. i - 2 -> 1 .. l] /\ \A j \in 1 .. i - 2 : to[j] = at[j]
      BY <3>2, <1>b
    <3> HIDE DEF to
    <3>4. ASSUME NEW h \in 1 .. i - 2
          PROVE  /\ ElementMatches(elements[to[h]], parts[h].requirements)
                 /\ \A j \in 1 .. i - 2 : j < h => to[h] < to[j]
                 /\ parts[h].directDescendant => h - 1 \in 1 .. i - 2 /\ to[h] = to[h - 1] - 1
      <4>1. parts[h].directDescendant => h - 1 \in 1 .. i - 1 /\ h - 1 \in 1 .. i - 2 /\ at[h] = at[h - 1] - 1
        <5>1. h - 1 \in 1 .. i - 1 => h - 1 \in 1 .. i - 2
          BY <2>1
        <5> QED BY <5>1, <3>2, <1>b
      <4> QED BY <4>1, <3>2, <3>3, <1>b
    <3>5. Embedding(elements, parts, (i - 1) - 1, to)
      <4>1. (i - 1) - 1 = i - 2
        BY <2>1
      <4> QED BY <4>1, <3>3, <3>4 DEF Embedding, l
    <3>6. i - 1 > 1 => to[(i - 1) - 1] > base
      <4> SUFFICES ASSUME i - 1 > 1 PROVE to[(i - 1) - 1] > base
        OBVIOUS
      <4>1. (i - 1) - 1 = i - 2 /\ i - 2 \in 1 .. i - 2 /\ i - 2 \in 1 .. i - 1 /\ i - 1 \in 1 .. i - 1 /\ i - 2 < i - 1
        BY <2>1
      <4>2. at[i - 1] < at[i - 2] /\ at[i - 2] \in 1 .. l
        BY <4>1, <1>b
      <4> QED BY <4>1, <4>2, <3>1, <3>3, <2>2, <2>4
    <3>7. Reached(elements, parts, i - 1, base, to)
      BY <3>1, <3>5, <3>6 DEF Reached
    <3>8. i - 1 \in 1 .. m + 1 /\ i - 1 < i
      BY <3>1, <2>1, <1>0
    <3>9. loop[<<i - 1, base>>] = TRUE
      BY <2>3, <2>8
    <3> QED BY <3>7, <3>8, <3>9, <1>4, <1>5
  <2> QED BY <2>6, <2>7, <2>8
<1> QED BY <1>7, <1>8

LEMMA NoChildOfChild ==
  ASSUME NEW tokens, Selector(tokens), ~ChildOfChild(tokens)
  PROVE  SingleChildren(SelectorParts(tokens))
<1> DEFINE parts == SelectorParts(tokens)
           m == Len(parts)
           pos == Ascending(TagPositions(tokens))
<1>1. PartsOf(tokens, parts, pos)
  BY PartsFacts
<1>2. DOMAIN tokens = 1 .. Len(tokens) /\ Len(tokens) \in Nat
  BY DEF Selector
<1> HIDE DEF parts, pos
<1>3. \A k \in 1 .. m : pos[k] \in 1 .. Len(tokens)
  BY <1>1, <1>2 DEF PartsOf, Lists, TagPositions
<1>4. ASSUME NEW k \in 1 .. m, parts[k].directDescendant
      PROVE  k - 1 \in 1 .. m /\ ~parts[k - 1].directDescendant
  <2>1. k - 1 \in 1 .. m /\ pos[k - 1] = pos[k] - 2 /\ tokens[pos[k] - 1] = Child
    BY <1>1, <1>4 DEF PartsOf
  <2>2. ASSUME parts[k - 1].directDescendant PROVE FALSE
    <3>1. pos[k - 1] > 2 /\ tokens[pos[k - 1] - 1] = Child
      BY <1>1, <2>1, <2>2 DEF PartsOf
    <3> DEFINE i == pos[k - 1] - 1
    <3>2. i \in 1 .. Len(tokens) /\ i + 2 \in 1 .. Len(tokens) /\ i + 2 = pos[k] - 1
      <4>1. pos[k] \in 1 .. Len(tokens) /\ pos[k - 1] \in 1 .. Len(tokens)
        BY <2>1, <1>3
      <4>2. ASSUME NEW n \in Nat, NEW p \in 1 .. n, NEW q \in 1 .. n, p > 2, p = q - 2
            PROVE  p - 1 \in 1 .. n /\ (p - 1) + 2 \in 1 .. n /\ (p - 1) + 2 = q - 1
        BY <4>2
      <4>3. pos[k - 1] > 2 /\ pos[k - 1] = pos[k] - 2 /\ Len(tokens) \in Nat
        BY <3>1, <2>1, <1>2
      <4> QED BY <4>1, <4>2, <4>3
    <3>3. tokens[i] = Child /\ tokens[i + 2] = Child
      BY <3>1, <3>2, <2>1
    <3> QED BY <3>2, <3>3, <1>2 DEF ChildOfChild
  <2> QED BY <2>1, <2>2
<1> QED BY <1>4 DEF SingleChildren, parts

(* checkElementsAgainstSelector, compared with what the selector means.      *)
LEMMA SelectorMatches ==
  ASSUME NEW tokens, Selector(tokens), NEW elements, ListOf(elements)
  PROVE  /\ MatchesCSS(elements, tokens) => CheckSelector(elements, tokens)
         /\ CheckSelector(elements, tokens) =>
              MatchesCSS(elements, tokens) \/ ChildOfChild(tokens) \/ ChildStar(tokens)
<1> DEFINE t == WithoutStars(tokens)
           parts == SelectorParts(t)
<1>1. Selector(t) /\ (MatchesCSS(elements, tokens) => MatchesCSS(elements, t))
  BY WithoutStarsWeakens
<1>2. ~ChildStar(tokens) => t = tokens
  BY WithoutStarsUnchanged
<1>3. CheckSelector(elements, tokens) = MatchParts(elements, parts)
  BY DEF CheckSelector
<1> HIDE DEF t
<1>4. parts \in Seq(Range(parts))
  BY <1>1, PartsFacts DEF PartsOf
<1>5. MatchesCSS(elements, t) <=> \E at : Embedding(elements, parts, Len(parts), at)
  BY <1>1, CSSAsEmbedding
<1>6. ~ChildOfChild(t) => SingleChildren(parts)
  BY <1>1, NoChildOfChild
<1> HIDE DEF parts
<1>7. PICK loop : LoopOf(elements, parts, loop) /\ MatchParts(elements, parts) = loop[<<1, Len(elements)>>]
  BY <1>4, MatchPartsLoop
<1>8. ASSUME MatchesCSS(elements, tokens) PROVE CheckSelector(elements, tokens)
  <2>1. PICK at : Embedding(elements, parts, Len(parts), at)
    BY <1>1, <1>5, <1>8
  <2>2. loop[<<1, Len(elements)>>] = TRUE
    BY <1>4, <1>7, <2>1, LoopFindsEmbedding
  <2> QED BY <1>3, <1>7, <2>2
<1>9. ASSUME CheckSelector(elements, tokens), ~ChildOfChild(tokens), ~ChildStar(tokens)
      PROVE  MatchesCSS(elements, tokens)
  <2>1. SingleChildren(parts) /\ t = tokens
    BY <1>2, <1>6, <1>9
  <2>2. loop[<<1, Len(elements)>>] = TRUE
    BY <1>3, <1>7, <1>9
  <2>3. \E at : Embedding(elements, parts, Len(parts), at)
    BY <1>4, <1>7, <2>1, <2>2, LoopFoundIsEmbedding
  <2> QED BY <1>5, <2>1, <2>3
<1> QED BY <1>8, <1>9

-----------------------------------------------------------------------------
(* Filters, steps and the theorem                                           *)

(* The only answer decides, also when it is the one that is passed over.     *)
LEMMA OnlyAnswer ==
  ASSUME NEW answers, DOMAIN answers = {1}, NEW passedOver
  PROVE  Deciding(answers, passedOver) = answers[1]
<1> DEFINE others == {k \in DOMAIN answers : answers[k] # passedOver}
<1>1. CASE answers[1] = passedOver
  <2>1. others = {}
    BY <1>1
  <2> QED BY <2>1, <1>1 DEF Deciding
<1>2. CASE answers[1] # passedOver
  <2>1. others = {1} /\ others # {}
    BY <1>2
  <2>2. Min(others) = 1
    BY <2>1 DEF Min
  <2> QED BY <2>1, <2>2 DEF Deciding
<1> QED BY <1>1, <1>2

(* Two values that properties and filters may have, compared both ways.      *)
LEMMA NegationsExclude ==
  ASSUME input.of = "filter"
  PROVE  NegationAgrees
<1> DEFINE a == input.found
           v == input.value
           Says(operator, properties) ==
             IF "k" \notin DOMAIN properties \/ a.type \notin RequiredTypes(operator)
             THEN AnswerOf(operator \in EmptyMatchingOperators)
             ELSE Test(a, v, operator)
<1>1. ASSUME NEW operator
      PROVE  /\ Said(operator, [k |-> a]) = Says(operator, [k |-> a])
             /\ Said(operator, <<>>) = Says(operator, <<>>)
  <2> DEFINE answers == [k \in DOMAIN <<v>> |-> Test(a, <<v>>[k], operator)]
  <2>1. DOMAIN [k |-> a] = {"k"} /\ [k |-> a]["k"] = a /\ "k" \notin DOMAIN <<>>
    OBVIOUS
  <2>2. DOMAIN answers = {1} /\ answers[1] = Test(a, v, operator)
    OBVIOUS
  <2>3. Deciding(answers, "no") = Test(a, v, operator)
    BY <2>2, OnlyAnswer
  <2> QED BY <2>1, <2>3 DEF Said, CheckProperties
<1>2. "k" \in DOMAIN [k |-> a] /\ "k" \notin DOMAIN <<>>
  OBVIOUS
<1> HIDE DEF a, v
<1>3. ASSUME NEW pair \in Negations
      PROVE  /\ pair[1] \notin EmptyMatchingOperators /\ pair[2] \in EmptyMatchingOperators
             /\ RequiredTypes(pair[1]) = RequiredTypes(pair[2])
             /\ pair[1] \in {"regex", "not_regex"} <=> pair[2] \in {"regex", "not_regex"}
             /\ Passes(a, v, pair[1]) \/ Passes(a, v, pair[2])
             /\ a.type = v.type => ~ (Passes(a, v, pair[1]) /\ Passes(a, v, pair[2]))
  <2>1. CASE pair = <<"exact", "is_not">>
    BY <2>1 DEF EmptyMatchingOperators, RequiredTypes, Passes, CastingCompare
  <2>2. CASE pair = <<"icontains", "not_icontains">>
    BY <2>2 DEF EmptyMatchingOperators, RequiredTypes, Passes
  <2>3. CASE pair = <<"regex", "not_regex">>
    BY <2>3 DEF EmptyMatchingOperators, RequiredTypes, Passes
  <2>4. CASE pair = <<"is_set", "is_not_set">>
    BY <2>4 DEF EmptyMatchingOperators, RequiredTypes, Passes
  <2> QED BY <2>1, <2>2, <2>3, <2>4 DEF Negations
<1>4. ASSUME NEW pair \in Negations,
             NEW said, said = Said(pair[1], [k |-> a]),
             NEW denied, denied = Said(pair[2], [k |-> a])
      PROVE  /\ \/ "yes" \in {said, denied}
                \/ said = "throws" /\ denied = "throws" /\ ~v.isPattern
             /\ a.type = v.type => ~ (said = "yes" /\ denied = "yes")
             /\ Said(pair[1], <<>>) = "no" /\ Said(pair[2], <<>>) = "yes"
  <2>1. Said(pair[1], <<>>) = "no" /\ Said(pair[2], <<>>) = "yes"
    BY <1>1, <1>2, <1>3 DEF AnswerOf
  <2>2. CASE a.type \notin RequiredTypes(pair[1])
    BY <2>1, <2>2, <1>1, <1>2, <1>3, <1>4 DEF AnswerOf
  <2>3. CASE a.type \in RequiredTypes(pair[1])
    <3>1. said = Test(a, v, pair[1]) /\ denied = Test(a, v, pair[2])
      BY <2>3, <1>1, <1>2, <1>3, <1>4
    <3>2. CASE pair[1] \in {"regex", "not_regex"} /\ ~v.isPattern
      BY <3>1, <3>2, <2>1, <1>3 DEF Test
    <3>3. CASE ~ (pair[1] \in {"regex", "not_regex"} /\ ~v.isPattern)
      <4>1. said = AnswerOf(Passes(a, v, pair[1])) /\ denied = AnswerOf(Passes(a, v, pair[2]))
        BY <3>1, <3>3, <1>3 DEF Test
      <4> QED BY <4>1, <2>1, <1>3 DEF AnswerOf
    <3> QED BY <3>2, <3>3
  <2> QED BY <2>2, <2>3
<1> QED BY <1>4 DEF NegationAgrees, a, v

(* The loop over the steps of an action finds one that says yes.             *)
LEMMA SomeStepMatches ==
  ASSUME NEW answers, answers \in Seq(Range(answers))
  PROVE  ActionMatches(answers) = (\E k \in DOMAIN answers : answers[k] = "yes")
<1> DEFINE n == Len(answers)
           Body(loop) == [k \in 1 .. n + 1 |->
                            IF k > n THEN FALSE ELSE IF answers[k] = "yes" THEN TRUE ELSE loop[k + 1]]
           f == CHOOSE loop : loop = Body(loop)
           Later(k) == \E j \in k .. n : answers[j] = "yes"
           g == [k \in 1 .. n + 1 |-> Later(k)]
<1>0. n \in Nat /\ DOMAIN answers = 1 .. n
  OBVIOUS
<1>b. \A k : Later(k) \in BOOLEAN
  OBVIOUS
<1>1. ActionMatches(answers) = f[1]
  BY DEF ActionMatches
<1>2. g = Body(g)
  <2>1. ASSUME NEW k \in 1 .. n + 1 PROVE g[k] = Body(g)[k]
    <3>1. g[k] = Later(k) /\ k \in Nat
      BY <1>0
    <3>2. Body(g)[k] = IF k > n THEN FALSE ELSE IF answers[k] = "yes" THEN TRUE ELSE g[k + 1]
      OBVIOUS
    <3>3. k > n => k .. n = {} /\ ~Later(k)
      BY <1>0
    <3>4. k <= n => k \in k .. n /\ k + 1 \in 1 .. n + 1 /\ \A j \in k .. n : j = k \/ j \in k + 1 .. n
      BY <1>0
    <3>5. k <= n => g[k + 1] = Later(k + 1)
      BY <3>4
    <3>6. k <= n => (Later(k) <=> answers[k] = "yes" \/ Later(k + 1))
      <4>1. \A j \in k + 1 .. n : j \in k .. n
        BY <3>1, <1>0
      <4> QED BY <4>1, <3>4
    <3>7. k > n \/ k <= n
      BY <3>1, <1>0
    <3> HIDE DEF g, Body, Later
    <3>8. CASE k > n
      <4>1. Later(k) = FALSE
        BY <3>8, <3>3, <1>b
      <4> QED BY <4>1, <3>8, <3>1, <3>2
    <3>9. CASE ~ (k > n) /\ answers[k] = "yes"
      <4>1. Later(k)
        BY <3>9, <3>6, <3>7
      <4>2. Body(g)[k] = TRUE
        BY <3>9, <3>2
      <4> QED BY <4>1, <4>2, <3>1
    <3>10. CASE ~ (k > n) /\ answers[k] # "yes"
      <4>1. Later(k) = Later(k + 1)
        BY <3>10, <3>6, <3>7, <1>b
      <4>2. Body(g)[k] = Later(k + 1)
        BY <3>10, <3>2, <3>5, <3>7
      <4> QED BY <4>1, <4>2, <3>1
    <3> QED BY <3>8, <3>9, <3>10
  <2>2. Body(g) = [k \in 1 .. n + 1 |-> Body(g)[k]] /\ g = [k \in 1 .. n + 1 |-> g[k]]
    OBVIOUS
  <2> HIDE DEF Body, g
  <2> QED BY <2>1, <2>2
<1>3. f = Body(f)
  <2> HIDE DEF Body, g
  <2> QED BY <1>2
<1> HIDE DEF f
<1>4. ASSUME NEW k \in 1 .. n + 1
      PROVE  f[k] = IF k > n THEN FALSE ELSE IF answers[k] = "yes" THEN TRUE ELSE f[k + 1]
  BY <1>3
<1> HIDE DEF g, Body
<1> DEFINE Bad == {d \in 0 .. n : f[n + 1 - d] # Later(n + 1 - d)}
<1>5. Bad = {}
  <2> SUFFICES ASSUME Bad # {} PROVE FALSE
    OBVIOUS
  <2>1. PICK d \in Bad : \A e \in Bad : d <= e
    <3>1. Bad \subseteq Nat
      <4> HIDE DEF Later
      <4> QED BY <1>0
    <3> HIDE DEF Bad
    <3> QED BY <3>1, LeastNat
  <2> DEFINE k == n + 1 - d
  <2>2. d \in 0 .. n /\ k \in 1 .. n + 1 /\ f[k] # Later(k)
    <3>1. d \in 0 .. n /\ f[n + 1 - d] # Later(n + 1 - d)
      <4> HIDE DEF Later
      <4> QED BY <2>1
    <3>2. k \in 1 .. n + 1
      BY <3>1, <1>0
    <3> HIDE DEF Later
    <3> QED BY <3>1, <3>2
  <2>3. CASE d = 0
    <3>1. k > n /\ k .. n = {}
      BY <2>3, <1>0
    <3> QED BY <3>1, <2>2, <1>4
  <2>4. CASE d # 0
    <3>1. d - 1 \in 0 .. n /\ d - 1 \notin Bad /\ n + 1 - (d - 1) = k + 1
      <4>1. d - 1 \in 0 .. n /\ ~ (d <= d - 1) /\ n + 1 - (d - 1) = k + 1
        BY <2>2, <2>4, <1>0
      <4> HIDE DEF Bad
      <4> QED BY <4>1, <2>1
    <3>2. f[k + 1] = Later(k + 1)
      BY <3>1
    <3>3. k \in k .. n /\ ~ (k > n) /\ (\A j \in k .. n : j = k \/ j \in k + 1 .. n) /\ (\A j \in k + 1 .. n : j \in k .. n)
      BY <2>2, <2>4, <1>0
    <3>4. Later(k) <=> answers[k] = "yes" \/ Later(k + 1)
      BY <3>3
    <3>5. f[k] = IF answers[k] = "yes" THEN TRUE ELSE Later(k + 1)
      BY <1>4, <2>2, <3>2, <3>3
    <3> HIDE DEF Later, k
    <3>6. CASE answers[k] = "yes"
      <4>1. Later(k) /\ f[k] = TRUE
        BY <3>4, <3>5, <3>6
      <4> QED BY <4>1, <2>2
    <3>7. CASE answers[k] # "yes"
      <4>1. Later(k) = Later(k + 1) /\ f[k] = Later(k + 1)
        BY <3>4, <3>5, <3>7, <1>b
      <4> QED BY <4>1, <2>2
    <3> QED BY <3>6, <3>7
  <2> QED BY <2>3, <2>4
<1>6. f[1] = Later(1)
  <2>1. n \in 0 .. n /\ n + 1 - n = 1
    BY <1>0
  <2> HIDE DEF Later
  <2> QED BY <2>1, <1>5
<1> QED BY <1>0, <1>1, <1>6

LEMMA ActionHasStep ==
  ASSUME NEW event, NEW person, NEW S, NEW steps \in Seq(S)
  PROVE  CheckAction(event, person, steps) = (\E k \in DOMAIN steps : CheckStep(event, person, steps[k]) = "yes")
<1> DEFINE answers == [k \in DOMAIN steps |-> CheckStep(event, person, steps[k])]
<1>1. DOMAIN answers = DOMAIN steps /\ \A k \in DOMAIN steps : answers[k] = CheckStep(event, person, steps[k])
  OBVIOUS
<1>2. answers \in Seq(Range(answers))
  <2>1. DOMAIN answers = 1 .. Len(steps) /\ Len(steps) \in Nat
    BY <1>1
  <2>2. answers \in [1 .. Len(steps) -> Range(answers)]
    BY <2>1 DEF Range
  <2> QED BY <2>1, <2>2, SeqDef
<1>3. CheckAction(event, person, steps) = ActionMatches(answers)
  BY DEF CheckAction
<1> HIDE DEF answers
<1> QED BY <1>1, <1>2, <1>3, SomeStepMatches

LEMMA EitherStepMatches ==
  ASSUME input.of = "action"
  PROVE  StepsAreAlternatives
<1> DEFINE a == input.first
           b == input.second
           Says(s) == CheckStep(input.event, input.person, s) = "yes"
           Matches(steps) == CheckAction(input.event, input.person, steps)
<1>1. <<a, b>> \in Seq({a, b}) /\ <<a>> \in Seq({a, b}) /\ <<b>> \in Seq({a, b})
  OBVIOUS
<1>2. /\ Matches(<<a, b>>) = (\E k \in DOMAIN <<a, b>> : Says(<<a, b>>[k]))
      /\ Matches(<<a>>) = (\E k \in DOMAIN <<a>> : Says(<<a>>[k]))
      /\ Matches(<<b>>) = (\E k \in DOMAIN <<b>> : Says(<<b>>[k]))
  BY <1>1, ActionHasStep
<1>3. /\ DOMAIN <<a, b>> = {1, 2} /\ <<a, b>>[1] = a /\ <<a, b>>[2] = b
      /\ DOMAIN <<a>> = {1} /\ <<a>>[1] = a
      /\ DOMAIN <<b>> = {1} /\ <<b>>[1] = b
  OBVIOUS
<1> HIDE DEF a, b, Says, Matches
<1>4. Matches(<<a, b>>) = (Matches(<<a>>) \/ Matches(<<b>>))
  <2>1. (\E k \in DOMAIN <<a, b>> : Says(<<a, b>>[k])) = (Says(a) \/ Says(b))
    BY <1>3
  <2>2. (\E k \in DOMAIN <<a>> : Says(<<a>>[k])) <=> Says(a)
    BY <1>3
  <2>3. (\E k \in DOMAIN <<b>> : Says(<<b>>[k])) <=> Says(b)
    BY <1>3
  <2> QED BY <2>1, <2>2, <2>3, <1>2
<1> QED BY <1>4 DEF StepsAreAlternatives, Matches, a, b

(* What is compared are lists, and selectors are as MatchingAssumption says. *)
LEMMA SelectorInput ==
  ASSUME input \in Inputs, input.of = "selector"
  PROVE  Selector(input.tokens) /\ ListOf(input.elements)
<1>1. input \in [of : {"selector"}, elements : ElementLists, tokens : Selectors]
  BY DEF Inputs
<1>2. input.elements \in ElementLists /\ input.tokens \in Selectors
  BY <1>1
<1> DEFINE t == input.tokens
<1>3. /\ ListOf(input.elements) /\ ListOf(t)
      /\ t # <<>> => t[1] # Child /\ t[Len(t)] # Child
      /\ \A i \in 1 .. Len(t) - 1 : Child \notin {t[i], t[i + 1]} \/ t[i] # t[i + 1]
  <2>1. \A tokens \in Selectors :
          /\ ListOf(tokens)
          /\ tokens # <<>> => tokens[1] # Child /\ tokens[Len(tokens)] # Child
          /\ \A i \in 1 .. Len(tokens) - 1 : Child \notin {tokens[i], tokens[i + 1]} \/ tokens[i] # tokens[i + 1]
    BY MatchingAssumption DEF MatchingAssumption
  <2>2. t \in Selectors
    BY <1>2
  <2>3. ListOf(input.elements)
    BY <1>2, MatchingAssumption DEF MatchingAssumption
  <2> HIDE DEF t
  <2> QED BY <2>1, <2>2, <2>3
<1> HIDE DEF t
<1>4. Selector(t)
  BY <1>3 DEF Selector, ListOf
<1> QED BY <1>3, <1>4 DEF t

(* MatcherAgrees: a selector misses no elements that it matches in CSS, for   *)
(* elements, parts and stars without bound, and matches others only as the   *)
(* child of a child or because of a star taken away; a filter and its        *)
(* negation say the opposite; an action is the alternative of its steps      *)
(* (action-matcher.ts).                                                      *)
THEOREM MatcherAgreesHolds == MatchingSpec => []MatcherAgrees
<1>1. input \in Inputs => MatcherAgrees
  <2> SUFFICES ASSUME input \in Inputs PROVE MatcherAgrees
    OBVIOUS
  <2>1. SelectorComplete /\ SelectorSound
    <3>1. CASE input.of = "selector"
      BY <3>1, SelectorInput, SelectorMatches DEF SelectorComplete, SelectorSound, Selected
    <3>2. CASE input.of # "selector"
      BY <3>2 DEF SelectorComplete, SelectorSound
    <3> QED BY <3>1, <3>2
  <2>2. NegationAgrees
    <3>1. CASE input.of = "filter"
      BY <3>1, NegationsExclude
    <3>2. CASE input.of # "filter"
      BY <3>2 DEF NegationAgrees
    <3> QED BY <3>1, <3>2
  <2>3. StepsAreAlternatives
    <3>1. CASE input.of = "action"
      BY <3>1, EitherStepMatches
    <3>2. CASE input.of # "action"
      BY <3>2 DEF StepsAreAlternatives
    <3> QED BY <3>1, <3>2
  <2> QED BY <2>1, <2>2, <2>3 DEF MatcherAgrees
<1>2. input \in Inputs /\ [FALSE]_input => (input \in Inputs)'
  BY DEF Inputs
<1> QED BY <1>1, <1>2, PTL DEF MatchingSpec
=============================================================================
