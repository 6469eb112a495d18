------------------------ MODULE PersonIdentityProofs ------------------------
(* Proofs about PersonIdentity, for all tasks, threads, distinct IDs, pools  *)
(* and bounds: types, NoSpuriousMerge by way of IInv, EmptyPersonHasCause    *)
(* and SeenIdHasPerson; for one task without faults, MirrorAgrees and that   *)
(* the task implements PersonPartition; and the accounts of the pools.       *)
EXTENDS PersonIdentity, FiniteSetTheorems, TLAPS

(* s is a local state that follows r and speaks for no person that r, or the *)
(* committed row of one of its distinct IDs, does not speak for.            *)
Follows(r, s) ==
  /\ s \in TaskState
  /\ Consistent(s)
  /\ \/ s.old = NoPerson
     \/ s.old = r.old /\ s.prev = r.prev
     \/ s.prev \in DistinctId /\ s.old = pdi[s.prev]
  /\ \/ s.new = NoPerson
     \/ s.new = r.new /\ s.id = r.id
     \/ s.id \in DistinctId /\ s.new = pdi[s.id]

(* Only the local state of t changes, to one that follows. *)
Quiet(t) ==
  /\ \E s \in TaskState :
       Follows(task[t], s) /\ task' = [task EXCEPT ![t] = s]
  /\ UNCHANGED <<pdi, used, issued>>

(* The states alias() can be left for follow.  Names the operators of the    *)
(* control of process-event.ts.                                             *)
LEMMA ControlFollows ==
  ASSUME ConstantsAssumption,
         NEW r \in TaskState, Consistent(r), r.pc \in AliasPC, NEW n \in Nat
  PROVE  /\ Follows(r, Handled(r))
         /\ Follows(r, AfterMerge(r))
         /\ Follows(r, AliasReturn(r))
         /\ Follows(r, AliasAgain(r, n))
<1>1. r.id \in DistinctId /\ <<r.prev, r.id>> \in issued
  BY DEF Consistent, AliasPC, TaskState
<1>2. Follows(r, Handled(r))
  <2>1. Handled(r) \in TaskState
    BY <1>1 DEF Handled, Idle, TaskState, PC, Kind
  <2>2. /\ Handled(r).pc = "isNew" /\ Handled(r).id = r.id
        /\ Handled(r).old = NoPerson /\ Handled(r).new = NoPerson
    BY DEF Handled, Idle
  <2> QED BY <1>1, <2>1, <2>2 DEF Follows, Consistent, AliasPC, PC
<1> DEFINE c == Cleared(r)
<1>c. /\ c \in TaskState
      /\ c.old = NoPerson /\ c.new = NoPerson
      /\ c.id = r.id /\ c.prev = r.prev
      /\ c.depth = r.depth /\ c.held = r.held
  BY DEF Cleared, TaskState
<1> HIDE DEF c
<1>3. Follows(r, AfterMerge(r))
  <2>1. CASE r.kind = "$identify"
    <3>1. AfterMerge(r) = [c EXCEPT !.pc = "identifyFetch"]
      BY <2>1 DEF AfterMerge, c
    <3>2. AfterMerge(r) \in TaskState
      BY <1>c, <3>1 DEF TaskState, PC
    <3>3. /\ AfterMerge(r).pc = "identifyFetch"
          /\ AfterMerge(r).prev = r.prev /\ AfterMerge(r).id = r.id
          /\ AfterMerge(r).old = NoPerson /\ AfterMerge(r).new = NoPerson
      BY <1>c, <3>1 DEF TaskState
    <3> QED BY <1>1, <3>2, <3>3 DEF Follows, Consistent, AliasPC, PC
  <2>2. CASE r.kind # "$identify"
    BY <1>2, <2>2 DEF AfterMerge
  <2> QED BY <2>1, <2>2
<1>4. Follows(r, AliasReturn(r))
  <2>1. CASE r.depth = 0
    BY <1>2, <2>1 DEF AliasReturn
  <2>2. CASE r.depth # 0
    <3>1. AliasReturn(r) = [c EXCEPT !.pc = "identifyFetch", !.depth = @ - 1,
                                     !.held = IF @ = 0 THEN 0 ELSE @ - 1]
      BY <2>2 DEF AliasReturn, c
    <3>2. c.depth - 1 \in Nat /\ (c.held # 0 => c.held - 1 \in Nat)
      BY <2>2, <1>c DEF TaskState
    <3>3. AliasReturn(r) \in TaskState
      BY ZenonT(60), <1>c, <3>1, <3>2 DEF TaskState, PC
    <3>4. /\ AliasReturn(r).pc = "identifyFetch"
          /\ AliasReturn(r).prev = r.prev /\ AliasReturn(r).id = r.id
          /\ AliasReturn(r).old = NoPerson /\ AliasReturn(r).new = NoPerson
      BY <1>c, <3>1 DEF TaskState
    <3> QED BY <1>1, <3>3, <3>4 DEF Follows, Consistent, AliasPC, PC
  <2> QED BY <2>1, <2>2
<1>5. Follows(r, AliasAgain(r, n))
  <2>1. AliasAgain(r, n) = [c EXCEPT !.pc = "fetchOld", !.retry = FALSE,
                                     !.depth = @ + 1, !.attempts = n]
    BY DEF AliasAgain, c
  <2>2. c.depth + 1 \in Nat
    BY <1>c DEF TaskState
  <2>3. AliasAgain(r, n) \in TaskState
    BY ZenonT(60), <1>c, <2>1, <2>2 DEF TaskState, PC
  <2>4. /\ AliasAgain(r, n).pc = "fetchOld"
        /\ AliasAgain(r, n).prev = r.prev /\ AliasAgain(r, n).id = r.id
        /\ AliasAgain(r, n).old = NoPerson /\ AliasAgain(r, n).new = NoPerson
    BY <1>c, <2>1 DEF TaskState
  <2> QED BY <1>1, <2>3, <2>4 DEF Follows, Consistent, AliasPC, PC
<1> QED BY <1>2, <1>3, <1>4, <1>5

(* A quiet step keeps everything but the types of the other variables. *)
LEMMA QuietKeeps ==
  ASSUME ConstantsAssumption, IInv, NEW t \in Task, Quiet(t)
  PROVE  task' \in [Task -> TaskState] /\ TasksConsistent' /\ ClaimedAreUsed' /\ ClaimsAgree'
<1>1. PICK s \in TaskState : Follows(task[t], s) /\ task' = [task EXCEPT ![t] = s]
  BY DEF Quiet
<1>2. UNCHANGED <<pdi, used, issued>>
  BY DEF Quiet
<1>3. task \in [Task -> TaskState]
  BY DEF IInv, TypeOK
<1>4. task' \in [Task -> TaskState]
  BY <1>1, <1>3
<1>5. TasksConsistent'
  BY <1>1, <1>2, <1>3 DEF IInv, TasksConsistent, Consistent, Follows
<1>6. \A p \in PersonId, d \in DistinctId : Claim(p, d)' => Claim(p, d)
  BY <1>1, <1>2, <1>3 DEF Claim, Follows, ConstantsAssumption
<1>7. ClaimedAreUsed'
  BY <1>2, <1>6 DEF IInv, ClaimedAreUsed
<1>8. ClaimsAgree'
  BY <1>2, <1>6 DEF IInv, ClaimsAgree, Unlinked
<1> QED BY <1>4, <1>5, <1>7, <1>8

(* Continue changes the local state of one task and the clients in use. *)
LEMMA ContinueTypes ==
  ASSUME ConstantsAssumption, TypeOK, NEW t \in Task, NEW s \in TaskState,
         Continue(t, s)
  PROVE  /\ task' = [task EXCEPT ![t] = s]
         /\ clients' \in [Thread -> Int]
<1>1. s.held \in Int /\ task[t].held \in Int
  BY DEF TypeOK, TaskState
<1>2. ThreadOf[t] \in Thread /\ clients \in [Thread -> Int]
  BY DEF ConstantsAssumption, TypeOK
<1> QED BY <1>1, <1>2 DEF Continue

(* A quiet step that leaves the tables alone, or only identifies persons,    *)
(* keeps the invariant.                                                     *)
LEMMA QuietPreserves ==
  ASSUME ConstantsAssumption, IInv, NEW t \in Task, NEW s,
         Follows(task[t], s), Continue(t, s),
         UNCHANGED <<pdi, used, issued>>,
         live' \subseteq PersonId, identified' \subseteq PersonId,
         seen' \in [Thread -> SUBSET DistinctId],
         mirror' \in [DistinctId -> PersonId \cup {NoPerson}],
         abandoned' \subseteq PersonId, calls' \in Nat, faults' \in Nat
  PROVE  IInv'
<1>1. s \in TaskState /\ TypeOK
  BY DEF Follows, IInv
<1>2. task' = [task EXCEPT ![t] = s] /\ clients' \in [Thread -> Int]
  BY <1>1, ContinueTypes
<1>3. Quiet(t)
  BY <1>1, <1>2 DEF Quiet
<1>4. task' \in [Task -> TaskState] /\ TasksConsistent' /\ ClaimedAreUsed' /\ ClaimsAgree'
  BY <1>3, QuietKeeps
<1>5. TypeOK'
  BY <1>1, <1>2, <1>4 DEF TypeOK
<1> QED BY <1>4, <1>5 DEF IInv

(* What IInv says of a task. *)
LEMMA TaskFacts ==
  ASSUME ConstantsAssumption, IInv, NEW t \in Task
  PROVE  /\ task[t] \in TaskState
         /\ Consistent(task[t])
         /\ task[t].pc \in AliasPC =>
              /\ <<task[t].prev, task[t].id>> \in issued
              /\ task[t].prev \in DistinctId /\ task[t].id \in DistinctId
         /\ task[t].pc # "idle" => task[t].id \in DistinctId
BY DEF IInv, TypeOK, TasksConsistent, Consistent

(* Abandon adds persons only. *)
LEMMA AbandonType ==
  ASSUME ConstantsAssumption, IInv, NEW ts \in SUBSET Task, Abandon(ts)
  PROVE  abandoned' \subseteq PersonId
<1>1. ASSUME NEW u \in ts, task[u].pc \in {"delete", "commit"}
      PROVE  task[u].old \in PersonId
  BY <1>1, TaskFacts DEF Consistent, TaskState
<1> QED BY <1>1 DEF Abandon, IInv, TypeOK

-----------------------------------------------------------------------------
(* The steps of alias() that only read or identify. *)
LEMMA ReadingPreserves ==
  ASSUME ConstantsAssumption, IInv, NEW t \in Task,
         FetchOld(t) \/ FetchNew(t) \/ Publish(t) \/ IdentifyFetch(t)
           \/ IdentifyWait(t) \/ IdentifyUpdate(t)
  PROVE  IInv'
<1> DEFINE r == task[t]
<1>0. /\ r \in TaskState /\ Consistent(r) /\ TypeOK
      /\ r.pc \in AliasPC => /\ <<r.prev, r.id>> \in issued
                             /\ r.prev \in DistinctId /\ r.id \in DistinctId
  BY TaskFacts DEF IInv
<1>n. 0 \in Nat
  OBVIOUS
<1>p. \A d \in DistinctId : pdi[d] \in PersonId \cup {NoPerson}
  BY <1>0 DEF TypeOK
<1> HIDE DEF r
<1>1. CASE FetchOld(t)
  <2> DEFINE p == PersonOf(r.prev)
             i == p \in identified
             s == [r EXCEPT !.pc = "fetchNew", !.old = p, !.oldIdentified = i]
  <2>1. r.pc = "fetchOld" /\ Continue(t, s)
    BY <1>1 DEF FetchOld, At, r
  <2>2. r.pc \in AliasPC
    BY <2>1 DEF AliasPC, PC
  <2>3. p \in PersonId \cup {NoPerson} /\ p = pdi[r.prev]
    BY <1>0, <1>p, <2>2 DEF PersonOf
  <2>i. i \in BOOLEAN
    OBVIOUS
  <2> HIDE DEF p, i
  <2>4. s \in TaskState
    <3>1. "fetchNew" \in PC
      BY DEF PC
    <3> QED BY <1>0, <2>3, <2>i, <3>1 DEF TaskState
  <2>5. s.pc = "fetchNew" /\ s.prev = r.prev /\ s.id = r.id /\ s.old = p /\ s.new = r.new
    BY <1>0 DEF TaskState
  <2>6. Follows(r, s)
    BY <1>0, <2>2, <2>3, <2>4, <2>5 DEF Follows, Consistent, AliasPC, PC
  <2> QED
    BY <1>0, <1>1, <2>1, <2>6, QuietPreserves
    DEF FetchOld, db, history, bounds, TypeOK, r
<1>2. CASE FetchNew(t)
  <2> DEFINE p == PersonOf(r.id)
             b == Branch(t, r.old, p)
             i == p \in identified
             s == [r EXCEPT !.pc = b, !.new = p, !.newIdentified = i]
  <2>1. r.pc = "fetchNew" /\ Continue(t, IF b \in {"same", "refuse"} THEN AfterMerge(r) ELSE s)
    BY <1>2 DEF FetchNew, At, r
  <2>2. r.pc \in AliasPC
    BY <2>1 DEF AliasPC, PC
  <2>3. p \in PersonId \cup {NoPerson} /\ p = pdi[r.id]
    BY <1>0, <1>p, <2>2 DEF PersonOf
  <2>b. /\ b \in {"add", "create", "same", "refuse", "begin"}
        /\ b = "begin" => r.old # NoPerson /\ p # NoPerson
    BY DEF Branch
  <2>i. i \in BOOLEAN
    OBVIOUS
  <2> HIDE DEF p, b, i
  <2>4. CASE b \in {"same", "refuse"}
    <3>1. Follows(r, AfterMerge(r)) /\ Continue(t, AfterMerge(r))
      BY <1>0, <1>n, <2>1, <2>2, <2>4, ControlFollows
    <3> QED
      BY <1>0, <1>2, <3>1, QuietPreserves
      DEF FetchNew, db, history, bounds, TypeOK, r
  <2>5. CASE b \notin {"same", "refuse"}
    <3>1. s \in TaskState /\ Continue(t, s)
      BY ZenonT(60), <1>0, <2>1, <2>3, <2>b, <2>i, <2>5 DEF TaskState, PC
    <3>2. s.pc = b /\ s.prev = r.prev /\ s.id = r.id /\ s.old = r.old /\ s.new = p
      BY <1>0 DEF TaskState
    <3>3. Follows(r, s)
      BY <1>0, <2>2, <2>3, <2>b, <2>5, <3>1, <3>2 DEF Follows, Consistent, AliasPC, PC
    <3> QED
      BY <1>0, <1>2, <3>1, <3>3, QuietPreserves
      DEF FetchNew, db, history, bounds, TypeOK, r
  <2> QED BY <2>4, <2>5
<1>3. CASE Publish(t)
  <2>1. r.pc \in AliasPC /\ Continue(t, AfterMerge(r))
    BY <1>3 DEF Publish, At, AliasPC, PC, r
  <2>2. mirror' \in [DistinctId -> PersonId \cup {NoPerson}]
    BY <1>0, <1>3 DEF Publish, Announce, TypeOK, TaskState, r
  <2>3. Follows(r, AfterMerge(r))
    BY <1>0, <1>n, <2>1, ControlFollows
  <2> QED
    BY <1>0, <1>3, <2>1, <2>2, <2>3, QuietPreserves
    DEF Publish, db, history, bounds, TypeOK, r
<1>4. CASE IdentifyFetch(t)
  <2> DEFINE p == PersonOf(r.id)
             s == [r EXCEPT !.pc = "identifyUpdate", !.new = p]
  <2>1. r.pc = "identifyFetch" /\ r.pc \in AliasPC
    BY <1>4 DEF IdentifyFetch, At, AliasPC, PC, r
  <2>2. p \in PersonId \cup {NoPerson} /\ p = pdi[r.id]
    BY <1>0, <1>p, <2>1 DEF PersonOf
  <2>3. PICK x \in {Handled(r), AliasReturn(r), s} : Continue(t, x)
    BY <1>4 DEF IdentifyFetch, r
  <2> HIDE DEF p
  <2>4. s \in TaskState
    BY ZenonT(60), <1>0, <2>2 DEF TaskState, PC
  <2>5. s.pc = "identifyUpdate" /\ s.prev = r.prev /\ s.id = r.id /\ s.old = r.old /\ s.new = p
    BY <1>0 DEF TaskState
  <2>6. Follows(r, s)
    BY <1>0, <2>1, <2>2, <2>4, <2>5 DEF Follows, Consistent, AliasPC, PC
  <2> HIDE DEF s
  <2>7. Follows(r, x)
    BY <1>0, <1>n, <2>1, <2>3, <2>6, ControlFollows
  <2> QED
    BY <1>0, <1>4, <2>3, <2>7, QuietPreserves
    DEF IdentifyFetch, db, history, bounds, TypeOK, r
<1>5. CASE IdentifyWait(t)
  <2> DEFINE s == [r EXCEPT !.pc = "identifyWait", !.held = @ + 1]
  <2>1. r.pc = "identifyUpdate" /\ r.pc \in AliasPC /\ Continue(t, s)
    BY <1>5 DEF IdentifyWait, At, AliasPC, PC, r
  <2>h. r.held + 1 \in Nat /\ r.held + 1 > 0
    BY <1>0 DEF TaskState
  <2>2. s \in TaskState /\ s.held > 0
    BY <1>0, <2>h DEF TaskState, PC
  <2>3. s.pc = "identifyWait" /\ s.prev = r.prev /\ s.id = r.id /\ s.old = r.old /\ s.new = r.new
    BY <1>0 DEF TaskState
  <2>4. Follows(r, s)
    BY <1>0, <2>1, <2>2, <2>3 DEF Follows, Consistent, AliasPC, PC
  <2> QED
    BY <1>0, <1>5, <2>1, <2>4, QuietPreserves
    DEF IdentifyWait, db, history, bounds, TypeOK, r
<1>6. CASE IdentifyUpdate(t)
  <2> DEFINE c == IF At(t, "identifyWait") THEN [r EXCEPT !.held = @ - 1] ELSE r
  <2>1. r.pc \in {"identifyUpdate", "identifyWait"} /\ r.pc \in AliasPC
    BY <1>6 DEF IdentifyUpdate, At, AliasPC, PC, r
  <2>2. Continue(t, AliasReturn(c))
    BY <1>6 DEF IdentifyUpdate, r
  <2>3. At(t, "identifyWait") => r.held > 0 /\ r.held - 1 \in Nat
    BY <1>0 DEF Consistent, At, TaskState, r
  <2>4. c \in TaskState
    BY <1>0, <2>3 DEF TaskState
  <2>5. c.prev = r.prev /\ c.id = r.id /\ c.pc = r.pc /\ c.old = r.old /\ c.new = r.new
    BY <1>0 DEF TaskState
  <2>6. AliasReturn(c) \in TaskState
        /\ Consistent(AliasReturn(c))
        /\ AliasReturn(c).old = NoPerson /\ AliasReturn(c).new = NoPerson
    <3> HIDE DEF c
    <3>1. CASE c.depth = 0
      <4>1. AliasReturn(c) = Handled(c)
        BY <3>1 DEF AliasReturn
      <4>2. Handled(c) \in TaskState
        BY ZenonT(60), <1>0, <2>1, <2>4, <2>5 DEF Handled, Idle, TaskState, PC, Kind
      <4>3. /\ Handled(c).pc = "isNew" /\ Handled(c).id = r.id
            /\ Handled(c).old = NoPerson /\ Handled(c).new = NoPerson
        BY <2>5 DEF Handled, Idle
      <4> QED BY <1>0, <2>1, <4>1, <4>2, <4>3 DEF Consistent, AliasPC
    <3>2. CASE c.depth # 0
      <4> DEFINE e == Cleared(c)
      <4>1. /\ e \in TaskState /\ e.old = NoPerson /\ e.new = NoPerson
            /\ e.id = r.id /\ e.prev = r.prev
            /\ e.depth = c.depth /\ e.held = c.held
        BY <2>4, <2>5 DEF Cleared, TaskState
      <4>2. AliasReturn(c) = [e EXCEPT !.pc = "identifyFetch", !.depth = @ - 1,
                                       !.held = IF @ = 0 THEN 0 ELSE @ - 1]
        BY <3>2 DEF AliasReturn
      <4>3. e.depth - 1 \in Nat /\ (e.held # 0 => e.held - 1 \in Nat)
        BY <3>2, <4>1 DEF TaskState
      <4> HIDE DEF e
      <4>4. AliasReturn(c) \in TaskState
        BY ZenonT(60), <4>1, <4>2, <4>3 DEF TaskState, PC
      <4>5. /\ AliasReturn(c).pc = "identifyFetch"
            /\ AliasReturn(c).prev = r.prev /\ AliasReturn(c).id = r.id
            /\ AliasReturn(c).old = NoPerson /\ AliasReturn(c).new = NoPerson
        BY <4>1, <4>2 DEF TaskState
      <4> QED BY <1>0, <2>1, <4>4, <4>5 DEF Consistent, AliasPC
    <3> QED BY <3>1, <3>2
  <2>7. Follows(r, AliasReturn(c))
    BY <2>6 DEF Follows
  <2>8. identified' \subseteq PersonId
    BY <1>0, <1>6 DEF IdentifyUpdate, TypeOK
  <2> HIDE DEF c
  <2> QED
    BY <1>0, <1>6, <2>2, <2>7, <2>8, QuietPreserves
    DEF IdentifyUpdate, history, bounds, TypeOK, r
<1> QED BY <1>1, <1>2, <1>3, <1>4, <1>5, <1>6

-----------------------------------------------------------------------------
(* The ways out of alias() and of the event.                                *)

LEMMA IdleFollows ==
  ASSUME ConstantsAssumption, NEW r
  PROVE  Follows(r, Idle)
BY DEF Follows, Idle, TaskState, Consistent, AliasPC, PC, Kind

LEMMA DonePreserves ==
  ASSUME ConstantsAssumption, IInv, NEW t \in Task, Done(t),
         UNCHANGED <<db, issued, calls>>, abandoned' \subseteq PersonId,
         seen' \in [Thread -> SUBSET DistinctId],
         mirror' \in [DistinctId -> PersonId \cup {NoPerson}], faults' \in Nat
  PROVE  IInv'
<1>1. Follows(task[t], Idle) /\ Continue(t, Idle)
  BY IdleFollows DEF Done
<1>2. live' \subseteq PersonId /\ identified' \subseteq PersonId /\ calls' \in Nat
  BY DEF db, IInv, TypeOK
<1> QED BY <1>1, <1>2, QuietPreserves DEF db

LEMMA ThrowPreserves ==
  ASSUME ConstantsAssumption, IInv, NEW t \in Task, Throw(t),
         task[t].pc \in AliasPC,
         UNCHANGED <<pdi, used, seen, mirror, issued, calls>>,
         live' \subseteq PersonId, identified' \subseteq PersonId,
         abandoned' \subseteq PersonId, faults' \in Nat
  PROVE  IInv'
<1>1. Follows(task[t], Handled(task[t]))
  BY TaskFacts, ControlFollows, 0 \in Nat
<1>2. Continue(t, Handled(task[t]))
  BY DEF Throw
<1> QED BY <1>1, <1>2, QuietPreserves DEF IInv, TypeOK

LEMMA MergeFailedPreserves ==
  ASSUME ConstantsAssumption, IInv, NEW t \in Task, MergeFailed(t),
         task[t].pc \in AliasPC,
         UNCHANGED <<db, seen, mirror, issued, bounds>>
  PROVE  IInv'
<1>1. abandoned' \subseteq PersonId
  BY AbandonType DEF MergeFailed
<1>2. CASE Throw(t)
  BY <1>1, <1>2, ThrowPreserves DEF IInv, TypeOK, db, bounds
<1>3. CASE ~ Throw(t)
  <2> DEFINE n == task[t].attempts + 1
  <2>1. Continue(t, AliasAgain(task[t], n))
    BY <1>3 DEF MergeFailed
  <2>0. task[t] \in TaskState /\ Consistent(task[t])
    BY TaskFacts
  <2>2. n \in Nat
    BY <2>0 DEF TaskState
  <2> HIDE DEF n
  <2>3. Follows(task[t], AliasAgain(task[t], n))
    BY <2>0, <2>2, ControlFollows
  <2>4. /\ UNCHANGED <<pdi, used, issued>>
        /\ live' \subseteq PersonId /\ identified' \subseteq PersonId
        /\ seen' \in [Thread -> SUBSET DistinctId]
        /\ mirror' \in [DistinctId -> PersonId \cup {NoPerson}]
        /\ calls' \in Nat /\ faults' \in Nat
    BY DEF IInv, TypeOK, db, bounds
  <2> QED BY <1>1, <2>1, <2>3, <2>4, QuietPreserves
<1> QED BY <1>2, <1>3

LEMMA InsertFailedPreserves ==
  ASSUME ConstantsAssumption, IInv, NEW t \in Task, InsertFailed(t),
         task[t].pc \in AliasPC,
         UNCHANGED <<db, seen, mirror, issued, calls>>,
         abandoned' \subseteq PersonId, faults' \in Nat
  PROVE  IInv'
<1>1. PICK x \in {AliasAgain(task[t], 0), AfterMerge(task[t])} : Continue(t, x)
  BY DEF InsertFailed
<1>2. Follows(task[t], x)
  <2>1. task[t] \in TaskState /\ Consistent(task[t]) /\ 0 \in Nat
    BY TaskFacts
  <2>2. Follows(task[t], AliasAgain(task[t], 0)) /\ Follows(task[t], AfterMerge(task[t]))
    BY <2>1, ControlFollows
  <2> QED BY <1>1, <2>2
<1>3. /\ UNCHANGED <<pdi, used, issued>>
      /\ live' \subseteq PersonId /\ identified' \subseteq PersonId
      /\ seen' \in [Thread -> SUBSET DistinctId]
      /\ mirror' \in [DistinctId -> PersonId \cup {NoPerson}]
      /\ calls' \in Nat
  BY DEF IInv, TypeOK, db
<1> QED BY <1>1, <1>2, <1>3, QuietPreserves

(* The steps of mergePeople but moveDistinctIds, and lost connections. *)
LEMMA MergingPreserves ==
  ASSUME ConstantsAssumption, IInv, NEW t \in Task,
         Begin(t) \/ UpdatePerson(t) \/ DeletePerson(t) \/ Commit(t)
           \/ LoseConnection(t) \/ LoseCommitReply(t)
  PROVE  IInv'
<1> DEFINE r == task[t]
<1>0. /\ r \in TaskState /\ Consistent(r) /\ TypeOK
      /\ r.pc \in AliasPC => /\ <<r.prev, r.id>> \in issued
                             /\ r.prev \in DistinctId /\ r.id \in DistinctId
  BY TaskFacts DEF IInv
<1>c. ASSUME CommitMerge(t), r.pc \in AliasPC
      PROVE  live' \subseteq PersonId /\ identified' \subseteq PersonId
  BY <1>0, <1>c DEF CommitMerge, TypeOK
<1> HIDE DEF r
<1>1. CASE Begin(t)
  <2> DEFINE s == [r EXCEPT !.pc = "update", !.held = @ + 1]
  <2>1. r.pc = "begin" /\ Continue(t, s)
    BY <1>1 DEF Begin, At, r
  <2>2. r.held + 1 \in Nat /\ r.held + 1 > 0
    BY <1>0 DEF TaskState
  <2>3. s \in TaskState /\ s.held > 0
    BY <1>0, <2>2 DEF TaskState, PC
  <2>4. s.pc = "update" /\ s.prev = r.prev /\ s.id = r.id /\ s.old = r.old /\ s.new = r.new
    BY <1>0 DEF TaskState
  <2>5. Follows(r, s)
    BY <1>0, <2>1, <2>3, <2>4 DEF Follows, Consistent, AliasPC, PC
  <2> QED
    BY <1>0, <1>1, <2>1, <2>5, QuietPreserves DEF Begin, db, history, bounds, TypeOK, r
<1>2. CASE UpdatePerson(t)
  <2> DEFINE s == [r EXCEPT !.pc = "move"]
  <2>1. r.pc = "update" /\ r.pc \in AliasPC
    BY <1>2 DEF UpdatePerson, At, AliasPC, PC, r
  <2>2. CASE Continue(t, s) /\ UNCHANGED abandoned
    <3>1. s \in TaskState
      BY <1>0 DEF TaskState, PC
    <3>2. /\ s.pc = "move" /\ s.prev = r.prev /\ s.id = r.id /\ s.old = r.old /\ s.new = r.new
          /\ s.held = r.held
      BY <1>0 DEF TaskState
    <3>3. Follows(r, s)
      BY <1>0, <2>1, <3>1, <3>2 DEF Follows, Consistent, AliasPC, PC
    <3> QED
      BY <1>0, <1>2, <2>2, <3>3, QuietPreserves DEF UpdatePerson, db, bounds, TypeOK, r
  <2>3. CASE MergeFailed(t)
    BY <1>2, <2>1, <2>3, MergeFailedPreserves DEF UpdatePerson, r
  <2> QED BY <1>2, <2>2, <2>3 DEF UpdatePerson, r
<1>3. CASE DeletePerson(t)
  <2> DEFINE s == [r EXCEPT !.pc = "commit"]
  <2>1. r.pc = "delete" /\ r.pc \in AliasPC
    BY <1>3 DEF DeletePerson, At, AliasPC, PC, r
  <2>2. CASE Continue(t, s) /\ UNCHANGED abandoned
    <3>1. s \in TaskState
      BY <1>0 DEF TaskState, PC
    <3>2. /\ s.pc = "commit" /\ s.prev = r.prev /\ s.id = r.id /\ s.old = r.old /\ s.new = r.new
          /\ s.held = r.held
      BY <1>0 DEF TaskState
    <3>3. Follows(r, s)
      BY <1>0, <2>1, <3>1, <3>2 DEF Follows, Consistent, AliasPC, PC
    <3> QED
      BY <1>0, <1>3, <2>2, <3>3, QuietPreserves DEF DeletePerson, db, bounds, TypeOK, r
  <2>3. CASE MergeFailed(t)
    BY <1>3, <2>1, <2>3, MergeFailedPreserves DEF DeletePerson, r
  <2> QED BY <1>3, <2>2, <2>3 DEF DeletePerson, r
<1>4. CASE Commit(t)
  <2> DEFINE s == [r EXCEPT !.pc = "publish", !.held = @ - 1,
                            !.old = NoPerson, !.oldIdentified = FALSE,
                            !.new = NoPerson, !.newIdentified = FALSE]
  <2>1. r.pc = "commit" /\ r.pc \in AliasPC /\ Continue(t, s)
    BY <1>4 DEF Commit, At, AliasPC, PC, r
  <2>2. r.held - 1 \in Nat
    BY <1>0, <2>1 DEF TaskState, Consistent
  <2>3. s \in TaskState
    BY <1>0, <2>2 DEF TaskState, PC
  <2>4. s.pc = "publish" /\ s.prev = r.prev /\ s.id = r.id /\ s.old = NoPerson /\ s.new = NoPerson
    BY <1>0 DEF TaskState
  <2>5. Follows(r, s)
    BY <1>0, <2>1, <2>3, <2>4 DEF Follows, Consistent, AliasPC, PC
  <2>6. live' \subseteq PersonId /\ identified' \subseteq PersonId
    BY <1>4, <1>c, <2>1 DEF Commit
  <2> QED
    BY <1>0, <1>4, <2>1, <2>5, <2>6, QuietPreserves DEF Commit, history, bounds, TypeOK, r
<1>5. CASE LoseConnection(t)
  <2>1. /\ abandoned' \subseteq PersonId /\ faults' \in Nat
        /\ UNCHANGED <<db, seen, mirror, issued, calls>>
    BY <1>0, <1>5, AbandonType DEF LoseConnection, TypeOK
  <2>2. CASE r.pc \in {"add", "create"} /\ InsertFailed(t)
    <3>1. r.pc \in AliasPC
      BY <2>2 DEF AliasPC, PC
    <3> QED BY <2>1, <2>2, <3>1, InsertFailedPreserves DEF r
  <2>3. CASE Done(t)
    BY <1>0, <2>1, <2>3, DonePreserves DEF TypeOK
  <2>4. CASE /\ r.pc \in {"fetchOld", "fetchNew", "begin", "update", "move",
                          "delete", "commit", "identifyFetch",
                          "identifyUpdate", "identifyWait"}
             /\ Throw(t)
    <3>1. r.pc \in AliasPC
      BY <2>4 DEF AliasPC, PC
    <3> QED BY <1>0, <2>1, <2>4, <3>1, ThrowPreserves DEF r, db, TypeOK
  <2> QED BY <1>5, <2>2, <2>3, <2>4 DEF LoseConnection, r
<1>6. CASE LoseCommitReply(t)
  <2>1. r.pc \in AliasPC /\ Throw(t)
    BY <1>6 DEF LoseCommitReply, At, AliasPC, PC, r
  <2>2. live' \subseteq PersonId /\ identified' \subseteq PersonId
    BY <1>6, <1>c, <2>1 DEF LoseCommitReply
  <2> QED
    BY <1>0, <1>6, <2>1, <2>2, ThrowPreserves DEF LoseCommitReply, history, TypeOK, r
<1> QED BY <1>1, <1>2, <1>3, <1>4, <1>5, <1>6

-----------------------------------------------------------------------------
(* The steps that change who speaks for whom.                               *)

(* t's step gives the rows of the distinct IDs ids to person p; ids are      *)
(* connected with each other and with all that speaks for p.                *)
GivenTo(t, s, ids, p) ==
  /\ Follows(task[t], s)
  /\ s.old = NoPerson \/ s.old = task[t].old
  /\ s.new = NoPerson \/ s.new = task[t].new
  /\ s.prev = task[t].prev /\ s.id = task[t].id
  /\ Continue(t, s)
  /\ pdi' = [d \in DistinctId |-> IF d \in ids THEN p ELSE pdi[d]]
  /\ used \subseteq used' /\ p \in used' /\ used' \subseteq PersonId
  /\ live' \subseteq PersonId /\ identified' \subseteq PersonId
  /\ UNCHANGED <<seen, mirror, issued, abandoned, calls, faults>>
  /\ \A S \in SUBSET DistinctId : Unlinked(S) =>
       \A d \in ids, e \in DistinctId :
         e \in ids \/ Claim(p, e) => (d \in S <=> e \in S)

(* Such a step keeps the invariant. *)
LEMMA GivenToPreserves ==
  ASSUME ConstantsAssumption, IInv, NEW t \in Task, NEW s,
         NEW ids \in SUBSET DistinctId, NEW p \in PersonId,
         GivenTo(t, s, ids, p)
  PROVE  IInv'
<1> USE DEF GivenTo
<1>1. s \in TaskState /\ TypeOK
  BY DEF Follows, IInv
<1>2. task' = [task EXCEPT ![t] = s] /\ clients' \in [Thread -> Int]
  BY <1>1, ContinueTypes
<1>3. TypeOK'
  BY <1>1, <1>2 DEF TypeOK
<1>4. TasksConsistent'
  BY <1>1, <1>2 DEF IInv, TasksConsistent, Consistent, Follows, TypeOK
<1>5. \A q \in PersonId, d \in DistinctId :
        Claim(q, d)' => Claim(q, d) \/ (q = p /\ d \in ids)
  BY <1>1, <1>2 DEF Claim, TypeOK, ConstantsAssumption
<1>6. ClaimedAreUsed'
  BY <1>5 DEF IInv, ClaimedAreUsed
<1>7. ClaimsAgree'
  <2> SUFFICES ASSUME NEW S \in SUBSET DistinctId, Unlinked(S),
                      NEW q \in PersonId, NEW d \in DistinctId, NEW e \in DistinctId,
                      Claim(q, d)', Claim(q, e)'
               PROVE  d \in S <=> e \in S
    BY DEF ClaimsAgree, Unlinked
  <2>1. /\ Claim(q, d) \/ (q = p /\ d \in ids)
        /\ Claim(q, e) \/ (q = p /\ e \in ids)
    BY <1>5
  <2>2. Claim(q, d) /\ Claim(q, e) => (d \in S <=> e \in S)
    BY DEF IInv, ClaimsAgree
  <2> QED BY <2>1, <2>2
<1> QED BY <1>3, <1>4, <1>6, <1>7 DEF IInv

(* addDistinctId: the distinct ID joins the person the other was found to    *)
(* have.                                                                    *)
LEMMA AddDistinctIdPreserves ==
  ASSUME ConstantsAssumption, IInv, NEW t \in Task, AddDistinctId(t)
  PROVE  IInv'
<1> DEFINE r == task[t]
           p == IF r.old # NoPerson THEN r.old ELSE r.new
           d == IF r.old # NoPerson THEN r.id ELSE r.prev
           f == IF r.old # NoPerson THEN r.prev ELSE r.id
           s == [r EXCEPT !.pc = "publish", !.out = {d}, !.outPerson = p]
<1>0. /\ r \in TaskState /\ Consistent(r) /\ TypeOK
      /\ r.pc = "add" /\ r.pc \in AliasPC
      /\ <<r.prev, r.id>> \in issued /\ r.prev \in DistinctId /\ r.id \in DistinctId
  BY TaskFacts DEF IInv, AddDistinctId, At, AliasPC, PC
<1>1. CASE InsertFailed(t) /\ UNCHANGED pdi
  BY <1>0, <1>1, InsertFailedPreserves
  DEF AddDistinctId, TypeOK, db, history, bounds
<1>2. CASE /\ p \in live
           /\ pdi' = [pdi EXCEPT ![d] = p]
           /\ Continue(t, s)
  <2>1. p \in PersonId /\ d \in DistinctId /\ f \in DistinctId
    BY <1>0, <1>2 DEF TypeOK
  <2>2. Claim(p, f)
    BY <2>1 DEF Claim, ConstantsAssumption
  <2>3. s \in TaskState
    BY ZenonT(60), <1>0, <2>1 DEF TaskState, PC
  <2>4. s.pc = "publish" /\ s.prev = r.prev /\ s.id = r.id /\ s.old = r.old /\ s.new = r.new
    BY <1>0 DEF TaskState
  <2>5. Follows(r, s)
    BY <1>0, <2>3, <2>4 DEF Follows, Consistent, AliasPC, PC
  <2>6. p \in used
    BY <2>1, <2>2 DEF IInv, ClaimedAreUsed
  <2>7. pdi' = [x \in DistinctId |-> IF x \in {d} THEN p ELSE pdi[x]]
    BY <1>0, <1>2, <2>1 DEF TypeOK
  <2>8. ASSUME NEW S \in SUBSET DistinctId, Unlinked(S),
               NEW x \in {d}, NEW e \in DistinctId, e \in {d} \/ Claim(p, e)
        PROVE  x \in S <=> e \in S
    <3>1. d \in S <=> f \in S
      BY <1>0, <2>8 DEF Unlinked
    <3>2. Claim(p, e) => (f \in S <=> e \in S)
      BY <2>1, <2>2, <2>8 DEF IInv, ClaimsAgree
    <3> QED BY <2>8, <3>1, <3>2
  <2>9. UNCHANGED <<live, used, identified, seen, mirror, issued, abandoned, calls, faults>>
    BY DEF AddDistinctId, history, bounds
  <2> HIDE DEF p, d, f, s
  <2>10. GivenTo(t, s, {d}, p)
    BY <1>0, <1>2, <2>4, <2>5, <2>6, <2>7, <2>8, <2>9 DEF GivenTo, TypeOK, r
  <2> QED BY <2>1, <2>10, GivenToPreserves
<1> QED BY <1>1, <1>2 DEF AddDistinctId

(* createPerson: nothing speaks for a new person, and the distinct IDs it    *)
(* gets are connected.                                                      *)
LEMMA CreatePersonPreserves ==
  ASSUME ConstantsAssumption, IInv, NEW t \in Task,
         NEW ids \in SUBSET DistinctId, NEW pc \in {"publish", "publishNew"},
         NEW p \in PersonId, InsertPerson(p, ids),
         task[t].pc = IF pc = "publish" THEN "create" ELSE "createNew",
         Continue(t, [task[t] EXCEPT !.pc = pc, !.out = ids, !.outPerson = p]),
         \A S \in SUBSET DistinctId : Unlinked(S) =>
           \A d \in ids, e \in ids : d \in S <=> e \in S,
         identified' \subseteq PersonId,
         UNCHANGED <<seen, mirror, history, bounds>>
  PROVE  IInv'
<1> DEFINE r == task[t]
           s == [r EXCEPT !.pc = pc, !.out = ids, !.outPerson = p]
<1>0. /\ r \in TaskState /\ Consistent(r) /\ TypeOK
      /\ r.pc \in AliasPC => <<r.prev, r.id>> \in issued
      /\ r.id \in DistinctId
  BY TaskFacts DEF IInv
<1>1. s \in TaskState
  BY <1>0 DEF TaskState, PC
<1>2. s.pc = pc /\ s.prev = r.prev /\ s.id = r.id /\ s.old = r.old /\ s.new = r.new
  BY <1>0 DEF TaskState
<1>3. Follows(r, s)
  BY <1>0, <1>1, <1>2 DEF Follows, Consistent, AliasPC, PC
<1>4. \A e \in DistinctId : ~ Claim(p, e)
  BY DEF InsertPerson, IInv, ClaimedAreUsed
<1>5. /\ pdi' = [d \in DistinctId |-> IF d \in ids THEN p ELSE pdi[d]]
      /\ used \subseteq used' /\ p \in used' /\ used' \subseteq PersonId
      /\ live' \subseteq PersonId
  BY <1>0 DEF InsertPerson, TypeOK
<1>6. UNCHANGED <<seen, mirror, issued, abandoned, calls, faults>>
  BY DEF history, bounds
<1>7. Continue(t, s)
  OBVIOUS
<1> HIDE DEF s
<1>8. GivenTo(t, s, ids, p)
  BY <1>2, <1>3, <1>4, <1>5, <1>6, <1>7 DEF GivenTo, r
<1> QED BY <1>8, GivenToPreserves

(* moveDistinctIds: all the rows of otherPerson, which the previous distinct *)
(* ID speaks for, go to mergeInto, which the distinct ID speaks for.        *)
LEMMA MoveDistinctIdsPreserves ==
  ASSUME ConstantsAssumption, IInv, NEW t \in Task, MoveDistinctIds(t)
  PROVE  IInv'
<1> DEFINE r == task[t]
           ids == IdsOf(r.old)
           s == [r EXCEPT !.pc = "delete", !.out = ids, !.outPerson = r.new]
<1>0. /\ r \in TaskState /\ Consistent(r) /\ TypeOK
      /\ r.pc = "move" /\ r.pc \in AliasPC
      /\ <<r.prev, r.id>> \in issued /\ r.prev \in DistinctId /\ r.id \in DistinctId
      /\ ids \subseteq DistinctId
  BY TaskFacts DEF IInv, MoveDistinctIds, At, AliasPC, PC, IdsOf
<1>1. CASE Throw(t) /\ UNCHANGED pdi
  BY <1>0, <1>1, ThrowPreserves DEF MoveDistinctIds, TypeOK, history, bounds
<1>2. CASE /\ r.new \in live
           /\ pdi' = [d \in DistinctId |-> IF d \in ids THEN r.new ELSE pdi[d]]
           /\ Continue(t, s)
  <2>1. r.new \in PersonId /\ r.old \in PersonId
    BY <1>0, <1>2 DEF TypeOK, Consistent, TaskState
  <2>2. /\ Claim(r.new, r.id) /\ Claim(r.old, r.prev)
        /\ \A d \in ids : Claim(r.old, d)
    BY DEF Claim, IdsOf
  <2>3. s \in TaskState
    BY <1>0, <2>1 DEF TaskState, PC
  <2>4. /\ s.pc = "delete" /\ s.prev = r.prev /\ s.id = r.id /\ s.old = r.old
        /\ s.new = r.new /\ s.held = r.held
    BY <1>0 DEF TaskState
  <2>5. Follows(r, s)
    BY <1>0, <2>3, <2>4 DEF Follows, Consistent, AliasPC, PC
  <2>6. r.new \in used
    BY <1>0, <2>1, <2>2 DEF IInv, ClaimedAreUsed
  <2>7. ASSUME NEW S \in SUBSET DistinctId, Unlinked(S),
               NEW d \in ids, NEW e \in DistinctId, e \in ids \/ Claim(r.new, e)
        PROVE  d \in S <=> e \in S
    <3>1. r.prev \in S <=> r.id \in S
      BY <1>0, <2>7 DEF Unlinked
    <3>2. \A x \in ids : x \in S <=> r.prev \in S
      BY <1>0, <2>1, <2>2, <2>7 DEF IInv, ClaimsAgree
    <3>3. Claim(r.new, e) => (r.id \in S <=> e \in S)
      BY <1>0, <2>1, <2>2, <2>7 DEF IInv, ClaimsAgree
    <3> QED BY <2>7, <3>1, <3>2, <3>3
  <2>8. UNCHANGED <<live, used, identified, seen, mirror, issued, abandoned, calls, faults>>
    BY DEF MoveDistinctIds, history, bounds
  <2> HIDE DEF s, ids
  <2>9. GivenTo(t, s, ids, r.new)
    BY <1>0, <1>2, <2>4, <2>5, <2>6, <2>7, <2>8 DEF GivenTo, TypeOK, r
  <2> QED BY <1>0, <2>1, <2>9, GivenToPreserves
<1> QED BY <1>1, <1>2 DEF MoveDistinctIds

(* createPerson of alias() and of createPersonIfDistinctIdIsNew(): all the   *)
(* IDs of the new person are the event's, or the pair its alias issued.     *)
LEMMA CreatingPreserves ==
  ASSUME ConstantsAssumption, IInv, NEW t \in Task,
         CreatePerson(t) \/ CreatePersonIfNew(t)
  PROVE  IInv'
<1> DEFINE r == task[t]
<1>0. r \in TaskState /\ Consistent(r) /\ TypeOK /\ pdi \in [DistinctId -> PersonId \cup {NoPerson}]
  BY TaskFacts DEF IInv, TypeOK
<1>1. CASE CreatePerson(t)
  <2> DEFINE ids == {r.id, r.prev}
  <2>0. r.pc = "create" /\ r.pc \in AliasPC
    BY <1>1 DEF CreatePerson, At, AliasPC, PC
  <2>1. <<r.prev, r.id>> \in issued /\ ids \in SUBSET DistinctId
    BY <1>0, <2>0, TaskFacts
  <2>2. \A S \in SUBSET DistinctId : Unlinked(S) =>
          \A d \in ids, e \in ids : d \in S <=> e \in S
    BY <2>1 DEF Unlinked
  <2>3. CASE InsertFailed(t) /\ UNCHANGED db
    BY <1>0, <1>1, <2>0, <2>3, InsertFailedPreserves
    DEF CreatePerson, TypeOK, history, bounds
  <2>4. ASSUME NEW p \in PersonId, InsertPerson(p, ids),
               identified' = IF r.kind = "$identify" THEN identified \cup {p} ELSE identified,
               Continue(t, [r EXCEPT !.pc = "publish", !.out = ids, !.outPerson = p])
        PROVE  IInv'
    <3>1. identified' \subseteq PersonId
      BY <1>0, <2>4 DEF TypeOK
    <3>2. UNCHANGED <<seen, mirror, history, bounds>>
      BY <1>1 DEF CreatePerson
    <3> HIDE DEF ids
    <3> QED
      BY <2>0, <2>1, <2>2, <2>4, <3>1, <3>2, CreatePersonPreserves
  <2> QED BY <1>1, <2>3, <2>4 DEF CreatePerson
<1>2. CASE CreatePersonIfNew(t)
  <2> DEFINE ids == {r.id}
  <2>0. r.pc = "createNew" /\ r.pc # "idle"
    BY <1>2 DEF CreatePersonIfNew, At
  <2>1. ids \in SUBSET DistinctId
    BY <2>0, TaskFacts
  <2>2. \A S \in SUBSET DistinctId : Unlinked(S) =>
          \A d \in ids, e \in ids : d \in S <=> e \in S
    OBVIOUS
  <2>3. CASE Done(t) /\ UNCHANGED <<live, used, pdi>>
    BY <1>0, <1>2, <2>3, DonePreserves
    DEF CreatePersonIfNew, TypeOK, db, history, bounds
  <2>4. ASSUME NEW p \in PersonId, InsertPerson(p, ids),
               Continue(t, [r EXCEPT !.pc = "publishNew", !.out = ids, !.outPerson = p])
        PROVE  IInv'
    <3>1. identified' \subseteq PersonId
      BY <1>0, <1>2 DEF TypeOK, CreatePersonIfNew
    <3>2. UNCHANGED <<seen, mirror, history, bounds>>
      BY <1>2 DEF CreatePersonIfNew
    <3> HIDE DEF ids
    <3> QED
      BY <2>0, <2>1, <2>2, <2>4, <3>1, <3>2, CreatePersonPreserves
  <2> QED BY <1>2, <2>3, <2>4 DEF CreatePersonIfNew
<1> QED BY <1>1, <1>2

(* The steps of createPersonIfDistinctIdIsNew() that create nothing. *)
LEMMA CapturingPreserves ==
  ASSUME ConstantsAssumption, IInv, NEW t \in Task,
         IsNewPerson(t) \/ CountDistinctId(t) \/ PublishNew(t)
  PROVE  IInv'
<1> DEFINE r == task[t]
<1>0. r \in TaskState /\ Consistent(r) /\ TypeOK
  BY TaskFacts DEF IInv
<1>1. CASE IsNewPerson(t)
  <2> DEFINE s == [r EXCEPT !.pc = "count"]
  <2>0. r.pc = "isNew" /\ ThreadOf[t] \in Thread /\ r.id \in DistinctId
    BY <1>1, TaskFacts DEF IsNewPerson, At, ConstantsAssumption
  <2>1. seen' \in [Thread -> SUBSET DistinctId]
    BY <1>0, <1>1, <2>0 DEF IsNewPerson, TypeOK
  <2>2. CASE Done(t)
    BY <1>0, <1>1, <2>1, <2>2, DonePreserves
    DEF IsNewPerson, TypeOK, history, bounds
  <2>3. CASE Continue(t, s)
    <3>1. s \in TaskState
      BY <1>0 DEF TaskState, PC
    <3>2. s.pc = "count" /\ s.prev = r.prev /\ s.id = r.id /\ s.old = r.old /\ s.new = r.new
      BY <1>0 DEF TaskState
    <3>3. Follows(r, s)
      BY <1>0, <2>0, <3>1, <3>2 DEF Follows, Consistent, AliasPC
    <3> QED
      BY <1>0, <1>1, <2>1, <2>3, <3>3, QuietPreserves
      DEF IsNewPerson, db, history, bounds, TypeOK
  <2> QED BY <1>1, <2>2, <2>3 DEF IsNewPerson
<1>2. CASE CountDistinctId(t)
  <2> DEFINE s == [r EXCEPT !.pc = "createNew"]
  <2>0. r.pc = "count" /\ r.id \in DistinctId
    BY <1>2, TaskFacts DEF CountDistinctId, At
  <2>2. CASE Done(t)
    BY <1>0, <1>2, <2>2, DonePreserves
    DEF CountDistinctId, TypeOK, history, bounds
  <2>3. CASE Continue(t, s)
    <3>1. s \in TaskState
      BY <1>0 DEF TaskState, PC
    <3>2. s.pc = "createNew" /\ s.prev = r.prev /\ s.id = r.id /\ s.old = r.old /\ s.new = r.new
      BY <1>0 DEF TaskState
    <3>3. Follows(r, s)
      BY <1>0, <2>0, <3>1, <3>2 DEF Follows, Consistent, AliasPC
    <3> QED
      BY <1>0, <1>2, <2>3, <3>3, QuietPreserves
      DEF CountDistinctId, db, history, bounds, TypeOK
  <2> QED BY <1>2, <2>2, <2>3 DEF CountDistinctId
<1>3. CASE PublishNew(t)
  <2>1. mirror' \in [DistinctId -> PersonId \cup {NoPerson}]
    BY <1>0, <1>3 DEF PublishNew, Announce, TypeOK, TaskState
  <2> QED
    BY <1>0, <1>3, <2>1, DonePreserves DEF PublishNew, TypeOK, history, bounds
<1> QED BY <1>1, <1>2, <1>3

-----------------------------------------------------------------------------
(* The steps of no task.                                                    *)

(* A new event connects two distinct IDs, so fewer sets are unlinked. *)
LEMMA StartEventPreserves ==
  ASSUME ConstantsAssumption, IInv, NEW t \in Task, NEW c \in Calls,
         StartEvent(t, c)
  PROVE  IInv'
<1> DEFINE a == [Idle EXCEPT !.pc = "fetchOld", !.kind = c.kind,
                             !.prev = c.prev, !.id = c.id, !.retry = TRUE]
           b == [Idle EXCEPT !.pc = "isNew", !.kind = c.kind, !.id = c.id]
<1>0. TypeOK /\ c \in [kind : Kind, prev : DistinctId, id : DistinctId]
  BY DEF IInv, ConstantsAssumption
<1>1. PICK s \in {a, b} :
        /\ Continue(t, s)
        /\ issued' = IF s = a THEN issued \cup {<<c.prev, c.id>>} ELSE issued
  <2>1. a.retry = TRUE /\ b.retry = FALSE
    BY DEF Idle
  <2> QED BY <2>1 DEF StartEvent
<1>2. /\ a \in TaskState /\ b \in TaskState
      /\ a.pc = "fetchOld" /\ b.pc = "isNew" /\ a.prev = c.prev
      /\ a.id = c.id /\ b.id = c.id
      /\ a.old = NoPerson /\ b.old = NoPerson /\ a.new = NoPerson /\ b.new = NoPerson
  BY <1>0 DEF Idle, TaskState, PC
<1> HIDE DEF a, b
<1>3. task' = [task EXCEPT ![t] = s] /\ clients' \in [Thread -> Int]
  BY <1>0, <1>1, <1>2, ContinueTypes
<1>4. UNCHANGED <<live, used, identified, pdi, seen, mirror, abandoned, faults>>
  BY DEF StartEvent, db
<1>5. /\ issued \subseteq issued' /\ issued' \subseteq DistinctId \X DistinctId
      /\ s = a => <<c.prev, c.id>> \in issued'
  BY <1>0, <1>1 DEF TypeOK
<1>6. calls' \in Nat
  BY <1>0 DEF StartEvent, TypeOK
<1>7. TypeOK'
  BY <1>0, <1>1, <1>2, <1>3, <1>4, <1>5, <1>6 DEF TypeOK
<1>8. Consistent(s)'
  BY <1>0, <1>1, <1>2, <1>5 DEF Consistent, AliasPC, PC
<1>9. TasksConsistent'
  BY <1>0, <1>3, <1>5, <1>8 DEF IInv, TasksConsistent, Consistent, TypeOK
<1>10. \A p \in PersonId, d \in DistinctId : Claim(p, d)' => Claim(p, d)
  BY <1>0, <1>1, <1>2, <1>3, <1>4 DEF Claim, TypeOK, ConstantsAssumption
<1>11. ClaimedAreUsed'
  BY <1>4, <1>10 DEF IInv, ClaimedAreUsed
<1>12. ClaimsAgree'
  BY <1>5, <1>10 DEF IInv, ClaimsAgree, Unlinked
<1> QED BY <1>7, <1>9, <1>11, <1>12 DEF IInv

(* Tasks that die speak for nobody. *)
LEMMA KillThreadPreserves ==
  ASSUME ConstantsAssumption, IInv, NEW h \in Thread, KillThread(h)
  PROVE  IInv'
<1> DEFINE lost == {t \in Task : ThreadOf[t] = h}
<1>0. TypeOK /\ abandoned' \subseteq PersonId
  BY AbandonType DEF IInv, KillThread
<1>1. task' = [t \in Task |-> IF t \in lost THEN Idle ELSE task[t]]
      /\ UNCHANGED <<live, used, identified, pdi, mirror, issued, calls>>
  BY DEF KillThread, db
<1>2. /\ Idle \in TaskState /\ Consistent(Idle)
      /\ Idle.old = NoPerson /\ Idle.new = NoPerson
  BY DEF Idle, TaskState, PC, Kind, Consistent, AliasPC
<1>3. TypeOK'
  BY <1>0, <1>1, <1>2 DEF KillThread, TypeOK
<1>4. TasksConsistent'
  BY <1>1, <1>2 DEF IInv, TasksConsistent, Consistent
<1>5. \A p \in PersonId, d \in DistinctId : Claim(p, d)' => Claim(p, d)
  BY <1>1, <1>2 DEF Claim, ConstantsAssumption
<1>6. ClaimedAreUsed'
  BY <1>1, <1>5 DEF IInv, ClaimedAreUsed
<1>7. ClaimsAgree'
  BY <1>1, <1>5 DEF IInv, ClaimsAgree, Unlinked
<1> QED BY <1>3, <1>4, <1>6, <1>7 DEF IInv

(* Forgetting that a distinct ID was seen, and doing nothing, change nothing *)
(* the invariant is about.                                                  *)
LEMMA ForgettingPreserves ==
  ASSUME ConstantsAssumption, IInv,
         \/ \E h \in Thread, d \in DistinctId : ForgetSeen(h, d)
         \/ UNCHANGED vars
  PROVE  IInv'
<1>1. UNCHANGED <<live, used, identified, pdi, clients, task, mirror, issued,
                  abandoned, calls, faults>>
  BY DEF ForgetSeen, vars, db, history, bounds
<1>2. seen' \in [Thread -> SUBSET DistinctId]
  BY DEF IInv, TypeOK, ForgetSeen, vars
<1>3. TypeOK'
  BY <1>1, <1>2 DEF IInv, TypeOK
<1>4. \A p, d : Claim(p, d)' <=> Claim(p, d)
  BY <1>1 DEF Claim
<1>5. TasksConsistent' /\ ClaimedAreUsed' /\ ClaimsAgree'
  BY <1>1, <1>4 DEF IInv, TasksConsistent, Consistent, ClaimedAreUsed, ClaimsAgree, Unlinked
<1> QED BY <1>3, <1>5 DEF IInv

-----------------------------------------------------------------------------
(* No alias was issued and each person has one distinct ID. *)
LEMMA InitIInv == ASSUME ConstantsAssumption, Init PROVE IInv
<1>1. pdi \in [DistinctId -> PersonId \cup {NoPerson}]
      /\ \A d, e \in DistinctId : pdi[d] = pdi[e] /\ pdi[d] # NoPerson => d = e
  BY DEF Init, ConstantsAssumption
<1>2. Idle \in TaskState /\ Idle.old = NoPerson /\ Idle.new = NoPerson /\ Idle.pc = "idle"
  BY DEF Idle, TaskState, PC, Kind
<1>3. live \subseteq PersonId /\ \A d \in DistinctId : pdi[d] # NoPerson => pdi[d] \in used
  BY <1>1 DEF Init
<1>4. TypeOK
  BY <1>1, <1>2, <1>3 DEF Init, TypeOK
<1>5. TasksConsistent
  BY <1>2 DEF Init, TasksConsistent, Consistent, AliasPC
<1>6. \A p \in PersonId, d \in DistinctId : Claim(p, d) => pdi[d] = p
  BY <1>2 DEF Init, Claim, ConstantsAssumption
<1>7. ClaimedAreUsed /\ ClaimsAgree
  BY <1>1, <1>3, <1>6 DEF ClaimedAreUsed, ClaimsAgree, ConstantsAssumption
<1> QED BY <1>4, <1>5, <1>7 DEF IInv

(* Every step keeps the invariant. *)
LEMMA NextIInv == ASSUME ConstantsAssumption, IInv, [Next]_vars PROVE IInv'
<1>1. ASSUME NEW t \in Task, NEW c \in Calls, StartEvent(t, c)
      PROVE  IInv'
  BY <1>1, StartEventPreserves
<1>2. ASSUME NEW t \in Task, Step(t) \/ LoseConnection(t) \/ LoseCommitReply(t)
      PROVE  IInv'
  BY <1>2, ReadingPreserves, MergingPreserves, AddDistinctIdPreserves,
     CreatingPreserves, MoveDistinctIdsPreserves, CapturingPreserves DEF Step
<1>3. ASSUME NEW h \in Thread, KillThread(h)
      PROVE  IInv'
  BY <1>3, KillThreadPreserves
<1>4. CASE (\E h \in Thread, d \in DistinctId : ForgetSeen(h, d)) \/ UNCHANGED vars
  BY <1>4, ForgettingPreserves
<1> QED BY <1>1, <1>2, <1>3, <1>4 DEF Next, Quiescent

(* Connected claims connect the rows, which are claims themselves. *)
LEMMA IInvImplies == ASSUME ConstantsAssumption, IInv PROVE NoSpuriousMerge
<1> SUFFICES ASSUME NEW S \in SUBSET DistinctId, Unlinked(S),
                    NEW d \in DistinctId, NEW e \in DistinctId,
                    pdi[d] = pdi[e], pdi[d] # NoPerson
             PROVE  d \in S <=> e \in S
  BY DEF NoSpuriousMerge
<1>1. pdi[d] \in PersonId
  BY DEF IInv, TypeOK
<1>2. Claim(pdi[d], d) /\ Claim(pdi[d], e)
  BY DEF Claim
<1> QED BY <1>1, <1>2 DEF IInv, ClaimsAgree

(* IInv is an invariant of any number of concurrent events. *)
LEMMA Invariance == Spec => []IInv
<1>1. Init => IInv
  BY InitIInv, ConstantsAssumption
<1>2. IInv /\ [Next]_vars => IInv'
  BY NextIInv, ConstantsAssumption
<1> QED BY <1>1, <1>2, PTL DEF Spec

(* All variables keep their types; among them, no task ever holds a negative *)
(* number of clients and each continues from a program point with what the  *)
(* point needs.                                                             *)
THEOREM TypeCorrect == Spec => []TypeOK
<1>1. IInv => TypeOK
  BY DEF IInv
<1> QED BY <1>1, Invariance, PTL

(* mergePeople, addDistinctId and createPerson, however many run at once and *)
(* whatever fails, give two distinct IDs one person only if $identify and   *)
(* $create_alias events connect them.                                       *)
THEOREM NoSpuriousMergeHolds == Spec => []NoSpuriousMerge
<1>1. IInv => NoSpuriousMerge
  BY IInvImplies, ConstantsAssumption
<1> QED BY <1>1, Invariance, PTL

-----------------------------------------------------------------------------
(* Persons without distinct IDs, and distinct IDs seen.                      *)

(* Continue leaves the other tasks alone. *)
LEMMA OthersStay ==
  ASSUME IInv, NEW t \in Task, NEW s, Continue(t, s)
  PROVE  task'[t] = s /\ \A u \in Task \ {t} : task'[u] = task[u]
BY DEF Continue, IInv, TypeOK

(* Every way out of a program point is a Continue. *)
LEMMA WaysOut ==
  ASSUME IInv, NEW t \in Task,
         Done(t) \/ Throw(t) \/ InsertFailed(t) \/ MergeFailed(t)
  PROVE  \A u \in Task \ {t} : task'[u] = task[u]
<1>1. \E s : Continue(t, s)
  BY DEF Done, Throw, InsertFailed, MergeFailed
<1> QED BY <1>1, OthersStay

(* A step of t that gives nobody a new person and takes no distinct ID from  *)
(* one keeps EmptyPersonHasCause, unless it ends a merge without a trace.   *)
LEMMA EmptyKept ==
  ASSUME IInv, EmptyPersonHasCause, NEW t \in Task,
         \A u \in Task \ {t} : task'[u] = task[u],
         live' \subseteq live, abandoned \subseteq abandoned',
         \A d \in DistinctId : pdi[d] # NoPerson => pdi'[d] = pdi[d],
         task[t].pc \in {"delete", "commit"} =>
           \/ task[t].old \in abandoned'
           \/ task[t].old \notin live'
           \/ task'[t].pc \in {"delete", "commit"} /\ task'[t].old = task[t].old
  PROVE  EmptyPersonHasCause'
<1> SUFFICES ASSUME NEW p \in live', IdsOf(p)' = {}
             PROVE  InMerge(p)' \/ p \in abandoned'
  BY DEF EmptyPersonHasCause
<1>1. p \in live /\ p # NoPerson
  BY ConstantsAssumption DEF ConstantsAssumption, IInv, TypeOK
<1>2. IdsOf(p) = {}
  BY <1>1 DEF IdsOf
<1>3. CASE p \in abandoned
  BY <1>3
<1>4. CASE InMerge(p)
  <2>1. PICK u \in Task : task[u].pc \in {"delete", "commit"} /\ task[u].old = p
    BY <1>4 DEF InMerge
  <2> QED BY <2>1 DEF InMerge
<1> QED BY <1>1, <1>2, <1>3, <1>4 DEF EmptyPersonHasCause

(* The steps that touch no row. *)
LEMMA EmptyReading ==
  ASSUME IInv, EmptyPersonHasCause, NEW t \in Task,
         \/ FetchOld(t) \/ FetchNew(t) \/ Begin(t) \/ Publish(t)
         \/ IdentifyFetch(t) \/ IdentifyWait(t) \/ IdentifyUpdate(t)
         \/ IsNewPerson(t) \/ CountDistinctId(t) \/ PublishNew(t)
         \/ \E c \in Calls : StartEvent(t, c)
  PROVE  EmptyPersonHasCause'
<1>1. \A u \in Task \ {t} : task'[u] = task[u]
  <2>1. \E s : Continue(t, s)
    BY DEF FetchOld, FetchNew, Begin, Publish, IdentifyFetch, IdentifyWait, IdentifyUpdate,
           IsNewPerson, CountDistinctId, PublishNew, StartEvent, Done
  <2> QED BY <2>1, OthersStay
<1>2. UNCHANGED <<live, pdi, abandoned>>
  BY DEF FetchOld, FetchNew, Begin, Publish, IdentifyFetch, IdentifyWait, IdentifyUpdate,
         IsNewPerson, CountDistinctId, PublishNew, StartEvent, Done, db, history, bounds
<1>3. task[t].pc \notin {"delete", "commit"}
  BY DEF FetchOld, FetchNew, Begin, Publish, IdentifyFetch, IdentifyWait, IdentifyUpdate,
         IsNewPerson, CountDistinctId, PublishNew, StartEvent, At
<1> QED BY <1>1, <1>2, <1>3, EmptyKept

(* The ways a merge fails leave its person among those abandoned. *)
LEMMA EmptyFailing ==
  ASSUME IInv, EmptyPersonHasCause, NEW t \in Task,
         MergeFailed(t) \/ LoseConnection(t), UNCHANGED db
  PROVE  EmptyPersonHasCause'
<1>1. \A u \in Task \ {t} : task'[u] = task[u]
  BY WaysOut DEF LoseConnection
<1>2. Abandon({t})
  BY DEF MergeFailed, LoseConnection
<1>3. /\ abandoned \subseteq abandoned'
      /\ task[t].pc \in {"delete", "commit"} => task[t].old \in abandoned'
  BY <1>2 DEF Abandon
<1> QED BY <1>1, <1>3, EmptyKept DEF db

(* mergePeople: moveDistinctIds empties a person that deletePerson, of the   *)
(* same task, is about to delete; from there on the person is deleted or    *)
(* abandoned.                                                               *)
LEMMA EmptyMerging ==
  ASSUME IInv, EmptyPersonHasCause, NEW t \in Task,
         \/ UpdatePerson(t) \/ MoveDistinctIds(t) \/ DeletePerson(t)
         \/ Commit(t) \/ LoseCommitReply(t)
  PROVE  EmptyPersonHasCause'
<1> DEFINE r == task[t]
<1>r. r \in TaskState
  BY DEF IInv, TypeOK
<1>1. CASE UpdatePerson(t)
  <2>0. r.pc = "update" /\ UNCHANGED db
    BY <1>1 DEF UpdatePerson, At
  <2>1. CASE Continue(t, [r EXCEPT !.pc = "move"]) /\ UNCHANGED abandoned
    BY <2>0, <2>1, OthersStay, EmptyKept DEF db
  <2>2. CASE MergeFailed(t)
    BY <2>0, <2>2, EmptyFailing
  <2> QED BY <1>1, <2>1, <2>2 DEF UpdatePerson
<1>2. CASE MoveDistinctIds(t)
  <2> DEFINE ids == IdsOf(r.old)
             s == [r EXCEPT !.pc = "delete", !.out = ids, !.outPerson = r.new]
  <2>0. r.pc = "move" /\ UNCHANGED <<live, abandoned>>
    BY <1>2 DEF MoveDistinctIds, At, history
  <2>1. CASE Throw(t) /\ UNCHANGED pdi
    BY <2>0, <2>1, WaysOut, EmptyKept
  <2>2. CASE /\ pdi' = [d \in DistinctId |-> IF d \in ids THEN r.new ELSE pdi[d]]
             /\ Continue(t, s)
    <3>1. task'[t] = s /\ \A u \in Task \ {t} : task'[u] = task[u]
      BY <2>2, OthersStay
    <3>2. s.pc = "delete" /\ s.old = r.old
      BY <1>r DEF TaskState
    <3> SUFFICES ASSUME NEW p \in live', IdsOf(p)' = {}
                 PROVE  InMerge(p)' \/ p \in abandoned'
      BY DEF EmptyPersonHasCause
    <3>3. CASE p = r.old
      BY <3>1, <3>2, <3>3 DEF InMerge
    <3>4. CASE p # r.old
      <4>1. IdsOf(p) = {}
        BY <2>2, <3>4 DEF IdsOf
      <4>2. ASSUME InMerge(p) PROVE InMerge(p)'
        <5>1. PICK u \in Task : task[u].pc \in {"delete", "commit"} /\ task[u].old = p
          BY <4>2 DEF InMerge
        <5> QED BY <2>0, <3>1, <5>1 DEF InMerge
      <4> QED BY <2>0, <4>1, <4>2 DEF EmptyPersonHasCause
    <3> QED BY <3>3, <3>4
  <2> QED BY <1>2, <2>1, <2>2 DEF MoveDistinctIds
<1>3. CASE DeletePerson(t)
  <2> DEFINE s == [r EXCEPT !.pc = "commit"]
  <2>0. UNCHANGED db
    BY <1>3 DEF DeletePerson
  <2>1. CASE Continue(t, s) /\ UNCHANGED abandoned
    <3>1. s.pc = "commit" /\ s.old = r.old
      BY <1>r DEF TaskState
    <3>2. task'[t] = s /\ \A u \in Task \ {t} : task'[u] = task[u]
      BY <2>1, OthersStay
    <3> QED BY <2>0, <2>1, <3>1, <3>2, EmptyKept DEF db
  <2>2. CASE MergeFailed(t)
    BY <2>0, <2>2, EmptyFailing
  <2> QED BY <1>3, <2>1, <2>2 DEF DeletePerson
<1>4. CASE Commit(t) \/ LoseCommitReply(t)
  <2>1. UNCHANGED <<pdi, abandoned>> /\ live' = live \ {r.old}
    BY <1>4 DEF Commit, LoseCommitReply, CommitMerge, history
  <2>2. \A u \in Task \ {t} : task'[u] = task[u]
    BY <1>4, OthersStay, WaysOut DEF Commit, LoseCommitReply
  <2> QED BY <2>1, <2>2, EmptyKept
<1> QED BY <1>1, <1>2, <1>3, <1>4

(* The branches of alias() and createPersonIfDistinctIdIsNew() that give a   *)
(* distinct ID its person.                                                  *)
LEMMA EmptyInserting ==
  ASSUME IInv, EmptyPersonHasCause, NEW t \in Task,
         AddDistinctId(t) \/ CreatePerson(t) \/ CreatePersonIfNew(t)
  PROVE  EmptyPersonHasCause'
<1> DEFINE r == task[t]
<1>r. /\ r \in TaskState /\ abandoned' = abandoned
      /\ pdi \in [DistinctId -> PersonId \cup {NoPerson}]
      /\ r.pc \notin {"delete", "commit"}
  BY DEF IInv, TypeOK, AddDistinctId, CreatePerson, CreatePersonIfNew, At, history
<1>1. CASE AddDistinctId(t)
  <2>1. \A u \in Task \ {t} : task'[u] = task[u]
    BY <1>1, OthersStay, WaysOut DEF AddDistinctId
  <2>2. live' = live /\ \A d \in DistinctId : pdi[d] # NoPerson => pdi'[d] = pdi[d]
    BY <1>r, <1>1 DEF AddDistinctId
  <2> QED BY <1>r, <2>1, <2>2, EmptyKept
<1>2. ASSUME NEW ids \in SUBSET DistinctId, ids # {}, NEW p \in PersonId,
             InsertPerson(p, ids), NEW s, Continue(t, s)
      PROVE  EmptyPersonHasCause'
  <2>1. \A u \in Task \ {t} : task'[u] = task[u]
    BY <1>2, OthersStay
  <2>2. live' = live \cup {p} /\ IdsOf(p)' = ids
    <3>1. \A d \in DistinctId : pdi[d] # p
      <4> SUFFICES ASSUME NEW d \in DistinctId, pdi[d] = p PROVE FALSE
        OBVIOUS
      <4> QED BY <1>2 DEF InsertPerson, IInv, ClaimedAreUsed, Claim
    <3> QED BY <1>2, <3>1 DEF InsertPerson, IdsOf
  <2> SUFFICES ASSUME NEW q \in live', IdsOf(q)' = {}
               PROVE  InMerge(q)' \/ q \in abandoned'
    BY DEF EmptyPersonHasCause
  <2>3. q \in live /\ q # NoPerson
    BY <1>2, <2>2, ConstantsAssumption DEF ConstantsAssumption, IInv, TypeOK
  <2>4. IdsOf(q) = {}
    BY <1>2, <2>3 DEF IdsOf, InsertPerson
  <2>5. ASSUME InMerge(q) PROVE InMerge(q)'
    <3>1. PICK u \in Task : task[u].pc \in {"delete", "commit"} /\ task[u].old = q
      BY <2>5 DEF InMerge
    <3> QED BY <1>r, <2>1, <3>1 DEF InMerge
  <2> QED BY <1>r, <2>3, <2>4, <2>5 DEF EmptyPersonHasCause
<1>3. ASSUME InsertFailed(t) \/ Done(t), UNCHANGED <<live, pdi>>
      PROVE  EmptyPersonHasCause'
  BY <1>r, <1>3, WaysOut, EmptyKept
<1>4. CASE CreatePerson(t)
  <2>1. {r.id, r.prev} \in SUBSET DistinctId
    BY <1>4, TaskFacts, ConstantsAssumption DEF CreatePerson, At, AliasPC, PC
  <2> QED BY <1>2, <1>3, <1>4, <2>1 DEF CreatePerson, db
<1>5. CASE CreatePersonIfNew(t)
  <2>1. {r.id} \in SUBSET DistinctId
    BY <1>5, TaskFacts, ConstantsAssumption DEF CreatePersonIfNew, At
  <2> QED BY <1>2, <1>3, <1>5, <2>1 DEF CreatePersonIfNew
<1> QED BY <1>1, <1>4, <1>5

(* Postgres rolls back the transactions of a thread that dies. *)
LEMMA EmptyKilling ==
  ASSUME IInv, EmptyPersonHasCause, NEW h \in Thread, KillThread(h)
  PROVE  EmptyPersonHasCause'
<1> DEFINE lost == {t \in Task : ThreadOf[t] = h}
<1>1. /\ UNCHANGED <<live, pdi>>
      /\ task' = [t \in Task |-> IF t \in lost THEN Idle ELSE task[t]]
      /\ abandoned' = abandoned \cup
           {task[t].old : t \in {u \in lost : task[u].pc \in {"delete", "commit"}}}
  BY DEF KillThread, Abandon, db
<1> SUFFICES ASSUME NEW p \in live', IdsOf(p)' = {}
             PROVE  InMerge(p)' \/ p \in abandoned'
  BY DEF EmptyPersonHasCause
<1>2. IdsOf(p) = {} /\ p \in live
  BY <1>1 DEF IdsOf
<1>3. ASSUME NEW u \in Task, task[u].pc \in {"delete", "commit"}, task[u].old = p
      PROVE  InMerge(p)' \/ p \in abandoned'
  <2>1. CASE u \in lost
    BY <1>1, <1>3, <2>1
  <2>2. CASE u \notin lost
    BY <1>1, <1>3, <2>2 DEF InMerge
  <2> QED BY <2>1, <2>2
<1> QED BY <1>1, <1>2, <1>3 DEF EmptyPersonHasCause, InMerge

(* However events interleave and fail, a person without distinct IDs is one  *)
(* that mergePeople is about to delete, or that a failed merge left: its    *)
(* moveDistinctIds is not undone by the transaction's rollback.             *)
THEOREM EmptyPersonHasCauseHolds == Spec => []EmptyPersonHasCause
<1>1. Init => EmptyPersonHasCause
  <2> SUFFICES ASSUME Init, NEW p \in live PROVE IdsOf(p) # {}
    BY DEF EmptyPersonHasCause
  <2> QED BY DEF Init, IdsOf
<1>2. IInv /\ EmptyPersonHasCause /\ [Next]_vars => EmptyPersonHasCause'
  <2> SUFFICES ASSUME IInv, EmptyPersonHasCause, [Next]_vars
               PROVE  EmptyPersonHasCause'
    OBVIOUS
  <2>1. ASSUME NEW t \in Task, \/ Step(t) \/ LoseConnection(t) \/ LoseCommitReply(t)
                               \/ \E c \in Calls : StartEvent(t, c)
        PROVE  EmptyPersonHasCause'
    <3>1. CASE LoseConnection(t)
      <4>1. UNCHANGED db
        BY <3>1 DEF LoseConnection
      <4> QED BY <3>1, <4>1, EmptyFailing
    <3>2. CASE ~LoseConnection(t)
      BY <2>1, <3>2, EmptyReading, EmptyMerging, EmptyInserting DEF Step
    <3> QED BY <3>1, <3>2
  <2>2. ASSUME NEW h \in Thread, KillThread(h)
        PROVE  EmptyPersonHasCause'
    BY <2>2, EmptyKilling
  <2>3. ASSUME UNCHANGED <<live, pdi, task, abandoned>>
        PROVE  EmptyPersonHasCause'
    BY <2>3 DEF EmptyPersonHasCause, IdsOf, InMerge
  <2>4. CASE (\E h \in Thread, d \in DistinctId : ForgetSeen(h, d)) \/ UNCHANGED vars
    BY <2>3, <2>4 DEF ForgetSeen, vars, db, history
  <2> QED BY <2>1, <2>2, <2>4 DEF Next, Quiescent
<1> QED BY <1>1, <1>2, Invariance, PTL DEF Spec

-----------------------------------------------------------------------------
(* No step takes a distinct ID's person away for none: what moves goes to a  *)
(* person that is there.                                                    *)
LEMMA PersonsStay ==
  ASSUME IInv, [Next]_vars
  PROVE  \A d \in DistinctId : pdi[d] # NoPerson => pdi'[d] # NoPerson
<1>0. pdi \in [DistinctId -> PersonId \cup {NoPerson}] /\ live \subseteq PersonId
      /\ NoPerson \notin PersonId
  BY ConstantsAssumption DEF IInv, TypeOK, ConstantsAssumption
<1>1. ASSUME NEW t \in Task, AddDistinctId(t)
      PROVE  \A d \in DistinctId : pdi[d] # NoPerson => pdi'[d] # NoPerson
  BY <1>0, <1>1 DEF AddDistinctId
<1>2. ASSUME NEW t \in Task, CreatePerson(t) \/ CreatePersonIfNew(t)
      PROVE  \A d \in DistinctId : pdi[d] # NoPerson => pdi'[d] # NoPerson
  BY <1>0, <1>2 DEF CreatePerson, CreatePersonIfNew, InsertPerson, db
<1>3. ASSUME NEW t \in Task, MoveDistinctIds(t)
      PROVE  \A d \in DistinctId : pdi[d] # NoPerson => pdi'[d] # NoPerson
  BY <1>0, <1>3 DEF MoveDistinctIds, IdsOf
<1>4. ASSUME UNCHANGED pdi
      PROVE  \A d \in DistinctId : pdi[d] # NoPerson => pdi'[d] # NoPerson
  BY <1>4
<1>5. ASSUME NEW t \in Task,
             \/ FetchOld(t) \/ FetchNew(t) \/ Begin(t) \/ Publish(t)
             \/ IdentifyFetch(t) \/ IdentifyWait(t) \/ IdentifyUpdate(t)
             \/ IsNewPerson(t) \/ CountDistinctId(t) \/ PublishNew(t)
             \/ UpdatePerson(t) \/ DeletePerson(t) \/ Commit(t)
             \/ LoseConnection(t) \/ LoseCommitReply(t)
             \/ \E c \in Calls : StartEvent(t, c)
      PROVE  UNCHANGED pdi
  BY <1>5
  DEF FetchOld, FetchNew, Begin, Publish, IdentifyFetch, IdentifyWait, IdentifyUpdate,
      IsNewPerson, CountDistinctId, PublishNew, UpdatePerson, DeletePerson, Commit,
      LoseConnection, LoseCommitReply, StartEvent, db
<1>6. ASSUME \/ \E h \in Thread : KillThread(h)
             \/ \E h \in Thread, d \in DistinctId : ForgetSeen(h, d)
             \/ UNCHANGED vars
      PROVE  UNCHANGED pdi
  BY <1>6 DEF KillThread, ForgetSeen, vars, db
<1> QED BY <1>1, <1>2, <1>3, <1>4, <1>5, <1>6 DEF Next, Step, Quiescent

(* A step of t at another program point adds nothing to what threads have    *)
(* seen, and leaves the tasks that are about to create a person alone.      *)
LEMMA SeenKept ==
  ASSUME IInv, SeenIdHasPerson, [Next]_vars, NEW t \in Task,
         \A u \in Task \ {t} : task'[u] = task[u],
         task[t].pc \notin {"count", "createNew"},
         \A h \in Thread : seen'[h] \subseteq seen[h],
         faults' = 0 => faults = 0
  PROVE  SeenIdHasPerson'
<1> SUFFICES ASSUME faults' = 0, NEW h \in Thread, NEW d \in seen'[h]
             PROVE  \/ pdi'[d] # NoPerson
                    \/ \E v \in Task : /\ ThreadOf[v] = h
                                       /\ task'[v].pc \in {"count", "createNew"}
                                       /\ task'[v].id = d
  BY DEF SeenIdHasPerson
<1>1. d \in seen[h] /\ d \in DistinctId /\ faults = 0
  BY DEF IInv, TypeOK
<1>2. \/ pdi[d] # NoPerson
      \/ \E v \in Task : /\ ThreadOf[v] = h
                         /\ task[v].pc \in {"count", "createNew"}
                         /\ task[v].id = d
  BY <1>1 DEF SeenIdHasPerson
<1>3. pdi[d] # NoPerson => pdi'[d] # NoPerson
  BY <1>1, PersonsStay
<1> QED BY <1>2, <1>3

(* The steps that end the wait for a person: it is there, or this task goes  *)
(* on to create it.                                                         *)
LEMMA SeenCreating ==
  ASSUME IInv, SeenIdHasPerson, [Next]_vars, NEW t \in Task,
         \A u \in Task \ {t} : task'[u] = task[u],
         \/ pdi'[task[t].id] # NoPerson
         \/ task'[t].pc \in {"count", "createNew"} /\ task'[t].id = task[t].id,
         UNCHANGED <<seen, faults>>
  PROVE  SeenIdHasPerson'
<1> SUFFICES ASSUME faults = 0, NEW h \in Thread, NEW d \in seen[h]
             PROVE  \/ pdi'[d] # NoPerson
                    \/ \E v \in Task : /\ ThreadOf[v] = h
                                       /\ task'[v].pc \in {"count", "createNew"}
                                       /\ task'[v].id = d
  BY DEF SeenIdHasPerson
<1>1. d \in DistinctId
  BY DEF IInv, TypeOK
<1>2. CASE pdi[d] # NoPerson
  BY <1>1, <1>2, PersonsStay
<1>3. ASSUME NEW v \in Task, ThreadOf[v] = h, task[v].pc \in {"count", "createNew"},
             task[v].id = d
      PROVE  \/ pdi'[d] # NoPerson
             \/ \E w \in Task : /\ ThreadOf[w] = h
                                /\ task'[w].pc \in {"count", "createNew"}
                                /\ task'[w].id = d
  <2>1. CASE v = t
    BY <1>3, <2>1
  <2>2. CASE v # t
    BY <1>3, <2>2
  <2> QED BY <2>1, <2>2
<1> QED BY <1>2, <1>3 DEF SeenIdHasPerson

(* isNewPerson and createPerson of createPersonIfDistinctIdIsNew(). *)
LEMMA SeenCapturing ==
  ASSUME IInv, SeenIdHasPerson, [Next]_vars, NEW t \in Task,
         IsNewPerson(t) \/ CountDistinctId(t) \/ CreatePersonIfNew(t)
  PROVE  SeenIdHasPerson'
<1> DEFINE r == task[t]
<1>r. /\ r \in TaskState /\ r.id \in DistinctId
      /\ pdi \in [DistinctId -> PersonId \cup {NoPerson}] /\ NoPerson \notin PersonId
  <2>1. r \in TaskState /\ (r.pc # "idle" => r.id \in DistinctId)
    BY TaskFacts, ConstantsAssumption
  <2>2. r.pc # "idle"
    BY DEF IsNewPerson, CountDistinctId, CreatePersonIfNew, At
  <2> QED BY <2>1, <2>2, ConstantsAssumption DEF IInv, TypeOK, ConstantsAssumption
<1>1. CASE IsNewPerson(t)
  <2> DEFINE s == [r EXCEPT !.pc = "count"]
             h == ThreadOf[t]
  <2>0. r.pc = "isNew" /\ UNCHANGED <<faults, pdi>> /\ h \in Thread
    BY <1>1, ConstantsAssumption DEF IsNewPerson, At, bounds, db, ConstantsAssumption
  <2>1. CASE r.id \in seen[h]
    <3>1. Done(t) /\ UNCHANGED seen
      BY <1>1, <2>1 DEF IsNewPerson
    <3> QED BY <2>0, <3>1, WaysOut, SeenKept
  <2>2. CASE r.id \notin seen[h]
    <3>1. seen' = [seen EXCEPT ![h] = @ \cup {r.id}] /\ Continue(t, s)
      BY <1>1, <2>2 DEF IsNewPerson
    <3>2. task'[t] = s /\ \A u \in Task \ {t} : task'[u] = task[u]
      BY <3>1, OthersStay
    <3>3. s.pc = "count" /\ s.id = r.id
      BY <1>r DEF TaskState
    <3>4. \A g \in Thread : seen'[g] \subseteq IF g = h THEN seen[g] \cup {r.id} ELSE seen[g]
      BY <3>1 DEF IInv, TypeOK
    <3> HIDE DEF s, h
    <3> SUFFICES ASSUME faults = 0, NEW g \in Thread, NEW d \in seen'[g]
                 PROVE  \/ pdi[d] # NoPerson
                        \/ \E v \in Task : /\ ThreadOf[v] = g
                                           /\ task'[v].pc \in {"count", "createNew"}
                                           /\ task'[v].id = d
      BY <2>0 DEF SeenIdHasPerson
    <3>5. CASE g = h /\ d = r.id
      BY <3>2, <3>3, <3>5 DEF h
    <3>6. CASE d \in seen[g]
      <4>1. \/ pdi[d] # NoPerson
            \/ \E v \in Task : /\ ThreadOf[v] = g
                               /\ task[v].pc \in {"count", "createNew"}
                               /\ task[v].id = d
        BY <3>6 DEF SeenIdHasPerson
      <4> QED BY <2>0, <3>2, <4>1
    <3> QED BY <3>4, <3>5, <3>6
  <2> QED BY <2>1, <2>2
<1>2. CASE CountDistinctId(t)
  <2> DEFINE s == [r EXCEPT !.pc = "createNew"]
  <2>0. UNCHANGED <<seen, faults, pdi>>
    BY <1>2 DEF CountDistinctId, bounds, db
  <2>1. CASE pdi[r.id] = NoPerson
    <3>1. Continue(t, s)
      BY <1>2, <2>1 DEF CountDistinctId, PersonOf
    <3>2. s.pc = "createNew" /\ s.id = r.id
      BY <1>r DEF TaskState
    <3>3. task'[t] = s /\ \A u \in Task \ {t} : task'[u] = task[u]
      BY <3>1, OthersStay
    <3> QED BY <2>0, <3>2, <3>3, SeenCreating
  <2>2. CASE pdi[r.id] # NoPerson
    <3>1. Done(t)
      BY <1>2, <2>2 DEF CountDistinctId, PersonOf
    <3> QED BY <2>0, <2>2, <3>1, WaysOut, SeenCreating
  <2> QED BY <2>1, <2>2
<1>3. CASE CreatePersonIfNew(t)
  <2>0. UNCHANGED <<seen, faults>>
    BY <1>3 DEF CreatePersonIfNew, bounds
  <2>1. \A u \in Task \ {t} : task'[u] = task[u]
    <3>1. (\E s : Continue(t, s)) \/ Done(t)
      BY <1>3 DEF CreatePersonIfNew
    <3> QED BY <3>1, OthersStay, WaysOut
  <2>2. pdi'[r.id] # NoPerson
    BY ZenonT(60), <1>r, <1>3 DEF CreatePersonIfNew, InsertPerson
  <2> QED BY <2>0, <2>1, <2>2, SeenCreating
<1> QED BY <1>1, <1>2, <1>3

(* As long as nothing fails, a distinct ID that a thread's personSeen calls  *)
(* seen has a person, or a task of the thread is between isNewPerson, which *)
(* marks it before it asks the database, and its createPerson.              *)
THEOREM SeenIdHasPersonHolds == Spec => []SeenIdHasPerson
<1>1. Init => SeenIdHasPerson
  BY DEF Init, SeenIdHasPerson
<1>2. IInv /\ SeenIdHasPerson /\ [Next]_vars => SeenIdHasPerson'
  <2> SUFFICES ASSUME IInv, SeenIdHasPerson, [Next]_vars
               PROVE  SeenIdHasPerson'
    OBVIOUS
  <2>f. faults \in Nat
    BY DEF IInv, TypeOK
  <2>1. ASSUME NEW t \in Task,
               \/ FetchOld(t) \/ FetchNew(t) \/ Begin(t) \/ Publish(t)
               \/ IdentifyFetch(t) \/ IdentifyWait(t) \/ IdentifyUpdate(t)
               \/ AddDistinctId(t) \/ CreatePerson(t) \/ MoveDistinctIds(t)
               \/ UpdatePerson(t) \/ DeletePerson(t) \/ Commit(t) \/ PublishNew(t)
               \/ \E c \in Calls : StartEvent(t, c)
        PROVE  SeenIdHasPerson'
    <3>1. \A u \in Task \ {t} : task'[u] = task[u]
      <4>1. (\E s : Continue(t, s)) \/ Throw(t) \/ InsertFailed(t) \/ MergeFailed(t) \/ Done(t)
        BY <2>1
        DEF FetchOld, FetchNew, Begin, Publish, IdentifyFetch, IdentifyWait, IdentifyUpdate,
            AddDistinctId, CreatePerson, MoveDistinctIds, UpdatePerson, DeletePerson, Commit,
            PublishNew, StartEvent
      <4> QED BY <4>1, OthersStay, WaysOut
    <3>2. UNCHANGED <<seen, faults>>
      BY <2>1
      DEF FetchOld, FetchNew, Begin, Publish, IdentifyFetch, IdentifyWait, IdentifyUpdate,
          AddDistinctId, CreatePerson, MoveDistinctIds, UpdatePerson, DeletePerson, Commit,
          PublishNew, StartEvent, bounds
    <3>3. task[t].pc \notin {"count", "createNew"}
      BY <2>1
      DEF FetchOld, FetchNew, Begin, Publish, IdentifyFetch, IdentifyWait, IdentifyUpdate,
          AddDistinctId, CreatePerson, MoveDistinctIds, UpdatePerson, DeletePerson, Commit,
          PublishNew, StartEvent, At
    <3> QED BY <3>1, <3>2, <3>3, SeenKept
  <2>2. ASSUME NEW t \in Task, IsNewPerson(t) \/ CountDistinctId(t) \/ CreatePersonIfNew(t)
        PROVE  SeenIdHasPerson'
    BY <2>2, SeenCapturing
  <2>3. ASSUME \/ \E t \in Task : LoseConnection(t) \/ LoseCommitReply(t)
               \/ \E h \in Thread : KillThread(h)
        PROVE  SeenIdHasPerson'
    <3>1. faults' = faults + 1
      BY <2>3 DEF LoseConnection, LoseCommitReply, KillThread
    <3> QED BY <2>f, <3>1 DEF SeenIdHasPerson
  <2>4. ASSUME \E h \in Thread, d \in DistinctId : ForgetSeen(h, d)
        PROVE  SeenIdHasPerson'
    <3>1. /\ UNCHANGED <<pdi, task, faults>>
          /\ \A h \in Thread : seen'[h] \subseteq seen[h]
      BY <2>4 DEF ForgetSeen, db, bounds, IInv, TypeOK
    <3> QED BY <3>1 DEF SeenIdHasPerson
  <2>5. CASE UNCHANGED vars
    BY <2>5 DEF vars, SeenIdHasPerson
  <2> QED BY <2>1, <2>2, <2>3, <2>4, <2>5 DEF Next, Step, Quiescent
<1> QED BY <1>1, <1>2, Invariance, PTL DEF Spec

-----------------------------------------------------------------------------
(* One event at a time, and nothing failing.                                 *)

(* What a task's fetches told it is still so, Kafka knows all that was       *)
(* written but what the task is about to announce, and rows refer to rows:  *)
(* what holds of the only task's state r when no statement fails.           *)
Fresh(r) ==
  /\ r.pc \in {"fetchNew", "add", "create", "begin", "update", "move"} =>
       r.old = pdi[r.prev] /\ (r.oldIdentified <=> r.old \in identified)
  /\ r.pc \in {"add", "create", "begin", "update", "move", "delete", "commit"} =>
       r.new = pdi[r.id] /\ (r.newIdentified <=> r.new \in identified)
  /\ r.pc = "add" => (r.old = NoPerson <=> r.new # NoPerson)
  /\ r.pc = "create" => r.old = NoPerson /\ r.new = NoPerson
  /\ r.pc \in {"begin", "update", "move", "delete", "commit"} => r.old # r.new
  /\ r.pc \in {"delete", "commit"} => IdsOf(r.old) = {}
  /\ r.pc = "identifyUpdate" => r.new = pdi[r.id] /\ r.new # NoPerson
  /\ r.pc # "identifyWait"

Announced(r) ==
  IF r.pc \in {"delete", "commit", "publish", "publishNew"}
  THEN pdi = [d \in DistinctId |-> IF d \in r.out THEN r.outPerson ELSE mirror[d]]
  ELSE pdi = mirror

RowsRefer ==
  /\ \A d \in DistinctId : pdi[d] # NoPerson => pdi[d] \in live
  /\ live \subseteq used /\ identified \subseteq live

Serial(u) == Fresh(task[u]) /\ Announced(task[u]) /\ RowsRefer /\ faults = 0

(* The program points a task is at when it has nothing fetched that counts. *)
Plain == {"idle", "fetchOld", "identifyFetch", "isNew", "count", "createNew"}

LEMMA PlainIsFresh ==
  ASSUME NEW r, r.pc \in Plain \cup {"publish", "publishNew"}
  PROVE  Fresh(r)
BY DEF Fresh, Plain

(* The ways out of alias() and of an event lead to such points. *)
LEMMA WaysOutArePlain ==
  ASSUME NEW r \in TaskState, NEW n \in Nat
  PROVE  /\ Idle.pc \in Plain /\ Handled(r).pc \in Plain
         /\ AfterMerge(r).pc \in Plain /\ AliasReturn(r).pc \in Plain
         /\ AliasAgain(r, n).pc \in Plain
<1>1. Idle.pc \in Plain /\ Handled(r).pc \in Plain
  BY DEF Idle, Handled, Plain
<1> DEFINE c == Cleared(r)
<1>2. c \in [pc : PC, kind : Kind, prev : DistinctId \cup {NoId},
             id : DistinctId \cup {NoId}, old : {NoPerson}, oldIdentified : BOOLEAN,
             new : {NoPerson}, newIdentified : BOOLEAN, retry : BOOLEAN,
             attempts : Nat, depth : Nat, held : Nat, out : {{}}, outPerson : {NoPerson}]
  BY DEF Cleared, TaskState
<1> HIDE DEF c
<1>3. AfterMerge(r).pc \in Plain
  <2>1. [c EXCEPT !.pc = "identifyFetch"].pc \in Plain
    BY <1>2 DEF Plain
  <2> QED BY <1>1, <2>1 DEF AfterMerge, c
<1>4. AliasReturn(r).pc \in Plain
  <2>1. [c EXCEPT !.pc = "identifyFetch", !.depth = @ - 1,
                  !.held = IF @ = 0 THEN 0 ELSE @ - 1].pc \in Plain
    BY <1>2 DEF Plain
  <2> QED BY <1>1, <2>1 DEF AliasReturn, c
<1>5. AliasAgain(r, n).pc \in Plain
  <2>1. [c EXCEPT !.pc = "fetchOld", !.retry = FALSE, !.depth = @ + 1,
                  !.attempts = n].pc \in Plain
    BY <1>2 DEF Plain
  <2> QED BY <2>1 DEF AliasAgain, c
<1> QED BY <1>1, <1>3, <1>4, <1>5

(* The persons identified once the only task's transaction commits. *)
LEMMA SoonOfOne ==
  ASSUME NEW u, Task = {u}
  PROVE  /\ identifiedSoon = identified \cup
              IF /\ task[u].pc \in {"delete", "commit"}
                 /\ task[u].newIdentified \/ task[u].oldIdentified
              THEN {task[u].new} ELSE {}
         /\ identifiedSoon' = identified' \cup
              IF /\ task'[u].pc \in {"delete", "commit"}
                 /\ task'[u].newIdentified \/ task'[u].oldIdentified
              THEN {task'[u].new} ELSE {}
BY DEF identifiedSoon

(* What one task is at the time of its step. *)
LEMMA SerialFacts ==
  ASSUME NEW u, Task = {u}, IInv, Serial(u)
  PROVE  /\ task[u] \in TaskState /\ Consistent(task[u])
         /\ pdi \in [DistinctId -> PersonId \cup {NoPerson}]
         /\ mirror \in [DistinctId -> PersonId \cup {NoPerson}]
         /\ NoPerson \notin PersonId /\ live \subseteq PersonId
         /\ identified \subseteq live /\ live \subseteq used
         /\ \A d \in DistinctId : pdi[d] # NoPerson => pdi[d] \in live
         /\ task[u].pc \in AliasPC => task[u].prev \in DistinctId
         /\ task[u].pc # "idle" => task[u].id \in DistinctId
         /\ \A t \in Task, p \in PersonId : ~RowLocked(t, p) /\ ~DeletePending(t, p)
         /\ \A t \in Task : ~Deadlocked(t)
<1>1. \A t \in Task, p \in PersonId : ~RowLocked(t, p) /\ ~DeletePending(t, p)
  BY DEF RowLocked, DeletePending
<1>2. \A t \in Task : ~Deadlocked(t)
  <2>1. \A t, v \in Task : ~WaitsFor(t, v)
    BY DEF WaitsFor
  <2> QED BY <2>1 DEF Deadlocked
<1> QED BY <1>1, <1>2, TaskFacts, ConstantsAssumption
        DEF Serial, RowsRefer, IInv, TypeOK, ConstantsAssumption

(* A step that writes no row is no step of PersonPartition. *)
LEMMA SerialQuiet ==
  ASSUME NEW u, Task = {u}, IInv, Serial(u), NEW s, Continue(u, s),
         UNCHANGED <<db, faults>>, Fresh(s), Announced(s)',
         task[u].pc \notin {"delete", "commit"}, s.pc \notin {"delete", "commit"}
  PROVE  Serial(u)' /\ UNCHANGED Partition!vars
<1>1. task'[u] = s
  BY OthersStay
<1>2. UNCHANGED <<live, used, identified, pdi, faults>>
  BY DEF db
<1>3. Serial(u)'
  BY <1>1, <1>2 DEF Serial, Fresh, RowsRefer, IdsOf, Announced
<1>4. identifiedSoon' = identifiedSoon
  BY <1>1, <1>2, SoonOfOne
<1>5. UNCHANGED Partition!vars
  BY <1>2, <1>4 DEF Partition!vars
<1> QED BY <1>3, <1>5

(* One that leaves the task at a plain point, with nothing to announce. *)
LEMMA SerialPlain ==
  ASSUME NEW u, Task = {u}, IInv, Serial(u), NEW s, Continue(u, s),
         UNCHANGED <<db, faults>>, s.pc \in Plain, task[u].pc \notin {"delete", "commit"},
         mirror' = pdi
  PROVE  Serial(u)' /\ UNCHANGED Partition!vars
<1>1. Fresh(s) /\ s.pc \notin {"delete", "commit", "publish", "publishNew"}
  BY PlainIsFresh DEF Plain
<1>2. Announced(s)'
  BY <1>1 DEF Announced, db
<1> QED BY <1>1, <1>2, SerialQuiet

(* The steps of alias() that fetch. *)
LEMMA SerialFetching ==
  ASSUME NEW u, Task = {u}, IInv, Serial(u),
         FetchOld(u) \/ FetchNew(u) \/ Begin(u) \/ IdentifyFetch(u)
  PROVE  Serial(u)' /\ UNCHANGED Partition!vars
<1> DEFINE r == task[u]
<1>r. /\ r \in TaskState /\ Fresh(r) /\ Announced(r)
      /\ r.pc \in {"fetchOld", "fetchNew", "begin", "identifyFetch"}
      /\ UNCHANGED <<db, mirror, faults>>
  BY SerialFacts
  DEF Serial, FetchOld, FetchNew, Begin, IdentifyFetch, At, bounds
<1>m. mirror = pdi
  BY <1>r DEF Announced
<1>a. ASSUME NEW s, s.pc \in {"fetchNew", "add", "create", "begin", "update", "identifyUpdate"}
      PROVE  Announced(s)'
  BY <1>r, <1>m, <1>a DEF Announced, db
<1>p. ASSUME NEW s, Continue(u, s), s.pc \in Plain
      PROVE  Serial(u)' /\ UNCHANGED Partition!vars
  BY <1>r, <1>m, <1>p, SerialPlain
<1>w. /\ AfterMerge(r).pc \in Plain /\ Handled(r).pc \in Plain
      /\ AliasReturn(r).pc \in Plain
  BY <1>r, WaysOutArePlain, 0 \in Nat
<1>1. CASE FetchOld(u)
  <2> DEFINE s == [r EXCEPT !.pc = "fetchNew", !.old = pdi[r.prev],
                            !.oldIdentified = pdi[r.prev] \in identified]
  <2>1. Continue(u, s)
    BY <1>1 DEF FetchOld, PersonOf
  <2>2. /\ s.pc = "fetchNew" /\ s.prev = r.prev /\ s.old = pdi[r.prev]
        /\ s.oldIdentified = (pdi[r.prev] \in identified)
    BY <1>r DEF TaskState
  <2> HIDE DEF s
  <2>3. Fresh(s)
    BY <2>2 DEF Fresh
  <2> QED BY <1>r, <1>a, <2>1, <2>2, <2>3, SerialQuiet
<1>2. CASE FetchNew(u)
  <2> DEFINE p == pdi[r.id]
             b == Branch(u, r.old, p)
             s == [r EXCEPT !.pc = b, !.new = p, !.newIdentified = p \in identified]
  <2>0. r.pc = "fetchNew"
    BY <1>2 DEF FetchNew, At
  <2>1. Continue(u, IF b \in {"same", "refuse"} THEN AfterMerge(r) ELSE s)
    BY <1>2 DEF FetchNew, PersonOf
  <2>2. /\ s.pc = b /\ s.prev = r.prev /\ s.id = r.id /\ s.old = r.old /\ s.new = p
        /\ s.oldIdentified = r.oldIdentified
        /\ s.newIdentified = (p \in identified)
    BY <1>r DEF TaskState
  <2>b. /\ b \in {"add", "create", "same", "refuse", "begin"}
        /\ b = "add" => (r.old = NoPerson <=> p # NoPerson)
        /\ b = "create" => r.old = NoPerson /\ p = NoPerson
        /\ b = "begin" => r.old # p
    BY DEF Branch
  <2> HIDE DEF s, b
  <2>3. CASE b \in {"same", "refuse"}
    BY <1>p, <1>w, <2>1, <2>3
  <2>4. CASE b \notin {"same", "refuse"}
    <3>1. Fresh(s)
      BY <1>r, <2>0, <2>2, <2>b, <2>4 DEF Fresh
    <3>2. Continue(u, s) /\ s.pc \in {"add", "create", "begin"}
      BY <2>1, <2>2, <2>b, <2>4
    <3> QED BY <1>r, <1>a, <3>1, <3>2, SerialQuiet
  <2> QED BY <2>3, <2>4
<1>3. CASE Begin(u)
  <2> DEFINE s == [r EXCEPT !.pc = "update", !.held = @ + 1]
  <2>1. Continue(u, s) /\ r.pc = "begin"
    BY <1>3 DEF Begin, At
  <2>2. /\ s.pc = "update" /\ s.prev = r.prev /\ s.id = r.id
        /\ s.old = r.old /\ s.new = r.new
        /\ s.oldIdentified = r.oldIdentified /\ s.newIdentified = r.newIdentified
    BY <1>r DEF TaskState
  <2> HIDE DEF s
  <2>3. Fresh(s)
    BY <1>r, <2>1, <2>2 DEF Fresh
  <2> QED BY <1>r, <1>a, <2>1, <2>2, <2>3, SerialQuiet
<1>4. CASE IdentifyFetch(u)
  <2> DEFINE p == pdi[r.id]
             s == [r EXCEPT !.pc = "identifyUpdate", !.new = p]
  <2>1. CASE p = NoPerson
    <3>0. p \notin identified
      BY <2>1, SerialFacts
    <3>1. Continue(u, Handled(r))
      BY <1>4, <2>1, <3>0 DEF IdentifyFetch, PersonOf
    <3> QED BY <1>p, <1>w, <3>1
  <2>2. CASE p # NoPerson /\ p \in identified
    <3>1. Continue(u, AliasReturn(r))
      BY <1>4, <2>2 DEF IdentifyFetch, PersonOf
    <3> QED BY <1>p, <1>w, <3>1
  <2>3. CASE p # NoPerson /\ p \notin identified
    <3>1. Continue(u, s)
      BY <1>4, <2>3 DEF IdentifyFetch, PersonOf
    <3>2. s.pc = "identifyUpdate" /\ s.id = r.id /\ s.new = p
      BY <1>r DEF TaskState
    <3> HIDE DEF s
    <3>3. Fresh(s)
      BY <2>3, <3>2 DEF Fresh
    <3> QED BY <1>r, <1>a, <3>1, <3>2, <3>3, SerialQuiet
  <2> QED BY <2>1, <2>2, <2>3
<1> QED BY <1>1, <1>2, <1>3, <1>4

(* The steps of an event that write no row of Postgres. *)
LEMMA SerialReading ==
  ASSUME NEW u, Task = {u}, IInv, Serial(u),
         \/ Publish(u) \/ PublishNew(u) \/ IsNewPerson(u) \/ CountDistinctId(u)
         \/ \E c \in Calls : StartEvent(u, c)
  PROVE  Serial(u)' /\ UNCHANGED Partition!vars
<1> DEFINE r == task[u]
<1>r. /\ r \in TaskState /\ Fresh(r) /\ Announced(r)
      /\ r.pc \in {"publish", "publishNew", "isNew", "count", "idle"}
      /\ UNCHANGED <<db, faults>>
      /\ pdi \in [DistinctId -> PersonId \cup {NoPerson}]
  BY SerialFacts
  DEF Serial, Publish, PublishNew, IsNewPerson, CountDistinctId, StartEvent, At, bounds
<1>w. AfterMerge(r).pc \in Plain /\ Idle.pc \in Plain
  BY <1>r, WaysOutArePlain, 0 \in Nat
<1>p. ASSUME NEW s, Continue(u, s), s.pc \in Plain, mirror' = pdi
      PROVE  Serial(u)' /\ UNCHANGED Partition!vars
  BY <1>r, <1>p, SerialPlain
<1>1. CASE Publish(u) \/ PublishNew(u)
  <2>1. mirror' = pdi
    BY <1>r, <1>1 DEF Publish, PublishNew, Announce, Announced, At
  <2>2. Continue(u, AfterMerge(r)) \/ Continue(u, Idle)
    BY <1>1 DEF Publish, PublishNew, Done
  <2> QED BY <1>w, <1>p, <2>1, <2>2
<1>2. CASE IsNewPerson(u) \/ CountDistinctId(u)
  <2>1. mirror' = pdi
    BY <1>r, <1>2 DEF IsNewPerson, CountDistinctId, Announced, At
  <2>2. PICK x \in {"count", "createNew"} :
          Continue(u, [r EXCEPT !.pc = x]) \/ Continue(u, Idle)
    BY <1>2 DEF IsNewPerson, CountDistinctId, Done
  <2>3. [r EXCEPT !.pc = x].pc \in Plain
    BY <1>r DEF TaskState, Plain
  <2> QED BY <1>w, <1>p, <2>1, <2>2, <2>3
<1>3. ASSUME NEW c \in Calls, StartEvent(u, c)
      PROVE  Serial(u)' /\ UNCHANGED Partition!vars
  <2> DEFINE a == [Idle EXCEPT !.pc = "fetchOld", !.kind = c.kind,
                               !.prev = c.prev, !.id = c.id, !.retry = TRUE]
             b == [Idle EXCEPT !.pc = "isNew", !.kind = c.kind, !.id = c.id]
  <2>1. mirror' = pdi
    BY <1>r, <1>3 DEF StartEvent, Announced, At
  <2>2. Continue(u, a) \/ Continue(u, b)
    BY <1>3 DEF StartEvent
  <2>3. a.pc \in Plain /\ b.pc \in Plain
    BY DEF Idle, Plain
  <2> HIDE DEF a, b
  <2> QED BY <1>p, <2>1, <2>2, <2>3
<1> QED BY <1>1, <1>2, <1>3

(* A step of PersonPartition or none. *)
Mapped == Partition!Next \/ UNCHANGED Partition!vars

(* addDistinctId is Attach; nobody took the distinct ID or deleted the       *)
(* person meanwhile.                                                        *)
LEMMA SerialAdding ==
  ASSUME NEW u, Task = {u}, IInv, Serial(u),
         NEW d \in DistinctId, NEW e \in DistinctId, NEW p \in live,
         pdi[d] = NoPerson, pdi[e] = p, p # NoPerson,
         pdi' = [pdi EXCEPT ![d] = p],
         NEW s, Continue(u, s), s.pc = "publish", s.out = {d}, s.outPerson = p,
         task[u].pc = "add",
         UNCHANGED <<live, used, identified, mirror, faults>>
  PROVE  Serial(u)' /\ Mapped
<1>r. pdi \in [DistinctId -> PersonId \cup {NoPerson}] /\ pdi = mirror
  BY SerialFacts DEF Serial, Announced
<1>1. task'[u] = s
  BY OthersStay
<1>2. Serial(u)'
  <2>1. Fresh(s)'
    BY DEF Fresh
  <2>2. Announced(s)'
    BY <1>r DEF Announced
  <2>3. RowsRefer'
    BY <1>r DEF Serial, RowsRefer
  <2> QED BY <1>1, <2>1, <2>2, <2>3 DEF Serial
<1>3. identifiedSoon = identified /\ identifiedSoon' = identified
  BY <1>1, SoonOfOne
<1>4. Partition!Attach(d, e)
  BY <1>r, <1>3, SerialFacts DEF Partition!Attach
<1> QED BY <1>2, <1>4 DEF Mapped, Partition!Next

LEMMA SerialAttaching ==
  ASSUME NEW u, Task = {u}, IInv, Serial(u), AddDistinctId(u)
  PROVE  Serial(u)' /\ Mapped
<1> DEFINE r == task[u]
           p == IF r.old # NoPerson THEN r.old ELSE r.new
           d == IF r.old # NoPerson THEN r.id ELSE r.prev
           e == IF r.old # NoPerson THEN r.prev ELSE r.id
           s == [r EXCEPT !.pc = "publish", !.out = {d}, !.outPerson = p]
<1>r. /\ r.pc = "add" /\ r \in TaskState /\ r.prev \in DistinctId /\ r.id \in DistinctId
      /\ r.old = pdi[r.prev] /\ r.new = pdi[r.id]
      /\ (r.old = NoPerson <=> r.new # NoPerson)
      /\ UNCHANGED <<live, used, identified, mirror, faults>>
  BY SerialFacts DEF Serial, Fresh, AddDistinctId, At, AliasPC, PC, history, bounds
<1>1. /\ d \in DistinctId /\ e \in DistinctId
      /\ pdi[d] = NoPerson /\ pdi[e] = p /\ p # NoPerson /\ p \in live
  BY <1>r, SerialFacts
<1>2. pdi' = [pdi EXCEPT ![d] = p] /\ Continue(u, s)
  BY <1>1 DEF AddDistinctId
<1>3. s.pc = "publish" /\ s.out = {d} /\ s.outPerson = p
  BY <1>r DEF TaskState
<1> HIDE DEF p, d, e, s
<1> QED BY <1>r, <1>1, <1>2, <1>3, SerialAdding

(* createPerson is Create, of one distinct ID or two. *)
LEMMA SerialInserting ==
  ASSUME NEW u, Task = {u}, IInv, Serial(u),
         NEW d \in DistinctId, NEW e \in DistinctId, NEW p \in PersonId,
         InsertPerson(p, {d, e}),
         NEW known \in BOOLEAN,
         identified' = IF known THEN identified \cup {p} ELSE identified,
         NEW s, Continue(u, s), s.pc \in {"publish", "publishNew"},
         s.out = {d, e}, s.outPerson = p,
         task[u].pc \in {"create", "createNew"},
         UNCHANGED <<mirror, faults>>
  PROVE  Serial(u)' /\ Mapped
<1>r. /\ pdi \in [DistinctId -> PersonId \cup {NoPerson}] /\ pdi = mirror
      /\ NoPerson \notin PersonId
      /\ \A x \in DistinctId : pdi[x] # NoPerson => pdi[x] \in live
      /\ live \subseteq used /\ identified \subseteq live
  BY SerialFacts DEF Serial, Announced
<1>1. /\ p \notin used /\ pdi[d] = NoPerson /\ pdi[e] = NoPerson
      /\ live' = live \cup {p} /\ used' = used \cup {p}
      /\ pdi' = [x \in DistinctId |-> IF x \in {d, e} THEN p ELSE pdi[x]]
  BY DEF InsertPerson
<1>2. \A x \in DistinctId : pdi[x] # p
  BY <1>r, <1>1
<1>3. task'[u] = s
  BY OthersStay
<1>4. Serial(u)'
  <2>1. Fresh(s)'
    BY DEF Fresh
  <2>2. Announced(s)'
    BY <1>r, <1>1 DEF Announced
  <2>3. RowsRefer'
    BY <1>r, <1>1 DEF RowsRefer
  <2> QED BY <1>3, <2>1, <2>2, <2>3 DEF Serial
<1>5. identifiedSoon = identified /\ identifiedSoon' = identified'
  BY <1>3, SoonOfOne
<1>6. Partition!Create({d, e}, p, known)
  <2> DEFINE before == {x \in DistinctId : pdi[x] \in identifiedSoon}
             after == {x \in DistinctId : pdi'[x] \in identifiedSoon'}
  <2>1. after = IF known THEN before \cup {d, e} ELSE before
    <3>1. CASE known
      BY <1>r, <1>1, <1>2, <1>5, <3>1
    <3>2. CASE ~known
      <4>1. identified' = identified
        BY <3>2
      <4>2. p \notin identified /\ NoPerson \notin identified
        BY <1>r, <1>1, SerialFacts
      <4>3. \A x \in DistinctId : pdi'[x] \in identified <=> pdi[x] \in identified
        BY <1>r, <1>1, <4>2
      <4>4. after = before
        BY <1>5, <4>1, <4>3
      <4> QED BY <3>2, <4>4
    <3> QED BY <3>1, <3>2
  <2>2. /\ \A x \in {d, e} : pdi[x] = NoPerson
        /\ \A x \in DistinctId : pdi[x] # p
        /\ pdi' = [x \in DistinctId |-> IF x \in {d, e} THEN p ELSE pdi[x]]
    BY <1>1, <1>2
  <2> QED BY <2>1, <2>2, Zenon DEF Partition!Create
<1> QED BY <1>4, <1>6 DEF Mapped, Partition!Next

LEMMA SerialCreating ==
  ASSUME NEW u, Task = {u}, IInv, Serial(u),
         CreatePerson(u) \/ CreatePersonIfNew(u)
  PROVE  Serial(u)' /\ Mapped
<1> DEFINE r == task[u]
<1>r. r \in TaskState /\ Fresh(r) /\ Announced(r) /\ r.id \in DistinctId
  BY SerialFacts DEF Serial, CreatePerson, CreatePersonIfNew, At
<1>1. CASE CreatePerson(u)
  <2>1. r.pc = "create" /\ r.prev \in DistinctId /\ UNCHANGED <<mirror, faults>>
    BY <1>1, SerialFacts DEF CreatePerson, At, AliasPC, PC, bounds
  <2>2. pdi[r.id] = NoPerson /\ pdi[r.prev] = NoPerson
    BY <1>r, <2>1 DEF Fresh
  <2>3. PICK p \in PersonId :
          /\ InsertPerson(p, {r.id, r.prev})
          /\ identified' = IF r.kind = "$identify" THEN identified \cup {p} ELSE identified
          /\ Continue(u, [r EXCEPT !.pc = "publish", !.out = {r.id, r.prev}, !.outPerson = p])
    BY <1>1, <2>2 DEF CreatePerson
  <2> DEFINE s == [r EXCEPT !.pc = "publish", !.out = {r.id, r.prev}, !.outPerson = p]
             known == r.kind = "$identify"
  <2>4. s.pc = "publish" /\ s.out = {r.id, r.prev} /\ s.outPerson = p
    BY <1>r DEF TaskState
  <2>5. known \in BOOLEAN /\ Continue(u, s)
        /\ identified' = IF known THEN identified \cup {p} ELSE identified
    BY <2>3
  <2> HIDE DEF s, known
  <2> QED BY <1>r, <2>1, <2>3, <2>4, <2>5, SerialInserting
<1>2. CASE CreatePersonIfNew(u)
  <2>1. r.pc = "createNew" /\ UNCHANGED <<identified, mirror, faults>>
    BY <1>2 DEF CreatePersonIfNew, At, bounds
  <2>2. CASE Done(u) /\ UNCHANGED <<live, used, pdi>>
    <3>1. Continue(u, Idle) /\ Idle.pc \in Plain
      BY <1>r, <2>2, WaysOutArePlain, 0 \in Nat DEF Done
    <3>2. mirror' = pdi
      BY <1>r, <2>1 DEF Announced
    <3> QED BY <2>1, <2>2, <3>1, <3>2, SerialPlain DEF db, Mapped
  <2>3. ASSUME NEW p \in PersonId, InsertPerson(p, {r.id}),
               Continue(u, [r EXCEPT !.pc = "publishNew", !.out = {r.id}, !.outPerson = p])
        PROVE  Serial(u)' /\ Mapped
    <3> DEFINE s == [r EXCEPT !.pc = "publishNew", !.out = {r.id}, !.outPerson = p]
    <3>1. s.pc = "publishNew" /\ s.out = {r.id, r.id} /\ s.outPerson = p
      BY <1>r DEF TaskState
    <3>2. InsertPerson(p, {r.id, r.id}) /\ Continue(u, s)
      <4>1. {r.id, r.id} = {r.id}
        OBVIOUS
      <4> QED BY <2>3, <4>1
    <3>3. identified' = IF FALSE THEN identified \cup {p} ELSE identified
      BY <2>1
    <3> HIDE DEF s
    <3> QED BY <1>r, <2>1, <3>1, <3>2, <3>3, SerialInserting
  <2> QED BY <1>2, <2>2, <2>3 DEF CreatePersonIfNew
<1> QED BY <1>1, <1>2

(* moveDistinctIds is Merge. *)
LEMMA SerialMoving ==
  ASSUME NEW u, Task = {u}, IInv, Serial(u), MoveDistinctIds(u)
  PROVE  Serial(u)' /\ Mapped
<1> DEFINE r == task[u]
           ids == IdsOf(r.old)
           s == [r EXCEPT !.pc = "delete", !.out = ids, !.outPerson = r.new]
<1>r. /\ r.pc = "move" /\ r \in TaskState /\ r.prev \in DistinctId /\ r.id \in DistinctId
      /\ pdi = mirror
      /\ r.old = pdi[r.prev] /\ r.new = pdi[r.id] /\ r.old # r.new
      /\ r.old # NoPerson /\ r.new # NoPerson
      /\ (r.oldIdentified <=> r.old \in identified)
      /\ (r.newIdentified <=> r.new \in identified)
      /\ UNCHANGED <<live, used, identified, mirror, faults>>
  BY SerialFacts
  DEF Serial, Fresh, Announced, Consistent, MoveDistinctIds, At, AliasPC, PC, history, bounds
<1>1. r.prev \in ids /\ r.new \in live
  BY <1>r, SerialFacts DEF IdsOf
<1>2. /\ pdi' = [d \in DistinctId |-> IF d \in ids THEN r.new ELSE pdi[d]]
      /\ Continue(u, s)
  BY <1>1 DEF MoveDistinctIds
<1>3. /\ s.pc = "delete" /\ s.out = ids /\ s.outPerson = r.new
      /\ s.old = r.old /\ s.new = r.new /\ s.id = r.id
      /\ s.oldIdentified = r.oldIdentified /\ s.newIdentified = r.newIdentified
  BY <1>r DEF TaskState
<1>i. \A d \in DistinctId : d \in ids <=> pdi[d] = r.old
  BY DEF IdsOf
<1> HIDE DEF ids, s
<1>4. task'[u] = s
  BY <1>2, OthersStay
<1>5. Serial(u)'
  <2>1. IdsOf(r.old) = ids /\ \A d \in DistinctId : pdi'[d] # r.old
    BY <1>r, <1>2, <1>i DEF ids
  <2>2. pdi'[r.id] = r.new
    BY <1>r, <1>2, <1>i
  <2>3. Fresh(task[u])'
    BY <1>r, <1>3, <1>4, <2>1, <2>2 DEF Fresh, IdsOf
  <2>4. Announced(task[u])'
    BY <1>r, <1>2, <1>3, <1>4 DEF Announced
  <2>5. RowsRefer'
    BY <1>r, <1>1, <1>2 DEF Serial, RowsRefer
  <2> QED BY <1>r, <2>3, <2>4, <2>5 DEF Serial
<1>6. /\ identifiedSoon = identified
      /\ identifiedSoon' = identified \cup
           IF r.newIdentified \/ r.oldIdentified THEN {r.new} ELSE {}
  BY <1>r, <1>3, <1>4, SoonOfOne
<1>e. PICK d \in DistinctId, e \in DistinctId : d = r.prev /\ e = r.id
  BY <1>r
<1>7. Partition!Merge(d, e)
  <2> DEFINE before == {x \in DistinctId : pdi[x] \in identifiedSoon}
             after == {x \in DistinctId : pdi'[x] \in identifiedSoon'}
             mine == {x \in DistinctId : pdi[x] = pdi[r.prev]}
             theirs == {x \in DistinctId : pdi[x] = pdi[r.id]}
  <2>1. pdi' = [x \in DistinctId |-> IF x \in mine THEN pdi[r.id] ELSE pdi[x]]
    BY <1>r, <1>2, <1>i
  <2>2. CASE r.newIdentified \/ r.oldIdentified
    <3>1. identifiedSoon' = identified \cup {r.new}
      BY <1>6, <2>2
    <3>2. r.prev \in before \/ r.id \in before
      BY <1>r, <1>6, <2>2
    <3>3. after = (before \cup mine) \cup theirs
      BY <1>r, <1>6, <2>1, <3>1
    <3> QED BY <1>r, <1>e, <2>1, <3>2, <3>3 DEF Partition!Merge, Partition!Members
  <2>3. CASE ~(r.newIdentified \/ r.oldIdentified)
    <3>1. identifiedSoon' = identified
      BY <1>6, <2>3
    <3>2. r.prev \notin before /\ r.id \notin before
      BY <1>r, <1>6, <2>3
    <3>3. after = before
      BY <1>r, <1>6, <2>1, <2>3, <3>1
    <3> QED BY <1>r, <1>e, <2>1, <3>2, <3>3 DEF Partition!Merge, Partition!Members
  <2> QED BY <2>2, <2>3
<1> QED BY <1>5, <1>7 DEF Mapped, Partition!Next

(* The rest of mergePeople changes no person: the merge has happened. *)
LEMMA SerialMerging ==
  ASSUME NEW u, Task = {u}, IInv, Serial(u),
         UpdatePerson(u) \/ DeletePerson(u) \/ Commit(u)
  PROVE  Serial(u)' /\ UNCHANGED Partition!vars
<1> DEFINE r == task[u]
<1>r. /\ r \in TaskState /\ Fresh(r) /\ Announced(r) /\ Consistent(r) /\ RowsRefer
      /\ r.pc \in {"update", "delete", "commit"}
      /\ r.id \in DistinctId
      /\ r.old # NoPerson /\ r.new # NoPerson /\ r.new = pdi[r.id] /\ r.old # r.new
      /\ (r.newIdentified <=> r.new \in identified)
      /\ UNCHANGED <<used, pdi, mirror, faults>>
  BY SerialFacts
  DEF Serial, Fresh, Consistent, UpdatePerson, DeletePerson, Commit, At, AliasPC, PC, db,
      history, bounds
<1>n. r.new \in live
  BY <1>r DEF RowsRefer
<1>1. CASE UpdatePerson(u)
  <2> DEFINE s == [r EXCEPT !.pc = "move"]
  <2>1. r.pc = "update" /\ Continue(u, s) /\ UNCHANGED db
    BY <1>1, <1>n DEF UpdatePerson, At
  <2>2. /\ s.pc = "move" /\ s.prev = r.prev /\ s.id = r.id
        /\ s.old = r.old /\ s.new = r.new
        /\ s.oldIdentified = r.oldIdentified /\ s.newIdentified = r.newIdentified
    BY <1>r DEF TaskState
  <2> HIDE DEF s
  <2>3. Fresh(s)
    BY <1>r, <2>1, <2>2 DEF Fresh
  <2>4. mirror' = pdi'
    BY <1>r, <2>1 DEF Announced
  <2>5. task'[u] = s
    BY <2>1, OthersStay
  <2>6. Serial(u)'
    BY <1>r, <2>1, <2>2, <2>3, <2>4, <2>5 DEF Serial, Fresh, Announced, RowsRefer, IdsOf, db
  <2>7. identifiedSoon' = identifiedSoon
    BY <2>1, <2>2, <2>5, SoonOfOne DEF db
  <2> QED BY <1>r, <2>6, <2>7 DEF Partition!vars
<1>2. CASE DeletePerson(u)
  <2> DEFINE s == [r EXCEPT !.pc = "commit"]
  <2>0. r.pc = "delete" /\ IdsOf(r.old) = {} /\ UNCHANGED db
    BY <1>r, <1>2 DEF DeletePerson, At, Fresh
  <2>1. Continue(u, s)
    BY <1>2, <2>0, SerialFacts DEF DeletePerson
  <2>2. /\ s.pc = "commit" /\ s.prev = r.prev /\ s.id = r.id
        /\ s.old = r.old /\ s.new = r.new /\ s.out = r.out /\ s.outPerson = r.outPerson
        /\ s.oldIdentified = r.oldIdentified /\ s.newIdentified = r.newIdentified
    BY <1>r DEF TaskState
  <2> HIDE DEF s
  <2>5. task'[u] = s
    BY <2>1, OthersStay
  <2>3. Fresh(task[u])'
    BY <1>r, <2>0, <2>2, <2>5 DEF Fresh, IdsOf, db
  <2>4. Announced(task[u])'
    BY <1>r, <2>0, <2>2, <2>5 DEF Announced
  <2>6. Serial(u)'
    BY <1>r, <2>0, <2>3, <2>4 DEF Serial, RowsRefer, db
  <2>7. identifiedSoon' = identifiedSoon
    BY <2>0, <2>2, <2>5, SoonOfOne DEF db
  <2> QED BY <1>r, <2>6, <2>7 DEF Partition!vars
<1>3. CASE Commit(u)
  <2> DEFINE s == [r EXCEPT !.pc = "publish", !.held = @ - 1,
                            !.old = NoPerson, !.oldIdentified = FALSE,
                            !.new = NoPerson, !.newIdentified = FALSE]
             becomes == r.newIdentified \/ r.oldIdentified
  <2>0. r.pc = "commit" /\ Continue(u, s) /\ IdsOf(r.old) = {}
    BY <1>r, <1>3 DEF Commit, At, Fresh
  <2>1. /\ live' = live \ {r.old}
        /\ identified' = (identified \ {r.old, r.new}) \cup IF becomes THEN {r.new} ELSE {}
    BY <1>3, <1>n DEF Commit, CommitMerge
  <2>2. s.pc = "publish" /\ s.out = r.out /\ s.outPerson = r.outPerson
    BY <1>r DEF TaskState
  <2> HIDE DEF s, becomes
  <2>3. task'[u] = s
    BY <2>0, OthersStay
  <2>4. Fresh(task[u])'
    BY <2>2, <2>3 DEF Fresh
  <2>5. Announced(task[u])'
    BY <1>r, <2>0, <2>2, <2>3 DEF Announced
  <2>6. \A d \in DistinctId : pdi[d] # r.old
    BY <2>0 DEF IdsOf
  <2>7. RowsRefer'
    BY <1>r, <1>n, <2>1, <2>6 DEF RowsRefer
  <2>8. Serial(u)'
    BY <1>r, <2>4, <2>5, <2>7 DEF Serial
  <2>9. /\ identifiedSoon = identified \cup IF becomes THEN {r.new} ELSE {}
        /\ identifiedSoon' = identified'
    BY <2>0, <2>2, <2>3, SoonOfOne DEF becomes
  <2>10. \A d \in DistinctId : pdi'[d] \in identifiedSoon' <=> pdi[d] \in identifiedSoon
    <3>1. CASE becomes
      BY <1>r, <2>1, <2>6, <2>9, <3>1
    <3>2. CASE ~becomes
      <4>1. r.new \notin identified
        BY <1>r, <3>2 DEF becomes
      <4> QED BY <1>r, <2>1, <2>6, <2>9, <3>2, <4>1
    <3> QED BY <3>1, <3>2
  <2> QED BY <1>r, <2>8, <2>10 DEF Partition!vars
<1> QED BY <1>1, <1>2, <1>3

(* setIsIdentified is Identify. *)
LEMMA SerialIdentifying ==
  ASSUME NEW u, Task = {u}, IInv, Serial(u), IdentifyUpdate(u)
  PROVE  Serial(u)' /\ Mapped
<1> DEFINE r == task[u]
<1>r. /\ r \in TaskState /\ r.pc = "identifyUpdate" /\ r.id \in DistinctId
      /\ pdi = mirror /\ r.new = pdi[r.id] /\ r.new # NoPerson
      /\ UNCHANGED <<live, used, pdi, mirror, faults>>
  BY SerialFacts DEF Serial, Fresh, Announced, IdentifyUpdate, At, bounds
<1>1. r.new \in live
  BY <1>r, SerialFacts
<1>2. identified' = identified \cup {r.new} /\ Continue(u, AliasReturn(r))
  BY <1>r, <1>1 DEF IdentifyUpdate, At
<1>3. AliasReturn(r).pc \in Plain
  BY <1>r, WaysOutArePlain, 0 \in Nat
<1>4. task'[u] = AliasReturn(r)
  BY <1>2, OthersStay
<1>5. task'[u].pc \in Plain
  BY <1>3, <1>4
<1>6. Serial(u)'
  <2>1. Fresh(task[u])' /\ Announced(task[u])'
    BY <1>r, <1>5 DEF Fresh, Announced, Plain
  <2>2. RowsRefer'
    BY <1>r, <1>1, <1>2 DEF Serial, RowsRefer
  <2> QED BY <1>r, <2>1, <2>2 DEF Serial
<1>7. identifiedSoon = identified /\ identifiedSoon' = identified \cup {r.new}
  BY <1>r, <1>2, <1>5, SoonOfOne DEF Plain
<1>e. PICK d \in DistinctId : d = r.id
  BY <1>r
<1>8. Partition!Identify(d)
  BY <1>r, <1>e, <1>7 DEF Partition!Identify, Partition!Members
<1> QED BY <1>6, <1>8 DEF Mapped, Partition!Next

(* Every step of one task, when nothing fails, keeps what it knows fresh and *)
(* is a step of PersonPartition or none.                                    *)
LEMMA SerialNext ==
  ASSUME NEW u, Task = {u}, MaxFaults = 0, IInv, Serial(u), [Next]_vars
  PROVE  Serial(u)' /\ Mapped
<1>1. ASSUME Step(u) \/ \E c \in Calls : StartEvent(u, c)
      PROVE  Serial(u)' /\ Mapped
  <2>1. ~IdentifyWait(u)
    <3>1. task[u].new \in PersonId \cup {NoPerson} /\ Task \ {u} = {}
      BY SerialFacts DEF TaskState
    <3> QED BY <3>1 DEF IdentifyWait, RowLocked
  <2> QED
    BY <1>1, <2>1, SerialFetching, SerialReading, SerialAttaching, SerialCreating,
       SerialMoving, SerialMerging, SerialIdentifying DEF Step, Mapped
<1>2. ~LoseConnection(u) /\ ~LoseCommitReply(u) /\ \A h \in Thread : ~KillThread(h)
  BY DEF Serial, LoseConnection, LoseCommitReply, KillThread
<1>3. ASSUME UNCHANGED <<live, used, identified, pdi, task, mirror, faults>>
      PROVE  Serial(u)' /\ Mapped
  <2>1. identifiedSoon' = identifiedSoon
    BY <1>3 DEF identifiedSoon
  <2> QED BY <1>3, <2>1
          DEF Serial, Fresh, Announced, RowsRefer, IdsOf, Mapped, Partition!vars
<1>4. CASE (\E h \in Thread, d \in DistinctId : ForgetSeen(h, d)) \/ UNCHANGED vars
  BY <1>3, <1>4 DEF ForgetSeen, vars, db, bounds
<1> QED BY <1>1, <1>2, <1>4 DEF Next, Quiescent

(* A database the plugin server starts with is a partition. *)
LEMMA SerialInit ==
  ASSUME NEW u, Task = {u}, Init
  PROVE  Serial(u) /\ Partition!Init
<1>1. /\ pdi \in [DistinctId -> PersonId \cup {NoPerson}] /\ NoPerson \notin PersonId
      /\ live = {pdi[d] : d \in DistinctId} \ {NoPerson}
      /\ used = live /\ identified \subseteq live /\ mirror = pdi /\ faults = 0
      /\ task[u] = Idle /\ Idle.pc = "idle"
  BY ConstantsAssumption DEF Init, Idle, ConstantsAssumption
<1>2. Serial(u)
  BY <1>1 DEF Serial, Fresh, Announced, RowsRefer
<1>3. identifiedSoon = identified
  BY <1>1, SoonOfOne
<1>4. Partition!Init
  BY <1>1, <1>3 DEF Partition!Init, Partition!TypeOK
<1> QED BY <1>2, <1>4

(* One event at a time, and without failures, Kafka's copy of a distinct     *)
(* ID's person is the database's whenever no event is under way.            *)
THEOREM MirrorAgreesOneByOne ==
  ASSUME NEW u, Task = {u}, MaxFaults = 0
  PROVE  Spec => []MirrorAgrees
<1>1. Init => Serial(u)
  BY SerialInit
<1>2. IInv /\ Serial(u) /\ [Next]_vars => Serial(u)'
  BY SerialNext
<1>3. Serial(u) => MirrorAgrees
  BY DEF Serial, Announced, MirrorAgrees, At
<1> QED BY <1>1, <1>2, <1>3, Invariance, PTL DEF Spec

(* One event at a time, and without failures, process-event.ts changes       *)
(* persons only as PersonPartition says: every step is one of its atomic    *)
(* operations, or changes no person.                                        *)
THEOREM ImplementsPartitionOneByOne ==
  ASSUME NEW u, Task = {u}, MaxFaults = 0
  PROVE  Spec => ImplementsPartition
<1>1. Init => Serial(u) /\ Partition!Init
  BY SerialInit
<1>2. IInv /\ Serial(u) /\ [Next]_vars => Serial(u)' /\ [Partition!Next]_(Partition!vars)
  BY SerialNext DEF Mapped
<1> QED BY <1>1, <1>2, Invariance, PTL DEF Spec, ImplementsPartition, Partition!Spec


-----------------------------------------------------------------------------
(* The clients of a thread's pool.                                          *)

(* The program points at which the innermost call holds a client. *)
Open == {"update", "move", "delete", "commit", "identifyWait"}

Opened(r) == IF r.pc \in Open THEN 1 ELSE 0

(* Each client t holds belongs to a merge that failed before, whose alias()  *)
(* has not returned yet, or to the statement or transaction it is in.       *)
HeldWithin(r) ==
  /\ r.held <= r.attempts + Opened(r)
  /\ r.held <= r.depth + Opened(r)
  /\ r.attempts < MAX_FAILED_PERSON_MERGE_ATTEMPTS
  /\ r.retry => r.attempts = 0
  /\ r.pc \notin AliasPC => r.depth = 0

HoldingsBounded == \A t \in Task : HeldWithin(task[t])

TasksOf(h) == {t \in Task : ThreadOf[t] = h}

(* The clients in use in thread h: the k-th of each of its tasks. *)
Slots(h) == {s \in TasksOf(h) \X Nat : s[2] \in 1..task[s[1]].held}

PoolExact ==
  \A h \in Thread : /\ IsFiniteSet(Slots(h))
                    /\ clients[h] = Cardinality(Slots(h))
                    /\ clients[h] <= PoolSize

(* t goes on with s, which takes at most one client, and a free one. *)
Takes(t, s) ==
  /\ Continue(t, s)
  /\ HeldWithin(s)
  /\ \/ s.held <= task[t].held
     \/ s.held = task[t].held + 1 /\ FreeClient(t)

(* Leaving alias(), or the event, gives back every client. *)
LEMMA GivesBack ==
  ASSUME ConstantsAssumption, NEW r \in TaskState
  PROVE  /\ HeldWithin(Idle) /\ Idle.held = 0
         /\ HeldWithin(Handled(r)) /\ Handled(r).held = 0
<1>1. MAX_FAILED_PERSON_MERGE_ATTEMPTS \in Nat \ {0}
  BY DEF ConstantsAssumption
<1>2. /\ Idle.held = 0 /\ Idle.attempts = 0 /\ Idle.depth = 0 /\ Opened(Idle) = 0
      /\ Handled(r).held = 0 /\ Handled(r).attempts = 0 /\ Handled(r).depth = 0
      /\ Opened(Handled(r)) = 0
  BY DEF Idle, Handled, Opened, Open
<1> QED BY <1>1, <1>2 DEF HeldWithin

(* Cleared leaves what counts alone. *)
LEMMA ClearedKeeps ==
  ASSUME NEW r \in TaskState
  PROVE  /\ Cleared(r) \in TaskState
         /\ Cleared(r).held = r.held /\ Cleared(r).depth = r.depth
         /\ Cleared(r).attempts = r.attempts /\ Cleared(r).retry = r.retry
BY DEF Cleared, TaskState

(* The calls and returns of alias(), from c that holds nothing of its own. *)
LEMMA Returns ==
  ASSUME ConstantsAssumption, NEW c \in TaskState,
         c.held <= c.attempts, c.held <= c.depth,
         c.attempts < MAX_FAILED_PERSON_MERGE_ATTEMPTS, c.retry => c.attempts = 0
  PROVE  /\ HeldWithin(AfterMerge(c)) /\ AfterMerge(c).held <= c.held
         /\ HeldWithin(AliasReturn(c)) /\ AliasReturn(c).held <= c.held
         /\ c.retry => /\ HeldWithin(AliasAgain(c, 0))
                       /\ AliasAgain(c, 0).held <= c.held
<1>1. /\ MAX_FAILED_PERSON_MERGE_ATTEMPTS \in Nat \ {0}
      /\ c.held \in Nat /\ c.attempts \in Nat /\ c.depth \in Nat /\ c.retry \in BOOLEAN
  BY DEF ConstantsAssumption, TaskState
<1> DEFINE e == Cleared(c)
<1>2. /\ e \in TaskState
      /\ e.held = c.held /\ e.depth = c.depth /\ e.attempts = c.attempts /\ e.retry = c.retry
  BY ClearedKeeps
<1>3. HeldWithin(Handled(c)) /\ Handled(c).held = 0
  BY GivesBack
<1> HIDE DEF e
<1>4. HeldWithin(AfterMerge(c)) /\ AfterMerge(c).held <= c.held
  <2>1. CASE c.kind = "$identify"
    <3>1. AfterMerge(c) = [e EXCEPT !.pc = "identifyFetch"]
      BY <2>1 DEF AfterMerge, e
    <3>2. /\ AfterMerge(c).held = c.held /\ AfterMerge(c).depth = c.depth
          /\ AfterMerge(c).attempts = c.attempts /\ AfterMerge(c).retry = c.retry
          /\ AfterMerge(c).pc = "identifyFetch"
      BY <1>2, <3>1 DEF TaskState
    <3> QED BY <1>1, <3>2 DEF HeldWithin, Opened, Open, AliasPC, PC
  <2>2. CASE c.kind # "$identify"
    BY <1>1, <1>3, <2>2 DEF AfterMerge
  <2> QED BY <2>1, <2>2
<1>5. HeldWithin(AliasReturn(c)) /\ AliasReturn(c).held <= c.held
  <2>1. CASE c.depth = 0
    BY <1>1, <1>3, <2>1 DEF AliasReturn
  <2>2. CASE c.depth # 0
    <3> DEFINE n == IF c.held = 0 THEN 0 ELSE c.held - 1
               x == AliasReturn(c)
    <3>1. x = [e EXCEPT !.pc = "identifyFetch", !.depth = @ - 1,
                        !.held = IF @ = 0 THEN 0 ELSE @ - 1]
      BY <2>2 DEF AliasReturn, e
    <3> HIDE DEF x
    <3>2. /\ x.held = n /\ x.depth = c.depth - 1
          /\ x.attempts = c.attempts /\ x.retry = c.retry
          /\ x.pc = "identifyFetch"
      BY <1>2, <3>1 DEF TaskState
    <3>3. Opened(x) = 0
      BY <3>2 DEF Opened, Open
    <3>4. HeldWithin(x) /\ x.held <= c.held
      BY <1>1, <2>2, <3>2, <3>3 DEF HeldWithin, AliasPC, PC
    <3> QED BY <3>4 DEF x
  <2> QED BY <2>1, <2>2
<1>6. c.retry => /\ HeldWithin(AliasAgain(c, 0))
                 /\ AliasAgain(c, 0).held <= c.held
  <2> DEFINE x == AliasAgain(c, 0)
  <2>1. x = [e EXCEPT !.pc = "fetchOld", !.retry = FALSE, !.depth = @ + 1, !.attempts = 0]
    BY DEF AliasAgain, e
  <2> HIDE DEF x
  <2>2. /\ x.held = c.held /\ x.depth = c.depth + 1
        /\ x.attempts = 0 /\ x.pc = "fetchOld"
    BY <1>2, <2>1 DEF TaskState
  <2>3. Opened(x) = 0
    BY <2>2 DEF Opened, Open
  <2>4. c.retry => HeldWithin(x) /\ x.held <= c.held
    BY <1>1, <2>2, <2>3 DEF HeldWithin, AliasPC, PC
  <2> QED BY <2>4 DEF x
<1> QED BY <1>4, <1>5, <1>6

(* A failed merge gives its client to the alias() it calls, or gives all up. *)
LEMMA FailedMergeTakes ==
  ASSUME ConstantsAssumption, IInv, NEW t \in Task, HeldWithin(task[t]),
         task[t].pc \in Open, MergeFailed(t)
  PROVE  \E s : Takes(t, s)
<1> DEFINE r == task[t]
           n == r.attempts + 1
<1>1. /\ MAX_FAILED_PERSON_MERGE_ATTEMPTS \in Nat \ {0}
      /\ r \in TaskState
      /\ r.held \in Nat /\ r.attempts \in Nat /\ r.depth \in Nat
  BY TaskFacts DEF ConstantsAssumption, TaskState
<1>2. CASE n = MAX_FAILED_PERSON_MERGE_ATTEMPTS
  <2>1. Continue(t, Handled(r))
    BY <1>2 DEF MergeFailed, Throw
  <2>2. HeldWithin(Handled(r)) /\ Handled(r).held = 0
    BY <1>1, GivesBack
  <2> QED BY <1>1, <2>1, <2>2 DEF Takes
<1>3. CASE n # MAX_FAILED_PERSON_MERGE_ATTEMPTS
  <2> DEFINE e == Cleared(r)
             x == AliasAgain(r, n)
  <2>1. Continue(t, x)
    BY <1>3 DEF MergeFailed
  <2>2. /\ e \in TaskState
        /\ e.held = r.held /\ e.depth = r.depth
    BY <1>1, ClearedKeeps
  <2>3. x = [e EXCEPT !.pc = "fetchOld", !.retry = FALSE, !.depth = @ + 1, !.attempts = n]
    BY DEF AliasAgain
  <2>h. HeldWithin(r) /\ Opened(r) = 1
    BY DEF Opened
  <2> HIDE DEF e, x
  <2>4. /\ x.held = r.held /\ x.depth = r.depth + 1
        /\ x.attempts = n /\ x.pc = "fetchOld" /\ x.retry = FALSE
    BY <2>2, <2>3 DEF TaskState
  <2>5. Opened(x) = 0
    BY <2>4 DEF Opened, Open
  <2> HIDE DEF r
  <2>6. HeldWithin(x) /\ x.held <= r.held
    BY <1>1, <1>3, <2>h, <2>4, <2>5 DEF HeldWithin, AliasPC, PC
  <2> QED BY <2>1, <2>6 DEF Takes, r
<1> QED BY <1>2, <1>3

(* Every step of a task takes at most one client, a free one, and holds what *)
(* its merges account for.                                                  *)
LEMMA StepTakes ==
  ASSUME ConstantsAssumption, IInv, NEW t \in Task, HeldWithin(task[t]),
         Step(t) \/ LoseConnection(t) \/ LoseCommitReply(t)
  PROVE  \E s : Takes(t, s)
<1> DEFINE r == task[t]
<1>0. /\ r \in TaskState
      /\ r.held \in Nat /\ r.attempts \in Nat /\ r.depth \in Nat /\ r.retry \in BOOLEAN
      /\ HeldWithin(r)
      /\ r.pc = "identifyWait" => r.held > 0
      /\ r.pc = "commit" => r.held > 0
  BY TaskFacts DEF Consistent, TaskState
<1>i. HeldWithin(Idle) /\ Idle.held = 0 /\ HeldWithin(Handled(r)) /\ Handled(r).held = 0
  BY <1>0, GivesBack
<1>o. r.pc \notin Open => Opened(r) = 0
  BY DEF Opened
<1>r. r.pc \notin Open =>
        /\ HeldWithin(AfterMerge(r)) /\ AfterMerge(r).held <= r.held
        /\ HeldWithin(AliasReturn(r)) /\ AliasReturn(r).held <= r.held
        /\ r.retry => HeldWithin(AliasAgain(r, 0)) /\ AliasAgain(r, 0).held <= r.held
  <2> SUFFICES ASSUME r.pc \notin Open
               PROVE  /\ HeldWithin(AfterMerge(r)) /\ AfterMerge(r).held <= r.held
                      /\ HeldWithin(AliasReturn(r)) /\ AliasReturn(r).held <= r.held
                      /\ r.retry => HeldWithin(AliasAgain(r, 0)) /\ AliasAgain(r, 0).held <= r.held
    OBVIOUS
  <2> HIDE DEF r
  <2>1. r.held <= r.attempts /\ r.held <= r.depth
        /\ r.attempts < MAX_FAILED_PERSON_MERGE_ATTEMPTS /\ (r.retry => r.attempts = 0)
    BY <1>0, <1>o DEF HeldWithin
  <2> QED BY <1>0, <2>1, Returns
<1>1. CASE Done(t) \/ Throw(t)
  BY <1>0, <1>1, <1>i DEF Done, Throw, Takes
<1>2. CASE InsertFailed(t) /\ r.pc \notin Open
  BY <1>2, <1>r DEF InsertFailed, Takes
<1>3. CASE MergeFailed(t) /\ r.pc \in Open
  BY <1>3, FailedMergeTakes
(* A step that only moves on, with nothing taken. *)
<1>m. ASSUME NEW s, s.held = r.held, s.attempts = r.attempts, s.depth = r.depth,
             s.retry = r.retry, Opened(s) = Opened(r),
             s.pc \in AliasPC \/ r.pc \notin AliasPC, Continue(t, s)
      PROVE  Takes(t, s)
  <2> HIDE DEF r
  <2>1. HeldWithin(s) /\ s.held <= r.held
    BY <1>0, <1>m DEF HeldWithin
  <2> QED BY <1>m, <2>1 DEF Takes, r
<1>t. ASSUME NEW s, s.held = r.held + 1, s.attempts = r.attempts, s.depth = r.depth,
             s.retry = r.retry, r.pc \notin Open, s.pc \in Open, Continue(t, s), FreeClient(t)
      PROVE  Takes(t, s)
  <2>1. Opened(s) = 1 /\ Opened(r) = 0
    BY <1>t DEF Opened
  <2> HIDE DEF r
  <2>2. HeldWithin(s)
    BY <1>0, <1>t, <2>1 DEF HeldWithin, Open, AliasPC, PC
  <2> QED BY <1>t, <2>2 DEF Takes, r
<1>p. ASSUME NEW where \in {"publish", "delete", "publishNew"}, NEW ids, NEW p,
             where \in Open <=> r.pc \in Open, where \in AliasPC \/ r.pc \notin AliasPC,
             Continue(t, [r EXCEPT !.pc = where, !.out = ids, !.outPerson = p])
      PROVE  \E s : Takes(t, s)
  <2> DEFINE s == [r EXCEPT !.pc = where, !.out = ids, !.outPerson = p]
  <2>1. s.held = r.held /\ s.attempts = r.attempts /\ s.depth = r.depth
        /\ s.retry = r.retry /\ s.pc = where
    BY <1>0 DEF TaskState
  <2>2. Continue(t, s)
    BY <1>p
  <2> HIDE DEF s
  <2>3. Opened(s) = Opened(r) /\ (s.pc \in AliasPC \/ r.pc \notin AliasPC)
    BY <1>p, <2>1 DEF Opened
  <2> QED BY <1>m, <2>1, <2>2, <2>3
<1>4. CASE FetchOld(t)
  <2> DEFINE i == PersonOf(r.prev) \in identified
             s == [r EXCEPT !.pc = "fetchNew", !.old = PersonOf(r.prev), !.oldIdentified = i]
  <2>1. r.pc = "fetchOld" /\ Continue(t, s)
    BY <1>4 DEF FetchOld, At
  <2>2. s.held = r.held /\ s.attempts = r.attempts /\ s.depth = r.depth
        /\ s.retry = r.retry /\ s.pc = "fetchNew"
    BY <1>0 DEF TaskState
  <2> HIDE DEF s
  <2>3. Opened(s) = Opened(r) /\ (s.pc \in AliasPC \/ r.pc \notin AliasPC)
    BY <2>1, <2>2 DEF Opened, Open, AliasPC, PC
  <2> QED BY <1>m, <2>1, <2>2, <2>3
<1>5. CASE FetchNew(t)
  <2> DEFINE b == Branch(t, r.old, PersonOf(r.id))
             i == PersonOf(r.id) \in identified
             s == [r EXCEPT !.pc = b, !.new = PersonOf(r.id), !.newIdentified = i]
  <2>1. r.pc = "fetchNew" /\ Continue(t, IF b \in {"same", "refuse"} THEN AfterMerge(r) ELSE s)
    BY <1>5 DEF FetchNew, At
  <2>2. b \in {"add", "create", "same", "refuse", "begin"}
    BY DEF Branch
  <2> HIDE DEF b
  <2>3. s.held = r.held /\ s.attempts = r.attempts /\ s.depth = r.depth
        /\ s.retry = r.retry /\ s.pc = b
    BY <1>0 DEF TaskState
  <2> HIDE DEF s
  <2>5. HeldWithin(AfterMerge(r)) /\ AfterMerge(r).held <= r.held
    BY <1>r, <2>1 DEF Open
  <2>6. CASE b \in {"same", "refuse"}
    BY <2>1, <2>5, <2>6 DEF Takes
  <2>7. CASE b \notin {"same", "refuse"}
    <3>1. Opened(s) = Opened(r) /\ (s.pc \in AliasPC \/ r.pc \notin AliasPC)
      BY <2>1, <2>2, <2>3, <2>7 DEF Opened, Open, AliasPC, PC
    <3> QED BY <1>m, <2>1, <2>3, <2>7, <3>1
  <2> QED BY <2>6, <2>7
<1>6. CASE AddDistinctId(t)
  <2>1. r.pc = "add"
    BY <1>6 DEF AddDistinctId, At
  <2>2. CASE InsertFailed(t)
    BY <1>2, <2>1, <2>2 DEF Open
  <2>3. ASSUME NEW ids, NEW p,
               Continue(t, [r EXCEPT !.pc = "publish", !.out = ids, !.outPerson = p])
        PROVE  \E s : Takes(t, s)
    BY <1>p, <2>1, <2>3 DEF Open, AliasPC, PC
  <2> QED BY <1>6, <2>2, <2>3 DEF AddDistinctId
<1>7. CASE CreatePerson(t)
  <2>1. r.pc = "create"
    BY <1>7 DEF CreatePerson, At
  <2>2. CASE InsertFailed(t)
    BY <1>2, <2>1, <2>2 DEF Open
  <2>3. ASSUME NEW ids, NEW p,
               Continue(t, [r EXCEPT !.pc = "publish", !.out = ids, !.outPerson = p])
        PROVE  \E s : Takes(t, s)
    BY <1>p, <2>1, <2>3 DEF Open, AliasPC, PC
  <2> QED BY <1>7, <2>2, <2>3 DEF CreatePerson
<1>8. CASE Begin(t)
  <2> DEFINE s == [r EXCEPT !.pc = "update", !.held = @ + 1]
  <2>1. r.pc = "begin" /\ Continue(t, s) /\ FreeClient(t)
    BY <1>8 DEF Begin, At
  <2>2. s.held = r.held + 1 /\ s.attempts = r.attempts /\ s.depth = r.depth
        /\ s.retry = r.retry /\ s.pc = "update"
    BY <1>0 DEF TaskState
  <2> HIDE DEF s
  <2> QED BY <1>t, <2>1, <2>2 DEF Open
<1>9. CASE UpdatePerson(t)
  <2>1. r.pc = "update"
    BY <1>9 DEF UpdatePerson, At
  <2>2. CASE MergeFailed(t)
    BY <1>3, <2>1, <2>2 DEF Open
  <2>3. CASE ~ MergeFailed(t)
    <3> DEFINE s == [r EXCEPT !.pc = "move"]
    <3>1. Continue(t, s)
      BY <1>9, <2>3 DEF UpdatePerson
    <3>2. s.held = r.held /\ s.attempts = r.attempts /\ s.depth = r.depth
          /\ s.retry = r.retry /\ s.pc = "move"
      BY <1>0 DEF TaskState
    <3> HIDE DEF s
    <3>3. Opened(s) = Opened(r) /\ (s.pc \in AliasPC \/ r.pc \notin AliasPC)
      BY <2>1, <3>2 DEF Opened, Open, AliasPC, PC
    <3> QED BY <1>m, <3>1, <3>2, <3>3
  <2> QED BY <2>2, <2>3
<1>10. CASE MoveDistinctIds(t)
  <2>1. r.pc = "move"
    BY <1>10 DEF MoveDistinctIds, At
  <2>2. ASSUME NEW ids, NEW p,
               Continue(t, [r EXCEPT !.pc = "delete", !.out = ids, !.outPerson = p])
        PROVE  \E s : Takes(t, s)
    BY <1>p, <2>1, <2>2 DEF Open, AliasPC, PC
  <2> QED BY <1>1, <1>10, <2>2 DEF MoveDistinctIds
<1>11. CASE DeletePerson(t)
  <2>1. r.pc = "delete"
    BY <1>11 DEF DeletePerson, At
  <2>2. CASE MergeFailed(t)
    BY <1>3, <2>1, <2>2 DEF Open
  <2>3. CASE ~ MergeFailed(t)
    <3> DEFINE s == [r EXCEPT !.pc = "commit"]
    <3>1. Continue(t, s)
      BY <1>11, <2>3 DEF DeletePerson
    <3>2. s.held = r.held /\ s.attempts = r.attempts /\ s.depth = r.depth
          /\ s.retry = r.retry /\ s.pc = "commit"
      BY <1>0 DEF TaskState
    <3> HIDE DEF s
    <3>3. Opened(s) = Opened(r) /\ (s.pc \in AliasPC \/ r.pc \notin AliasPC)
      BY <2>1, <3>2 DEF Opened, Open, AliasPC, PC
    <3> QED BY <1>m, <3>1, <3>2, <3>3
  <2> QED BY <2>2, <2>3
<1>12. CASE Commit(t)
  <2> DEFINE s == [r EXCEPT !.pc = "publish", !.held = @ - 1,
                            !.old = NoPerson, !.oldIdentified = FALSE,
                            !.new = NoPerson, !.newIdentified = FALSE]
  <2>1. r.pc = "commit" /\ Continue(t, s)
    BY <1>12 DEF Commit, At
  <2>2. s.held = r.held - 1 /\ s.attempts = r.attempts /\ s.depth = r.depth
        /\ s.retry = r.retry /\ s.pc = "publish"
    BY <1>0 DEF TaskState
  <2>3. Opened(r) = 1
    BY <2>1 DEF Opened, Open
  <2> HIDE DEF s
  <2>4. Opened(s) = 0
    BY <2>2 DEF Opened, Open
  <2> HIDE DEF r
  <2>5. HeldWithin(s) /\ s.held <= r.held
    BY <1>0, <2>2, <2>3, <2>4 DEF HeldWithin, AliasPC, PC
  <2> QED BY <2>1, <2>5 DEF Takes, r
<1>13. CASE Publish(t)
  <2>1. r.pc = "publish" /\ Continue(t, AfterMerge(r))
    BY <1>13 DEF Publish, At
  <2> QED BY <1>r, <2>1 DEF Open, Takes
<1>14. CASE IdentifyFetch(t)
  <2> DEFINE s == [r EXCEPT !.pc = "identifyUpdate", !.new = PersonOf(r.id)]
  <2>1. r.pc = "identifyFetch"
    BY <1>14 DEF IdentifyFetch, At
  <2>2. PICK x \in {Handled(r), AliasReturn(r), s} : Continue(t, x)
    BY <1>14 DEF IdentifyFetch
  <2>3. s.held = r.held /\ s.attempts = r.attempts /\ s.depth = r.depth
        /\ s.retry = r.retry /\ s.pc = "identifyUpdate"
    BY <1>0 DEF TaskState
  <2> HIDE DEF s
  <2>4. Opened(s) = Opened(r) /\ (s.pc \in AliasPC \/ r.pc \notin AliasPC)
    BY <2>1, <2>3 DEF Opened, Open, AliasPC, PC
  <2>5. CASE x = s
    BY <1>m, <2>2, <2>3, <2>4, <2>5
  <2>6. CASE x = Handled(r)
    BY <1>0, <1>i, <2>2, <2>6 DEF Takes
  <2>7. CASE x = AliasReturn(r)
    BY <1>r, <2>1, <2>2, <2>7 DEF Open, Takes
  <2> QED BY <2>2, <2>5, <2>6, <2>7
<1>15. CASE IdentifyWait(t)
  <2> DEFINE s == [r EXCEPT !.pc = "identifyWait", !.held = @ + 1]
  <2>1. r.pc = "identifyUpdate" /\ Continue(t, s) /\ FreeClient(t)
    BY <1>15 DEF IdentifyWait, At
  <2>2. s.held = r.held + 1 /\ s.attempts = r.attempts /\ s.depth = r.depth
        /\ s.retry = r.retry /\ s.pc = "identifyWait"
    BY <1>0 DEF TaskState
  <2> HIDE DEF s
  <2> QED BY <1>t, <2>1, <2>2 DEF Open
<1>16. CASE IdentifyUpdate(t)
  <2>1. CASE r.pc # "identifyWait"
    <3>1. r.pc = "identifyUpdate" /\ Continue(t, AliasReturn(r))
      BY <1>16, <2>1 DEF IdentifyUpdate, At
    <3> QED BY <1>r, <3>1 DEF Open, Takes
  <2>2. CASE r.pc = "identifyWait"
    <3> DEFINE c == [r EXCEPT !.held = @ - 1]
    <3>1. Continue(t, AliasReturn(c))
      BY <1>16, <2>2 DEF IdentifyUpdate, At
    <3>2. r.held > 0 /\ r.held - 1 \in Nat /\ Opened(r) = 1
      BY <1>0, <2>2 DEF Opened, Open
    <3>3. c \in TaskState
      BY <1>0, <3>2 DEF TaskState
    <3>4. c.held = r.held - 1 /\ c.attempts = r.attempts /\ c.depth = r.depth /\ c.retry = r.retry
      BY <1>0 DEF TaskState
    <3> HIDE DEF c, r
    <3>5. /\ c.held <= c.attempts /\ c.held <= c.depth /\ c.held <= r.held
          /\ c.attempts < MAX_FAILED_PERSON_MERGE_ATTEMPTS /\ (c.retry => c.attempts = 0)
      BY <1>0, <3>2, <3>4 DEF HeldWithin
    <3>6. HeldWithin(AliasReturn(c)) /\ AliasReturn(c).held <= c.held
          /\ AliasReturn(c).held \in Nat
      <4>1. HeldWithin(AliasReturn(c)) /\ AliasReturn(c).held <= c.held
        BY <3>3, <3>5, Returns
      <4>2. AliasReturn(c).held \in Nat
        <5>1. CASE c.depth = 0
          BY <5>1 DEF AliasReturn, Handled, Idle
        <5>2. CASE c.depth # 0
          <6>1. AliasReturn(c).held = IF Cleared(c).held = 0 THEN 0 ELSE Cleared(c).held - 1
            BY <3>3, <5>2, ClearedKeeps DEF AliasReturn, TaskState
          <6> QED BY <3>2, <3>3, <3>4, <6>1, ClearedKeeps
        <5> QED BY <5>1, <5>2
      <4> QED BY <4>1, <4>2
    <3>7. AliasReturn(c).held <= r.held
      BY <1>0, <3>2, <3>4, <3>6
    <3> QED BY <3>1, <3>6, <3>7 DEF Takes, r
  <2> QED BY <2>1, <2>2
<1>17. CASE IsNewPerson(t)
  <2> DEFINE s == [r EXCEPT !.pc = "count"]
  <2>1. r.pc = "isNew"
    BY <1>17 DEF IsNewPerson, At
  <2>2. Done(t) \/ Continue(t, s)
    BY <1>17 DEF IsNewPerson
  <2>3. s.held = r.held /\ s.attempts = r.attempts /\ s.depth = r.depth
        /\ s.retry = r.retry /\ s.pc = "count"
    BY <1>0 DEF TaskState
  <2> HIDE DEF s
  <2>4. Opened(s) = Opened(r) /\ (s.pc \in AliasPC \/ r.pc \notin AliasPC)
    BY <2>1, <2>3 DEF Opened, Open, AliasPC, PC
  <2> QED BY <1>1, <1>m, <2>2, <2>3, <2>4
<1>18. CASE CountDistinctId(t)
  <2> DEFINE s == [r EXCEPT !.pc = "createNew"]
  <2>1. r.pc = "count"
    BY <1>18 DEF CountDistinctId, At
  <2>2. Done(t) \/ Continue(t, s)
    BY <1>18 DEF CountDistinctId
  <2>3. s.held = r.held /\ s.attempts = r.attempts /\ s.depth = r.depth
        /\ s.retry = r.retry /\ s.pc = "createNew"
    BY <1>0 DEF TaskState
  <2> HIDE DEF s
  <2>4. Opened(s) = Opened(r) /\ (s.pc \in AliasPC \/ r.pc \notin AliasPC)
    BY <2>1, <2>3 DEF Opened, Open, AliasPC, PC
  <2> QED BY <1>1, <1>m, <2>2, <2>3, <2>4
<1>19. CASE CreatePersonIfNew(t)
  <2>1. r.pc = "createNew"
    BY <1>19 DEF CreatePersonIfNew, At
  <2>2. ASSUME NEW ids, NEW p,
               Continue(t, [r EXCEPT !.pc = "publishNew", !.out = ids, !.outPerson = p])
        PROVE  \E s : Takes(t, s)
    BY <1>p, <2>1, <2>2 DEF Open, AliasPC, PC
  <2> QED BY <1>1, <1>19, <2>2 DEF CreatePersonIfNew
<1>20. CASE PublishNew(t)
  BY <1>1, <1>20 DEF PublishNew
<1>21. CASE LoseConnection(t)
  BY <1>1, <1>2, <1>21 DEF LoseConnection, Open
<1>22. CASE LoseCommitReply(t)
  BY <1>1, <1>22 DEF LoseCommitReply
<1> QED
  BY <1>4, <1>5, <1>6, <1>7, <1>8, <1>9, <1>10, <1>11, <1>12, <1>13, <1>14, <1>15,
     <1>16, <1>17, <1>18, <1>19, <1>20, <1>21, <1>22 DEF Step

-----------------------------------------------------------------------------
(* A set of n numbered clients of one task. *)
LEMMA BlockSize ==
  ASSUME NEW t, NEW n \in Nat
  PROVE  IsFiniteSet({t} \X (1..n)) /\ Cardinality({t} \X (1..n)) = n
<1>1. IsFiniteSet(1..n) /\ Cardinality(1..n) = n
  BY FS_Interval
<1>2. IsFiniteSet({t}) /\ Cardinality({t}) = 1
  BY FS_Singleton
<1> QED BY <1>1, <1>2, FS_Product

(* Init: no client is in use. *)
LEMMA PoolInit == ASSUME ConstantsAssumption, Init PROVE HoldingsBounded /\ PoolExact
<1>1. Idle \in TaskState
  BY DEF Idle, TaskState, PC, Kind
<1>2. HoldingsBounded
  BY <1>1, GivesBack DEF Init, HoldingsBounded
<1>3. ASSUME NEW h \in Thread PROVE Slots(h) = {}
  BY DEF Init, Slots, TasksOf, Idle
<1>4. IsFiniteSet({}) /\ Cardinality({}) = 0 /\ PoolSize \in Nat
  BY FS_EmptySet DEF ConstantsAssumption
<1>5. ASSUME NEW h \in Thread
      PROVE  /\ IsFiniteSet(Slots(h))
             /\ clients[h] = Cardinality(Slots(h)) /\ clients[h] <= PoolSize
  <2>1. clients[h] = 0 /\ Slots(h) = {}
    BY <1>3 DEF Init
  <2> QED BY <1>4, <2>1
<1> QED BY <1>2, <1>5 DEF PoolExact

(* Continue takes a client from the pool for each one the task takes, and    *)
(* gives one back for each it gives back.                                   *)
LEMMA ContinueCounts ==
  ASSUME ConstantsAssumption, IInv, IInv', PoolExact, NEW t \in Task, NEW s, Takes(t, s)
  PROVE  PoolExact'
<1>1. /\ task \in [Task -> TaskState] /\ task' = [task EXCEPT ![t] = s]
      /\ task'[t] = s /\ \A u \in Task \ {t} : task'[u] = task[u]
      /\ s \in TaskState /\ s.held \in Nat /\ task[t].held \in Nat
  BY OthersStay DEF Takes, Continue, IInv, TypeOK, TaskState
<1>2. /\ clients \in [Thread -> Int] /\ ThreadOf[t] \in Thread
      /\ clients' = [clients EXCEPT ![ThreadOf[t]] = (@ + s.held) - task[t].held]
  BY DEF Takes, Continue, IInv, TypeOK, ConstantsAssumption
<1> SUFFICES ASSUME NEW h \in Thread
             PROVE  /\ IsFiniteSet(Slots(h)')
                    /\ clients'[h] = Cardinality(Slots(h)')
                    /\ clients'[h] <= PoolSize
  BY DEF PoolExact
<1>3. IsFiniteSet(Slots(h)) /\ clients[h] = Cardinality(Slots(h)) /\ clients[h] <= PoolSize
  BY DEF PoolExact
<1>4. CASE h # ThreadOf[t]
  <2>1. Slots(h)' = Slots(h)
    BY <1>1, <1>4 DEF Slots, TasksOf
  <2>2. clients'[h] = clients[h]
    BY <1>2, <1>4
  <2> QED BY <1>3, <2>1, <2>2
<1>5. CASE h = ThreadOf[t]
  <2> DEFINE mine == {t} \X (1..task[t].held)
             becomes == {t} \X (1..s.held)
             others == Slots(h) \ mine
  <2>1. /\ IsFiniteSet(mine) /\ Cardinality(mine) = task[t].held
        /\ IsFiniteSet(becomes) /\ Cardinality(becomes) = s.held
    BY <1>1, BlockSize
  <2>2. mine \subseteq Slots(h) /\ Slots(h) \cap mine = mine
    BY <1>1, <1>5 DEF Slots, TasksOf
  <2>3. Slots(h)' = others \cup becomes /\ others \cap becomes = {}
    BY <1>1, <1>5 DEF Slots, TasksOf
  <2> HIDE DEF mine, becomes
  <2>4. IsFiniteSet(others) /\ Cardinality(others) = Cardinality(Slots(h)) - task[t].held
    <3>1. /\ IsFiniteSet(Slots(h) \ mine)
          /\ Cardinality(Slots(h) \ mine) = Cardinality(Slots(h)) - Cardinality(Slots(h) \cap mine)
      BY <1>3, FS_Difference
    <3> QED BY <2>1, <2>2, <3>1
  <2>c. others \cap becomes = {}
    BY <2>3
  <2> HIDE DEF others
  <2>5. /\ IsFiniteSet(others \cup becomes)
        /\ Cardinality(others \cup becomes) = Cardinality(others) + Cardinality(becomes) - 0
    <3>1. /\ IsFiniteSet(others \cup becomes)
          /\ Cardinality(others \cup becomes)
               = Cardinality(others) + Cardinality(becomes) - Cardinality(others \cap becomes)
      BY <2>1, <2>4, FS_Union
    <3> QED BY <2>c, <3>1, FS_EmptySet
  <2>6. clients'[h] = (clients[h] + s.held) - task[t].held
    BY <1>2, <1>5
  <2>7. Cardinality(Slots(h)) \in Nat
    BY <1>3, FS_CardinalityType
  <2>8. clients'[h] = Cardinality(Slots(h)')
    BY <1>1, <1>3, <2>1, <2>3, <2>4, <2>5, <2>6, <2>7
  <2>9. clients'[h] <= PoolSize
    <3>1. PoolSize \in Nat /\ clients[h] \in Int
      BY <1>2 DEF ConstantsAssumption
    <3>2. CASE s.held <= task[t].held
      BY <1>1, <1>3, <2>6, <3>1, <3>2
    <3>3. CASE s.held = task[t].held + 1 /\ clients[h] < PoolSize
      BY <1>1, <2>6, <3>1, <3>3
    <3> QED BY <1>5, <3>2, <3>3 DEF Takes, FreeClient
  <2> QED BY <2>3, <2>5, <2>8, <2>9
<1> QED BY <1>4, <1>5

(* A thread that dies takes its tasks and its pool with it. *)
LEMMA KillThreadCounts ==
  ASSUME ConstantsAssumption, IInv, HoldingsBounded, PoolExact, NEW h \in Thread, KillThread(h)
  PROVE  HoldingsBounded' /\ PoolExact'
<1>1. /\ task' = [t \in Task |-> IF t \in TasksOf(h) THEN Idle ELSE task[t]]
      /\ clients' = [clients EXCEPT ![h] = 0] /\ clients \in [Thread -> Int]
  BY DEF KillThread, TasksOf, IInv, TypeOK
<1>2. HoldingsBounded'
  <2>1. Idle \in TaskState
    BY DEF Idle, TaskState, PC, Kind
  <2> QED BY <1>1, <2>1, GivesBack DEF HoldingsBounded
<1>3. Slots(h)' = {}
  BY <1>1 DEF Slots, TasksOf, Idle
<1>4. ASSUME NEW g \in Thread \ {h} PROVE Slots(g)' = Slots(g)
  BY <1>1 DEF Slots, TasksOf
<1>5. PoolSize \in Nat /\ Cardinality({}) = 0 /\ IsFiniteSet({})
  BY FS_EmptySet DEF ConstantsAssumption
<1>6. clients'[h] = 0 /\ \A g \in Thread \ {h} : clients'[g] = clients[g]
  BY <1>1
<1>7. PoolExact'
  BY <1>3, <1>4, <1>5, <1>6 DEF PoolExact
<1> QED BY <1>2, <1>7

(* Every step of the system accounts for its clients. *)
LEMMA PoolNext ==
  ASSUME ConstantsAssumption, IInv, HoldingsBounded, PoolExact, [Next]_vars
  PROVE  HoldingsBounded' /\ PoolExact'
<1>0. IInv'
  BY NextIInv
<1>1. ASSUME NEW t \in Task, NEW s, Takes(t, s)
      PROVE  HoldingsBounded' /\ PoolExact'
  <2>1. PoolExact'
    BY <1>0, <1>1, ContinueCounts
  <2>2. task'[t] = s /\ HeldWithin(s) /\ \A u \in Task \ {t} : task'[u] = task[u]
    BY <1>1, OthersStay DEF Takes
  <2>3. HoldingsBounded'
    BY <2>2 DEF HoldingsBounded, HeldWithin, Opened
  <2> QED BY <2>1, <2>3
<1>2. ASSUME NEW t \in Task, NEW c \in Calls, StartEvent(t, c)
      PROVE  HoldingsBounded' /\ PoolExact'
  <2> DEFINE a == [Idle EXCEPT !.pc = "fetchOld", !.kind = c.kind,
                               !.prev = c.prev, !.id = c.id, !.retry = TRUE]
             b == [Idle EXCEPT !.pc = "isNew", !.kind = c.kind, !.id = c.id]
  <2>1. PICK s \in {a, b} : Continue(t, s)
    BY <1>2 DEF StartEvent
  <2>2. /\ a.held = 0 /\ a.attempts = 0 /\ a.depth = 0 /\ Opened(a) = 0
        /\ b.held = 0 /\ b.attempts = 0 /\ b.depth = 0 /\ Opened(b) = 0
    BY DEF Idle, Opened, Open
  <2> HIDE DEF a, b
  <2>3. HeldWithin(s)
    BY <2>2 DEF HeldWithin, ConstantsAssumption
  <2>4. task[t].held \in Nat
    BY TaskFacts DEF TaskState
  <2>5. Takes(t, s)
    BY <2>1, <2>2, <2>3, <2>4 DEF Takes
  <2> QED BY <1>1, <2>5
<1>3. ASSUME NEW t \in Task, Step(t) \/ LoseConnection(t) \/ LoseCommitReply(t)
      PROVE  HoldingsBounded' /\ PoolExact'
  <2>1. HeldWithin(task[t])
    BY DEF HoldingsBounded
  <2> QED BY <1>1, <1>3, <2>1, StepTakes
<1>4. ASSUME NEW h \in Thread, KillThread(h)
      PROVE  HoldingsBounded' /\ PoolExact'
  BY <1>4, KillThreadCounts
<1>5. ASSUME UNCHANGED <<task, clients>>
      PROVE  HoldingsBounded' /\ PoolExact'
  BY <1>5 DEF HoldingsBounded, HeldWithin, Opened, PoolExact, Slots, TasksOf
<1>6. ASSUME NEW h \in Thread, NEW d \in DistinctId, ForgetSeen(h, d)
      PROVE  HoldingsBounded' /\ PoolExact'
  BY <1>5, <1>6 DEF ForgetSeen
<1>7. CASE UNCHANGED vars
  BY <1>5, <1>7 DEF vars
<1> QED BY <1>2, <1>3, <1>4, <1>6, <1>7 DEF Next, Quiescent

LEMMA PoolInvariance == Spec => [](HoldingsBounded /\ PoolExact)
<1>1. Init => HoldingsBounded /\ PoolExact
  BY PoolInit, ConstantsAssumption
<1>2. IInv /\ HoldingsBounded /\ PoolExact /\ [Next]_vars => (HoldingsBounded /\ PoolExact)'
  BY PoolNext, ConstantsAssumption
<1> QED BY <1>1, <1>2, Invariance, PTL DEF Spec

(* The clients of a thread's pool in use are those its tasks hold, counted   *)
(* one by one, and no more than the pool has: db.postgresQuery and           *)
(* postgresTransaction give back exactly what they took, whether a statement *)
(* fails, a merge is tried again inside a failed transaction, or the thread  *)
(* dies.                                                                    *)
THEOREM PoolExactHolds == Spec => []PoolExact
BY PoolInvariance, PTL

(* alias() calls itself inside failed transactions, but what a task holds is *)
(* bounded by its failed merges and by the calls still waiting; hence by     *)
(* MAX_FAILED_PERSON_MERGE_ATTEMPTS, which counts the failed merges of all   *)
(* levels.                                                                  *)
THEOREM HoldingsBoundedHolds == Spec => []HoldingsBounded
BY PoolInvariance, PTL

(* Whatever failed on the way, an event that has left alias() has given back *)
(* every client: a thread none of whose tasks is in alias() uses none.      *)
THEOREM NoClientLeaks ==
  Spec => [](\A h \in Thread :
               (\A t \in TasksOf(h) : task[t].pc \notin AliasPC) => clients[h] = 0)
<1>1. ASSUME IInv, HoldingsBounded, PoolExact, NEW h \in Thread,
             \A t \in TasksOf(h) : task[t].pc \notin AliasPC
      PROVE  clients[h] = 0
  <2>1. ASSUME NEW t \in TasksOf(h) PROVE task[t].held = 0
    <3>1. HeldWithin(task[t]) /\ Opened(task[t]) = 0
      BY <1>1 DEF HoldingsBounded, TasksOf, Opened, Open, AliasPC, PC
    <3>2. task[t].held \in Nat
      BY <1>1, ConstantsAssumption, TaskFacts DEF TasksOf, TaskState
    <3> QED BY <1>1, <3>1, <3>2 DEF HeldWithin
  <2>2. Slots(h) = {}
    BY <2>1 DEF Slots
  <2> QED BY <1>1, <2>2, FS_EmptySet DEF PoolExact
<1>2. IInv /\ HoldingsBounded /\ PoolExact =>
        \A h \in Thread :
          (\A t \in TasksOf(h) : task[t].pc \notin AliasPC) => clients[h] = 0
  BY <1>1
<1> QED BY <1>2, Invariance, PoolInvariance, PTL

(* The tasks of a thread that hold clients of its pool.                      *)
Holders(h) == {t \in TasksOf(h) : task[t].held > 0}

(* A task waits for a client only while the failed merges of others use up   *)
(* the pool: MAX_FAILED_PERSON_MERGE_ATTEMPTS is what one task may have of    *)
(* it, so at least PoolSize over that many tasks hold clients (four, with    *)
(* the ten clients of createPostgresPool and three attempts), however many   *)
(* events the thread handles, and whatever fails.                            *)
THEOREM ExhaustedPoolHasHolders ==
  Spec => [](\A h \in Thread : \A t \in TasksOf(h) : ~ FreeClient(t) =>
               /\ IsFiniteSet(Holders(h))
               /\ PoolSize <= Cardinality(Holders(h)) * MAX_FAILED_PERSON_MERGE_ATTEMPTS)
<1> DEFINE max == MAX_FAILED_PERSON_MERGE_ATTEMPTS
<1>0. max \in Nat \ {0} /\ PoolSize \in Nat
  BY ConstantsAssumption DEF ConstantsAssumption
<1>1. ASSUME IInv, HoldingsBounded, PoolExact, NEW h \in Thread, NEW t \in TasksOf(h), ~ FreeClient(t)
      PROVE  /\ IsFiniteSet(Holders(h))
             /\ PoolSize <= Cardinality(Holders(h)) * max
  <2>1. ASSUME NEW u \in TasksOf(h) PROVE task[u].held \in Nat /\ task[u].held <= max
    <3>1. HeldWithin(task[u]) /\ Opened(task[u]) \in {0, 1}
      BY <1>1 DEF HoldingsBounded, TasksOf, Opened
    <3>2. task[u].held \in Nat /\ task[u].attempts \in Nat
      BY <1>1, ConstantsAssumption, TaskFacts DEF TasksOf, TaskState
    <3> QED BY <1>0, <3>1, <3>2 DEF HeldWithin
  <2>2. IsFiniteSet(Slots(h)) /\ clients[h] = Cardinality(Slots(h))
    BY <1>1 DEF PoolExact
  <2>3. IsFiniteSet(Holders(h))
    <3> DEFINE first == {<<u, 1>> : u \in Holders(h)}
               holder == [s \in first |-> s[1]]
    <3>1. first \subseteq Slots(h)
      BY <2>1 DEF Slots, Holders
    <3>2. IsFiniteSet(first)
      BY <2>2, <3>1, FS_Subset
    <3>3. holder \in [first -> Holders(h)]
      OBVIOUS
    <3>4. \A u \in Holders(h) : \E s \in first : holder[s] = u
      <4>1. \A u \in Holders(h) : <<u, 1>> \in first /\ holder[<<u, 1>>] = u
        OBVIOUS
      <4> QED BY <4>1
    <3>5. holder \in Surjection(first, Holders(h))
      BY <3>3, <3>4 DEF Surjection
    <3> QED BY <3>2, <3>5, FS_Surjection
  <2>4. Slots(h) \subseteq Holders(h) \X (1..max)
    BY <1>0, <2>1 DEF Slots, Holders
  <2>5. /\ IsFiniteSet(Holders(h) \X (1..max))
        /\ Cardinality(Holders(h) \X (1..max)) = Cardinality(Holders(h)) * max
    <3>1. IsFiniteSet(1..max) /\ Cardinality(1..max) = max
      BY <1>0, FS_Interval
    <3> QED BY <2>3, <3>1, FS_Product
  <2>6. /\ Cardinality(Slots(h)) <= Cardinality(Holders(h)) * max
        /\ Cardinality(Slots(h)) \in Nat
    BY <2>4, <2>5, FS_Subset, FS_CardinalityType
  <2>7. Cardinality(Holders(h)) * max \in Nat
    BY <2>5, FS_CardinalityType
  <2> HIDE DEF max
  <2>8. clients[h] >= PoolSize
    BY <1>0, <1>1, <2>2, <2>6 DEF FreeClient, TasksOf
  <2> QED BY <1>0, <2>2, <2>3, <2>6, <2>7, <2>8
<1>2. IInv /\ HoldingsBounded /\ PoolExact =>
        \A h \in Thread : \A t \in TasksOf(h) : ~ FreeClient(t) =>
          /\ IsFiniteSet(Holders(h))
          /\ PoolSize <= Cardinality(Holders(h)) * MAX_FAILED_PERSON_MERGE_ATTEMPTS
  BY <1>1
<1> QED BY <1>2, Invariance, PoolInvariance, PTL
=============================================================================
