--------------------------- MODULE CeleryQueueProofs ---------------------------
(***************************************************************************)
(* Proofs about CeleryQueue, for any number of loops, messages and errors.  *)
(* PollsUnlessPaused is inductive; OneLoop needs to know that the one loop  *)
(* not leaked is the one a pause would await, or the last pause awaits.     *)
(***************************************************************************)
EXTENDS CeleryQueue, TLAPS

(* Closing starts with disconnect. *)
ClosingLate == closing => phase \in {"disconnecting", "stopped"}

(* What the queue, or its last pause, awaits is at most one loop. *)
OneAwaited ==
  /\ paused => channels = {}
  /\ ~ paused => pausing = {}
  /\ \A k, l \in channels \cup pausing : k = l

AliveAreAwaited == Alive \ leaked \subseteq channels \cup pausing

IInv == TypeOK /\ ClosingLate /\ OneAwaited /\ AliveAreAwaited /\ PollsUnlessPaused

LEMMA InitIInv == Init => IInv
<1> SUFFICES ASSUME Init PROVE IInv
  OBVIOUS
<1>1. TypeOK
  BY QueueAssumption DEF Init, TypeOK
<1>2. ClosingLate /\ OneAwaited /\ AliveAreAwaited
  BY QueueAssumption DEF Init, ClosingLate, OneAwaited, AliveAreAwaited, Alive
<1>3. PollsUnlessPaused
  BY QueueAssumption DEF Init, PollsUnlessPaused
<1> QED BY <1>1, <1>2, <1>3 DEF IInv

(* A loop polls, fails or ends. *)
LEMMA PollIInv ==
  ASSUME IInv, NEW l \in Loop, Poll(l) \/ PopFails(l)
  PROVE  IInv'
<1> USE DEF IInv, TypeOK, ClosingLate, Goto, stop
<1>1. UNCHANGED <<channels, paused, pausing, leaked, closing>>
  BY DEF Poll, Receive, Pop, PopNothing, PopFails
<1>2. /\ l \in Alive
      /\ loop' \in [Loop -> {"unused", "due", "popping", "ended", "dead"}]
      /\ \A k \in Loop : k # l => loop'[k] = loop[k]
      /\ loop'[l] = "ended" => closing \/ paused
      /\ loop'[l] \in {"due", "popping", "ended", "dead"}
  BY DEF Poll, Receive, Pop, PopNothing, PopFails, Alive
<1>3. TypeOK' /\ ClosingLate'
  BY <1>1, <1>2, QueueAssumption DEF Poll, Receive, Pop, PopNothing, PopFails
<1>4. Alive' \subseteq Alive
  BY <1>2 DEF Alive
<1>5. OneAwaited' /\ AliveAreAwaited'
  BY <1>1, <1>4 DEF OneAwaited, AliveAreAwaited
<1>6. PollsUnlessPaused'
  BY <1>1, <1>2 DEF PollsUnlessPaused
<1> QED BY <1>3, <1>5, <1>6

(* Only pause and resume change what is awaited. *)
LEMMA PauseIInv ==
  ASSUME IInv, Pause
  PROVE  IInv'
<1> USE DEF IInv, TypeOK, ClosingLate, stop, Pause
<1>1. TypeOK'
  OBVIOUS
<1>2. OneAwaited' /\ AliveAreAwaited'
  BY DEF OneAwaited, AliveAreAwaited, Alive
<1> QED BY <1>1, <1>2 DEF PollsUnlessPaused

LEMMA ResumeIInv ==
  ASSUME IInv, Resume
  PROVE  IInv'
<1> USE DEF IInv, TypeOK, ClosingLate, Goto, stop
<1>1. PICK l \in Loop :
        /\ Free(l)
        /\ Goto(l, "due")
        /\ channels' = channels \cup {l}
        /\ leaked' = (leaked \ {l}) \cup Alive
  BY DEF Resume
<1>2. channels' = {l} /\ pausing' = {} /\ paused' = FALSE
  BY <1>1 DEF Resume, OneAwaited
<1>3. TypeOK' /\ ClosingLate'
  BY <1>1, <1>2 DEF Resume, Alive
<1>4. Alive' = Alive \cup {l}
  BY <1>1 DEF Alive
<1>5. OneAwaited' /\ AliveAreAwaited'
  BY <1>1, <1>2, <1>4 DEF OneAwaited, AliveAreAwaited
<1>6. PollsUnlessPaused'
  BY <1>1, <1>2 DEF PollsUnlessPaused
<1> QED BY <1>3, <1>5, <1>6

(* Stopping, tasks and other programs leave the loops alone. *)
LEMMA OtherIInv ==
  ASSUME IInv,
         \/ Stop \/ Disconnect \/ Disconnected
         \/ \E m \in Message : TaskDone(m) \/ Publish(m)
         \/ UNCHANGED vars
  PROVE  IInv'
<1> USE DEF IInv, TypeOK, ClosingLate, stop, polling
<1>1. UNCHANGED <<loop, channels, paused, pausing, leaked>> /\ (closing => closing')
  BY DEF Stop, Disconnect, Disconnected, TaskDone, Publish, vars
<1>2. TypeOK' /\ ClosingLate'
  <2>1. CASE Stop
    BY <2>1 DEF Stop
  <2>2. CASE Disconnect
    BY <2>2 DEF Disconnect
  <2>3. CASE Disconnected
    BY <2>3 DEF Disconnected
  <2>4. ASSUME NEW m \in Message, TaskDone(m) \/ Publish(m) PROVE TypeOK' /\ ClosingLate'
    BY <2>4 DEF TaskDone, Publish
  <2>5. CASE UNCHANGED vars
    BY <2>5 DEF vars
  <2> QED BY <2>1, <2>2, <2>3, <2>4, <2>5
<1>3. OneAwaited' /\ AliveAreAwaited' /\ PollsUnlessPaused'
  BY <1>1 DEF OneAwaited, AliveAreAwaited, Alive, PollsUnlessPaused
<1> QED BY <1>2, <1>3

LEMMA Invariance == Spec => []IInv
<1>1. IInv /\ [Next]_vars => IInv'
  BY PollIInv, PauseIInv, ResumeIInv, OtherIInv DEF Next
<1> QED BY <1>1, InitIInv, PTL DEF Spec

(* Pauses and resumes in any order add no polling loop, unless they leak one *)
(* that had not noticed the pause.                                          *)
THEOREM OneLoopHolds == Spec => []OneLoop
<1>1. IInv => OneLoop
  BY DEF IInv, OneAwaited, AliveAreAwaited, OneLoop, Alive
<1> QED BY <1>1, Invariance, PTL

(* A queue that is neither paused nor closing polls, or a loop has died. *)
THEOREM PollsUnlessPausedHolds == Spec => []PollsUnlessPaused
<1>1. IInv => PollsUnlessPaused
  BY DEF IInv
<1> QED BY <1>1, Invariance, PTL

(* LoopsOK: types, and one loop polls unless the queue is paused, closing, or *)
(* an exception ended it (RedisBroker.pause, resume and channelListener).    *)
THEOREM LoopsOKHolds == Spec => []LoopsOK
<1>1. LoopsOK <=> TypeOK /\ OneLoop /\ PollsUnlessPaused
  BY DEF LoopsOK
<1>2. IInv => TypeOK
  BY DEF IInv
<1> QED
  BY <1>1, <1>2, Invariance, OneLoopHolds, PollsUnlessPausedHolds, PTL
=============================================================================
