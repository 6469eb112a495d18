---------------------------- MODULE KafkaProducer ----------------------------
(***************************************************************************)
(* KafkaProducerWrapper (src/src/utils/db/kafka-producer-wrapper.ts) of one *)
(* worker thread: messages are queued in a batch, which is handed to        *)
(* producer.sendBatch when it is full, old, or on an interval.  queueMessage *)
(* and flush run without interruption up to sendBatch, and then wait for    *)
(* the broker while other tasks queue and flush.  The end of the thread is  *)
(* stopPiscina's: flushKafkaMessages, then destroy.                         *)
(*                                                                          *)
(* Abstracted: topics and values (a message has a size), the clock (time    *)
(* since the last flush is over the limit or not), retries inside kafkajs.  *)
(***************************************************************************)
EXTENDS Integers, Sequences, SequencesExt

CONSTANTS
  Message,       \* the messages, each queued at most once
  Size,          \* their sizes in bytes
  maxBatchSize,  \* KAFKA_MAX_MESSAGE_BATCH_SIZE
  maxQueueSize,  \* KAFKA_PRODUCER_MAX_QUEUE_SIZE
  MaxFailures    \* bound: no send fails once this many messages have

ASSUME ProducerAssumption ==
  /\ Size \in [Message -> Nat]
  /\ maxBatchSize \in Nat
  /\ maxQueueSize \in Nat
  /\ MaxFailures \in Nat

VARIABLES
  currentBatch,      \* messages waiting
  currentBatchSize,  \* what flush and queueMessage believe is their size
  late,              \* more than flushFrequencyMs passed since lastFlushTime
  sends,             \* batches handed to sendBatch and not answered
  arrived,           \* messages Kafka has acknowledged
  failed,            \* messages of batches whose sendBatch failed
  phase,             \* of the thread: "running", "flushing", "destroyed"
  awaited,           \* the batch flushKafkaMessages waits for, or <<>>
  queued,            \* history: messages passed to queueMessage, in order
  handed             \* history: messages handed to sendBatch, in order

batching == <<currentBatch, currentBatchSize, late, handed>>
vars == <<currentBatch, currentBatchSize, late, sends, arrived, failed, phase,
          awaited, queued, handed>>

TypeOK ==
  /\ currentBatch \in Seq(Message)
  /\ currentBatchSize \in Nat
  /\ late \in BOOLEAN
  /\ sends \subseteq Seq(Message)
  /\ arrived \subseteq Message
  /\ failed \subseteq Message
  /\ phase \in {"running", "flushing", "destroyed"}
  /\ awaited \in Seq(Message)
  /\ queued \in Seq(Message)
  /\ handed \in Seq(Message)

Init ==
  /\ currentBatch = <<>>
  /\ currentBatchSize = 0
  /\ late = FALSE
  /\ sends = {}
  /\ arrived = {}
  /\ failed = {}
  /\ phase = "running"
  /\ awaited = <<>>
  /\ queued = <<>>
  /\ handed = <<>>

(* Mutant: the size of the message that starts the new batch is forgotten. *)
FlushForgettingSize(batch, append) ==
  IF currentBatch \o batch = <<>>
  THEN UNCHANGED <<batching, sends>>
  ELSE /\ sends' = sends \cup {currentBatch \o batch}
       /\ handed' = handed \o currentBatch \o batch
       /\ currentBatch' = append
       /\ currentBatchSize' = 0
       /\ late' = FALSE

(* Mutant: the new batch is [append] also when nothing is appended. *)
FlushPushingUndefined(batch, append) ==
  IF currentBatch \o batch = <<>>
  THEN UNCHANGED <<batching, sends>>
  ELSE /\ sends' = sends \cup {currentBatch \o batch}
       /\ handed' = handed \o currentBatch \o batch
       /\ currentBatch' = IF append = <<>> THEN <<"undefined">> ELSE append
       /\ currentBatchSize' = IF append = <<>> THEN 0 ELSE Size[append[1]]
       /\ late' = FALSE

(* Mutant: the batch is emptied when the send has been answered. *)
FlushKeepingBatch(batch, append) ==
  IF currentBatch \o batch = <<>>
  THEN UNCHANGED <<batching, sends>>
  ELSE /\ sends' = sends \cup {currentBatch \o batch}
       /\ handed' = handed \o currentBatch \o batch
       /\ currentBatch' = currentBatch \o append
       /\ UNCHANGED currentBatchSize
       /\ late' = FALSE

(* Mutant: a flush that appends nothing leaves the size as it was. *)
FlushKeepingSize(batch, append) ==
  IF currentBatch \o batch = <<>>
  THEN UNCHANGED <<batching, sends>>
  ELSE /\ sends' = sends \cup {currentBatch \o batch}
       /\ handed' = handed \o currentBatch \o batch
       /\ currentBatch' = append
       /\ currentBatchSize' = IF append = <<>> THEN currentBatchSize ELSE Size[append[1]]
       /\ late' = FALSE

(* flush: an empty batch sends nothing and appends nothing; otherwise the   *)
(* batch, which `batch' was just pushed to, is swapped for `append' before  *)
(* sendBatch is awaited.                                                    *)
Flush(batch, append) ==
  IF currentBatch \o batch = <<>>
  THEN UNCHANGED <<batching, sends>>
  ELSE /\ sends' = sends \cup {currentBatch \o batch}
       /\ handed' = handed \o currentBatch \o batch
       /\ currentBatch' = append
       /\ currentBatchSize' = IF append = <<>> THEN 0 ELSE Size[append[1]]
       /\ late' = FALSE

(* queueMessage: a message that does not fit flushes the batch and starts   *)
(* the next one; one that fits is pushed, and a batch that is now long or   *)
(* late is flushed.                                                         *)
QueueMessage(m) ==
  /\ phase # "destroyed"
  /\ m \notin ToSet(queued)
  /\ queued' = Append(queued, m)
  /\ IF currentBatchSize + Size[m] > maxBatchSize
     THEN Flush(<<>>, <<m>>)
     ELSE IF late \/ Len(currentBatch) + 1 >= maxQueueSize
          THEN Flush(<<m>>, <<>>)
          ELSE /\ currentBatch' = Append(currentBatch, m)
               /\ currentBatchSize' = currentBatchSize + Size[m]
               /\ UNCHANGED <<late, handed, sends>>
  /\ UNCHANGED <<arrived, failed, phase, awaited>>

(* Mutant: the interval flushes full batches only. *)
IntervalFlushIfFull ==
  /\ phase # "destroyed"
  /\ Len(currentBatch) >= maxQueueSize
  /\ Flush(<<>>, <<>>)
  /\ UNCHANGED <<arrived, failed, phase, awaited, queued>>

(* setInterval(() => this.flush(), flushFrequencyMs) *)
IntervalFlush ==
  /\ phase # "destroyed"
  /\ currentBatch # <<>>
  /\ Flush(<<>>, <<>>)
  /\ UNCHANGED <<arrived, failed, phase, awaited, queued>>

TimePasses ==
  /\ ~ late
  /\ late' = TRUE
  /\ UNCHANGED <<currentBatch, currentBatchSize, sends, arrived, failed, phase,
                 awaited, queued, handed>>

(* sendBatch answers: all of the batch arrived. *)
Sent(b) ==
  /\ phase # "destroyed"
  /\ b \in sends
  /\ sends' = sends \ {b}
  /\ arrived' = arrived \cup ToSet(b)
  /\ UNCHANGED <<batching, failed, phase, awaited, queued>>

(* sendBatch throws: the batch is not sent again. *)
SendFails(b) ==
  /\ phase # "destroyed"
  /\ b \in sends
  /\ Cardinality(failed) < MaxFailures
  /\ sends' = sends \ {b}
  /\ failed' = failed \cup ToSet(b)
  /\ UNCHANGED <<batching, arrived, phase, awaited, queued>>

(* flushKafkaMessages: the last flush, whose own batch is awaited.  Tasks   *)
(* that did not end in time may still queue messages.                       *)
FlushKafkaMessages ==
  /\ phase = "running"
  /\ phase' = "flushing"
  /\ awaited' = currentBatch
  /\ Flush(<<>>, <<>>)
  /\ UNCHANGED <<arrived, failed, queued>>

(* piscina.destroy, once the flush is answered. *)
Destroy ==
  /\ phase = "flushing"
  /\ awaited \notin sends
  /\ phase' = "destroyed"
  /\ UNCHANGED <<batching, sends, arrived, failed, awaited, queued>>

Next ==
  \/ \E m \in Message : QueueMessage(m)
  \/ IntervalFlush \/ TimePasses
  \/ \E b \in sends : Sent(b) \/ SendFails(b)
  \/ FlushKafkaMessages \/ Destroy

Spec == Init /\ [][Next]_vars

(* The interval fires, and the broker answers. *)
FairSpec ==
  /\ Spec
  /\ WF_vars(IntervalFlush)
  /\ WF_vars(\E b \in sends : Sent(b) \/ SendFails(b))

-----------------------------------------------------------------------------
(* Properties                                                               *)

(* t is s with some elements left out. *)
IsSubsequence(t, s) ==
  \E at \in [DOMAIN t -> DOMAIN s] :
    /\ \A i \in DOMAIN t : t[i] = s[at[i]]
    /\ \A i, j \in DOMAIN t : i < j => at[i] < at[j]

(* A message that fits no batch may get lost, as flush does not append it to *)
(* an empty one, but no message that fits is, and none is handed over out of *)
(* order or again.                                                          *)
FittingInOrder ==
  /\ IsSubsequence(handed \o currentBatch, queued)
  /\ \A m \in ToSet(queued) :
       Size[m] <= maxBatchSize => m \in ToSet(handed \o currentBatch)

(* The running sums of the sizes of b, if its size is limit at most. *)
RunningSizes(b, limit) ==
  {size \in [0 .. Len(b) -> 0 .. limit] :
     size[0] = 0 /\ \A i \in DOMAIN b : size[i] = size[i - 1] + Size[b[i]]}

(* No batch is larger than the broker accepts or longer than configured,    *)
(* unless it is a single message; so the size kept in currentBatchSize must *)
(* be the batch's.                                                          *)
BatchesWithinLimits ==
  \A b \in sends \cup {currentBatch} :
    Len(b) <= 1 \/ (RunningSizes(b, maxBatchSize) # {} /\ Len(b) <= maxQueueSize)

(* A message handed to Kafka is in exactly one place: in flight, arrived or *)
(* failed; overlapping sends of one message never exist.                    *)
AccountedOnce ==
  \A m \in ToSet(handed) :
    LET flying == Cardinality({b \in sends : m \in ToSet(b)})
    IN  flying + (IF m \in arrived THEN 1 ELSE 0) + (IF m \in failed THEN 1 ELSE 0) = 1

(* A queued message that fits is acknowledged, or its send fails, unless    *)
(* the thread is destroyed first: none waits forever for a batch to fill.   *)
EveryMessageIsSent ==
  \A m \in Message :
    Size[m] <= maxBatchSize /\ m \in ToSet(queued)
      ~> m \in arrived \cup failed \/ phase = "destroyed"

(* Messages that fit are neither lost nor reordered by one that does not, in *)
(* batches within the limits, each sent once (kafka-producer-wrapper.ts).    *)
ProducerOK == TypeOK /\ FittingInOrder /\ BatchesWithinLimits /\ AccountedOnce
=============================================================================
