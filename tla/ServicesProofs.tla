---------------------------- MODULE ServicesProofs -----------------------------
(***************************************************************************)
(* Proofs about KafkaProducer, LogBuffer, ExportEvents and GeoIP, for any    *)
(* messages, entries, metrics, events, servers and bounds.  The modules     *)
(* share no variable; each has its inductive invariant and theorems here,   *)
(* and so has its specification but for that of KafkaProducer.              *)
(***************************************************************************)
EXTENDS KafkaProducer, LogBuffer, ExportEvents, GeoIP, FiniteSetTheorems, SequenceTheorems,
        WellFoundedInduction, TLAPS

-----------------------------------------------------------------------------
(* LogBuffer                                                                *)

BufferSpec == BufferInit /\ [][LogNext \/ MetricNext]_bufferVars

(* The entries of the INSERTs under way. *)
Inserting == {ToSet(inserts[i]) : i \in DOMAIN inserts}

(* Only what was added is anywhere, and the buffer holds nothing written:    *)
(* it is emptied whenever something is.                                     *)
OnlyAdded ==
  /\ ToSet(logs) \subseteq added \ written
  /\ \A ins \in Inserting : ins \subseteq added

(* The lucky entries of an INSERT were in the buffer before any INSERT of     *)
(* its time was sent.  So they are in all of them, and in the buffer, or in *)
(* none that has another entry in common,                                   *)
LuckyTogether ==
  /\ \A ins \in Inserting, e \in ToSet(logs) \ unlucky : e \in ins
  /\ \A ins \in Inserting : \A e \in ins \ unlucky :
       /\ ins \cap ToSet(logs) # {} => e \in ToSet(logs)
       /\ \A others \in Inserting : ins \cap others # {} => e \in others

(* and a duplicate key fails an INSERT only if they are written already.     *)
LuckyIsWritten ==
  \A ins \in Inserting : \A e \in ins \ unlucky : e \in written \/ ins \cap written = {}

(* Captures are made one at a time, each of the metric as it is, and the rest *)
(* of the metrics has been captured.                                        *)
CaptureAgrees ==
  /\ \A c, d \in capturing : c = d
  /\ \A c \in capturing \ disturbed : amount = metrics[c]
  /\ \A c \in PluginConfig \ disturbed :
       captured[c] + (IF capturing = {} \/ c \in capturing \cup uncaptured THEN metrics[c] ELSE 0)
         = updates[c]

LogIInv ==
  BufferTypeOK /\ LostLogHasCause /\ OnlyAdded /\ LuckyTogether /\ LuckyIsWritten /\ CaptureAgrees

LEMMA AppendedElement ==
  ASSUME NEW S, NEW s \in Seq(S), NEW x \in S
  PROVE  /\ Append(s, x) \in Seq(S)
         /\ \A i \in DOMAIN s : i \in DOMAIN Append(s, x) /\ Append(s, x)[i] = s[i]
         /\ Len(s) + 1 \in DOMAIN Append(s, x) /\ Append(s, x)[Len(s) + 1] = x
         /\ \A i \in DOMAIN Append(s, x) : i \in DOMAIN s \/ i = Len(s) + 1
<1>1. /\ Append(s, x) \in Seq(S) /\ Len(Append(s, x)) = Len(s) + 1 /\ Len(s) \in Nat
      /\ DOMAIN s = 1 .. Len(s) /\ DOMAIN Append(s, x) = 1 .. Len(s) + 1
  OBVIOUS
<1>2. \A i \in 1 .. Len(s) : Append(s, x)[i] = s[i]
  OBVIOUS
<1>3. Append(s, x)[Len(s) + 1] = x
  OBVIOUS
<1> QED BY <1>1, <1>2, <1>3

(* RemoveAt leaves the other elements. *)
LEMMA RemovedElement ==
  ASSUME NEW S, NEW s \in Seq(S), NEW i \in DOMAIN s
  PROVE  /\ RemoveAt(s, i) \in Seq(S)
         /\ \A j \in DOMAIN RemoveAt(s, i) : \E k \in DOMAIN s : RemoveAt(s, i)[j] = s[k]
         /\ \A k \in DOMAIN s :
              k # i => \E j \in DOMAIN RemoveAt(s, i) : RemoveAt(s, i)[j] = s[k]
<1> DEFINE n == Len(s)
           a == SubSeq(s, 1, i - 1)
           b == SubSeq(s, i + 1, n)
<1>1. n \in Nat /\ DOMAIN s = 1 .. n /\ i \in 1 .. n
  OBVIOUS
<1>2. /\ a \in Seq(S) /\ Len(a) = i - 1
      /\ \A k \in 1 .. i - 1 : a[k] = s[k]
  BY <1>1
<1>3. /\ b \in Seq(S) /\ Len(b) = n - i
      /\ \A k \in 1 .. n - i : b[k] = s[i + k]
  BY <1>1
<1> HIDE DEF a, b, n
<1>4. i \in Int /\ 1 <= i /\ i <= n
  BY <1>1
<1>5. /\ a \o b \in Seq(S) /\ DOMAIN (a \o b) = 1 .. n - 1
      /\ \A k \in 1 .. i - 1 : (a \o b)[k] = s[k]
      /\ \A k \in i .. n - 1 : (a \o b)[k] = s[k + 1]
  <2>1. a \o b \in Seq(S) /\ Len(a \o b) = Len(a) + Len(b)
    BY <1>2, <1>3, ConcatProperties
  <2>2. Len(a) + Len(b) = n - 1
    BY <1>1, <1>2, <1>3, <1>4
  <2>3. DOMAIN (a \o b) = 1 .. n - 1
    BY <2>1, <2>2
  <2>4. \A k \in 1 .. Len(a) + Len(b) : (a \o b)[k] = IF k <= Len(a) THEN a[k] ELSE b[k - Len(a)]
    BY <1>2, <1>3
  <2>5. ASSUME NEW k \in 1 .. i - 1 PROVE (a \o b)[k] = s[k]
    <3>1. k \in 1 .. n - 1 /\ k <= i - 1
      BY <1>1, <1>4
    <3> QED BY <1>2, <2>2, <2>4, <3>1
  <2>6. ASSUME NEW k \in i .. n - 1 PROVE (a \o b)[k] = s[k + 1]
    <3>1. k \in 1 .. n - 1 /\ ~(k <= i - 1)
      BY <1>1, <1>4
    <3>2. k - (i - 1) \in 1 .. n - i /\ i + (k - (i - 1)) = k + 1
      BY <1>1, <1>4
    <3>3. (a \o b)[k] = b[k - (i - 1)]
      BY <1>2, <2>2, <2>4, <3>1
    <3> QED BY <1>3, <3>2, <3>3
  <2> QED BY <2>1, <2>3, <2>5, <2>6
<1>6. RemoveAt(s, i) = a \o b
  BY DEF RemoveAt, a, b, n
<1>7. ASSUME NEW j \in 1 .. n - 1 PROVE \E k \in DOMAIN s : (a \o b)[j] = s[k]
  <2>1. CASE j <= i - 1
    <3>1. j \in 1 .. i - 1 /\ j \in DOMAIN s
      BY <1>1, <1>4, <2>1
    <3> QED BY <1>5, <3>1
  <2>2. CASE j > i - 1
    <3>1. j \in i .. n - 1 /\ j + 1 \in DOMAIN s
      BY <1>1, <1>4, <2>2
    <3> QED BY <1>5, <3>1
  <2>3. j <= i - 1 \/ j > i - 1
    BY <1>1, <1>4, <1>7
  <2> QED BY <2>1, <2>2, <2>3
<1>8. ASSUME NEW k \in DOMAIN s, k # i PROVE \E j \in 1 .. n - 1 : (a \o b)[j] = s[k]
  <2>1. CASE k < i
    <3>1. k \in 1 .. i - 1 /\ k \in 1 .. n - 1
      BY <1>1, <1>4, <2>1
    <3> QED BY <1>5, <3>1
  <2>2. CASE k > i
    <3>1. k - 1 \in i .. n - 1 /\ k - 1 \in 1 .. n - 1 /\ (k - 1) + 1 = k
      BY <1>1, <1>4, <2>2
    <3> QED BY <1>5, <3>1
  <2>3. k < i \/ k > i
    BY <1>1, <1>4, <1>8
  <2> QED BY <2>1, <2>2, <2>3
<1> QED BY <1>5, <1>6, <1>7, <1>8

LEMMA ToSetOfAppend ==
  ASSUME NEW S, NEW s \in Seq(S), NEW e \in S
  PROVE  ToSet(Append(s, e)) = ToSet(s) \cup {e}
<1>1. /\ \A i \in DOMAIN s : i \in DOMAIN Append(s, e) /\ Append(s, e)[i] = s[i]
      /\ Len(s) + 1 \in DOMAIN Append(s, e) /\ Append(s, e)[Len(s) + 1] = e
      /\ \A i \in DOMAIN Append(s, e) : i \in DOMAIN s \/ i = Len(s) + 1
  BY AppendedElement
<1> QED BY <1>1 DEF ToSet

(* An INSERT is sent with the entries of the buffer. *)
LEMMA InsertSent ==
  ASSUME BufferTypeOK, inserts' = Append(inserts, logs)
  PROVE  Inserting' = Inserting \cup {ToSet(logs)} /\ inserts' \in Seq(Seq(Entry))
<1>1. inserts \in Seq(Seq(Entry)) /\ logs \in Seq(Entry)
  BY DEF BufferTypeOK
<1>2. /\ Append(inserts, logs) \in Seq(Seq(Entry))
      /\ \A i \in DOMAIN inserts :
           i \in DOMAIN Append(inserts, logs) /\ Append(inserts, logs)[i] = inserts[i]
      /\ Len(inserts) + 1 \in DOMAIN Append(inserts, logs)
      /\ Append(inserts, logs)[Len(inserts) + 1] = logs
      /\ \A i \in DOMAIN Append(inserts, logs) : i \in DOMAIN inserts \/ i = Len(inserts) + 1
  BY <1>1, AppendedElement
<1>3. Inserting' \subseteq Inserting \cup {ToSet(logs)}
  BY <1>2 DEF Inserting
<1>4. Inserting \cup {ToSet(logs)} \subseteq Inserting'
  BY <1>2 DEF Inserting
<1> QED BY <1>2, <1>3, <1>4

(* An INSERT is answered. *)
LEMMA InsertAnswered ==
  ASSUME BufferTypeOK, NEW i \in DOMAIN inserts, inserts' = RemoveAt(inserts, i)
  PROVE  /\ ToSet(inserts[i]) \in Inserting
         /\ Inserting' \subseteq Inserting
         /\ Inserting \subseteq Inserting' \cup {ToSet(inserts[i])}
         /\ inserts' \in Seq(Seq(Entry))
<1>1. /\ RemoveAt(inserts, i) \in Seq(Seq(Entry))
      /\ \A j \in DOMAIN RemoveAt(inserts, i) : \E k \in DOMAIN inserts : RemoveAt(inserts, i)[j] = inserts[k]
      /\ \A k \in DOMAIN inserts :
           k # i => \E j \in DOMAIN RemoveAt(inserts, i) : RemoveAt(inserts, i)[j] = inserts[k]
  BY RemovedElement DEF BufferTypeOK
<1>2. Inserting' \subseteq Inserting
  BY <1>1 DEF Inserting
<1>3. Inserting \subseteq Inserting' \cup {ToSet(inserts[i])}
  BY <1>1 DEF Inserting
<1> QED BY <1>1, <1>2, <1>3 DEF Inserting

LEMMA LostLogInserting ==
  LostLogHasCause <=> added \ (written \cup ToSet(logs) \cup UNION Inserting) \subseteq unlucky
BY DEF LostLogHasCause, Inserting

LEMMA LostLogInsertingNext ==
  LostLogHasCause' <=> added' \ (written' \cup ToSet(logs') \cup UNION Inserting') \subseteq unlucky'
BY DEF LostLogHasCause, Inserting

(* The parts about log entries. *)
LogsInv ==
  /\ logs \in Seq(Entry) /\ inserts \in Seq(Seq(Entry)) /\ flushTimeout \in BOOLEAN
  /\ written \subseteq added /\ added \subseteq Entry /\ unlucky \subseteq added
  /\ added \ (written \cup ToSet(logs) \cup UNION Inserting) \subseteq unlucky
  /\ OnlyAdded /\ LuckyTogether /\ LuckyIsWritten

LEMMA AddLogInv ==
  ASSUME LogsInv, BufferTypeOK, NEW e \in Entry, AddLog(e)
  PROVE  LogsInv'
<1>1. /\ e \notin added /\ added' = added \cup {e} /\ flushTimeout' = TRUE
      /\ logs' = Append(logs, e) /\ UNCHANGED <<inserts, written>>
      /\ unlucky' = IF inserts # <<>> THEN unlucky \cup {e} ELSE unlucky
  BY DEF AddLog
<1>2. logs' \in Seq(Entry) /\ ToSet(logs') = ToSet(logs) \cup {e}
  BY <1>1, ToSetOfAppend DEF LogsInv
<1>3. Inserting' = Inserting
  BY <1>1 DEF Inserting
<1>4. inserts = <<>> => Inserting = {}
  BY DEF Inserting
<1>5. inserts # <<>> => unlucky' = unlucky \cup {e}
  BY <1>1
<1>6. unlucky' \subseteq added' /\ unlucky \subseteq unlucky'
  BY <1>1 DEF LogsInv
<1>7. OnlyAdded'
  BY <1>1, <1>2, <1>3 DEF OnlyAdded, LogsInv
<1>8. LuckyTogether'
  BY <1>1, <1>2, <1>3, <1>4, <1>5, <1>6 DEF LuckyTogether, OnlyAdded, LogsInv
<1>9. LuckyIsWritten'
  BY <1>1, <1>3, <1>6 DEF LuckyIsWritten, LogsInv
<1> QED BY <1>1, <1>2, <1>3, <1>6, <1>7, <1>8, <1>9 DEF LogsInv

LEMMA FlushLogsInv ==
  ASSUME LogsInv, BufferTypeOK, FlushLogs
  PROVE  LogsInv'
<1>1. flushTimeout' = FALSE /\ UNCHANGED <<logs, written, added, unlucky>>
  BY DEF FlushLogs
<1>2. CASE logs # <<>>
  <2>1. Inserting' = Inserting \cup {ToSet(logs)} /\ inserts' \in Seq(Seq(Entry))
    BY <1>2, InsertSent DEF FlushLogs
  <2>2. OnlyAdded'
    BY <1>1, <2>1 DEF OnlyAdded, LogsInv
  <2>3. LuckyTogether'
    <3>1. \A ins \in Inserting', e \in ToSet(logs) \ unlucky : e \in ins
      BY <2>1 DEF LuckyTogether, LogsInv
    <3>2. ASSUME NEW ins \in Inserting', NEW e \in ins \ unlucky, ins \cap ToSet(logs) # {}
          PROVE  e \in ToSet(logs)
      BY <2>1, <3>2 DEF LuckyTogether, LogsInv
    <3>3. ASSUME NEW ins \in Inserting', NEW e \in ins \ unlucky,
                 NEW others \in Inserting', ins \cap others # {}
          PROVE  e \in others
      BY <2>1, <3>1, <3>3 DEF LuckyTogether, LogsInv
    <3> QED BY <1>1, <3>1, <3>2, <3>3 DEF LuckyTogether
  <2>4. LuckyIsWritten'
    BY <1>1, <2>1 DEF LuckyIsWritten, OnlyAdded, LogsInv
  <2> QED BY <1>1, <2>1, <2>2, <2>3, <2>4 DEF LogsInv
<1>3. CASE logs = <<>>
  <2>1. inserts' = inserts
    BY <1>3 DEF FlushLogs
  <2>2. Inserting' = Inserting
    BY <2>1 DEF Inserting
  <2> QED BY <1>1, <2>1, <2>2 DEF LogsInv, OnlyAdded, LuckyTogether, LuckyIsWritten
<1> QED BY <1>2, <1>3

LEMMA LogsInsertedInv ==
  ASSUME LogsInv, BufferTypeOK, NEW i \in DOMAIN inserts, LogsInserted(i)
  PROVE  LogsInv'
<1> DEFINE ins == ToSet(inserts[i])
<1>1. /\ logs' = <<>> /\ UNCHANGED <<flushTimeout, added, unlucky>>
      /\ written' = IF ins \cap written = {} THEN written \cup ins ELSE written
      /\ inserts' = RemoveAt(inserts, i)
  BY DEF LogsInserted
<1>2. /\ ins \in Inserting /\ Inserting' \subseteq Inserting
      /\ Inserting \subseteq Inserting' \cup {ins} /\ inserts' \in Seq(Seq(Entry))
  BY <1>1, InsertAnswered
<1>3. logs' \in Seq(Entry) /\ ToSet(logs') = {}
  BY <1>1 DEF ToSet
<1> HIDE DEF ins
<1>4. written \subseteq written' /\ written' \subseteq written \cup ins /\ ins \subseteq added
  BY <1>1, <1>2 DEF OnlyAdded, LogsInv
<1>5. ins \ unlucky \subseteq written'
  BY <1>1, <1>2 DEF LuckyIsWritten, LogsInv
<1>6. ToSet(logs) \ unlucky \subseteq ins
  BY <1>2 DEF LuckyTogether, LogsInv
<1>7. OnlyAdded'
  BY <1>1, <1>2, <1>3 DEF OnlyAdded, LogsInv
<1>8. LuckyTogether'
  BY <1>1, <1>2, <1>3 DEF LuckyTogether, LogsInv
<1>9. LuckyIsWritten'
  <2> SUFFICES ASSUME NEW other \in Inserting', NEW e \in other \ unlucky,
                      e \notin written', NEW f \in other \cap written'
               PROVE  FALSE
    BY <1>1 DEF LuckyIsWritten
  <2>1. other \in Inserting /\ e \notin written
    BY <1>2, <1>4
  <2>2. f \notin written
    BY <2>1 DEF LuckyIsWritten, LogsInv
  <2>3. f \in ins
    BY <1>4, <2>2
  <2>4. e \in ins
    BY <1>2, <2>1, <2>3 DEF LuckyTogether, LogsInv
  <2> QED BY <1>5, <2>4
<1>10. added' \ (written' \cup ToSet(logs') \cup UNION Inserting') \subseteq unlucky'
  BY <1>1, <1>2, <1>3, <1>4, <1>5, <1>6 DEF LogsInv
<1> QED BY <1>1, <1>2, <1>3, <1>4, <1>7, <1>8, <1>9, <1>10 DEF LogsInv

LEMMA InsertRejectedInv ==
  ASSUME LogsInv, BufferTypeOK, NEW i \in DOMAIN inserts, InsertRejected(i)
  PROVE  LogsInv'
<1> DEFINE ins == ToSet(inserts[i])
<1>1. /\ logs' = <<>> /\ UNCHANGED <<flushTimeout, added, written>>
      /\ unlucky' = unlucky \cup ins /\ inserts' = RemoveAt(inserts, i)
  BY DEF InsertRejected
<1>2. /\ ins \in Inserting /\ Inserting' \subseteq Inserting
      /\ Inserting \subseteq Inserting' \cup {ins} /\ inserts' \in Seq(Seq(Entry))
  BY <1>1, InsertAnswered
<1>3. logs' \in Seq(Entry) /\ ToSet(logs') = {}
  BY <1>1 DEF ToSet
<1> HIDE DEF ins
<1>4. ins \subseteq added
  BY <1>2 DEF OnlyAdded, LogsInv
<1>5. ToSet(logs) \ unlucky \subseteq ins
  BY <1>2 DEF LuckyTogether, LogsInv
<1>6. OnlyAdded' /\ LuckyTogether'
  BY <1>1, <1>2, <1>3 DEF OnlyAdded, LuckyTogether, LogsInv
<1>7. LuckyIsWritten'
  BY <1>1, <1>2 DEF LuckyIsWritten, LogsInv
<1>8. added' \ (written' \cup ToSet(logs') \cup UNION Inserting') \subseteq unlucky'
  BY <1>1, <1>2, <1>3, <1>5 DEF LogsInv
<1> QED BY <1>1, <1>2, <1>3, <1>4, <1>6, <1>7, <1>8 DEF LogsInv

(* The parts about metrics. *)
MetricsInv ==
  /\ metrics \in [PluginConfig -> Nat]
  /\ capturing \subseteq PluginConfig /\ uncaptured \subseteq PluginConfig \ capturing
  /\ (uncaptured # {} => capturing # {}) /\ amount \in Nat
  /\ captured \in [PluginConfig -> Nat] /\ updates \in [PluginConfig -> 0 .. MaxUpdates]
  /\ disturbed \subseteq PluginConfig
  /\ CaptureAgrees

LEMMA UpdateMetricInv ==
  ASSUME LogBufferAssumption, MetricsInv, NEW c \in PluginConfig, UpdateMetric(c)
  PROVE  MetricsInv'
<1>1. /\ updates[c] < MaxUpdates
      /\ updates' = [updates EXCEPT ![c] = @ + 1] /\ metrics' = [metrics EXCEPT ![c] = @ + 1]
      /\ disturbed' = IF capturing # {} THEN disturbed \cup {c} ELSE disturbed
      /\ UNCHANGED <<capturing, amount, uncaptured, captured>>
  BY DEF UpdateMetric
<1>2. /\ metrics \in [PluginConfig -> Nat] /\ updates \in [PluginConfig -> 0 .. MaxUpdates]
      /\ captured \in [PluginConfig -> Nat] /\ MaxUpdates \in Nat
  BY DEF MetricsInv, LogBufferAssumption
<1>3. metrics' \in [PluginConfig -> Nat] /\ updates' \in [PluginConfig -> 0 .. MaxUpdates]
  BY <1>1, <1>2
<1>4. CaptureAgrees'
  <2>1. CASE capturing # {}
    <3>1. \A d \in PluginConfig \ disturbed' :
            /\ d \notin disturbed /\ metrics'[d] = metrics[d] /\ updates'[d] = updates[d]
      BY <1>1, <1>2, <2>1
    <3> QED BY <1>1, <2>1, <3>1 DEF CaptureAgrees, MetricsInv
  <2>2. CASE capturing = {}
    <3>1. \A d \in PluginConfig \ disturbed' : captured'[d] + metrics'[d] = updates'[d]
      <4> SUFFICES ASSUME NEW d \in PluginConfig \ disturbed PROVE captured[d] + metrics'[d] = updates'[d]
        BY <1>1, <2>2
      <4>1. captured[d] + metrics[d] = updates[d]
        BY <2>2 DEF CaptureAgrees, MetricsInv
      <4> QED BY <1>1, <1>2, <4>1
    <3> QED BY <1>1, <2>2, <3>1 DEF CaptureAgrees
  <2> QED BY <2>1, <2>2
<1>5. disturbed' \subseteq PluginConfig
  BY <1>1 DEF MetricsInv
<1> QED BY <1>1, <1>3, <1>4, <1>5 DEF MetricsInv

LEMMA SendPluginMetricsInv ==
  ASSUME MetricsInv, SendPluginMetrics
  PROVE  MetricsInv'
<1>1. /\ capturing = {} /\ UNCHANGED <<metrics, captured, updates, disturbed>>
  BY DEF SendPluginMetrics
<1>2. PICK c \in {d \in PluginConfig : metrics[d] > 0} :
        /\ capturing' = {c} /\ uncaptured' = {d \in PluginConfig : metrics[d] > 0} \ {c}
        /\ amount' = metrics[c]
  BY DEF SendPluginMetrics, CaptureNext
<1>3. \A d \in PluginConfig : metrics[d] > 0 \/ metrics[d] = 0
  BY DEF MetricsInv
<1>4. \A d \in PluginConfig \ disturbed : captured[d] + metrics[d] = updates[d]
  BY <1>1 DEF CaptureAgrees, MetricsInv
<1>5. CaptureAgrees'
  <2>1. ASSUME NEW d \in PluginConfig \ disturbed
        PROVE  captured[d] + (IF d \in capturing' \cup uncaptured' THEN metrics[d] ELSE 0) = updates[d]
    <3>1. d \in capturing' \cup uncaptured' \/ metrics[d] = 0
      BY <1>2, <1>3
    <3> QED BY <1>4, <3>1
  <2> QED BY <1>1, <1>2, <2>1 DEF CaptureAgrees
<1> QED BY <1>1, <1>2, <1>5 DEF MetricsInv

LEMMA CapturedInv ==
  ASSUME MetricsInv, NEW c \in PluginConfig, Captured(c)
  PROVE  MetricsInv'
<1>1. /\ c \in capturing /\ captured' = [captured EXCEPT ![c] = @ + amount]
      /\ UNCHANGED <<updates, disturbed>>
  BY DEF Captured
<1>2. capturing = {c} /\ c \notin uncaptured
  BY <1>1 DEF MetricsInv, CaptureAgrees
<1>3. captured' \in [PluginConfig -> Nat]
  BY <1>1 DEF MetricsInv
<1>4. \A d \in PluginConfig \ disturbed :
        captured'[d] + (IF d \in uncaptured THEN metrics[d] ELSE 0) = updates[d]
  <2> SUFFICES ASSUME NEW d \in PluginConfig \ disturbed
               PROVE  captured'[d] + (IF d \in uncaptured THEN metrics[d] ELSE 0) = updates[d]
    OBVIOUS
  <2>1. captured[d] + (IF d \in {c} \cup uncaptured THEN metrics[d] ELSE 0) = updates[d]
    BY <1>2 DEF CaptureAgrees, MetricsInv
  <2>2. CASE d = c
    <3>1. amount = metrics[c]
      BY <1>1, <2>2 DEF CaptureAgrees, MetricsInv
    <3> QED BY <1>1, <1>2, <2>1, <2>2, <3>1 DEF MetricsInv
  <2>3. CASE d # c
    <3>1. captured'[d] = captured[d]
      BY <1>1, <2>3 DEF MetricsInv
    <3> QED BY <2>1, <2>3, <3>1
  <2> QED BY <2>2, <2>3
<1>5. CASE uncaptured # {}
  <2>1. PICK n \in uncaptured : /\ capturing' = {n} /\ uncaptured' = uncaptured \ {n}
                                /\ amount' = metrics[n]
    BY <1>5 DEF Captured, CaptureNext
  <2>2. metrics' = metrics
    BY <1>5 DEF Captured
  <2>3. {n} \cup (uncaptured \ {n}) = uncaptured
    BY <2>1
  <2>4. CaptureAgrees'
    BY <1>1, <1>4, <2>1, <2>2, <2>3 DEF CaptureAgrees
  <2> QED BY <1>1, <1>3, <2>1, <2>2, <2>4 DEF MetricsInv
<1>6. CASE uncaptured = {}
  <2>1. capturing' = {} /\ metrics' = Zero /\ UNCHANGED <<uncaptured, amount>>
    BY <1>6 DEF Captured
  <2>2. \A d \in PluginConfig : metrics'[d] = 0
    BY <2>1 DEF Zero
  <2>3. CaptureAgrees'
    BY <1>1, <1>4, <1>6, <2>1, <2>2 DEF CaptureAgrees
  <2>4. metrics' \in [PluginConfig -> Nat]
    BY <2>1 DEF Zero
  <2> QED BY <1>1, <1>3, <1>6, <2>1, <2>3, <2>4 DEF MetricsInv
<1> QED BY <1>5, <1>6

LEMMA CaptureRejectedInv ==
  ASSUME MetricsInv, NEW c \in PluginConfig, CaptureRejected(c)
  PROVE  MetricsInv'
<1>1. /\ c \in capturing /\ capturing' = {} /\ uncaptured' = {}
      /\ disturbed' = disturbed \cup {d \in PluginConfig : metrics[d] > 0 /\ d \notin uncaptured \cup {c}}
      /\ UNCHANGED <<metrics, amount, captured, updates>>
  BY DEF CaptureRejected
<1>2. capturing = {c}
  BY <1>1 DEF MetricsInv, CaptureAgrees
<1>3. ASSUME NEW d \in PluginConfig \ disturbed' PROVE captured[d] + metrics[d] = updates[d]
  <2>1. captured[d] + (IF d \in {c} \cup uncaptured THEN metrics[d] ELSE 0) = updates[d]
    BY <1>1, <1>2 DEF CaptureAgrees, MetricsInv
  <2>2. d \in {c} \cup uncaptured \/ metrics[d] = 0
    BY <1>1 DEF MetricsInv
  <2> QED BY <2>1, <2>2
<1>4. CaptureAgrees'
  BY <1>1, <1>3 DEF CaptureAgrees
<1> QED BY <1>1, <1>4 DEF MetricsInv

(* The invariant holds. *)
LEMMA LogIInvParts ==
  LogIInv <=> LogsInv /\ MetricsInv /\ rejected \in 0 .. MaxRejected
BY LostLogInserting DEF LogIInv, BufferTypeOK, LogsInv, MetricsInv

LEMMA LogIInvPartsNext ==
  LogsInv' /\ MetricsInv' /\ (rejected \in 0 .. MaxRejected)' => LogIInv'
BY LostLogInsertingNext DEF LogIInv, BufferTypeOK, LogsInv, MetricsInv

LEMMA LogInvariance == BufferSpec => []LogIInv
<1>1. BufferInit => LogIInv
  <2> SUFFICES ASSUME BufferInit PROVE LogsInv /\ MetricsInv /\ rejected \in 0 .. MaxRejected
    BY LogIInvParts
  <2>1. <<>> \in Seq(Entry) /\ <<>> \in Seq(Seq(Entry)) /\ ToSet(<<>>) = {} /\ Inserting = {}
    BY DEF BufferInit, ToSet, Inserting
  <2>2. LogsInv
    BY <2>1 DEF BufferInit, LogsInv, OnlyAdded, LuckyTogether, LuckyIsWritten
  <2>3. MetricsInv
    BY LogBufferAssumption DEF BufferInit, MetricsInv, CaptureAgrees, Zero, LogBufferAssumption
  <2> QED BY <2>2, <2>3, LogBufferAssumption DEF BufferInit, LogBufferAssumption
<1>2. LogIInv /\ [LogNext \/ MetricNext]_bufferVars => LogIInv'
  <2> SUFFICES ASSUME LogIInv, [LogNext \/ MetricNext]_bufferVars
               PROVE  LogsInv' /\ MetricsInv' /\ (rejected \in 0 .. MaxRejected)'
    BY LogIInvPartsNext
  <2>0. /\ LogsInv /\ MetricsInv /\ rejected \in 0 .. MaxRejected /\ BufferTypeOK
        /\ LogBufferAssumption
    BY LogIInvParts, LogBufferAssumption DEF LogIInv
  <2>1. UNCHANGED metricVars => MetricsInv'
    BY <2>0 DEF metricVars, MetricsInv, CaptureAgrees
  <2>2. UNCHANGED logVars => LogsInv'
    <3> SUFFICES ASSUME UNCHANGED logVars PROVE LogsInv'
      OBVIOUS
    <3>1. Inserting' = Inserting
      BY DEF logVars, Inserting
    <3> QED BY <2>0, <3>1 DEF logVars, LogsInv, OnlyAdded, LuckyTogether, LuckyIsWritten
  <2>3. CASE LogNext
    <3>1. LogsInv'
      BY <2>0, <2>3, AddLogInv, FlushLogsInv, LogsInsertedInv, InsertRejectedInv DEF LogNext
    <3>2. UNCHANGED metricVars /\ rejected' \in 0 .. MaxRejected
      BY <2>0, <2>3 DEF LogNext, AddLog, FlushLogs, LogsInserted, InsertRejected, LogBufferAssumption
    <3> QED BY <2>1, <3>1, <3>2
  <2>4. CASE MetricNext
    <3>1. MetricsInv'
      BY <2>0, <2>4, UpdateMetricInv, SendPluginMetricsInv, CapturedInv, CaptureRejectedInv
         DEF MetricNext
    <3>2. UNCHANGED logVars /\ rejected' \in 0 .. MaxRejected
      BY <2>0, <2>4 DEF MetricNext, UpdateMetric, SendPluginMetrics, Captured, CaptureRejected,
                        LogBufferAssumption
    <3> QED BY <2>2, <3>1, <3>2
  <2>5. CASE UNCHANGED bufferVars
    BY <2>0, <2>1, <2>2, <2>5 DEF bufferVars
  <2> QED BY <2>3, <2>4, <2>5
<1> QED BY <1>1, <1>2, PTL DEF BufferSpec

(* Nothing a plugin logs or counts is lost or written twice, unless it met   *)
(* the INSERT or the send of the entries before it.                         *)
THEOREM BufferOKHolds == BufferSpec => []BufferOK
<1>1. LogIInv => BufferOK
  BY DEF LogIInv, BufferOK, CaptureAgrees, UpdatesCapturedOnce
<1> QED BY <1>1, LogInvariance, PTL

-----------------------------------------------------------------------------
(* ExportEvents                                                             *)

ExportSpec == ExportInit /\ [][ExportNext]_exportVars

(* An event that was not repeated is in one batch at most. *)
OneBatch ==
  \A b, c \in batches : \A e \in b.events \ repeated : e \in c.events => b = c

(* A batch on its way to or from a job has been tried. *)
JobsAreRetries == \A b \in batches : b.at # "export" => b.retries > 0

(* An event in a batch was seen once, met one retry error for each attempt    *)
(* but this one, and nothing else.                                          *)
CountedInBatch ==
  \A b \in batches : \A e \in b.events \ repeated :
    /\ counted["events_seen"][e] = 1
    /\ counted["retry_errors"][e] = b.retries
    /\ counted["events_delivered_successfully"][e] = 0
    /\ counted["undelivered_events"][e] = 0 /\ counted["other_errors"][e] = 0

(* Nothing is counted of an event before its first batch. *)
NotCountedBefore ==
  /\ \A e \in (OnEvent \ seen) \cup exportBuffer, metric \in Metrics : counted[metric][e] = 0
  /\ \A e \in exportBuffer : e \notin forgotten \cup repeated /\ \A b \in batches : e \notin b.events

(* An event that is in no batch any more was delivered or given up, once. *)
CountedAfter ==
  \A e \in OnEvent \ (forgotten \cup repeated) :
    (\A b \in batches : e \notin b.events) =>
      /\ counted["events_seen"][e] = counted["events_delivered_successfully"][e]
                                     + counted["undelivered_events"][e]
      /\ counted["events_seen"][e] <= 1

ExportIInv ==
  /\ ExportTypeOK /\ OneBatch /\ JobsAreRetries /\ CountedInBatch /\ NotCountedBefore
  /\ CountedAfter /\ GivenUpAfterRetries

LEMMA CountedValue ==
  ASSUME ExportTypeOK, NEW metrics_, NEW events
  PROVE  /\ Counted(metrics_, events) \in [Metrics -> [OnEvent -> Nat]]
         /\ \A metric \in Metrics, e \in OnEvent :
              Counted(metrics_, events)[metric][e]
                = counted[metric][e] + IF metric \in metrics_ /\ e \in events THEN 1 ELSE 0
<1> DEFINE more(metric, e) == counted[metric][e] + IF metric \in metrics_ /\ e \in events THEN 1 ELSE 0
<1>1. \A metric \in Metrics, e \in OnEvent : more(metric, e) \in Nat
  BY DEF ExportTypeOK
<1>2. Counted(metrics_, events) = [metric \in Metrics |-> [e \in OnEvent |-> more(metric, e)]]
  BY DEF Counted
<1> QED BY <1>1, <1>2

(* What a step that counts only events of b leaves alone. *)
CountsOnly(b) ==
  /\ counted' \in [Metrics -> [OnEvent -> Nat]]
  /\ \A metric \in Metrics, e \in OnEvent \ b.events : counted'[metric][e] = counted[metric][e]

LEMMA CountsOnlyBatch ==
  ASSUME ExportTypeOK, NEW b, NEW metrics_, counted' = Counted(metrics_, b.events)
  PROVE  /\ CountsOnly(b)
         /\ \A metric \in Metrics, e \in OnEvent \cap b.events :
              counted'[metric][e] = counted[metric][e] + IF metric \in metrics_ THEN 1 ELSE 0
<1>1. /\ counted' \in [Metrics -> [OnEvent -> Nat]]
      /\ \A metric \in Metrics, e \in OnEvent :
           counted'[metric][e] = counted[metric][e] + IF metric \in metrics_ /\ e \in b.events THEN 1 ELSE 0
  BY CountedValue
<1>2. \A metric \in Metrics, e \in OnEvent : counted[metric][e] \in Nat
  BY DEF ExportTypeOK
<1>3. \A metric \in Metrics, e \in OnEvent \ b.events : counted'[metric][e] = counted[metric][e]
  BY <1>1, <1>2
<1> QED BY <1>1, <1>3 DEF CountsOnly

(* The invariant once a batch goes on with the same events, *)
LEMMA BatchGoesOn ==
  ASSUME ExportIInv, NEW b \in batches, NEW c \in Batch, c.events = b.events,
         c.at # "export" => c.retries > 0,
         batches' = (batches \ {b}) \cup {c}, CountsOnly(b),
         \A e \in b.events \ repeated :
           /\ counted'["events_seen"][e] = 1
           /\ counted'["retry_errors"][e] = c.retries
           /\ counted'["events_delivered_successfully"][e] = 0
           /\ counted'["undelivered_events"][e] = 0 /\ counted'["other_errors"][e] = 0,
         UNCHANGED <<seen, exportBuffer, mishaps, forgotten, repeated>>
  PROVE  ExportIInv'
<1>1. /\ ExportTypeOK /\ b.events \subseteq seen /\ seen \subseteq OnEvent /\ b.events # {}
      /\ \A metric \in Metrics, e \in OnEvent \ b.events : counted'[metric][e] = counted[metric][e]
  BY DEF ExportIInv, ExportTypeOK, CountsOnly
<1>2. ExportTypeOK'
  BY <1>1 DEF ExportTypeOK, CountsOnly
<1>3. \A d \in batches' : d = c \/ (d \in batches /\ d # b)
  OBVIOUS
<1>4. \A d \in batches : d # b => \A e \in d.events \ repeated : e \notin b.events
  BY DEF ExportIInv, OneBatch
<1>5. OneBatch'
  BY <1>3, <1>4 DEF ExportIInv, OneBatch
<1>6. JobsAreRetries'
  BY <1>3 DEF ExportIInv, JobsAreRetries
<1>7. CountedInBatch'
  <2> SUFFICES ASSUME NEW d \in batches', NEW e \in d.events \ repeated
               PROVE  /\ counted'["events_seen"][e] = 1
                      /\ counted'["retry_errors"][e] = d.retries
                      /\ counted'["events_delivered_successfully"][e] = 0
                      /\ counted'["undelivered_events"][e] = 0 /\ counted'["other_errors"][e] = 0
    BY DEF CountedInBatch
  <2>1. CASE d # c
    <3>1. d \in batches /\ e \in OnEvent \ b.events
      BY <1>1, <1>3, <1>4, <2>1 DEF ExportTypeOK
    <3> QED BY <1>1, <3>1 DEF ExportIInv, CountedInBatch, Metrics
  <2> QED BY <2>1
<1>8. NotCountedBefore'
  <2>1. \A e \in (OnEvent \ seen) \cup exportBuffer : e \in OnEvent \ b.events
    BY <1>1 DEF ExportIInv, ExportTypeOK, NotCountedBefore
  <2>2. \A e \in exportBuffer : e \notin forgotten \cup repeated /\ \A d \in batches' : e \notin d.events
    BY <1>3 DEF ExportIInv, NotCountedBefore
  <2> QED BY <1>1, <2>1, <2>2 DEF ExportIInv, NotCountedBefore
<1>9. CountedAfter'
  <2> SUFFICES ASSUME NEW e \in OnEvent \ (forgotten \cup repeated), \A d \in batches' : e \notin d.events
               PROVE  /\ counted'["events_seen"][e] = counted'["events_delivered_successfully"][e]
                                                      + counted'["undelivered_events"][e]
                      /\ counted'["events_seen"][e] <= 1
    BY DEF CountedAfter
  <2>1. e \notin b.events /\ \A d \in batches : e \notin d.events
    OBVIOUS
  <2> QED BY <1>1, <2>1 DEF ExportIInv, CountedAfter, Metrics
<1>10. GivenUpAfterRetries'
  <2> SUFFICES ASSUME NEW e \in OnEvent \ repeated,
                      counted'["undelivered_events"][e] > counted'["other_errors"][e]
               PROVE  counted'["retry_errors"][e] = MAXIMUM_RETRIES + 1
    BY DEF GivenUpAfterRetries
  <2>1. e \notin b.events
    OBVIOUS
  <2> QED BY <1>1, <2>1 DEF ExportIInv, GivenUpAfterRetries, Metrics
<1> QED BY <1>2, <1>5, <1>6, <1>7, <1>8, <1>9, <1>10 DEF ExportIInv

(* once it is delivered or given up, *)
LEMMA BatchEnds ==
  ASSUME ExportIInv, NEW b \in batches, batches' = batches \ {b}, CountsOnly(b),
         \A e \in b.events \ repeated :
           /\ counted'["events_seen"][e] = 1
           /\ counted'["events_delivered_successfully"][e] + counted'["undelivered_events"][e] = 1
           /\ counted'["undelivered_events"][e] > counted'["other_errors"][e] =>
                counted'["retry_errors"][e] = MAXIMUM_RETRIES + 1,
         UNCHANGED <<seen, exportBuffer, mishaps, forgotten, repeated>>
  PROVE  ExportIInv'
<1>1. /\ ExportTypeOK /\ b.events \subseteq seen /\ seen \subseteq OnEvent
      /\ \A metric \in Metrics, e \in OnEvent \ b.events : counted'[metric][e] = counted[metric][e]
  BY DEF ExportIInv, ExportTypeOK, CountsOnly
<1>2. ExportTypeOK' /\ OneBatch' /\ JobsAreRetries'
  BY <1>1 DEF ExportIInv, ExportTypeOK, CountsOnly, OneBatch, JobsAreRetries
<1>3. CountedInBatch'
  <2> SUFFICES ASSUME NEW d \in batches', NEW e \in d.events \ repeated
               PROVE  /\ counted'["events_seen"][e] = 1
                      /\ counted'["retry_errors"][e] = d.retries
                      /\ counted'["events_delivered_successfully"][e] = 0
                      /\ counted'["undelivered_events"][e] = 0 /\ counted'["other_errors"][e] = 0
    BY DEF CountedInBatch
  <2>1. d \in batches /\ e \in OnEvent \ b.events
    BY <1>1 DEF ExportIInv, OneBatch, ExportTypeOK
  <2> QED BY <1>1, <2>1 DEF ExportIInv, CountedInBatch, Metrics
<1>4. NotCountedBefore'
  <2>1. \A e \in (OnEvent \ seen) \cup exportBuffer : e \in OnEvent \ b.events
    BY <1>1 DEF ExportIInv, ExportTypeOK, NotCountedBefore
  <2> QED BY <1>1, <2>1 DEF ExportIInv, NotCountedBefore
<1>5. CountedAfter'
  <2> SUFFICES ASSUME NEW e \in OnEvent \ (forgotten \cup repeated), \A d \in batches' : e \notin d.events
               PROVE  /\ counted'["events_seen"][e] = counted'["events_delivered_successfully"][e]
                                                      + counted'["undelivered_events"][e]
                      /\ counted'["events_seen"][e] <= 1
    BY DEF CountedAfter
  <2>1. CASE e \in b.events
    BY <2>1
  <2>2. CASE e \notin b.events
    <3>1. \A d \in batches : e \notin d.events
      BY <2>2
    <3> QED BY <1>1, <2>2, <3>1 DEF ExportIInv, CountedAfter, Metrics
  <2> QED BY <2>1, <2>2
<1>6. GivenUpAfterRetries'
  <2> SUFFICES ASSUME NEW e \in OnEvent \ repeated,
                      counted'["undelivered_events"][e] > counted'["other_errors"][e]
               PROVE  counted'["retry_errors"][e] = MAXIMUM_RETRIES + 1
    BY DEF GivenUpAfterRetries
  <2>1. CASE e \notin b.events
    BY <1>1, <2>1 DEF ExportIInv, GivenUpAfterRetries, Metrics
  <2> QED BY <2>1
<1> QED BY <1>2, <1>3, <1>4, <1>5, <1>6 DEF ExportIInv

(* and once some batches and what is buffered are forgotten. *)
LEMMA EventsForgotten ==
  ASSUME ExportIInv, batches' \subseteq batches, exportBuffer' \subseteq exportBuffer,
         forgotten \subseteq forgotten', forgotten' \subseteq seen,
         \A b \in batches \ batches' : b.events \subseteq forgotten',
         exportBuffer \ exportBuffer' \subseteq forgotten', exportBuffer' \cap forgotten' = {},
         mishaps' \in 0 .. MaxMishaps, UNCHANGED <<seen, counted, repeated>>
  PROVE  ExportIInv'
<1>1. ExportTypeOK'
  BY DEF ExportIInv, ExportTypeOK
<1>2. OneBatch' /\ JobsAreRetries' /\ CountedInBatch' /\ GivenUpAfterRetries'
  BY DEF ExportIInv, OneBatch, JobsAreRetries, CountedInBatch, GivenUpAfterRetries
<1>3. NotCountedBefore'
  BY DEF ExportIInv, NotCountedBefore
<1>4. CountedAfter'
  <2> SUFFICES ASSUME NEW e \in OnEvent \ (forgotten' \cup repeated), \A d \in batches' : e \notin d.events
               PROVE  /\ counted["events_seen"][e] = counted["events_delivered_successfully"][e]
                                                     + counted["undelivered_events"][e]
                      /\ counted["events_seen"][e] <= 1
    BY DEF CountedAfter
  <2>1. \A d \in batches : e \notin d.events
    OBVIOUS
  <2> QED BY <2>1 DEF ExportIInv, CountedAfter
<1> QED BY <1>1, <1>2, <1>3, <1>4 DEF ExportIInv

LEMMA BufferEventInv ==
  ASSUME ExportIInv, NEW e \in OnEvent, BufferEvent(e)
  PROVE  ExportIInv'
<1>1. /\ e \notin seen /\ seen' = seen \cup {e}
      /\ exportBuffer \subseteq exportBuffer' /\ exportBuffer' \subseteq exportBuffer \cup {e}
      /\ e \in ExportsToIgnore => exportBuffer' = exportBuffer
      /\ UNCHANGED <<batches, counted, mishaps, forgotten, repeated>>
  BY DEF BufferEvent
<1>2. ExportTypeOK'
  BY <1>1 DEF ExportIInv, ExportTypeOK
<1>3. OneBatch' /\ JobsAreRetries' /\ CountedInBatch' /\ GivenUpAfterRetries' /\ CountedAfter'
  BY <1>1 DEF ExportIInv, OneBatch, JobsAreRetries, CountedInBatch, GivenUpAfterRetries, CountedAfter
<1>4. NotCountedBefore'
  BY <1>1 DEF ExportIInv, ExportTypeOK, NotCountedBefore
<1> QED BY <1>2, <1>3, <1>4 DEF ExportIInv

LEMMA FlushBufferInv ==
  ASSUME ExportEventsAssumption, ExportIInv, FlushBuffer
  PROVE  ExportIInv'
<1> DEFINE c == [events |-> exportBuffer, retries |-> 0, at |-> "export"]
<1>1. /\ exportBuffer # {} /\ exportBuffer' = {} /\ batches' = batches \cup {c}
      /\ counted' = Counted({"events_seen"}, c.events)
      /\ UNCHANGED <<seen, mishaps, forgotten, repeated>>
  BY DEF FlushBuffer, Start, SeenFirst
<1>2. /\ c \in Batch /\ c.events = exportBuffer /\ c.retries = 0 /\ c.at = "export"
      /\ exportBuffer \subseteq seen /\ seen \subseteq OnEvent
  BY DEF ExportIInv, ExportTypeOK, Batch, ExportEventsAssumption
<1> HIDE DEF c
<1>3. /\ counted' \in [Metrics -> [OnEvent -> Nat]]
      /\ \A metric \in Metrics, e \in OnEvent \ exportBuffer : counted'[metric][e] = counted[metric][e]
      /\ \A metric \in Metrics, e \in exportBuffer :
           counted'[metric][e] = IF metric = "events_seen" THEN 1 ELSE 0
  <2>1. \A metric \in Metrics, e \in exportBuffer : counted[metric][e] = 0
    BY DEF ExportIInv, NotCountedBefore
  <2>2. /\ CountsOnly(c)
        /\ \A metric \in Metrics, e \in OnEvent \cap c.events :
             counted'[metric][e] = counted[metric][e] + IF metric \in {"events_seen"} THEN 1 ELSE 0
    BY <1>1, CountsOnlyBatch DEF ExportIInv
  <2> QED BY <1>2, <2>1, <2>2 DEF CountsOnly
<1>4. \A e \in exportBuffer : e \notin forgotten \cup repeated /\ \A b \in batches : e \notin b.events
  BY DEF ExportIInv, NotCountedBefore
<1>5. ExportTypeOK'
  BY <1>1, <1>2, <1>3 DEF ExportIInv, ExportTypeOK
<1>6. OneBatch' /\ JobsAreRetries'
  BY <1>1, <1>2, <1>4 DEF ExportIInv, OneBatch, JobsAreRetries
<1>7. CountedInBatch'
  <2> SUFFICES ASSUME NEW d \in batches', NEW e \in d.events \ repeated
               PROVE  /\ counted'["events_seen"][e] = 1
                      /\ counted'["retry_errors"][e] = d.retries
                      /\ counted'["events_delivered_successfully"][e] = 0
                      /\ counted'["undelivered_events"][e] = 0 /\ counted'["other_errors"][e] = 0
    BY <1>1 DEF CountedInBatch
  <2>1. CASE d = c
    BY <1>2, <1>3, <2>1 DEF Metrics
  <2>2. CASE d # c
    <3>1. d \in batches /\ e \in OnEvent \ exportBuffer
      BY <1>1, <1>4, <2>2 DEF ExportIInv, ExportTypeOK
    <3> QED BY <1>3, <3>1 DEF ExportIInv, CountedInBatch, Metrics
  <2> QED BY <2>1, <2>2
<1>8. NotCountedBefore'
  <2>1. \A e \in OnEvent \ seen : e \in OnEvent \ exportBuffer
    BY <1>2
  <2> QED BY <1>1, <1>3, <2>1 DEF ExportIInv, NotCountedBefore
<1>9. CountedAfter'
  <2> SUFFICES ASSUME NEW e \in OnEvent \ (forgotten \cup repeated), \A d \in batches' : e \notin d.events
               PROVE  /\ counted'["events_seen"][e] = counted'["events_delivered_successfully"][e]
                                                      + counted'["undelivered_events"][e]
                      /\ counted'["events_seen"][e] <= 1
    BY <1>1 DEF CountedAfter
  <2>1. e \notin exportBuffer /\ \A d \in batches : e \notin d.events
    BY <1>1, <1>2
  <2> QED BY <1>3, <2>1 DEF ExportIInv, CountedAfter, Metrics
<1>10. GivenUpAfterRetries'
  <2> SUFFICES ASSUME NEW e \in OnEvent \ repeated,
                      counted'["undelivered_events"][e] > counted'["other_errors"][e]
               PROVE  counted'["retry_errors"][e] = MAXIMUM_RETRIES + 1
    BY <1>1 DEF GivenUpAfterRetries
  <2>1. e \notin exportBuffer
    BY <1>3 DEF Metrics
  <2> QED BY <1>3, <2>1 DEF ExportIInv, GivenUpAfterRetries, Metrics
<1> QED BY <1>5, <1>6, <1>7, <1>8, <1>9, <1>10 DEF ExportIInv

(* The steps of a batch. *)
LEMMA BatchStepInv ==
  ASSUME ExportEventsAssumption, ExportIInv, NEW b \in batches, BatchStep(b)
  PROVE  ExportIInv'
<1>1. /\ ExportTypeOK /\ b \in Batch /\ b.events \subseteq OnEvent
      /\ b.retries \in 0 .. MAXIMUM_RETRIES /\ MAXIMUM_RETRIES \in Nat
      /\ b.at # "export" => b.retries > 0
      /\ \A e \in b.events \ repeated :
           /\ counted["events_seen"][e] = 1
           /\ counted["retry_errors"][e] = b.retries
           /\ counted["events_delivered_successfully"][e] = 0
           /\ counted["undelivered_events"][e] = 0 /\ counted["other_errors"][e] = 0
  BY DEF ExportIInv, ExportTypeOK, JobsAreRetries, CountedInBatch, Batch, ExportEventsAssumption
<1>2. ASSUME NEW metrics_, counted' = Counted(metrics_, b.events)
      PROVE  /\ CountsOnly(b)
             /\ \A metric \in Metrics, e \in b.events :
                  counted'[metric][e] = counted[metric][e] + IF metric \in metrics_ THEN 1 ELSE 0
  BY <1>1, <1>2, CountsOnlyBatch
<1>3. CASE ExportSucceeds(b)
  <2>1. /\ batches' = batches \ {b} /\ counted' = Counted({"events_delivered_successfully"}, b.events)
        /\ UNCHANGED <<seen, exportBuffer, mishaps, forgotten, repeated>>
    BY <1>3 DEF ExportSucceeds, Ended
  <2>2. /\ CountsOnly(b)
        /\ \A metric \in Metrics, e \in b.events :
             counted'[metric][e] = counted[metric][e]
               + IF metric \in {"events_delivered_successfully"} THEN 1 ELSE 0
    BY <1>2, <2>1
  <2>3. \A e \in b.events \ repeated :
          /\ counted'["events_seen"][e] = 1
          /\ counted'["events_delivered_successfully"][e] + counted'["undelivered_events"][e] = 1
          /\ ~(counted'["undelivered_events"][e] > counted'["other_errors"][e])
    BY <1>1, <2>2 DEF Metrics
  <2> QED BY <2>1, <2>2, <2>3, BatchEnds
<1>4. CASE OtherError(b)
  <2>1. /\ batches' = batches \ {b}
        /\ counted' = Counted({"other_errors", "undelivered_events"}, b.events)
        /\ UNCHANGED <<seen, exportBuffer, mishaps, forgotten, repeated>>
    BY <1>4 DEF OtherError, Ended
  <2>2. /\ CountsOnly(b)
        /\ \A metric \in Metrics, e \in b.events :
             counted'[metric][e] = counted[metric][e]
               + IF metric \in {"other_errors", "undelivered_events"} THEN 1 ELSE 0
    BY <1>2, <2>1
  <2>3. \A e \in b.events \ repeated :
          /\ counted'["events_seen"][e] = 1
          /\ counted'["events_delivered_successfully"][e] + counted'["undelivered_events"][e] = 1
          /\ ~(counted'["undelivered_events"][e] > counted'["other_errors"][e])
    BY <1>1, <2>2 DEF Metrics
  <2> QED BY <2>1, <2>2, <2>3, BatchEnds
<1>5. CASE RetryError(b) /\ RetriesLeft(b)
  <2> DEFINE c == [b EXCEPT !.retries = @ + 1, !.at = "enqueue"]
  <2>1. /\ batches' = (batches \ {b}) \cup {c} /\ counted' = Counted({"retry_errors"}, b.events)
        /\ UNCHANGED <<seen, exportBuffer, mishaps, forgotten, repeated>>
    BY <1>5 DEF RetryError
  <2>2. c \in Batch /\ c.events = b.events /\ c.retries = b.retries + 1 /\ c.retries > 0
    <3>1. b.retries < MAXIMUM_RETRIES
      BY <1>5 DEF RetriesLeft
    <3>2. b \in [events : SUBSET OnEvent, retries : 0 .. MAXIMUM_RETRIES, at : {"export", "enqueue", "job"}]
      BY <1>1 DEF Batch
    <3>3. c = [events |-> b.events, retries |-> b.retries + 1, at |-> "enqueue"]
      <4>1. [b EXCEPT !.retries = @ + 1] = [events |-> b.events, retries |-> b.retries + 1, at |-> b.at]
        BY <3>2
      <4>2. c = [[b EXCEPT !.retries = @ + 1] EXCEPT !.at = "enqueue"]
        OBVIOUS
      <4>3. [[events |-> b.events, retries |-> b.retries + 1, at |-> b.at] EXCEPT !.at = "enqueue"]
              = [events |-> b.events, retries |-> b.retries + 1, at |-> "enqueue"]
        OBVIOUS
      <4> HIDE DEF c
      <4> QED BY <4>1, <4>2, <4>3
    <3>4. b.retries + 1 \in 0 .. MAXIMUM_RETRIES /\ b.retries + 1 > 0
      BY <1>1, <3>1
    <3> QED BY <1>1, <3>3, <3>4 DEF Batch
  <2>3. /\ CountsOnly(b)
        /\ \A metric \in Metrics, e \in b.events :
             counted'[metric][e] = counted[metric][e] + IF metric \in {"retry_errors"} THEN 1 ELSE 0
    BY <1>2, <2>1
  <2> HIDE DEF c
  <2>4. \A e \in b.events \ repeated :
          /\ counted'["events_seen"][e] = 1
          /\ counted'["retry_errors"][e] = c.retries
          /\ counted'["events_delivered_successfully"][e] = 0
          /\ counted'["undelivered_events"][e] = 0 /\ counted'["other_errors"][e] = 0
    BY <1>1, <2>2, <2>3 DEF Metrics
  <2> QED BY <2>1, <2>2, <2>3, <2>4, BatchGoesOn
<1>6. CASE RetryError(b) /\ ~ RetriesLeft(b)
  <2>1. /\ batches' = batches \ {b}
        /\ counted' = Counted({"retry_errors", "undelivered_events"}, b.events)
        /\ UNCHANGED <<seen, exportBuffer, mishaps, forgotten, repeated>>
    BY <1>6 DEF RetryError, Ended
  <2>2. /\ CountsOnly(b)
        /\ \A metric \in Metrics, e \in b.events :
             counted'[metric][e] = counted[metric][e]
               + IF metric \in {"retry_errors", "undelivered_events"} THEN 1 ELSE 0
    BY <1>2, <2>1
  <2>3. b.retries = MAXIMUM_RETRIES
    BY <1>1, <1>6 DEF RetriesLeft
  <2>4. \A e \in b.events \ repeated :
          /\ counted'["events_seen"][e] = 1
          /\ counted'["events_delivered_successfully"][e] + counted'["undelivered_events"][e] = 1
          /\ counted'["retry_errors"][e] = MAXIMUM_RETRIES + 1
    BY <1>1, <2>2, <2>3 DEF Metrics
  <2> QED BY <2>1, <2>2, <2>4, BatchEnds
<1>7. CASE RetryEnqueued(b)
  <2> DEFINE c == [b EXCEPT !.at = "job"]
  <2>1. /\ batches' = (batches \ {b}) \cup {c} /\ b.at = "enqueue"
        /\ UNCHANGED <<seen, exportBuffer, counted, mishaps, forgotten, repeated>>
    BY <1>7 DEF RetryEnqueued
  <2>2. c \in Batch /\ c.events = b.events /\ c.retries = b.retries /\ c.retries > 0
    BY <1>1, <2>1 DEF Batch
  <2>3. CountsOnly(b)
    BY <1>1, <2>1 DEF CountsOnly, ExportTypeOK
  <2> HIDE DEF c
  <2> QED BY <1>1, <2>1, <2>2, <2>3, BatchGoesOn
<1>8. CASE RunRetry(b)
  <2> DEFINE c == [b EXCEPT !.at = "export"]
  <2>1. /\ batches' = (batches \ {b}) \cup {c} /\ b.at = "job"
        /\ counted' = Counted(SeenFirst(b), b.events)
        /\ UNCHANGED <<seen, exportBuffer, mishaps, forgotten, repeated>>
    BY <1>8 DEF RunRetry, Start
  <2>2. c \in Batch /\ c.events = b.events /\ c.retries = b.retries /\ c.at = "export"
    BY <1>1, <2>1 DEF Batch
  <2>3. SeenFirst(b) = {}
    BY <1>1, <2>1 DEF SeenFirst
  <2>4. /\ CountsOnly(b)
        /\ \A metric \in Metrics, e \in b.events :
             counted'[metric][e] = counted[metric][e] + IF metric \in {} THEN 1 ELSE 0
    BY <1>2, <2>1, <2>3
  <2> HIDE DEF c
  <2>5. \A e \in b.events \ repeated :
          /\ counted'["events_seen"][e] = 1
          /\ counted'["retry_errors"][e] = c.retries
          /\ counted'["events_delivered_successfully"][e] = 0
          /\ counted'["undelivered_events"][e] = 0 /\ counted'["other_errors"][e] = 0
    BY <1>1, <2>2, <2>4 DEF Metrics
  <2> QED BY <2>1, <2>2, <2>4, <2>5, BatchGoesOn
<1> QED BY <1>3, <1>4, <1>5, <1>6, <1>7, <1>8 DEF BatchStep

LEMMA LoseRetryInv ==
  ASSUME ExportEventsAssumption, ExportIInv, NEW b \in batches, LoseRetry(b)
  PROVE  ExportIInv'
<1>1. /\ batches' = batches \ {b} /\ forgotten' = forgotten \cup b.events
      /\ UNCHANGED <<seen, exportBuffer, counted, repeated>>
      /\ mishaps < MaxMishaps /\ mishaps' = mishaps + 1
  BY DEF LoseRetry, Mishap
<1>2. mishaps' \in 0 .. MaxMishaps
  BY <1>1 DEF ExportIInv, ExportTypeOK, ExportEventsAssumption
<1>3. forgotten' \subseteq seen /\ exportBuffer \cap forgotten' = {}
  BY <1>1 DEF ExportIInv, ExportTypeOK, NotCountedBefore
<1> QED BY <1>1, <1>2, <1>3, EventsForgotten

LEMMA KillExporterInv ==
  ASSUME ExportEventsAssumption, ExportIInv, KillExporter
  PROVE  ExportIInv'
<1> DEFINE there == {b \in batches : b.at # "job"}
<1>1. /\ batches' = batches \ there /\ exportBuffer' = {}
      /\ forgotten' = forgotten \cup exportBuffer \cup UNION {b.events : b \in there}
      /\ UNCHANGED <<seen, counted, repeated>>
      /\ mishaps < MaxMishaps /\ mishaps' = mishaps + 1
  BY DEF KillExporter, Mishap
<1>2. mishaps' \in 0 .. MaxMishaps
  BY <1>1 DEF ExportIInv, ExportTypeOK, ExportEventsAssumption
<1>3. there \subseteq batches
  OBVIOUS
<1> HIDE DEF there
<1>4. forgotten' \subseteq seen
  BY <1>1, <1>3 DEF ExportIInv, ExportTypeOK
<1>5. \A b \in batches \ batches' : b.events \subseteq forgotten'
  BY <1>1
<1> QED BY <1>1, <1>2, <1>4, <1>5, EventsForgotten

LEMMA RepeatRetryInv ==
  ASSUME ExportEventsAssumption, ExportIInv, NEW b \in batches, RepeatRetry(b)
  PROVE  ExportIInv'
<1> DEFINE c == [b EXCEPT !.at = "export"]
<1>1. /\ batches' = batches \cup {c} /\ counted' = Counted(SeenFirst(b), b.events)
      /\ repeated' = repeated \cup b.events
      /\ UNCHANGED <<seen, exportBuffer, forgotten>>
      /\ mishaps < MaxMishaps /\ mishaps' = mishaps + 1
  BY DEF RepeatRetry, Start, Mishap
<1>2. /\ ExportTypeOK /\ c \in Batch /\ c.events = b.events /\ c.at = "export"
      /\ b.events \subseteq seen /\ seen \subseteq OnEvent /\ b.events # {}
  BY DEF ExportIInv, ExportTypeOK, Batch
<1> HIDE DEF c
<1>3. /\ counted' \in [Metrics -> [OnEvent -> Nat]]
      /\ \A metric \in Metrics, e \in OnEvent \ b.events : counted'[metric][e] = counted[metric][e]
  <2>1. CountsOnly(b)
    BY <1>1, <1>2, CountsOnlyBatch
  <2> QED BY <2>1 DEF CountsOnly
<1>4. \A d \in batches' : d = c \/ d \in batches
  BY <1>1
<1>5. ExportTypeOK'
  BY <1>1, <1>2, <1>3 DEF ExportIInv, ExportTypeOK, ExportEventsAssumption
<1>6. OneBatch' /\ JobsAreRetries'
  BY <1>1, <1>2, <1>4 DEF ExportIInv, OneBatch, JobsAreRetries
<1>7. CountedInBatch'
  <2> SUFFICES ASSUME NEW d \in batches', NEW e \in d.events \ repeated'
               PROVE  /\ counted'["events_seen"][e] = 1
                      /\ counted'["retry_errors"][e] = d.retries
                      /\ counted'["events_delivered_successfully"][e] = 0
                      /\ counted'["undelivered_events"][e] = 0 /\ counted'["other_errors"][e] = 0
    BY DEF CountedInBatch
  <2>1. d \in batches /\ e \in OnEvent \ b.events /\ e \notin repeated
    BY <1>1, <1>2, <1>4 DEF ExportTypeOK
  <2> QED BY <1>3, <2>1 DEF ExportIInv, CountedInBatch, Metrics
<1>8. NotCountedBefore'
  <2>1. \A e \in (OnEvent \ seen) \cup exportBuffer : e \in OnEvent \ b.events
    BY <1>2 DEF ExportIInv, ExportTypeOK, NotCountedBefore
  <2>2. \A e \in exportBuffer : e \notin forgotten \cup repeated' /\ \A d \in batches' : e \notin d.events
    BY <1>1, <1>2, <1>4 DEF ExportIInv, NotCountedBefore
  <2> QED BY <1>1, <1>3, <2>1, <2>2 DEF ExportIInv, NotCountedBefore
<1>9. CountedAfter'
  <2> SUFFICES ASSUME NEW e \in OnEvent \ (forgotten \cup repeated'), \A d \in batches' : e \notin d.events
               PROVE  /\ counted'["events_seen"][e] = counted'["events_delivered_successfully"][e]
                                                      + counted'["undelivered_events"][e]
                      /\ counted'["events_seen"][e] <= 1
    BY <1>1 DEF CountedAfter
  <2>1. e \notin b.events /\ e \notin repeated /\ \A d \in batches : e \notin d.events
    BY <1>1
  <2> QED BY <1>3, <2>1 DEF ExportIInv, CountedAfter, Metrics
<1>10. GivenUpAfterRetries'
  <2> SUFFICES ASSUME NEW e \in OnEvent \ repeated',
                      counted'["undelivered_events"][e] > counted'["other_errors"][e]
               PROVE  counted'["retry_errors"][e] = MAXIMUM_RETRIES + 1
    BY DEF GivenUpAfterRetries
  <2> QED BY <1>1, <1>3 DEF ExportIInv, GivenUpAfterRetries, Metrics
<1> QED BY <1>5, <1>6, <1>7, <1>8, <1>9, <1>10 DEF ExportIInv

(* The invariant holds. *)
LEMMA ExportInvariance == ExportSpec => []ExportIInv
<1>1. ExportInit => ExportIInv
  BY ExportEventsAssumption
     DEF ExportInit, ExportIInv, ExportTypeOK, OneBatch, JobsAreRetries, CountedInBatch,
         NotCountedBefore, CountedAfter, GivenUpAfterRetries, Metrics, ExportEventsAssumption
<1>2. ExportIInv /\ [ExportNext]_exportVars => ExportIInv'
  <2> SUFFICES ASSUME ExportIInv, [ExportNext]_exportVars PROVE ExportIInv'
    OBVIOUS
  <2>1. CASE ExportNext
    BY <2>1, ExportEventsAssumption, BufferEventInv, FlushBufferInv, BatchStepInv, LoseRetryInv,
       RepeatRetryInv, KillExporterInv DEF ExportNext
  <2>2. CASE UNCHANGED exportVars
    BY <2>2 DEF exportVars, ExportIInv, ExportTypeOK, OneBatch, JobsAreRetries, CountedInBatch,
                NotCountedBefore, CountedAfter, GivenUpAfterRetries
  <2> QED BY <2>1, <2>2
<1> QED BY <1>1, <1>2, PTL DEF ExportSpec

(* The metrics of exportEvents add up for every event whose thread and job    *)
(* live, and a batch is given up after the last attempt, not before.        *)
THEOREM MetricsOKHolds == ExportSpec => []MetricsOK
<1>1. ExportIInv => MetricsOK
  <2> SUFFICES ASSUME ExportIInv, NEW e \in OnEvent \ (forgotten \cup repeated)
               PROVE  /\ counted["events_seen"][e] = counted["events_delivered_successfully"][e]
                                                     + counted["undelivered_events"][e] + OnTheWay(e)
                      /\ counted["events_seen"][e] <= 1
    BY DEF ExportIInv, MetricsOK, SeenAddsUp
  <2>1. CASE \A b \in batches : e \notin b.events
    <3>1. {b \in batches : e \in b.events} = {}
      BY <2>1
    <3>2. OnTheWay(e) = 0
      BY <3>1, FS_EmptySet DEF OnTheWay
    <3>3. counted["events_delivered_successfully"][e] + counted["undelivered_events"][e] \in Nat
      BY DEF ExportIInv, ExportTypeOK, Metrics
    <3> QED BY <2>1, <3>2, <3>3 DEF ExportIInv, CountedAfter
  <2>2. CASE \E b \in batches : e \in b.events
    <3>1. PICK b \in batches : e \in b.events
      BY <2>2
    <3>2. {d \in batches : e \in d.events} = {b}
      BY <3>1 DEF ExportIInv, OneBatch
    <3>3. OnTheWay(e) = 1
      BY <3>2, FS_Singleton DEF OnTheWay
    <3> QED BY <3>1, <3>3 DEF ExportIInv, CountedInBatch
  <2> QED BY <2>1, <2>2
<1> QED BY <1>1, ExportInvariance, PTL

-----------------------------------------------------------------------------
(* GeoIP                                                                    *)

GeoIPSpec == GeoIPInit /\ [][GeoIPNext]_geoipVars

(* A run that fetches, or is about to. *)
ToFetch == Fetching \cup {"set"}

(* Unless runs overlapped there is one of them, *)
OneFetches ==
  ~ overlapped => \A g, h \in Host, s, t \in Slot :
    runs[g][s].at \in ToFetch /\ runs[h][t].at \in ToFetch => g = h /\ s = t

(* and the key says so. *)
KeySaysSo ==
  ~ overlapped => \A h \in Host, s \in Slot :
    runs[h][s].at \in Fetching => mmdbStatus = "fetching"

(* The attachment a run has inserted is there when it deletes the others. *)
InsertedIsThere ==
  ~ overlapped => \A h \in Host, s \in Slot :
    runs[h][s].at = "delete" => runs[h][s].version \in rows

(* What is inserted was downloaded. *)
DownloadedFirst ==
  \A h \in Host, s \in Slot : runs[h][s].at = "insert" => runs[h][s].version > 0

GeoIPIInv == GeoIPTypeOK /\ OneFetches /\ KeySaysSo /\ InsertedIsThere /\ DownloadedFirst

Run(n) == [at : RunPlaces, for : {"launch", "check", "inject"}, version : 0 .. n]
RunsUpTo(n) == [Host -> [Slot -> Run(n)]]

LEMMA NoRunIsRun == \A n \in Nat : NoRun \in Run(n) /\ NoRun.at = "none" /\ NoRun.version = 0
BY DEF NoRun, Run, RunPlaces, Fetching

(* Two fields of a run are set at once. *)
Versioned(run, place, v) == [run EXCEPT !.at = place, !.version = v]
Waited(run, place, v) == [run EXCEPT !.at = place, !.for = v]

LEMMA VersionSet ==
  ASSUME NEW n \in Nat, NEW run \in Run(n), NEW place \in RunPlaces, NEW v \in 0 .. n
  PROVE  /\ Versioned(run, place, v) \in Run(n)
         /\ Versioned(run, place, v).at = place
         /\ Versioned(run, place, v).version = v
<1>1. run.for \in {"launch", "check", "inject"} /\ run.version \in 0 .. n
  BY DEF Run
<1>2. [run EXCEPT !.at = place] = [at |-> place, for |-> run.for, version |-> run.version]
  BY DEF Run
<1>3. [[at |-> place, for |-> run.for, version |-> run.version] EXCEPT !.version = v] = [at |-> place, for |-> run.for, version |-> v]
  OBVIOUS
<1>4. [run EXCEPT !.at = place, !.version = v] = [[run EXCEPT !.at = place] EXCEPT !.version = v]
  OBVIOUS
<1>5. [run EXCEPT !.at = place, !.version = v] = [at |-> place, for |-> run.for, version |-> v]
  BY <1>2, <1>3, <1>4
<1> QED BY <1>1, <1>5 DEF Run, Versioned

LEMMA WaiterSet ==
  ASSUME NEW n \in Nat, NEW run \in Run(n), NEW place \in RunPlaces, NEW v \in {"launch", "check", "inject"}
  PROVE  /\ Waited(run, place, v) \in Run(n)
         /\ Waited(run, place, v).at = place
         /\ Waited(run, place, v).for = v
<1>1. run.for \in {"launch", "check", "inject"} /\ run.version \in 0 .. n
  BY DEF Run
<1>2. [run EXCEPT !.at = place] = [at |-> place, for |-> run.for, version |-> run.version]
  BY DEF Run
<1>3. [[at |-> place, for |-> run.for, version |-> run.version] EXCEPT !.for = v] = [at |-> place, for |-> v, version |-> run.version]
  OBVIOUS
<1>4. [run EXCEPT !.at = place, !.for = v] = [[run EXCEPT !.at = place] EXCEPT !.for = v]
  OBVIOUS
<1>5. [run EXCEPT !.at = place, !.for = v] = [at |-> place, for |-> v, version |-> run.version]
  BY <1>2, <1>3, <1>4
<1> QED BY <1>1, <1>5 DEF Run, Waited

(* A nonempty set of naturals has a least element. *)
LEMMA NatLeast ==
  ASSUME NEW T, T \subseteq Nat, T # {}
  PROVE  \E x \in T : \A y \in T : x <= y
<1>1. \E x \in T : \A y \in T : ~(<<y, x>> \in OpToRel(<, Nat))
  BY WFMin, NatLessThanWellFounded
<1>2. PICK x \in T : \A y \in T : ~(<<y, x>> \in OpToRel(<, Nat))
  BY <1>1
<1>3. ASSUME NEW y \in T PROVE x <= y
  <2>1. ~(y < x)
    BY <1>2 DEF OpToRel
  <2> QED BY <2>1
<1> QED BY <1>3

LEMMA OldestIsThere ==
  ASSUME GeoIPTypeOK, rows # {}
  PROVE  Oldest \in rows
<1>1. rows \subseteq Nat
  BY DEF GeoIPTypeOK
<1>2. \E x \in rows : \A y \in rows : x <= y
  BY <1>1, NatLeast
<1> QED BY <1>2 DEF Oldest, Min

LEMMA SetRun ==
  ASSUME NEW R, NEW f \in [Host -> [Slot -> R]], NEW h \in Host, NEW s \in Slot, NEW v \in R
  PROVE  /\ [f EXCEPT ![h][s] = v] \in [Host -> [Slot -> R]]
         /\ \A g \in Host, t \in Slot :
              [f EXCEPT ![h][s] = v][g][t] = IF g = h /\ t = s THEN v ELSE f[g][t]
OBVIOUS

LEMMA MoreRuns ==
  ASSUME NEW n \in Nat, NEW m \in Nat, n <= m
  PROVE  Run(n) \subseteq Run(m) /\ RunsUpTo(n) \subseteq RunsUpTo(m)
<1>1. 0 .. n \subseteq 0 .. m
  OBVIOUS
<1>2. Run(n) \subseteq Run(m)
  BY <1>1 DEF Run
<1> QED BY <1>2 DEF RunsUpTo

LEMMA RunsTyped ==
  ASSUME GeoIPTypeOK
  PROVE  /\ newest \in Nat /\ runs \in RunsUpTo(newest)
         /\ \A h \in Host, s \in Slot : runs[h][s] \in Run(newest)
BY DEF GeoIPTypeOK, RunsUpTo, Run

(* A run moves on. *)
LEMMA RunMoved ==
  ASSUME GeoIPTypeOK, NEW h \in Host, NEW s \in Slot, NEW place \in RunPlaces, Move(h, s, place)
  PROVE  /\ runs' \in RunsUpTo(newest)
         /\ runs'[h][s].at = place /\ runs'[h][s].version = runs[h][s].version
         /\ \A g \in Host, t \in Slot : runs'[g][t] = runs[g][t] \/ (g = h /\ t = s)
<1> DEFINE new == [runs[h][s] EXCEPT !.at = place]
<1>1. runs \in RunsUpTo(newest) /\ runs[h][s] \in Run(newest)
  BY RunsTyped
<1>2. new \in Run(newest) /\ new.at = place /\ new.version = runs[h][s].version
  BY <1>1 DEF Run
<1>3. runs' = [runs EXCEPT ![h][s] = new]
  BY DEF Move
<1> HIDE DEF new
<1> QED BY <1>1, <1>2, <1>3, SetRun DEF RunsUpTo

(* A run ends. *)
LEMMA RunFinished ==
  ASSUME GeoIPTypeOK, NEW h \in Host, NEW s \in Slot, NEW version \in 0 .. newest,
         Finish(h, s, version)
  PROVE  /\ runs' \in RunsUpTo(newest) /\ runs'[h][s] = NoRun
         /\ \A g \in Host, t \in Slot : runs'[g][t] = runs[g][t] \/ (g = h /\ t = s)
         /\ reader' \in [Host -> 0 .. newest] /\ launched' \subseteq Host
<1>1. runs \in RunsUpTo(newest) /\ newest \in Nat /\ NoRun \in Run(newest)
  BY RunsTyped, NoRunIsRun
<1>2. runs' = [runs EXCEPT ![h][s] = NoRun]
  BY DEF Finish
<1>3. runs' \in RunsUpTo(newest) /\ runs'[h][s] = NoRun
      /\ \A g \in Host, t \in Slot : runs'[g][t] = runs[g][t] \/ (g = h /\ t = s)
  BY <1>1, <1>2, SetRun DEF RunsUpTo
<1>4. reader' \in [Host -> 0 .. newest]
  BY DEF Finish, GeoIPTypeOK
<1>5. launched' \subseteq Host
  BY DEF Finish, GeoIPTypeOK
<1> QED BY <1>3, <1>4, <1>5

(* Where runs go that do not fetch is nothing to the others. *)
LEMMA QuietStep ==
  ASSUME GeoIPIInv,
         \A g \in Host, t \in Slot :
           runs'[g][t] = runs[g][t] \/ runs'[g][t].at \notin ToFetch,
         UNCHANGED <<rows, mmdbStatus>>, overlapped => overlapped'
  PROVE  OneFetches' /\ KeySaysSo' /\ InsertedIsThere' /\ DownloadedFirst'
<1>1. {"insert", "delete"} \subseteq ToFetch /\ Fetching \subseteq ToFetch
  BY DEF ToFetch, Fetching
<1>2. OneFetches'
  BY DEF GeoIPIInv, OneFetches
<1>3. KeySaysSo'
  BY <1>1 DEF GeoIPIInv, KeySaysSo
<1>4. InsertedIsThere'
  BY <1>1 DEF GeoIPIInv, InsertedIsThere
<1>5. DownloadedFirst'
  BY <1>1 DEF GeoIPIInv, DownloadedFirst
<1> QED BY <1>2, <1>3, <1>4, <1>5

(* One that fetches, or begins to, is the only one. *)
LEMMA FetchStep ==
  ASSUME GeoIPIInv, NEW h \in Host, NEW s \in Slot,
         \A g \in Host, t \in Slot : runs'[g][t] = runs[g][t] \/ (g = h /\ t = s),
         overlapped => overlapped',
         \/ runs[h][s].at \in ToFetch
         \/ overlapped' \/ \A g \in Host, t \in Slot : runs[g][t].at \notin ToFetch,
         runs'[h][s].at \in Fetching => mmdbStatus' = "fetching" \/ overlapped',
         runs'[h][s].at = "delete" => runs'[h][s].version \in rows',
         runs'[h][s].at = "insert" => runs'[h][s].version > 0
  PROVE  OneFetches' /\ KeySaysSo' /\ InsertedIsThere' /\ DownloadedFirst'
<1>1. {"insert", "delete"} \subseteq Fetching /\ Fetching \subseteq ToFetch
  BY DEF ToFetch, Fetching
<1>2. ~ overlapped' => \A g \in Host, t \in Slot :
        runs[g][t].at \in ToFetch => g = h /\ t = s
  BY DEF GeoIPIInv, OneFetches
<1>3. OneFetches'
  BY <1>2 DEF OneFetches
<1>4. KeySaysSo'
  BY <1>1, <1>2 DEF KeySaysSo
<1>5. InsertedIsThere'
  BY <1>1, <1>2 DEF InsertedIsThere
<1>6. DownloadedFirst'
  BY DEF GeoIPIInv, DownloadedFirst
<1> QED BY <1>3, <1>4, <1>5, <1>6

LEMMA PrepareInv ==
  ASSUME GeoIPAssumption, GeoIPIInv, NEW h \in Host, NEW s \in Slot, Prepare(h, s)
  PROVE  GeoIPIInv'
<1> DEFINE new == [NoRun EXCEPT !.at = "query", !.for = IF h \in launched THEN "check" ELSE "launch"]
<1>1. /\ runs' = [runs EXCEPT ![h][s] = new] /\ checks < MaxChecks /\ checks' = checks + 1
      /\ UNCHANGED <<rows, mmdbStatus, reader, launched, newest, staleUpTo, ages, troubles, overlapped>>
  BY DEF Prepare
<1>2. newest \in Nat /\ runs \in RunsUpTo(newest)
  BY RunsTyped DEF GeoIPIInv
<1>3. new \in Run(newest) /\ new.at \notin ToFetch
  <2>1. NoRun \in Run(newest) /\ "query" \in RunPlaces /\ newest \in Nat
        /\ (IF h \in launched THEN "check" ELSE "launch") \in {"launch", "check", "inject"}
    BY <1>2, NoRunIsRun DEF RunPlaces
  <2>2. new \in Run(newest) /\ new.at = "query"
    <3>1. new = Waited(NoRun, "query", IF h \in launched THEN "check" ELSE "launch")
      BY DEF Waited
    <3> HIDE DEF new
    <3> QED BY <2>1, <3>1, WaiterSet
  <2> QED BY <2>2 DEF ToFetch, Fetching
<1> HIDE DEF new
<1>4. /\ runs' \in RunsUpTo(newest)
      /\ \A g \in Host, t \in Slot : runs'[g][t] = IF g = h /\ t = s THEN new ELSE runs[g][t]
  BY <1>1, <1>2, <1>3, SetRun DEF RunsUpTo
<1>5. GeoIPTypeOK'
  BY <1>1, <1>4 DEF GeoIPIInv, GeoIPTypeOK, RunsUpTo, Run, GeoIPAssumption
<1>6. OneFetches' /\ KeySaysSo' /\ InsertedIsThere' /\ DownloadedFirst'
  BY <1>1, <1>3, <1>4, QuietStep
<1> QED BY <1>5, <1>6 DEF GeoIPIInv

LEMMA QueryAttachmentInv ==
  ASSUME GeoIPIInv, NEW h \in Host, NEW s \in Slot, QueryAttachment(h, s)
  PROVE  GeoIPIInv'
<1> DEFINE check == runs[h][s].for = "check"
           Fetch == [runs[h][s] EXCEPT !.at = "status", !.for = IF check THEN "inject" ELSE @]
           Open == [runs[h][s] EXCEPT !.at = "opening", !.version = Oldest]
           Background == [NoRun EXCEPT !.at = "status"]
           Quiet == {new \in Run(newest) : new.at \notin ToFetch}
<1>1. /\ newest \in Nat /\ runs \in RunsUpTo(newest) /\ runs[h][s] \in Run(newest)
      /\ GeoIPTypeOK
  BY RunsTyped DEF GeoIPIInv
<1>2. UNCHANGED <<rows, mmdbStatus, reader, launched, newest, staleUpTo, checks, ages, troubles, overlapped>>
  BY DEF QueryAttachment
<1>3. Fetch \in Quiet
  BY <1>1 DEF Run, RunPlaces, ToFetch, Fetching
<1>4. rows # {} => Open \in Quiet
  <2> SUFFICES ASSUME rows # {} PROVE Open \in Quiet
    OBVIOUS
  <2>1. Oldest \in 0 .. newest
    <3>1. Oldest \in rows
      BY <1>1, OldestIsThere
    <3>2. rows \subseteq 1 .. newest
      BY <1>1 DEF GeoIPTypeOK
    <3> QED BY <1>1, <3>1, <3>2
  <2>2. "opening" \in RunPlaces
    BY DEF RunPlaces
  <2>3. Open \in Run(newest) /\ Open.at = "opening"
    <3>1. Open = Versioned(runs[h][s], "opening", Oldest)
      BY DEF Versioned
    <3> HIDE DEF Open
    <3> QED BY <1>1, <2>1, <2>2, <3>1, VersionSet
  <2> QED BY <2>3 DEF ToFetch, Fetching
<1>5. NoRun \in Quiet /\ Background \in Quiet
  BY <1>1 DEF NoRun, Run, RunPlaces, ToFetch, Fetching
<1>6. \/ runs' = [runs EXCEPT ![h][s] = Fetch]
      \/ rows # {} /\ runs' = [runs EXCEPT ![h][s] = Open]
      \/ rows # {} /\ \E b \in Slot : runs' = [runs EXCEPT ![h][s] = Open, ![h][b] = Background]
      \/ runs' = [runs EXCEPT ![h][s] = NoRun]
  BY DEF QueryAttachment
<1> HIDE DEF check, Fetch, Open, Background
<1>7. ASSUME NEW f \in RunsUpTo(newest), NEW new \in Quiet, NEW b \in Slot
      PROVE  /\ [f EXCEPT ![h][b] = new] \in RunsUpTo(newest)
             /\ \A g \in Host, t \in Slot :
                  \/ [f EXCEPT ![h][b] = new][g][t] = f[g][t]
                  \/ [f EXCEPT ![h][b] = new][g][t].at \notin ToFetch
  BY SetRun DEF RunsUpTo
<1>8. /\ runs' \in RunsUpTo(newest)
      /\ \A g \in Host, t \in Slot : runs'[g][t] = runs[g][t] \/ runs'[g][t].at \notin ToFetch
  <2>1. CASE \E new \in Quiet : runs' = [runs EXCEPT ![h][s] = new]
    <3>1. PICK new \in Quiet : runs' = [runs EXCEPT ![h][s] = new]
      BY <2>1
    <3> QED BY <1>1, <1>7, <3>1
  <2>2. CASE \E b \in Slot : rows # {} /\ runs' = [runs EXCEPT ![h][s] = Open, ![h][b] = Background]
    <3>1. PICK b \in Slot : runs' = [runs EXCEPT ![h][s] = Open, ![h][b] = Background]
      BY <2>2
    <3> DEFINE f == [runs EXCEPT ![h][s] = Open]
    <3>2. runs' = [f EXCEPT ![h][b] = Background]
      BY <3>1
    <3>3. /\ f \in RunsUpTo(newest)
          /\ \A g \in Host, t \in Slot : f[g][t] = runs[g][t] \/ f[g][t].at \notin ToFetch
      BY <1>1, <1>4, <1>7, <2>2
    <3> HIDE DEF f
    <3> QED BY <1>5, <1>7, <3>2, <3>3
  <2> QED BY <1>3, <1>4, <1>5, <1>6, <2>1, <2>2
<1>9. GeoIPTypeOK'
  BY <1>1, <1>2, <1>8 DEF GeoIPTypeOK, RunsUpTo, Run
<1>10. OneFetches' /\ KeySaysSo' /\ InsertedIsThere' /\ DownloadedFirst'
  BY <1>2, <1>8, QuietStep
<1> QED BY <1>9, <1>10 DEF GeoIPIInv

LEMMA OpenAttachmentInv ==
  ASSUME GeoIPIInv, NEW h \in Host, NEW s \in Slot, OpenAttachment(h, s)
  PROVE  GeoIPIInv'
<1>1. /\ Finish(h, s, runs[h][s].version)
      /\ UNCHANGED <<rows, mmdbStatus, newest, staleUpTo, checks, ages, troubles, overlapped>>
  BY DEF OpenAttachment
<1>2. runs[h][s].version \in 0 .. newest /\ GeoIPTypeOK
  BY RunsTyped DEF GeoIPIInv, Run
<1>3. /\ runs' \in RunsUpTo(newest) /\ runs'[h][s].at = "none"
      /\ \A g \in Host, t \in Slot : runs'[g][t] = runs[g][t] \/ (g = h /\ t = s)
      /\ reader' \in [Host -> 0 .. newest] /\ launched' \subseteq Host
  BY <1>1, <1>2, RunFinished DEF NoRun
<1>4. GeoIPTypeOK'
  BY <1>1, <1>2, <1>3 DEF GeoIPTypeOK, RunsUpTo, Run
<1>5. \A g \in Host, t \in Slot : runs'[g][t] = runs[g][t] \/ runs'[g][t].at \notin ToFetch
  BY <1>3 DEF ToFetch, Fetching
<1> QED BY <1>1, <1>4, <1>5, QuietStep DEF GeoIPIInv

LEMMA GetStatusInv ==
  ASSUME GeoIPIInv, NEW h \in Host, NEW s \in Slot, GetStatus(h, s)
  PROVE  GeoIPIInv'
<1>1. /\ overlapped' = (overlapped \/ (mmdbStatus = "idle" /\ Running({"set"}) # {}))
      /\ UNCHANGED <<rows, mmdbStatus, newest, staleUpTo, checks, ages, troubles>>
      /\ overlapped' \in BOOLEAN /\ (overlapped => overlapped')
  BY DEF GetStatus
<1>2. GeoIPTypeOK /\ newest \in Nat /\ RunPlaces = {"none", "query", "status", "wait", "set", "opening"} \cup Fetching
  BY DEF GeoIPIInv, GeoIPTypeOK, RunPlaces
<1>3. CASE mmdbStatus = "unavailable"
  <2>1. Finish(h, s, 0) /\ 0 \in 0 .. newest
    BY <1>2, <1>3 DEF GetStatus
  <2>2. /\ runs' \in RunsUpTo(newest) /\ runs'[h][s].at = "none"
        /\ \A g \in Host, t \in Slot : runs'[g][t] = runs[g][t] \/ (g = h /\ t = s)
        /\ reader' \in [Host -> 0 .. newest] /\ launched' \subseteq Host
    BY <1>2, <2>1, RunFinished DEF NoRun
  <2>3. GeoIPTypeOK'
    BY <1>1, <1>2, <2>2 DEF GeoIPTypeOK, RunsUpTo, Run
  <2>4. \A g \in Host, t \in Slot : runs'[g][t] = runs[g][t] \/ runs'[g][t].at \notin ToFetch
    BY <2>2 DEF ToFetch, Fetching
  <2> QED BY <1>1, <2>3, <2>4, QuietStep DEF GeoIPIInv
<1>4. CASE mmdbStatus = "fetching"
  <2>1. Move(h, s, "wait") /\ UNCHANGED <<reader, launched>>
    BY <1>4 DEF GetStatus
  <2>2. /\ runs' \in RunsUpTo(newest) /\ runs'[h][s].at = "wait"
        /\ \A g \in Host, t \in Slot : runs'[g][t] = runs[g][t] \/ (g = h /\ t = s)
    BY <1>2, <2>1, RunMoved
  <2>3. GeoIPTypeOK'
    BY <1>1, <1>2, <2>1, <2>2 DEF GeoIPTypeOK, RunsUpTo, Run
  <2>4. \A g \in Host, t \in Slot : runs'[g][t] = runs[g][t] \/ runs'[g][t].at \notin ToFetch
    BY <2>2 DEF ToFetch, Fetching
  <2> QED BY <1>1, <2>3, <2>4, QuietStep DEF GeoIPIInv
<1>5. CASE mmdbStatus = "idle"
  <2>1. Move(h, s, "set") /\ UNCHANGED <<reader, launched>>
    BY <1>5 DEF GetStatus
  <2>2. /\ runs' \in RunsUpTo(newest) /\ runs'[h][s].at = "set"
        /\ \A g \in Host, t \in Slot : runs'[g][t] = runs[g][t] \/ (g = h /\ t = s)
    BY <1>2, <2>1, RunMoved
  <2>3. GeoIPTypeOK'
    BY <1>1, <1>2, <2>1, <2>2 DEF GeoIPTypeOK, RunsUpTo, Run
  <2>4. overlapped' \/ \A g \in Host, t \in Slot : runs[g][t].at \notin ToFetch
    <3> SUFFICES ASSUME ~ overlapped', NEW g \in Host, NEW t \in Slot, runs[g][t].at \in ToFetch
                 PROVE  FALSE
      OBVIOUS
    <3>1. runs[g][t].at \notin Fetching
      BY <1>1, <1>5 DEF GeoIPIInv, KeySaysSo
    <3>2. <<g, t>> \in Running({"set"})
      BY <3>1 DEF ToFetch, Running
    <3> QED BY <1>1, <1>5, <3>2
  <2>5. runs'[h][s].at \notin Fetching
    BY <2>2 DEF Fetching
  <2>6. OneFetches' /\ KeySaysSo' /\ InsertedIsThere' /\ DownloadedFirst'
    BY <1>1, <2>2, <2>4, <2>5, FetchStep DEF Fetching
  <2> QED BY <2>3, <2>6 DEF GeoIPIInv
<1> QED BY <1>2, <1>3, <1>4, <1>5 DEF GeoIPTypeOK

LEMMA PollStatusInv ==
  ASSUME GeoIPIInv, NEW h \in Host, NEW s \in Slot, PollStatus(h, s)
  PROVE  GeoIPIInv'
<1>1. /\ Move(h, s, "query") /\ GeoIPTypeOK
      /\ UNCHANGED <<rows, mmdbStatus, reader, launched, newest, staleUpTo, checks, ages, troubles, overlapped>>
  BY DEF PollStatus, GeoIPIInv
<1>2. /\ runs' \in RunsUpTo(newest) /\ runs'[h][s].at = "query"
      /\ \A g \in Host, t \in Slot : runs'[g][t] = runs[g][t] \/ (g = h /\ t = s)
  BY <1>1, RunMoved DEF RunPlaces
<1>3. GeoIPTypeOK'
  BY <1>1, <1>2 DEF GeoIPTypeOK, RunsUpTo, Run
<1>4. \A g \in Host, t \in Slot : runs'[g][t] = runs[g][t] \/ runs'[g][t].at \notin ToFetch
  BY <1>2 DEF ToFetch, Fetching
<1> QED BY <1>1, <1>3, <1>4, QuietStep DEF GeoIPIInv

LEMMA SetFetchingInv ==
  ASSUME GeoIPIInv, NEW h \in Host, NEW s \in Slot, SetFetching(h, s)
  PROVE  GeoIPIInv'
<1>1. /\ runs[h][s].at = "set" /\ mmdbStatus' = "fetching" /\ Move(h, s, "download") /\ GeoIPTypeOK
      /\ UNCHANGED <<rows, reader, launched, newest, staleUpTo, checks, ages, troubles, overlapped>>
  BY DEF SetFetching, RunAt, GeoIPIInv
<1>2. /\ runs' \in RunsUpTo(newest) /\ runs'[h][s].at = "download"
      /\ \A g \in Host, t \in Slot : runs'[g][t] = runs[g][t] \/ (g = h /\ t = s)
  BY <1>1, RunMoved DEF RunPlaces, Fetching
<1>3. GeoIPTypeOK'
  BY <1>1, <1>2 DEF GeoIPTypeOK, RunsUpTo, Run
<1>4. runs[h][s].at \in ToFetch
  BY <1>1 DEF ToFetch
<1> QED BY <1>1, <1>2, <1>3, <1>4, FetchStep DEF GeoIPIInv

LEMMA DownloadInv ==
  ASSUME GeoIPIInv, NEW h \in Host, NEW s \in Slot, Download(h, s)
  PROVE  GeoIPIInv'
<1> DEFINE new == [runs[h][s] EXCEPT !.at = "insert", !.version = newest + 1]
<1>1. /\ runs[h][s].at = "download" /\ newest' = newest + 1 /\ GeoIPTypeOK
      /\ runs' = [runs EXCEPT ![h][s] = new]
      /\ UNCHANGED <<rows, mmdbStatus, reader, launched, staleUpTo, checks, ages, troubles, overlapped>>
  BY DEF Download, RunAt, GeoIPIInv
<1>2. newest \in Nat /\ newest' \in Nat /\ runs \in RunsUpTo(newest') /\ runs[h][s] \in Run(newest')
  BY <1>1, RunsTyped, MoreRuns
<1>3. new \in Run(newest') /\ new.at = "insert" /\ new.version = newest + 1
  <2>1. "insert" \in RunPlaces /\ newest + 1 \in 0 .. newest'
    BY <1>1, <1>2 DEF RunPlaces, Fetching
  <2>2. new = Versioned(runs[h][s], "insert", newest + 1)
    BY DEF Versioned
  <2> HIDE DEF new
  <2> QED BY <1>2, <2>1, <2>2, VersionSet
<1> HIDE DEF new
<1>4. /\ runs' \in RunsUpTo(newest')
      /\ \A g \in Host, t \in Slot : runs'[g][t] = IF g = h /\ t = s THEN new ELSE runs[g][t]
  BY <1>1, <1>2, <1>3, SetRun DEF RunsUpTo
<1>5. GeoIPTypeOK'
  <2>1. rows' \subseteq 1 .. newest' /\ staleUpTo' \in 0 .. newest'
    BY <1>1, <1>2 DEF GeoIPTypeOK
  <2>2. reader' \in [Host -> 0 .. newest']
    BY <1>1, <1>2 DEF GeoIPTypeOK
  <2> QED BY <1>1, <1>2, <1>4, <2>1, <2>2 DEF GeoIPTypeOK, RunsUpTo, Run
<1>6. /\ runs[h][s].at \in ToFetch /\ runs[h][s].at \in Fetching
      /\ runs'[h][s].at = "insert" /\ runs'[h][s].version > 0
  BY <1>1, <1>2, <1>3, <1>4 DEF ToFetch, Fetching
<1>7. mmdbStatus' = "fetching" \/ overlapped'
  BY <1>1, <1>6 DEF GeoIPIInv, KeySaysSo
<1> QED BY <1>1, <1>4, <1>5, <1>6, <1>7, FetchStep DEF GeoIPIInv

LEMMA InsertAttachmentInv ==
  ASSUME GeoIPIInv, NEW h \in Host, NEW s \in Slot, InsertAttachment(h, s)
  PROVE  GeoIPIInv'
<1>1. /\ runs[h][s].at = "insert" /\ Move(h, s, "delete") /\ GeoIPTypeOK
      /\ rows' = rows \cup {runs[h][s].version}
      /\ UNCHANGED <<mmdbStatus, reader, launched, newest, staleUpTo, checks, ages, troubles, overlapped>>
  BY DEF InsertAttachment, RunAt, GeoIPIInv
<1>2. /\ runs' \in RunsUpTo(newest) /\ runs'[h][s].at = "delete"
      /\ runs'[h][s].version = runs[h][s].version
      /\ \A g \in Host, t \in Slot : runs'[g][t] = runs[g][t] \/ (g = h /\ t = s)
  BY <1>1, RunMoved DEF RunPlaces, Fetching
<1>3. runs[h][s].version \in 1 .. newest
  <2>1. runs[h][s].version \in 0 .. newest /\ newest \in Nat
    BY <1>1, RunsTyped DEF Run
  <2> QED BY <1>1, <2>1 DEF GeoIPIInv, DownloadedFirst
<1>4. GeoIPTypeOK'
  BY <1>1, <1>2, <1>3 DEF GeoIPTypeOK, RunsUpTo, Run
<1>5. runs[h][s].at \in ToFetch /\ runs[h][s].at \in Fetching
  BY <1>1 DEF ToFetch, Fetching
<1>6. mmdbStatus' = "fetching" \/ overlapped'
  BY <1>1, <1>5 DEF GeoIPIInv, KeySaysSo
<1> QED BY <1>1, <1>2, <1>4, <1>5, <1>6, FetchStep DEF GeoIPIInv

LEMMA DeleteOthersInv ==
  ASSUME GeoIPIInv, NEW h \in Host, NEW s \in Slot, DeleteOthers(h, s)
  PROVE  GeoIPIInv'
<1>1. /\ runs[h][s].at = "delete" /\ Move(h, s, "open") /\ GeoIPTypeOK
      /\ rows' \subseteq rows
      /\ UNCHANGED <<mmdbStatus, reader, launched, newest, staleUpTo, checks, ages, troubles, overlapped>>
  BY DEF DeleteOthers, Remaining, RunAt, GeoIPIInv
<1>2. /\ runs' \in RunsUpTo(newest) /\ runs'[h][s].at = "open"
      /\ \A g \in Host, t \in Slot : runs'[g][t] = runs[g][t] \/ (g = h /\ t = s)
  BY <1>1, RunMoved DEF RunPlaces, Fetching
<1>3. GeoIPTypeOK'
  BY <1>1, <1>2 DEF GeoIPTypeOK, RunsUpTo, Run
<1>4. runs[h][s].at \in ToFetch /\ runs[h][s].at \in Fetching
  BY <1>1 DEF ToFetch, Fetching
<1>5. mmdbStatus' = "fetching" \/ overlapped'
  BY <1>1, <1>4 DEF GeoIPIInv, KeySaysSo
<1> QED BY <1>1, <1>2, <1>3, <1>4, <1>5, FetchStep DEF GeoIPIInv

(* Fetched and FetchFailed *)
LEMMA FetchEndsInv ==
  ASSUME GeoIPIInv, NEW h \in Host, NEW s \in Slot, Fetched(h, s) \/ FetchFailed(h, s)
  PROVE  GeoIPIInv'
<1>1. /\ runs[h][s].at \in {"open", "failed"} /\ GeoIPTypeOK
      /\ mmdbStatus' \in {"idle", "unavailable"}
      /\ UNCHANGED <<rows, newest, staleUpTo, checks, ages, troubles, overlapped>>
  BY DEF Fetched, FetchFailed, RunAt, GeoIPIInv
<1>2. \E version \in 0 .. newest : Finish(h, s, version)
  <2>1. runs[h][s].version \in 0 .. newest /\ 0 \in 0 .. newest
    BY <1>1, RunsTyped DEF Run
  <2> QED BY <2>1 DEF Fetched, FetchFailed
<1>3. /\ runs' \in RunsUpTo(newest) /\ runs'[h][s].at = "none"
      /\ \A g \in Host, t \in Slot : runs'[g][t] = runs[g][t] \/ (g = h /\ t = s)
      /\ reader' \in [Host -> 0 .. newest] /\ launched' \subseteq Host
  BY <1>1, <1>2, RunFinished DEF NoRun
<1>4. GeoIPTypeOK'
  BY <1>1, <1>3 DEF GeoIPTypeOK, RunsUpTo, Run
<1>5. runs[h][s].at \in ToFetch /\ runs'[h][s].at \notin Fetching
  BY <1>1, <1>3 DEF ToFetch, Fetching
<1> QED BY <1>1, <1>3, <1>4, <1>5, FetchStep DEF GeoIPIInv

LEMMA TroubleInv ==
  ASSUME GeoIPAssumption, GeoIPIInv, NEW h \in Host, NEW s \in Slot, Trouble(h, s)
  PROVE  GeoIPIInv'
<1>1. /\ runs[h][s].at \in Fetching /\ Move(h, s, "failed") /\ GeoIPTypeOK
      /\ troubles < MaxTroubles /\ troubles' = troubles + 1
      /\ UNCHANGED <<rows, mmdbStatus, reader, launched, newest, staleUpTo, checks, ages, overlapped>>
  BY DEF Trouble, GeoIPIInv
<1>2. /\ runs' \in RunsUpTo(newest) /\ runs'[h][s].at = "failed"
      /\ \A g \in Host, t \in Slot : runs'[g][t] = runs[g][t] \/ (g = h /\ t = s)
  BY <1>1, RunMoved DEF RunPlaces, Fetching
<1>3. GeoIPTypeOK'
  BY <1>1, <1>2 DEF GeoIPTypeOK, RunsUpTo, Run, GeoIPAssumption
<1>4. runs[h][s].at \in ToFetch
  BY <1>1 DEF ToFetch
<1>5. mmdbStatus' = "fetching" \/ overlapped'
  BY <1>1 DEF GeoIPIInv, KeySaysSo
<1> QED BY <1>1, <1>2, <1>3, <1>4, <1>5, FetchStep DEF GeoIPIInv

LEMMA ThrowInv ==
  ASSUME GeoIPAssumption, GeoIPIInv, NEW h \in Host, NEW s \in Slot, Throw(h, s)
  PROVE  GeoIPIInv'
<1> DEFINE launch == runs[h][s].for = "launch"
           after == [b \in Slot |-> IF launch \/ b = s THEN NoRun ELSE runs[h][b]]
<1>1. /\ runs' = [runs EXCEPT ![h] = after]
      /\ reader' = [reader EXCEPT ![h] = IF launch THEN 0 ELSE @]
      /\ troubles < MaxTroubles /\ troubles' = troubles + 1 /\ GeoIPTypeOK
      /\ UNCHANGED <<rows, mmdbStatus, launched, newest, staleUpTo, checks, ages, overlapped>>
  BY DEF Throw, GeoIPIInv
<1>2. newest \in Nat /\ runs \in RunsUpTo(newest) /\ NoRun \in Run(newest) /\ NoRun.at = "none"
  BY <1>1, RunsTyped, NoRunIsRun
<1>3. after \in [Slot -> Run(newest)] /\ \A t \in Slot : after[t] = runs[h][t] \/ after[t] = NoRun
  BY <1>2 DEF RunsUpTo
<1> HIDE DEF launch, after
<1>4. /\ runs' \in RunsUpTo(newest)
      /\ \A g \in Host, t \in Slot : runs'[g][t] = IF g = h THEN after[t] ELSE runs[g][t]
  BY <1>1, <1>2, <1>3 DEF RunsUpTo
<1>5. reader' \in [Host -> 0 .. newest]
  BY <1>1, <1>2 DEF GeoIPTypeOK
<1>6. GeoIPTypeOK'
  BY <1>1, <1>2, <1>4, <1>5 DEF GeoIPTypeOK, RunsUpTo, Run, GeoIPAssumption
<1>7. \A g \in Host, t \in Slot : runs'[g][t] = runs[g][t] \/ runs'[g][t].at \notin ToFetch
  BY <1>2, <1>3, <1>4 DEF ToFetch, Fetching
<1> QED BY <1>1, <1>6, <1>7, QuietStep DEF GeoIPIInv

LEMMA CrashHostInv ==
  ASSUME GeoIPAssumption, GeoIPIInv, NEW h \in Host, CrashHost(h)
  PROVE  GeoIPIInv'
<1>1. /\ runs' = [runs EXCEPT ![h] = [s \in Slot |-> NoRun]]
      /\ reader' = [reader EXCEPT ![h] = 0] /\ launched' \subseteq launched
      /\ troubles < MaxTroubles /\ troubles' = troubles + 1 /\ GeoIPTypeOK
      /\ UNCHANGED <<rows, mmdbStatus, newest, staleUpTo, checks, ages, overlapped>>
  BY DEF CrashHost, GeoIPIInv
<1>2. newest \in Nat /\ runs \in RunsUpTo(newest) /\ NoRun \in Run(newest) /\ NoRun.at = "none"
  BY <1>1, RunsTyped, NoRunIsRun
<1>3. /\ runs' \in RunsUpTo(newest)
      /\ \A g \in Host, t \in Slot : runs'[g][t] = IF g = h THEN NoRun ELSE runs[g][t]
  BY <1>1, <1>2 DEF RunsUpTo
<1>4. reader' \in [Host -> 0 .. newest]
  BY <1>1, <1>2 DEF GeoIPTypeOK
<1>5. GeoIPTypeOK'
  BY <1>1, <1>2, <1>3, <1>4 DEF GeoIPTypeOK, RunsUpTo, Run, GeoIPAssumption
<1>6. \A g \in Host, t \in Slot : runs'[g][t] = runs[g][t] \/ runs'[g][t].at \notin ToFetch
  BY <1>2, <1>3 DEF ToFetch, Fetching
<1> QED BY <1>1, <1>5, <1>6, QuietStep DEF GeoIPIInv

LEMMA TimeInv ==
  ASSUME GeoIPAssumption, GeoIPIInv, ExpireStatus \/ ExpireEarly \/ Age
  PROVE  GeoIPIInv'
<1>1. /\ UNCHANGED <<rows, reader, launched, runs, newest, checks>> /\ (overlapped => overlapped')
      /\ overlapped' \in BOOLEAN
  BY DEF ExpireStatus, ExpireEarly, Age, GeoIPIInv, GeoIPTypeOK
<1>2. GeoIPTypeOK'
  <2>1. /\ newest \in Nat /\ staleUpTo' \in 0 .. newest /\ mmdbStatus' \in {"idle", "fetching", "unavailable"}
        /\ ages' \in 0 .. MaxAges /\ troubles' \in 0 .. MaxTroubles
    <3>1. newest \in Nat /\ staleUpTo \in 0 .. newest /\ ages \in 0 .. MaxAges /\ troubles \in 0 .. MaxTroubles
          /\ mmdbStatus \in {"idle", "fetching", "unavailable"}
      BY DEF GeoIPIInv, GeoIPTypeOK
    <3> QED BY <3>1 DEF ExpireStatus, ExpireEarly, Age, GeoIPAssumption
  <2> QED BY <1>1, <2>1 DEF GeoIPIInv, GeoIPTypeOK
<1>3. OneFetches' /\ InsertedIsThere' /\ DownloadedFirst'
  BY <1>1 DEF GeoIPIInv, OneFetches, InsertedIsThere, DownloadedFirst
<1>4. KeySaysSo'
  <2>1. CASE ExpireStatus
    <3> SUFFICES ASSUME ~ overlapped, NEW h \in Host, NEW s \in Slot, runs[h][s].at \in Fetching
                 PROVE  FALSE
      BY <1>1, <2>1 DEF KeySaysSo, ExpireStatus
    <3>1. mmdbStatus = "fetching"
      BY DEF GeoIPIInv, KeySaysSo
    <3>2. <<h, s>> \in Running(Fetching)
      BY DEF Running
    <3> QED BY <2>1, <3>1, <3>2 DEF ExpireStatus
  <2>2. CASE ExpireEarly
    BY <2>2 DEF ExpireEarly, KeySaysSo
  <2>3. CASE Age
    BY <1>1, <2>3 DEF Age, GeoIPIInv, KeySaysSo
  <2> QED BY <2>1, <2>2, <2>3
<1> QED BY <1>2, <1>3, <1>4 DEF GeoIPIInv

(* The invariant holds. *)
LEMMA GeoIPInvariance == GeoIPSpec => []GeoIPIInv
<1>1. GeoIPInit => GeoIPIInv
  <2> SUFFICES ASSUME GeoIPInit PROVE GeoIPIInv
    OBVIOUS
  <2>1. newest \in Nat /\ staleUpTo \in 0 .. newest /\ rows \subseteq 1 .. newest
    BY DEF GeoIPInit
  <2>2. NoRun \in Run(newest) /\ NoRun.at \notin ToFetch /\ NoRun.at = "none"
    BY <2>1, NoRunIsRun DEF ToFetch, Fetching
  <2>3. \A h \in Host, s \in Slot : runs[h][s] = NoRun
    BY DEF GeoIPInit
  <2>4. runs \in RunsUpTo(newest)
    BY <2>2 DEF GeoIPInit, RunsUpTo
  <2>5. GeoIPTypeOK
    <3>1. reader \in [Host -> 0 .. newest] /\ launched \subseteq Host
      BY <2>1 DEF GeoIPInit
    <3>2. checks \in 0 .. MaxChecks /\ ages \in 0 .. MaxAges /\ troubles \in 0 .. MaxTroubles
      BY GeoIPAssumption DEF GeoIPInit, GeoIPAssumption
    <3>3. overlapped \in BOOLEAN /\ mmdbStatus \in {"idle", "fetching", "unavailable"}
      BY DEF GeoIPInit
    <3> QED BY <2>1, <2>4, <3>1, <3>2, <3>3 DEF GeoIPTypeOK, RunsUpTo, Run
  <2> QED BY <2>2, <2>3, <2>5
          DEF GeoIPIInv, OneFetches, KeySaysSo, InsertedIsThere, DownloadedFirst, ToFetch
<1>2. GeoIPIInv /\ [GeoIPNext]_geoipVars => GeoIPIInv'
  <2> SUFFICES ASSUME GeoIPIInv, [GeoIPNext]_geoipVars PROVE GeoIPIInv'
    OBVIOUS
  <2>1. ASSUME NEW h \in Host, NEW s \in Slot, RunStep(h, s) PROVE GeoIPIInv'
    BY <2>1, QueryAttachmentInv, OpenAttachmentInv, GetStatusInv, PollStatusInv, SetFetchingInv,
       DownloadInv, InsertAttachmentInv, DeleteOthersInv, FetchEndsInv DEF RunStep
  <2>2. CASE GeoIPNext
    BY <2>1, <2>2, GeoIPAssumption, PrepareInv, TroubleInv, ThrowInv, CrashHostInv, TimeInv
    DEF GeoIPNext
  <2>3. CASE UNCHANGED geoipVars
    BY <2>3 DEF geoipVars, GeoIPIInv, GeoIPTypeOK, OneFetches, KeySaysSo, InsertedIsThere,
                DownloadedFirst
  <2> QED BY <2>2, <2>3
<1> QED BY <1>1, <1>2, PTL DEF GeoIPSpec

(* Two servers download the database at the same time only if the key was    *)
(* read by both before it was set, or expired.                              *)
THEOREM DownloadsOKHolds == GeoIPSpec => []DownloadsOK
<1>1. GeoIPIInv => DownloadsOK
  <2> SUFFICES ASSUME GeoIPIInv, ~ overlapped PROVE ~(Cardinality(Running(Fetching)) > 1)
    BY DEF GeoIPIInv, DownloadsOK, FetchersHaveCause
  <2>1. ASSUME NEW q \in Running(Fetching), NEW r \in Running(Fetching) PROVE q = r
    <3>1. PICK g \in Host, s \in Slot : q = <<g, s>> /\ runs[g][s].at \in Fetching
      BY DEF Running
    <3>2. PICK h \in Host, t \in Slot : r = <<h, t>> /\ runs[h][t].at \in Fetching
      BY DEF Running
    <3> QED BY <3>1, <3>2 DEF GeoIPIInv, OneFetches, ToFetch
  <2>2. CASE Running(Fetching) = {}
    BY <2>2, FS_EmptySet
  <2>3. CASE Running(Fetching) # {}
    <3>1. PICK r : Running(Fetching) = {r}
      BY <2>1, <2>3
    <3> QED BY <3>1, FS_Singleton
  <2> QED BY <2>2, <2>3
<1> QED BY <1>1, GeoIPInvariance, PTL

(* The database is only ever replaced, unless downloads overlapped. *)
THEOREM AttachmentIsKeptHolds == GeoIPSpec => AttachmentIsKept
<1>1. GeoIPIInv /\ [GeoIPNext]_geoipVars => [rows # {} => rows' # {} \/ overlapped]_geoipVars
  <2> SUFFICES ASSUME GeoIPIInv, [GeoIPNext]_geoipVars, rows # {}, ~ overlapped PROVE rows' # {}
    OBVIOUS
  <2>1. ASSUME NEW h \in Host, NEW s \in Slot, DeleteOthers(h, s) PROVE rows' # {}
    <3>1. runs[h][s].version \in rows
      BY <2>1 DEF DeleteOthers, RunAt, GeoIPIInv, InsertedIsThere
    <3> QED BY <2>1, <3>1 DEF DeleteOthers, Remaining
  <2>2. ASSUME NEW h \in Host, NEW s \in Slot, RunStep(h, s) PROVE rows' # {}
    <3>1. ~ DeleteOthers(h, s) => rows \subseteq rows'
      BY <2>2 DEF RunStep, QueryAttachment, OpenAttachment, GetStatus, PollStatus, SetFetching,
                  Download, InsertAttachment, Fetched, FetchFailed
    <3> QED BY <2>1, <3>1
  <2>3. CASE \E h \in Host, s \in Slot : Prepare(h, s) \/ Trouble(h, s) \/ Throw(h, s)
    BY <2>3 DEF Prepare, Trouble, Throw
  <2>4. CASE (\E h \in Host : CrashHost(h)) \/ ExpireStatus \/ ExpireEarly \/ Age
    BY <2>4 DEF CrashHost, ExpireStatus, ExpireEarly, Age
  <2>5. CASE UNCHANGED geoipVars
    BY <2>5 DEF geoipVars
  <2> QED BY <2>2, <2>3, <2>4, <2>5 DEF GeoIPNext
<1> QED BY <1>1, GeoIPInvariance, PTL DEF GeoIPSpec, AttachmentIsKept

-----------------------------------------------------------------------------
(* KafkaProducer: what is handed over in order rests on flush dropping       *)
(* nothing but a message that fits no batch, which needs that an empty batch *)
(* has no size; the limits rest on currentBatchSize being the size of the   *)
(* batch; that a message is in one place rests on the batch holding nothing *)
(* that was handed over.                                                    *)

-----------------------------------------------------------------------------
(* The inductive invariant *)

(* As long as every queued message fits a batch, what was handed over and    *)
(* the batch are what was queued.                                            *)
Fits == \A m \in ToSet(queued) : Size[m] <= maxBatchSize
HandedInOrder == Fits => handed \o currentBatch = queued

(* An empty batch has no size, so a message that fits is not dropped. *)
EmptyHasNoSize == currentBatch = <<>> => currentBatchSize = 0

(* currentBatchSize is the size of the batch. *)
SizeIsKept ==
  \E size \in RunningSizes(currentBatch, currentBatchSize) :
    size[Len(currentBatch)] = currentBatchSize

(* A batch of one message may have been flushed for it, and is within the   *)
(* limits or not; a longer one has room for a message.                      *)
BatchHasRoom ==
  /\ currentBatch = <<>> \/ Len(currentBatch) < maxQueueSize
  /\ Len(currentBatch) <= 1 \/ currentBatchSize <= maxBatchSize

(* What was handed over, and the batch, were queued, and nothing is in both. *)
BatchIsNew ==
  /\ ToSet(handed) \cup ToSet(currentBatch) \subseteq ToSet(queued)
  /\ ToSet(handed) \cap ToSet(currentBatch) = {}

(* What was handed over is in flight, arrived or failed, and not in two.    *)
HandedIsSomewhere ==
  /\ \A m \in ToSet(handed) : m \in arrived \cup failed \/ \E b \in sends : m \in ToSet(b)
  /\ arrived \cup failed \subseteq ToSet(handed) /\ arrived \cap failed = {}
  /\ \A b \in sends : ToSet(b) \subseteq ToSet(handed) \ (arrived \cup failed)
  /\ \A b, c \in sends : b # c => ToSet(b) \cap ToSet(c) = {}

IInv ==
  /\ TypeOK /\ EmptyHasNoSize /\ HandedInOrder /\ FittingInOrder
  /\ SizeIsKept /\ BatchHasRoom /\ BatchesWithinLimits
  /\ BatchIsNew /\ HandedIsSomewhere

-----------------------------------------------------------------------------
(* Sequences *)

LEMMA ToSetOfEmpty == ToSet(<<>>) = {}
BY DEF ToSet

LEMMA ToSetOfOne == ASSUME NEW x PROVE ToSet(<<x>>) = {x}
BY DEF ToSet

LEMMA ToSetOfConcat ==
  ASSUME NEW s \in Seq(Message), NEW t \in Seq(Message)
  PROVE  ToSet(s \o t) = ToSet(s) \cup ToSet(t)
<1>1. /\ DOMAIN s = 1 .. Len(s) /\ DOMAIN t = 1 .. Len(t)
      /\ DOMAIN (s \o t) = 1 .. Len(s) + Len(t)
      /\ Len(s) \in Nat /\ Len(t) \in Nat
  OBVIOUS
<1>2. \A i \in DOMAIN s : i \in DOMAIN (s \o t) /\ (s \o t)[i] = s[i]
  BY <1>1
<1>3. \A i \in DOMAIN t : Len(s) + i \in DOMAIN (s \o t) /\ (s \o t)[Len(s) + i] = t[i]
  BY <1>1
<1>4. ASSUME NEW i \in DOMAIN (s \o t) PROVE (s \o t)[i] \in ToSet(s) \cup ToSet(t)
  <2>1. CASE i <= Len(s)
    BY <1>1, <1>2, <2>1 DEF ToSet
  <2>2. CASE i > Len(s)
    <3>1. i - Len(s) \in DOMAIN t /\ i = Len(s) + (i - Len(s))
      BY <1>1, <2>2
    <3> QED BY <1>3, <3>1 DEF ToSet
  <2> QED BY <1>1, <2>1, <2>2
<1>5. ToSet(s \o t) \subseteq ToSet(s) \cup ToSet(t)
  BY <1>4 DEF ToSet
<1>6. ToSet(s) \subseteq ToSet(s \o t)
  BY <1>2 DEF ToSet
<1>7. ToSet(t) \subseteq ToSet(s \o t)
  BY <1>3 DEF ToSet
<1> QED BY <1>5, <1>6, <1>7

(* A longer sequence has the same subsequences, and those with its last      *)
(* element.                                                                 *)
LEMMA SubsequenceOfAppend ==
  ASSUME NEW s \in Seq(Message), NEW t \in Seq(Message), NEW x \in Message,
         IsSubsequence(t, s)
  PROVE  IsSubsequence(t, Append(s, x)) /\ IsSubsequence(Append(t, x), Append(s, x))
<1> DEFINE u == Append(s, x)
           v == Append(t, x)
<1>1. /\ DOMAIN s = 1 .. Len(s) /\ DOMAIN t = 1 .. Len(t)
      /\ DOMAIN u = 1 .. Len(s) + 1 /\ DOMAIN v = 1 .. Len(t) + 1
      /\ Len(s) \in Nat /\ Len(t) \in Nat
      /\ \A i \in DOMAIN s : u[i] = s[i]
      /\ \A i \in DOMAIN t : v[i] = t[i]
      /\ u[Len(s) + 1] = x /\ v[Len(t) + 1] = x
  OBVIOUS
<1>2. PICK at \in [DOMAIN t -> DOMAIN s] :
        /\ \A i \in DOMAIN t : t[i] = s[at[i]]
        /\ \A i, j \in DOMAIN t : i < j => at[i] < at[j]
  BY DEF IsSubsequence
<1>3. IsSubsequence(t, u)
  <2>1. at \in [DOMAIN t -> DOMAIN u] /\ \A i \in DOMAIN t : t[i] = u[at[i]]
    BY <1>1, <1>2
  <2> HIDE DEF u
  <2> QED BY <1>2, <2>1 DEF IsSubsequence
<1>4. IsSubsequence(v, u)
  <2> DEFINE to == [i \in DOMAIN v |-> IF i \in DOMAIN t THEN at[i] ELSE Len(s) + 1]
  <2>1. to \in [DOMAIN v -> DOMAIN u]
    BY <1>1, <1>2
  <2>2. \A i \in DOMAIN v : v[i] = u[to[i]]
    BY <1>1, <1>2
  <2>3. \A i, j \in DOMAIN v : i < j => to[i] < to[j]
    <3> SUFFICES ASSUME NEW i \in DOMAIN v, NEW j \in DOMAIN v, i < j PROVE to[i] < to[j]
      OBVIOUS
    <3>1. i \in DOMAIN t /\ to[i] = at[i] /\ at[i] \in DOMAIN s
      BY <1>1, <1>2
    <3>2. CASE j \in DOMAIN t
      BY <1>2, <3>1, <3>2
    <3>3. CASE j \notin DOMAIN t
      BY <1>1, <3>1, <3>3
    <3> QED BY <3>2, <3>3
  <2> HIDE DEF u, v, to
  <2> QED BY <2>1, <2>2, <2>3 DEF IsSubsequence
<1> QED BY <1>3, <1>4

(* The running sizes of a batch go on with the message that is pushed to it. *)
LEMMA SizesOfAppend ==
  ASSUME ProducerAssumption,
         NEW b \in Seq(Message), NEW m \in Message, NEW limit \in Nat,
         NEW size \in RunningSizes(b, limit)
  PROVE  \E next \in RunningSizes(Append(b, m), limit + Size[m]) :
           next[Len(Append(b, m))] = size[Len(b)] + Size[m]
<1> DEFINE c == Append(b, m)
           next == [i \in 0 .. Len(c) |-> IF i <= Len(b) THEN size[i] ELSE size[Len(b)] + Size[m]]
<1>1. /\ DOMAIN b = 1 .. Len(b) /\ DOMAIN c = 1 .. Len(b) + 1 /\ Len(c) = Len(b) + 1
      /\ Len(b) \in Nat /\ Size[m] \in Nat
      /\ \A i \in DOMAIN b : c[i] = b[i]
      /\ c[Len(b) + 1] = m
  BY DEF ProducerAssumption
<1>2. /\ size \in [0 .. Len(b) -> 0 .. limit] /\ size[0] = 0
      /\ \A i \in DOMAIN b : size[i] = size[i - 1] + Size[b[i]]
  BY DEF RunningSizes
<1> HIDE DEF c
<1>3. next \in [0 .. Len(c) -> 0 .. (limit + Size[m])] /\ next[0] = 0
  <2>1. ASSUME NEW i \in 0 .. Len(b) PROVE size[i] \in 0 .. limit + Size[m]
    <3>1. size[i] \in 0 .. limit
      BY <1>2
    <3> QED BY <1>1, <3>1
  <2>2. size[Len(b)] + Size[m] \in 0 .. limit + Size[m]
    <3>1. Len(b) \in 0 .. Len(b)
      BY <1>1
    <3>2. size[Len(b)] \in 0 .. limit
      BY <1>2, <3>1
    <3> QED BY <1>1, <3>2
  <2>3. \A i \in 0 .. Len(c) : i \in 0 .. Len(b) \/ i = Len(b) + 1
    BY <1>1
  <2>4. \A i \in 0 .. Len(c) : next[i] \in 0 .. limit + Size[m]
    BY <2>1, <2>2, <2>3
  <2>5. next[0] = 0
    BY <1>1, <1>2
  <2> QED BY <2>4, <2>5
<1>4. \A i \in DOMAIN c : next[i] = next[i - 1] + Size[c[i]]
  <2> SUFFICES ASSUME NEW i \in DOMAIN c PROVE next[i] = next[i - 1] + Size[c[i]]
    OBVIOUS
  <2>1. CASE i \in DOMAIN b
    BY <1>1, <1>2, <2>1
  <2>2. CASE i = Len(b) + 1
    BY <1>1, <1>2, <2>2
  <2> QED BY <1>1, <2>1, <2>2
<1>5. next[Len(c)] = size[Len(b)] + Size[m]
  BY <1>1
<1> HIDE DEF next
<1>7. limit + Size[m] \in Nat
  BY <1>1
<1>6. next \in RunningSizes(c, limit + Size[m])
  BY <1>3, <1>4 DEF RunningSizes
<1> QED BY <1>5, <1>6 DEF c

(* A batch of one message has its size. *)
LEMMA SizesOfOne ==
  ASSUME ProducerAssumption, NEW m \in Message
  PROVE  \E size \in RunningSizes(<<m>>, Size[m]) : size[Len(<<m>>)] = Size[m]
<1> DEFINE none == [i \in {0} |-> 0]
<1>1. none \in RunningSizes(<<>>, 0) /\ none[0] = 0
  <2>1. 0 .. 0 = {0} /\ Len(<<>>) = 0 /\ DOMAIN <<>> = {}
    OBVIOUS
  <2> QED BY <2>1 DEF RunningSizes
<1>2. Append(<<>>, m) = <<m>> /\ <<>> \in Seq(Message) /\ Len(<<>>) = 0 /\ Size[m] \in Nat
  BY DEF ProducerAssumption
<1> HIDE DEF none
<1>3. \E next \in RunningSizes(Append(<<>>, m), 0 + Size[m]) :
        next[Len(Append(<<>>, m))] = none[Len(<<>>)] + Size[m]
  <2>1. <<>> \in Seq(Message) /\ 0 \in Nat /\ none \in RunningSizes(<<>>, 0)
    BY <1>1, <1>2
  <2> QED BY <2>1, SizesOfAppend
<1>4. 0 + Size[m] = Size[m] /\ none[Len(<<>>)] + Size[m] = Size[m]
  BY <1>1, <1>2
<1> QED BY <1>2, <1>3, <1>4

(* Sizes within a limit are within a larger one. *)
LEMMA SizesWithin ==
  ASSUME NEW b, NEW l \in Nat, NEW limit \in Nat, l <= limit,
         RunningSizes(b, l) # {}
  PROVE  RunningSizes(b, limit) # {}
<1>1. [0 .. Len(b) -> 0 .. l] \subseteq [0 .. Len(b) -> 0 .. limit]
  <2>1. 0 .. l \subseteq 0 .. limit
    OBVIOUS
  <2> QED BY <2>1
<1> QED BY <1>1 DEF RunningSizes

-----------------------------------------------------------------------------
(* What queueMessage and flush do, where an empty batch has no size *)

(* m fits no batch and meets an empty one: flush appends nothing. *)
Dropped(m) ==
  /\ currentBatch = <<>> /\ Size[m] > maxBatchSize
  /\ UNCHANGED <<currentBatch, currentBatchSize, late, handed, sends>>

(* The batch has no room for m, which starts the next one. *)
FlushedFor(m) ==
  /\ currentBatch # <<>> /\ currentBatchSize + Size[m] > maxBatchSize
  /\ currentBatch' = <<m>> /\ currentBatchSize' = Size[m] /\ late' = FALSE
  /\ handed' = handed \o currentBatch
  /\ sends' = sends \cup {currentBatch}

(* The batch is long enough, or late, with m. *)
PushedAndFlushed(m) ==
  /\ currentBatchSize + Size[m] <= maxBatchSize
  /\ currentBatch' = <<>> /\ currentBatchSize' = 0 /\ late' = FALSE
  /\ handed' = handed \o Append(currentBatch, m)
  /\ sends' = sends \cup {Append(currentBatch, m)}

Pushed(m) ==
  /\ currentBatchSize + Size[m] <= maxBatchSize /\ Len(currentBatch) + 1 < maxQueueSize
  /\ currentBatch' = Append(currentBatch, m)
  /\ currentBatchSize' = currentBatchSize + Size[m]
  /\ UNCHANGED <<late, handed, sends>>

Flushed ==
  IF currentBatch = <<>> THEN UNCHANGED <<currentBatch, currentBatchSize, late, handed, sends>>
  ELSE /\ currentBatch' = <<>> /\ currentBatchSize' = 0 /\ late' = FALSE
       /\ handed' = handed \o currentBatch
       /\ sends' = sends \cup {currentBatch}

LEMMA FlushEffect ==
  ASSUME NEW b, NEW a, Flush(b, a)
  PROVE  /\ currentBatch \o b = <<>> =>
              UNCHANGED <<currentBatch, currentBatchSize, late, handed, sends>>
         /\ currentBatch \o b # <<>> =>
              /\ currentBatch' = a /\ late' = FALSE
              /\ currentBatchSize' = IF a = <<>> THEN 0 ELSE Size[a[1]]
              /\ handed' = (handed \o currentBatch) \o b
              /\ sends' = sends \cup {currentBatch \o b}
BY DEF Flush, batching

LEMMA QueueMessageCases ==
  ASSUME ProducerAssumption, TypeOK, EmptyHasNoSize, NEW m \in Message, QueueMessage(m)
  PROVE  /\ Dropped(m) \/ FlushedFor(m) \/ PushedAndFlushed(m) \/ Pushed(m)
         /\ m \notin ToSet(queued) /\ queued' = Append(queued, m)
         /\ UNCHANGED <<arrived, failed, phase, awaited>>
<1>t. /\ currentBatch \in Seq(Message) /\ handed \in Seq(Message)
      /\ currentBatchSize \in Nat /\ Size[m] \in Nat /\ maxBatchSize \in Nat
      /\ maxQueueSize \in Nat /\ Len(currentBatch) \in Nat
  BY DEF TypeOK, ProducerAssumption
<1>s. SUFFICES Dropped(m) \/ FlushedFor(m) \/ PushedAndFlushed(m) \/ Pushed(m)
  BY DEF QueueMessage
<1>c. currentBatch \o <<>> = currentBatch /\ (handed \o currentBatch) \o <<>> = handed \o currentBatch
  BY <1>t
<1>d. currentBatch \o <<m>> = Append(currentBatch, m) /\ Append(currentBatch, m) # <<>>
  <2>1. Len(Append(currentBatch, m)) # Len(<<>>)
    BY <1>t
  <2>2. Append(currentBatch, m) # <<>>
    BY <2>1
  <2>3. currentBatch \o <<m>> = Append(currentBatch, m)
    BY <1>t
  <2> QED BY <2>2, <2>3
<1>e. (handed \o currentBatch) \o <<m>> = handed \o Append(currentBatch, m)
  <2>1. (handed \o currentBatch) \o <<m>> = handed \o (currentBatch \o <<m>>)
    BY <1>t, <<m>> \in Seq(Message), ConcatAssociative
  <2> QED BY <1>d, <2>1
<1>1. CASE currentBatchSize + Size[m] > maxBatchSize /\ Flush(<<>>, <<m>>)
  <2>1. CASE currentBatch = <<>>
    <3>1. UNCHANGED <<currentBatch, currentBatchSize, late, handed, sends>>
      BY <1>c, <1>1, <2>1, FlushEffect
    <3>2. Size[m] > maxBatchSize
      BY <1>t, <1>1, <2>1 DEF EmptyHasNoSize
    <3> QED BY <2>1, <3>1, <3>2 DEF Dropped
  <2>2. CASE currentBatch # <<>>
    <3> DEFINE a == <<m>>
    <3>1. a # <<>> /\ a[1] = m
      OBVIOUS
    <3>2. Flush(<<>>, a)
      BY <1>1
    <3> HIDE DEF a
    <3>3. /\ currentBatch' = a /\ late' = FALSE /\ currentBatchSize' = Size[m]
          /\ handed' = handed \o currentBatch /\ sends' = sends \cup {currentBatch}
      BY <1>c, <2>2, <3>1, <3>2, FlushEffect
    <3> USE DEF a
    <3> QED BY <1>1, <2>2, <3>3 DEF FlushedFor
  <2> QED BY <2>1, <2>2
<1>2. CASE ~ (currentBatchSize + Size[m] > maxBatchSize) /\ Flush(<<m>>, <<>>)
  <2>1. currentBatchSize + Size[m] <= maxBatchSize
    BY <1>t, <1>2
  <2>2. /\ currentBatch' = <<>> /\ late' = FALSE /\ currentBatchSize' = 0
        /\ handed' = (handed \o currentBatch) \o <<m>> /\ sends' = sends \cup {currentBatch \o <<m>>}
    BY <1>d, <1>2, FlushEffect
  <2> QED BY <1>d, <1>e, <2>1, <2>2 DEF PushedAndFlushed
<1>3. CASE /\ ~ (currentBatchSize + Size[m] > maxBatchSize)
           /\ ~ (late \/ Len(currentBatch) + 1 >= maxQueueSize)
           /\ currentBatch' = Append(currentBatch, m)
           /\ currentBatchSize' = currentBatchSize + Size[m]
           /\ UNCHANGED <<late, handed, sends>>
  BY <1>t, <1>3 DEF Pushed
<1> QED BY <1>1, <1>2, <1>3 DEF QueueMessage

LEMMA FlushCases ==
  ASSUME TypeOK, Flush(<<>>, <<>>)
  PROVE  Flushed
<1>1. /\ currentBatch \o <<>> = currentBatch
      /\ (handed \o currentBatch) \o <<>> = handed \o currentBatch
  BY DEF TypeOK
<1> QED BY <1>1 DEF Flush, Flushed, batching

-----------------------------------------------------------------------------
(* Order *)

LEMMA OrderKept ==
  ASSUME ProducerAssumption, TypeOK, HandedInOrder, FittingInOrder, NEW m \in Message,
         queued' = Append(queued, m),
         \/ handed' \o currentBatch' = Append(handed \o currentBatch, m)
         \/ handed' \o currentBatch' = handed \o currentBatch /\ Size[m] > maxBatchSize
  PROVE  HandedInOrder' /\ FittingInOrder'
<1> DEFINE H == handed \o currentBatch
<1>1. H \in Seq(Message) /\ queued \in Seq(Message)
  BY DEF TypeOK
<1>2. ToSet(queued') = ToSet(queued) \cup {m}
  BY <1>1, ToSetOfAppend
<1>3. ToSet(Append(H, m)) = ToSet(H) \cup {m}
  <2> HIDE DEF H
  <2> QED BY <1>1, ToSetOfAppend
<1>4. IsSubsequence(H, queued') /\ IsSubsequence(Append(H, m), queued')
  <2>1. IsSubsequence(H, queued)
    BY DEF FittingInOrder
  <2> QED BY <1>1, <2>1, SubsequenceOfAppend
<1>5. Size[m] \in Nat /\ maxBatchSize \in Nat
  BY DEF ProducerAssumption
<1> DEFINE next == handed' \o currentBatch'
           H2 == Append(H, m)
<1>h. next = H2 \/ (next = H /\ Size[m] > maxBatchSize)
  OBVIOUS
<1> HIDE DEF next, H, H2
<1>6. IsSubsequence(next, queued')
  BY <1>4, <1>h DEF H2
<1>7. \A n \in ToSet(queued') : Size[n] <= maxBatchSize => n \in ToSet(next)
  <2>1. \A n \in ToSet(queued) : Size[n] <= maxBatchSize => n \in ToSet(H)
    BY DEF FittingInOrder, H
  <2>2. ToSet(H2) = ToSet(H) \cup {m}
    BY <1>3 DEF H2
  <2> QED BY <1>2, <1>5, <1>h, <2>1, <2>2
<1>8. FittingInOrder'
  BY <1>6, <1>7 DEF FittingInOrder, next
<1>9. HandedInOrder'
  <2>1. Fits' => Fits /\ Size[m] <= maxBatchSize
    BY <1>2 DEF Fits
  <2>2. Fits => H = queued
    BY DEF HandedInOrder, H
  <2>3. Fits' => next = queued'
    BY <1>5, <1>h, <2>1, <2>2 DEF H2
  <2> QED BY <2>3 DEF HandedInOrder, next
<1> QED BY <1>8, <1>9

LEMMA QueueMessageKeepsOrder ==
  ASSUME ProducerAssumption, IInv, NEW m \in Message, QueueMessage(m)
  PROVE  HandedInOrder' /\ FittingInOrder'
<1>t. currentBatch \in Seq(Message) /\ handed \in Seq(Message)
  BY DEF IInv, TypeOK
<1>0. /\ Dropped(m) \/ FlushedFor(m) \/ PushedAndFlushed(m) \/ Pushed(m)
      /\ queued' = Append(queued, m)
  BY QueueMessageCases DEF IInv
<1>1. \/ handed' \o currentBatch' = Append(handed \o currentBatch, m)
      \/ handed' \o currentBatch' = handed \o currentBatch /\ Size[m] > maxBatchSize
  <2>1. CASE Dropped(m)
    BY <2>1 DEF Dropped
  <2>2. CASE FlushedFor(m)
    BY <1>t, <2>2 DEF FlushedFor
  <2>3. CASE PushedAndFlushed(m)
    <3>1. (handed \o Append(currentBatch, m)) \o <<>> = Append(handed \o currentBatch, m)
      BY <1>t
    <3> QED BY <2>3, <3>1 DEF PushedAndFlushed
  <2>4. CASE Pushed(m)
    <3>1. handed \o Append(currentBatch, m) = Append(handed \o currentBatch, m)
      BY <1>t
    <3> QED BY <2>4, <3>1 DEF Pushed
  <2> QED BY <1>0, <2>1, <2>2, <2>3, <2>4
<1> QED BY <1>0, <1>1, OrderKept DEF IInv

LEMMA FlushKeepsOrder ==
  ASSUME IInv, Flushed, UNCHANGED queued
  PROVE  HandedInOrder' /\ FittingInOrder'
<1>1. handed' \o currentBatch' = handed \o currentBatch
  <2>1. (handed \o currentBatch) \o <<>> = handed \o currentBatch
    BY DEF IInv, TypeOK
  <2> QED BY <2>1 DEF Flushed
<1> QED BY <1>1 DEF IInv, HandedInOrder, FittingInOrder, Fits

-----------------------------------------------------------------------------
(* Limits *)

Limits == EmptyHasNoSize /\ SizeIsKept /\ BatchHasRoom /\ BatchesWithinLimits

LEMMA QueueMessageKeepsLimits ==
  ASSUME ProducerAssumption, IInv, NEW m \in Message, QueueMessage(m)
  PROVE  Limits'
<1>t. /\ currentBatch \in Seq(Message) /\ currentBatchSize \in Nat
      /\ Size[m] \in Nat /\ maxBatchSize \in Nat /\ maxQueueSize \in Nat
  BY DEF IInv, TypeOK, ProducerAssumption
<1>i. EmptyHasNoSize /\ SizeIsKept /\ BatchHasRoom /\ BatchesWithinLimits
  BY DEF IInv
<1>0. Dropped(m) \/ FlushedFor(m) \/ PushedAndFlushed(m) \/ Pushed(m)
  BY QueueMessageCases DEF IInv
<1>a. /\ Append(currentBatch, m) # <<>>
      /\ Len(Append(currentBatch, m)) = Len(currentBatch) + 1 /\ Len(currentBatch) \in Nat
  BY <1>t
<1>b. PICK size \in RunningSizes(currentBatch, currentBatchSize) :
        size[Len(currentBatch)] = currentBatchSize
  BY <1>i DEF SizeIsKept
<1>c. \E size2 \in RunningSizes(Append(currentBatch, m), currentBatchSize + Size[m]) :
        size2[Len(Append(currentBatch, m))] = currentBatchSize + Size[m]
  <2>1. \E size2 \in RunningSizes(Append(currentBatch, m), currentBatchSize + Size[m]) :
          size2[Len(Append(currentBatch, m))] = size[Len(currentBatch)] + Size[m]
    BY <1>t, <1>b, SizesOfAppend
  <2> QED BY <1>b, <2>1
<1>1. CASE Dropped(m)
  BY <1>i, <1>1 DEF Dropped, Limits, EmptyHasNoSize, SizeIsKept, BatchHasRoom, BatchesWithinLimits
<1>2. CASE FlushedFor(m)
  <2>1. <<m>> # <<>> /\ Len(<<m>>) = 1
    OBVIOUS
  <2>2. EmptyHasNoSize'
    BY <1>2, <2>1 DEF FlushedFor, EmptyHasNoSize
  <2>3. SizeIsKept'
    <3>1. \E size2 \in RunningSizes(<<m>>, Size[m]) : size2[Len(<<m>>)] = Size[m]
      BY SizesOfOne
    <3> QED BY <1>2, <3>1 DEF FlushedFor, SizeIsKept
  <2>4. BatchHasRoom'
    <3>1. Len(currentBatch) < maxQueueSize /\ Len(currentBatch) >= 1
      BY <1>t, <1>a, <1>i, <1>2 DEF BatchHasRoom, FlushedFor
    <3> QED BY <1>t, <1>a, <1>2, <2>1, <3>1 DEF BatchHasRoom, FlushedFor
  <2>5. BatchesWithinLimits'
    <3>1. \A b \in sends' \cup {currentBatch'} : b \in sends \cup {currentBatch} \/ b = <<m>>
      BY <1>2 DEF FlushedFor
    <3>2. Len(<<m>>) <= 1
      BY <2>1
    <3> QED BY <1>i, <3>1, <3>2 DEF BatchesWithinLimits
  <2> QED BY <2>2, <2>3, <2>4, <2>5 DEF Limits
<1>3. CASE PushedAndFlushed(m)
  <2>1. Len(<<>>) = 0
    OBVIOUS
  <2>2. EmptyHasNoSize'
    BY <1>3 DEF PushedAndFlushed, EmptyHasNoSize
  <2>3. SizeIsKept'
    <3> DEFINE none == [i \in {0} |-> 0]
    <3>1. 0 .. 0 = {0} /\ DOMAIN <<>> = {}
      OBVIOUS
    <3>2. none \in RunningSizes(<<>>, 0) /\ none[Len(<<>>)] = 0
      BY <2>1, <3>1 DEF RunningSizes
    <3> HIDE DEF none
    <3> QED BY <1>3, <3>2 DEF PushedAndFlushed, SizeIsKept
  <2>4. BatchHasRoom'
    BY <1>3, <2>1 DEF PushedAndFlushed, BatchHasRoom
  <2>5. BatchesWithinLimits'
    <3>1. RunningSizes(Append(currentBatch, m), maxBatchSize) # {}
      <4>1. RunningSizes(Append(currentBatch, m), currentBatchSize + Size[m]) # {}
        BY <1>c
      <4>2. currentBatchSize + Size[m] \in Nat /\ currentBatchSize + Size[m] <= maxBatchSize
        BY <1>t, <1>3 DEF PushedAndFlushed
      <4> QED BY <1>t, <4>1, <4>2, SizesWithin
    <3>2. Len(Append(currentBatch, m)) <= 1 \/ Len(Append(currentBatch, m)) <= maxQueueSize
      <4>1. currentBatch = <<>> => Len(currentBatch) = 0
        OBVIOUS
      <4> QED BY <1>t, <1>a, <1>i, <4>1 DEF BatchHasRoom
    <3>3. Len(<<>>) <= 1
      BY <2>1
    <3> QED BY <1>i, <1>3, <3>1, <3>2, <3>3 DEF PushedAndFlushed, BatchesWithinLimits
  <2> QED BY <2>2, <2>3, <2>4, <2>5 DEF Limits
<1>4. CASE Pushed(m)
  <2>1. EmptyHasNoSize' /\ SizeIsKept' /\ BatchHasRoom'
    BY <1>t, <1>a, <1>c, <1>4 DEF Pushed, EmptyHasNoSize, SizeIsKept, BatchHasRoom
  <2>2. BatchesWithinLimits'
    <3>1. RunningSizes(Append(currentBatch, m), currentBatchSize + Size[m]) # {}
      BY <1>c
    <3>2. currentBatchSize + Size[m] \in Nat /\ currentBatchSize + Size[m] <= maxBatchSize
      BY <1>t, <1>4 DEF Pushed
    <3>3. RunningSizes(Append(currentBatch, m), maxBatchSize) # {}
      BY <1>t, <3>1, <3>2, SizesWithin
    <3>4. Len(Append(currentBatch, m)) <= maxQueueSize
      BY <1>t, <1>a, <1>4 DEF Pushed
    <3> QED BY <1>i, <1>4, <3>3, <3>4 DEF Pushed, BatchesWithinLimits
  <2> QED BY <2>1, <2>2 DEF Limits
<1> QED BY <1>0, <1>1, <1>2, <1>3, <1>4

LEMMA FlushKeepsLimits ==
  ASSUME IInv, Flushed
  PROVE  Limits'
<1>i. EmptyHasNoSize /\ SizeIsKept /\ BatchHasRoom /\ BatchesWithinLimits
  BY DEF IInv
<1>1. CASE currentBatch = <<>>
  BY <1>i, <1>1 DEF Flushed, Limits, EmptyHasNoSize, SizeIsKept, BatchHasRoom, BatchesWithinLimits
<1>2. CASE currentBatch # <<>>
  <2>1. Len(<<>>) = 0 /\ 0 .. 0 = {0} /\ DOMAIN <<>> = {}
    OBVIOUS
  <2>2. SizeIsKept'
    <3> DEFINE none == [i \in {0} |-> 0]
    <3>1. none \in RunningSizes(<<>>, 0) /\ none[Len(<<>>)] = 0
      BY <2>1 DEF RunningSizes
    <3> HIDE DEF none
    <3> QED BY <1>2, <3>1 DEF Flushed, SizeIsKept
  <2>3. BatchesWithinLimits'
    <3>1. Len(<<>>) <= 1
      BY <2>1
    <3> QED BY <1>i, <1>2, <3>1 DEF Flushed, BatchesWithinLimits
  <2> QED BY <1>2, <2>1, <2>2, <2>3 DEF Flushed, Limits, EmptyHasNoSize, BatchHasRoom
<1> QED BY <1>1, <1>2

-----------------------------------------------------------------------------
(* Places *)

Places == BatchIsNew /\ HandedIsSomewhere

(* A batch of messages not handed over is handed over. *)
LEMMA HandedOver ==
  ASSUME TypeOK, HandedIsSomewhere, NEW b \in Seq(Message), b # <<>>,
         ToSet(b) \cap ToSet(handed) = {},
         handed' = handed \o b, sends' = sends \cup {b}, UNCHANGED <<arrived, failed>>
  PROVE  HandedIsSomewhere'
<1>1. ToSet(handed') = ToSet(handed) \cup ToSet(b)
  BY ToSetOfConcat DEF TypeOK
<1> QED BY <1>1 DEF HandedIsSomewhere

LEMMA QueueMessageKeepsPlaces ==
  ASSUME ProducerAssumption, IInv, NEW m \in Message, QueueMessage(m)
  PROVE  Places'
<1>t. /\ currentBatch \in Seq(Message) /\ handed \in Seq(Message) /\ queued \in Seq(Message)
      /\ TypeOK /\ BatchIsNew /\ HandedIsSomewhere
  BY DEF IInv, TypeOK
<1>0. /\ Dropped(m) \/ FlushedFor(m) \/ PushedAndFlushed(m) \/ Pushed(m)
      /\ m \notin ToSet(queued) /\ queued' = Append(queued, m) /\ UNCHANGED <<arrived, failed>>
  BY QueueMessageCases DEF IInv
<1>q. ToSet(queued') = ToSet(queued) \cup {m}
  BY <1>t, <1>0, ToSetOfAppend
<1>a. /\ ToSet(Append(currentBatch, m)) = ToSet(currentBatch) \cup {m}
      /\ Append(currentBatch, m) \in Seq(Message) /\ Append(currentBatch, m) # <<>>
  <2>1. ToSet(Append(currentBatch, m)) = ToSet(currentBatch) \cup {m}
    BY <1>t, ToSetOfAppend
  <2>2. Append(currentBatch, m) \in Seq(Message)
    BY <1>t
  <2>3. Len(Append(currentBatch, m)) # Len(<<>>)
    BY <1>t
  <2> QED BY <2>1, <2>2, <2>3
<1>1. CASE Dropped(m)
  BY <1>t, <1>0, <1>1, <1>q DEF Dropped, Places, BatchIsNew, HandedIsSomewhere
<1>2. CASE FlushedFor(m)
  <2>1. ToSet(handed') = ToSet(handed) \cup ToSet(currentBatch)
    BY <1>t, <1>2, ToSetOfConcat DEF FlushedFor
  <2>2. ToSet(currentBatch') = {m}
    BY <1>2, ToSetOfOne DEF FlushedFor
  <2>3. HandedIsSomewhere'
    BY <1>t, <1>0, <1>2, HandedOver DEF FlushedFor, BatchIsNew
  <2> QED BY <1>t, <1>0, <1>q, <2>1, <2>2, <2>3 DEF Places, BatchIsNew
<1>3. CASE PushedAndFlushed(m)
  <2>1. ToSet(handed') = ToSet(handed) \cup ToSet(Append(currentBatch, m))
    BY <1>t, <1>a, <1>3, ToSetOfConcat DEF PushedAndFlushed
  <2>2. ToSet(currentBatch') = {}
    BY <1>3, ToSetOfEmpty DEF PushedAndFlushed
  <2>3. HandedIsSomewhere'
    BY <1>t, <1>0, <1>a, <1>3, HandedOver DEF PushedAndFlushed, BatchIsNew
  <2> QED BY <1>t, <1>q, <1>a, <2>1, <2>2, <2>3 DEF Places, BatchIsNew
<1>4. CASE Pushed(m)
  BY <1>t, <1>0, <1>q, <1>a, <1>4 DEF Pushed, Places, BatchIsNew, HandedIsSomewhere
<1> QED BY <1>0, <1>1, <1>2, <1>3, <1>4

LEMMA FlushKeepsPlaces ==
  ASSUME IInv, Flushed, UNCHANGED <<arrived, failed, queued>>
  PROVE  Places'
<1>t. /\ currentBatch \in Seq(Message) /\ handed \in Seq(Message)
      /\ TypeOK /\ BatchIsNew /\ HandedIsSomewhere
  BY DEF IInv, TypeOK
<1>1. CASE currentBatch = <<>>
  BY <1>t, <1>1 DEF Flushed, Places, BatchIsNew, HandedIsSomewhere
<1>2. CASE currentBatch # <<>>
  <2>1. ToSet(handed') = ToSet(handed) \cup ToSet(currentBatch)
    BY <1>t, <1>2, ToSetOfConcat DEF Flushed
  <2>2. ToSet(currentBatch') = {}
    BY <1>2, ToSetOfEmpty DEF Flushed
  <2>3. HandedIsSomewhere'
    BY <1>t, <1>2, HandedOver DEF Flushed, BatchIsNew
  <2> QED BY <1>t, <2>1, <2>2, <2>3 DEF Places, BatchIsNew
<1> QED BY <1>1, <1>2

(* A batch is answered: all of it has arrived, or failed. *)
LEMMA AnswerKeepsPlaces ==
  ASSUME IInv, NEW b \in sends, Sent(b) \/ SendFails(b)
  PROVE  Places'
<1>1. /\ BatchIsNew /\ HandedIsSomewhere /\ sends' = sends \ {b}
      /\ UNCHANGED <<handed, currentBatch, queued>>
      /\ \/ arrived' = arrived \cup ToSet(b) /\ failed' = failed
         \/ failed' = failed \cup ToSet(b) /\ arrived' = arrived
  BY DEF IInv, Sent, SendFails, batching
<1>2. BatchIsNew'
  BY <1>1 DEF BatchIsNew
<1>3. ToSet(b) \subseteq ToSet(handed) \ (arrived \cup failed)
  BY <1>1 DEF HandedIsSomewhere
<1>4. HandedIsSomewhere'
  BY <1>1, <1>3 DEF HandedIsSomewhere
<1> QED BY <1>2, <1>4 DEF Places

(* What the invariant says of places is AccountedOnce. *)
LEMMA PlacesAccounted ==
  ASSUME HandedIsSomewhere
  PROVE  AccountedOnce
<1> SUFFICES ASSUME NEW m \in ToSet(handed)
             PROVE  Cardinality({b \in sends : m \in ToSet(b)}) + (IF m \in arrived THEN 1 ELSE 0)
                      + (IF m \in failed THEN 1 ELSE 0) = 1
  BY DEF AccountedOnce
<1> DEFINE flying == {b \in sends : m \in ToSet(b)}
<1>1. CASE m \in arrived \cup failed
  <2>1. flying = {}
    BY <1>1 DEF HandedIsSomewhere
  <2>2. Cardinality(flying) = 0
    BY <2>1, FS_EmptySet
  <2>3. ~ (m \in arrived /\ m \in failed)
    BY DEF HandedIsSomewhere
  <2> QED BY <1>1, <2>2, <2>3
<1>2. CASE m \notin arrived \cup failed
  <2>1. PICK b \in sends : m \in ToSet(b)
    BY <1>2 DEF HandedIsSomewhere
  <2>2. flying = {b}
    BY <2>1 DEF HandedIsSomewhere
  <2>3. Cardinality(flying) = 1
    BY <2>2, FS_Singleton
  <2> QED BY <1>2, <2>3
<1> QED BY <1>1, <1>2

-----------------------------------------------------------------------------
(* The invariant holds *)

LEMMA QueueMessageTypeOK ==
  ASSUME ProducerAssumption, IInv, NEW m \in Message, QueueMessage(m)
  PROVE  TypeOK'
<1>t. /\ currentBatch \in Seq(Message) /\ handed \in Seq(Message) /\ queued \in Seq(Message)
      /\ sends \subseteq Seq(Message) /\ currentBatchSize \in Nat /\ Size[m] \in Nat
      /\ late \in BOOLEAN
  BY DEF IInv, TypeOK, ProducerAssumption
<1>0. /\ Dropped(m) \/ FlushedFor(m) \/ PushedAndFlushed(m) \/ Pushed(m)
      /\ queued' = Append(queued, m) /\ UNCHANGED <<arrived, failed, phase, awaited>>
  BY QueueMessageCases DEF IInv
<1>a. /\ Append(currentBatch, m) \in Seq(Message) /\ Append(queued, m) \in Seq(Message)
      /\ handed \o currentBatch \in Seq(Message)
      /\ handed \o Append(currentBatch, m) \in Seq(Message)
      /\ <<m>> \in Seq(Message) /\ <<>> \in Seq(Message)
      /\ currentBatchSize + Size[m] \in Nat
  BY <1>t
<1>1. /\ currentBatch' \in Seq(Message) /\ currentBatchSize' \in Nat /\ late' \in BOOLEAN
      /\ sends' \subseteq Seq(Message) /\ handed' \in Seq(Message)
  <2>1. CASE Dropped(m)
    BY <1>t, <2>1 DEF Dropped
  <2>2. CASE FlushedFor(m)
    BY <1>t, <1>a, <2>2 DEF FlushedFor
  <2>3. CASE PushedAndFlushed(m)
    BY <1>t, <1>a, <2>3 DEF PushedAndFlushed
  <2>4. CASE Pushed(m)
    BY <1>t, <1>a, <2>4 DEF Pushed
  <2> QED BY <1>0, <2>1, <2>2, <2>3, <2>4
<1> QED BY <1>0, <1>1, <1>a DEF IInv, TypeOK

LEMMA FlushTypeOK ==
  ASSUME IInv, Flushed, UNCHANGED <<arrived, failed, queued>>,
         phase' \in {"running", "flushing", "destroyed"}, awaited' \in Seq(Message)
  PROVE  TypeOK'
<1>1. /\ handed \o currentBatch \in Seq(Message) /\ <<>> \in Seq(Message)
      /\ TypeOK
  BY DEF IInv, TypeOK
<1>2. CASE currentBatch = <<>>
  BY <1>1, <1>2 DEF TypeOK, Flushed
<1>3. CASE currentBatch # <<>>
  <2>1. /\ currentBatch' = <<>> /\ currentBatchSize' = 0 /\ late' = FALSE
        /\ handed' = handed \o currentBatch /\ sends' = sends \cup {currentBatch}
    BY <1>3 DEF Flushed
  <2>2. currentBatch' \in Seq(Message) /\ handed' \in Seq(Message)
    BY <1>1, <2>1
  <2>3. sends' \subseteq Seq(Message)
    BY <1>1, <2>1 DEF TypeOK
  <2>4. currentBatchSize' \in Nat /\ late' \in BOOLEAN
    BY <2>1
  <2> QED BY <1>1, <2>2, <2>3, <2>4 DEF TypeOK
<1> QED BY <1>2, <1>3

(* A flush on its own. *)
LEMMA FlushIInv ==
  ASSUME IInv, Flush(<<>>, <<>>), UNCHANGED <<arrived, failed, queued>>,
         phase' \in {"running", "flushing", "destroyed"}, awaited' \in Seq(Message)
  PROVE  IInv'
<1>1. Flushed
  BY FlushCases DEF IInv
<1> QED
  BY <1>1, FlushTypeOK, FlushKeepsOrder, FlushKeepsLimits, FlushKeepsPlaces
     DEF IInv, Limits, Places

(* The steps that touch neither the batch nor what was handed over. *)
LEMMA OtherIInv ==
  ASSUME IInv, TimePasses \/ (\E b \in sends : Sent(b) \/ SendFails(b)) \/ Destroy \/ UNCHANGED vars
  PROVE  IInv'
<1>1. UNCHANGED <<currentBatch, currentBatchSize, queued, handed>> /\ sends' \subseteq sends
  BY DEF TimePasses, Sent, SendFails, Destroy, vars, batching
<1>2. TypeOK'
  <2>0. TypeOK /\ \A b \in Seq(Message) : ToSet(b) \subseteq Message
    BY DEF IInv, ToSet
  <2>1. CASE TimePasses
    BY <2>0, <2>1 DEF TimePasses, TypeOK
  <2>2. ASSUME NEW b \in sends, Sent(b) \/ SendFails(b) PROVE TypeOK'
    <3>1. ToSet(b) \subseteq Message
      BY <2>0 DEF TypeOK
    <3> QED BY <2>0, <2>2, <3>1 DEF Sent, SendFails, TypeOK, batching
  <2>3. CASE Destroy
    BY <2>0, <2>3 DEF Destroy, TypeOK, batching
  <2>4. CASE UNCHANGED vars
    BY <2>0, <2>4 DEF vars, TypeOK
  <2> QED BY <2>1, <2>2, <2>3, <2>4
<1>3. HandedInOrder' /\ FittingInOrder'
  BY <1>1 DEF IInv, HandedInOrder, FittingInOrder, Fits
<1>4. Limits'
  BY <1>1 DEF IInv, Limits, EmptyHasNoSize, SizeIsKept, BatchHasRoom, BatchesWithinLimits
<1>5. Places'
  <2>1. CASE \E b \in sends : Sent(b) \/ SendFails(b)
    BY <2>1, AnswerKeepsPlaces
  <2>2. CASE TimePasses \/ Destroy \/ UNCHANGED vars
    <3>1. UNCHANGED <<currentBatch, queued, handed, sends, arrived, failed>>
      BY <2>2 DEF TimePasses, Destroy, vars, batching
    <3> QED BY <3>1 DEF IInv, Places, BatchIsNew, HandedIsSomewhere
  <2> QED BY <2>1, <2>2
<1> QED BY <1>2, <1>3, <1>4, <1>5 DEF IInv, Limits, Places

LEMMA InitIInv == ASSUME ProducerAssumption, Init PROVE IInv
<1>1. TypeOK
  <2>1. <<>> \in Seq(Message)
    OBVIOUS
  <2> QED BY <2>1 DEF Init, TypeOK
<1>2. <<>> \o <<>> = <<>> /\ DOMAIN <<>> = {} /\ Len(<<>>) = 0 /\ 0 .. 0 = {0}
  OBVIOUS
<1>3. EmptyHasNoSize /\ HandedInOrder
  BY <1>2 DEF Init, EmptyHasNoSize, HandedInOrder
<1>4. FittingInOrder
  <2> DEFINE at == [i \in {} |-> 0]
  <2>1. at \in [DOMAIN <<>> -> DOMAIN <<>>]
    BY <1>2
  <2>2. IsSubsequence(<<>>, <<>>)
    BY <1>2, <2>1 DEF IsSubsequence
  <2> QED BY <1>2, <2>2, ToSetOfEmpty DEF Init, FittingInOrder
<1>5. SizeIsKept
  <2> DEFINE none == [i \in {0} |-> 0]
  <2>1. none \in RunningSizes(<<>>, 0) /\ none[Len(<<>>)] = 0
    BY <1>2 DEF RunningSizes
  <2> HIDE DEF none
  <2> QED BY <2>1 DEF Init, SizeIsKept
<1>6. BatchHasRoom /\ BatchesWithinLimits
  BY <1>2 DEF Init, BatchHasRoom, BatchesWithinLimits
<1>7. BatchIsNew /\ HandedIsSomewhere
  BY ToSetOfEmpty DEF Init, BatchIsNew, HandedIsSomewhere
<1> QED BY <1>1, <1>3, <1>4, <1>5, <1>6, <1>7 DEF IInv

LEMMA NextIInv == ASSUME ProducerAssumption, IInv, [Next]_vars PROVE IInv'
<1>1. ASSUME NEW m \in Message, QueueMessage(m) PROVE IInv'
  BY <1>1, QueueMessageTypeOK, QueueMessageKeepsOrder, QueueMessageKeepsLimits,
     QueueMessageKeepsPlaces DEF IInv, Limits, Places
<1>2. CASE IntervalFlush
  BY <1>2, FlushIInv DEF IntervalFlush, IInv, TypeOK
<1>3. CASE FlushKafkaMessages
  BY <1>3, FlushIInv DEF FlushKafkaMessages, IInv, TypeOK
<1>4. CASE TimePasses \/ (\E b \in sends : Sent(b) \/ SendFails(b)) \/ Destroy \/ UNCHANGED vars
  BY <1>4, OtherIInv
<1> QED BY <1>1, <1>2, <1>3, <1>4 DEF Next

LEMMA Invariance == Spec => []IInv
<1>1. Init => IInv
  BY ProducerAssumption, InitIInv
<1>2. IInv /\ [Next]_vars => IInv'
  BY ProducerAssumption, NextIInv
<1> QED BY <1>1, <1>2, PTL DEF Spec

(* Every batch handed to sendBatch keeps the limits, unless it is a single   *)
(* message, every message handed over is in flight, arrived or failed, and  *)
(* in one of these only, and a message that fits no batch costs no other    *)
(* message its place.                                                       *)
THEOREM ProducerOKHolds == Spec => []ProducerOK
<1>1. IInv => ProducerOK
  BY PlacesAccounted DEF IInv, ProducerOK
<1> QED BY <1>1, Invariance, PTL
==============================================================================
