-------------------------------- MODULE GeoIP ---------------------------------
(***************************************************************************)
(* The GeoIP database of several plugin servers                             *)
(* (src/src/main/services/mmdb.ts): a file in Postgres, which the server    *)
(* that finds it missing or stale downloads, under a Redis key that is no   *)
(* lock: one command reads it, another one sets it.                         *)
(*                                                                          *)
(* Abstracted: a file is its version, which its name shows; the requests    *)
(* for the location of an address.                                          *)
(***************************************************************************)
EXTENDS Integers, FiniteSets, FiniteSetsExt

CONSTANTS
  Host,        \* plugin servers
  Slot,        \* bound: runs of prepareMmdb of a server at a time
  MaxChecks,   \* bound: launches and staleness checks
  MaxAges,     \* bound: times that the files become stale
  MaxTroubles  \* bound: failed downloads, queries and commands, slow downloads, crashes

ASSUME GeoIPAssumption ==
  Slot # {} /\ MaxChecks \in Nat /\ MaxAges \in Nat /\ MaxTroubles \in Nat

VARIABLES
  rows,         \* Postgres: versions of the attachments with MMDB_ATTACHMENT_KEY
  mmdbStatus,   \* Redis: MMDB_STATUS_REDIS_KEY, "idle" also when it is not there
  reader,       \* [server -> version of serverInstance.mmdb, 0 for none]
  launched,     \* servers whose first prepareMmdb has returned
  runs,         \* [server -> [slot -> a run of prepareMmdb]]
  newest,       \* the newest version
  staleUpTo,    \* versions up to this one are older than MMDB_STALE_AGE_DAYS
  checks, ages, troubles,
  overlapped    \* history: two runs found the key idle before either set it, or
                \* it expired under a run that downloads

geoipVars == <<rows, mmdbStatus, reader, launched, runs, newest, staleUpTo, checks, ages, troubles,
               overlapped>>

\* a run: where it is, who waits for it (the launch, a check, or nobody: then
\* its reader is injected), and the version it has
NoRun == [at |-> "none", for |-> "inject", version |-> 0]
Fetching == {"download", "insert", "delete", "open", "failed"}
RunPlaces == {"none", "query", "status", "wait", "set", "opening"} \cup Fetching

GeoIPTypeOK ==
  /\ rows \subseteq 1 .. newest /\ newest \in Nat /\ staleUpTo \in 0 .. newest
  /\ mmdbStatus \in {"idle", "fetching", "unavailable"}
  /\ reader \in [Host -> 0 .. newest] /\ launched \subseteq Host
  /\ runs \in [Host -> [Slot -> [at : RunPlaces, for : {"launch", "check", "inject"}, version : 0 .. newest]]]
  /\ checks \in 0 .. MaxChecks /\ ages \in 0 .. MaxAges /\ troubles \in 0 .. MaxTroubles
  /\ overlapped \in BOOLEAN

\* no attachment, or one that is stale
GeoIPInit ==
  /\ newest \in {0, 1} /\ staleUpTo = newest /\ rows = 1 .. newest
  /\ mmdbStatus = "idle"
  /\ reader = [h \in Host |-> 0] /\ launched = {}
  /\ runs = [h \in Host |-> [s \in Slot |-> NoRun]]
  /\ checks = 0 /\ ages = 0 /\ troubles = 0 /\ overlapped = FALSE

RunAt(h, s, place) == runs[h][s].at = place
Running(places) == {r \in Host \X Slot : runs[r[1]][r[2]].at \in places}
Move(h, s, place) == runs' = [runs EXCEPT ![h][s].at = place]
Launching(h) == \E s \in Slot : runs[h][s].at # "none" /\ runs[h][s].for = "launch"

-----------------------------------------------------------------------------
(* What starts a run                                                        *)

\* startPluginsServer, and every 4 hours performMmdbStalenessCheck; a slot is
\* left for what goes on in the background
Prepare(h, s) ==
  /\ RunAt(h, s, "none") /\ \E b \in Slot \ {s} : RunAt(h, b, "none")
  /\ ~Launching(h) /\ checks < MaxChecks
  /\ checks' = checks + 1
  /\ runs' = [runs EXCEPT ![h][s] =
       [NoRun EXCEPT !.at = "query", !.for = IF h \in launched THEN "check" ELSE "launch"]]
  /\ UNCHANGED <<rows, mmdbStatus, reader, launched, newest, staleUpTo, ages, troubles, overlapped>>

\* a run ends with a reader, or without: null from fetching is no reader
Finish(h, s, version) ==
  LET for == runs[h][s].for
  IN /\ runs' = [runs EXCEPT ![h][s] = NoRun]
     /\ reader' = [reader EXCEPT ![h] = IF for = "launch" \/ version # 0 THEN version ELSE @]
     /\ launched' = IF for = "launch" THEN launched \cup {h} ELSE launched

-----------------------------------------------------------------------------
(* prepareMmdb                                                              *)

\* the attachment whose name comes first
Oldest == Min(rows)

\* nothing there: fetch; stale: a check fetches, others leave that to a run in
\* the background and go on with what is there
QueryAttachment(h, s) ==
  /\ RunAt(h, s, "query")
  /\ LET check == runs[h][s].for = "check"
         Fetch == [runs[h][s] EXCEPT !.at = "status", !.for = IF check THEN "inject" ELSE @]
         Open == [runs[h][s] EXCEPT !.at = "opening", !.version = Oldest]
     IN \/ rows = {} /\ runs' = [runs EXCEPT ![h][s] = Fetch]
        \/ /\ rows # {} /\ Oldest <= staleUpTo
           /\ IF check THEN runs' = [runs EXCEPT ![h][s] = Fetch]
              ELSE \E b \in Slot : RunAt(h, b, "none") /\
                     runs' = [runs EXCEPT ![h][s] = Open, ![h][b] = [NoRun EXCEPT !.at = "status"]]
        \/ /\ rows # {} /\ Oldest > staleUpTo
           /\ runs' = [runs EXCEPT ![h][s] = IF check THEN NoRun ELSE Open]
  /\ UNCHANGED <<rows, mmdbStatus, reader, launched, newest, staleUpTo, checks, ages, troubles, overlapped>>

\* decompressAndOpenMmdb of what was there
OpenAttachment(h, s) ==
  /\ RunAt(h, s, "opening")
  /\ Finish(h, s, runs[h][s].version)
  /\ UNCHANGED <<rows, mmdbStatus, newest, staleUpTo, checks, ages, troubles, overlapped>>

-----------------------------------------------------------------------------
(* distributableFetchAndInsertFreshMmdb                                     *)

(* Mutant: nobody waits. *)
GetStatusNotWaiting(h, s) ==
  /\ RunAt(h, s, "status")
  /\ IF mmdbStatus = "unavailable" THEN Finish(h, s, 0)
     ELSE Move(h, s, "set") /\ UNCHANGED <<reader, launched>>
  /\ overlapped' = (overlapped \/ (mmdbStatus = "idle" /\ Running({"set"}) # {}))
  /\ UNCHANGED <<rows, mmdbStatus, newest, staleUpTo, checks, ages, troubles>>

GetStatus(h, s) ==
  /\ RunAt(h, s, "status")
  /\ CASE mmdbStatus = "unavailable" -> Finish(h, s, 0)
       [] mmdbStatus = "fetching" -> Move(h, s, "wait") /\ UNCHANGED <<reader, launched>>
       [] mmdbStatus = "idle" -> Move(h, s, "set") /\ UNCHANGED <<reader, launched>>
  /\ overlapped' = (overlapped \/ (mmdbStatus = "idle" /\ Running({"set"}) # {}))
  /\ UNCHANGED <<rows, mmdbStatus, newest, staleUpTo, checks, ages, troubles>>

\* asked every 200 ms: prepareMmdb from the start, but for no check
PollStatus(h, s) ==
  /\ RunAt(h, s, "wait") /\ mmdbStatus # "fetching"
  /\ Move(h, s, "query")
  /\ UNCHANGED <<rows, mmdbStatus, reader, launched, newest, staleUpTo, checks, ages, troubles, overlapped>>

(* Mutant: a status that no reader of the key knows. *)
SetDownloading(h, s) ==
  /\ RunAt(h, s, "set")
  /\ mmdbStatus' = "downloading"
  /\ Move(h, s, "download")
  /\ UNCHANGED <<rows, reader, launched, newest, staleUpTo, checks, ages, troubles, overlapped>>

\* the key says fetching, for 120 seconds
SetFetching(h, s) ==
  /\ RunAt(h, s, "set")
  /\ mmdbStatus' = "fetching"
  /\ Move(h, s, "download")
  /\ UNCHANGED <<rows, reader, launched, newest, staleUpTo, checks, ages, troubles, overlapped>>

Download(h, s) ==
  /\ RunAt(h, s, "download")
  /\ newest' = newest + 1
  /\ runs' = [runs EXCEPT ![h][s] = [@ EXCEPT !.at = "insert", !.version = newest + 1]]
  /\ UNCHANGED <<rows, mmdbStatus, reader, launched, staleUpTo, checks, ages, troubles, overlapped>>

InsertAttachment(h, s) ==
  /\ RunAt(h, s, "insert")
  /\ rows' = rows \cup {runs[h][s].version}
  /\ Move(h, s, "delete")
  /\ UNCHANGED <<mmdbStatus, reader, launched, newest, staleUpTo, checks, ages, troubles, overlapped>>

(* Mutant: the attachment itself is deleted, too. *)
RemainingNone(h, s) == {}

\* DELETE ... WHERE key = $1 AND id != $2
Remaining(h, s) == rows \cap {runs[h][s].version}

DeleteOthers(h, s) ==
  /\ RunAt(h, s, "delete")
  /\ rows' = Remaining(h, s)
  /\ Move(h, s, "open")
  /\ UNCHANGED <<mmdbStatus, reader, launched, newest, staleUpTo, checks, ages, troubles, overlapped>>

\* decompressAndOpenMmdb, and the key is idle again, whoever has set it
Fetched(h, s) ==
  /\ RunAt(h, s, "open")
  /\ mmdbStatus' = "idle"
  /\ Finish(h, s, runs[h][s].version)
  /\ UNCHANGED <<rows, newest, staleUpTo, checks, ages, troubles, overlapped>>

FetchFailed(h, s) ==
  /\ RunAt(h, s, "failed")
  /\ mmdbStatus' = "unavailable"
  /\ Finish(h, s, 0)
  /\ UNCHANGED <<rows, newest, staleUpTo, checks, ages, troubles, overlapped>>

-----------------------------------------------------------------------------
(* Time and failures                                                        *)

(* Mutant: the key of a download does not expire. *)
ExpireUnavailable ==
  /\ mmdbStatus = "unavailable" /\ mmdbStatus' = "idle"
  /\ UNCHANGED <<rows, reader, launched, runs, newest, staleUpTo, checks, ages, troubles, overlapped>>

\* 120 seconds; no run that downloads takes as long, unless there is trouble
ExpireStatus ==
  /\ \/ mmdbStatus = "unavailable"
     \/ mmdbStatus = "fetching" /\ Running(Fetching) = {}
  /\ mmdbStatus' = "idle"
  /\ UNCHANGED <<rows, reader, launched, runs, newest, staleUpTo, checks, ages, troubles, overlapped>>

ExpireEarly ==
  /\ mmdbStatus = "fetching" /\ Running(Fetching) # {} /\ troubles < MaxTroubles
  /\ troubles' = troubles + 1
  /\ mmdbStatus' = "idle" /\ overlapped' = TRUE
  /\ UNCHANGED <<rows, reader, launched, runs, newest, staleUpTo, checks, ages>>

\* the download or a query fails
Trouble(h, s) ==
  /\ runs[h][s].at \in Fetching \ {"failed"} /\ troubles < MaxTroubles
  /\ troubles' = troubles + 1
  /\ Move(h, s, "failed")
  /\ UNCHANGED <<rows, mmdbStatus, reader, launched, newest, staleUpTo, checks, ages, overlapped>>

\* outside the try (lines 114-143) a failure is thrown: of the query or of what
\* it finds (an attachment without contents, date or reader), of the key, also
\* when it is to say that nothing could be fetched. The launch gives up and the
\* server exits; of other runs nobody hears.
Throw(h, s) ==
  /\ runs[h][s].at \in RunPlaces \ ({"none"} \cup (Fetching \ {"failed"})) /\ troubles < MaxTroubles
  /\ troubles' = troubles + 1
  /\ LET launch == runs[h][s].for = "launch"
     IN /\ runs' = [runs EXCEPT ![h] =
                      [b \in Slot |-> IF launch \/ b = s THEN NoRun ELSE runs[h][b]]]
        /\ reader' = [reader EXCEPT ![h] = IF launch THEN 0 ELSE @]
  /\ UNCHANGED <<rows, mmdbStatus, launched, newest, staleUpTo, checks, ages, overlapped>>

CrashHost(h) ==
  /\ troubles < MaxTroubles /\ \E s \in Slot : runs[h][s].at # "none"
  /\ troubles' = troubles + 1
  /\ runs' = [runs EXCEPT ![h] = [s \in Slot |-> NoRun]]
  /\ reader' = [reader EXCEPT ![h] = 0] /\ launched' = launched \ {h}
  /\ UNCHANGED <<rows, mmdbStatus, newest, staleUpTo, checks, ages, overlapped>>

Age ==
  /\ ages < MaxAges /\ staleUpTo < newest
  /\ ages' = ages + 1 /\ staleUpTo' = newest
  /\ UNCHANGED <<rows, mmdbStatus, reader, launched, runs, newest, checks, troubles, overlapped>>

RunStep(h, s) ==
  \/ QueryAttachment(h, s) \/ OpenAttachment(h, s)
  \/ GetStatus(h, s) \/ PollStatus(h, s) \/ SetFetching(h, s)
  \/ Download(h, s) \/ InsertAttachment(h, s) \/ DeleteOthers(h, s)
  \/ Fetched(h, s) \/ FetchFailed(h, s)

GeoIPNext ==
  \/ \E h \in Host, s \in Slot : Prepare(h, s) \/ RunStep(h, s) \/ Trouble(h, s) \/ Throw(h, s)
  \/ \E h \in Host : CrashHost(h)
  \/ ExpireStatus \/ ExpireEarly \/ Age

-----------------------------------------------------------------------------
(* Properties *)

\* Two runs fetch at the same time only when the key could not prevent it: both
\* read it before either set it, or it expired under the first (mmdb.ts:99,117).
FetchersHaveCause == Cardinality(Running(Fetching)) > 1 => overlapped

\* Once there is an attachment it is only ever replaced, unless two runs fetched
\* at the same time: then each may delete the other's (mmdb.ts:72-88).
AttachmentIsKept == [][rows # {} => rows' # {} \/ overlapped]_geoipVars

\* Each run ends: whoever waits for another server's download goes on when that
\* is over, or when the key has expired because the server died.
RunsEnd == \A h \in Host, s \in Slot : runs[h][s].at # "none" ~> runs[h][s].at = "none"

\* Downloads exclude each other, as far as the key can see to it.
DownloadsOK == GeoIPTypeOK /\ FetchersHaveCause
=============================================================================
