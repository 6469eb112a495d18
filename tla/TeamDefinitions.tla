--------------------------- MODULE TeamDefinitions ---------------------------
(***************************************************************************)
(* What a captured event looks up and adds for its team before it is        *)
(* stored: the team, the definitions of its event name and properties       *)
(* (src/src/worker/ingestion/team-manager.ts) and the column of each of     *)
(* its groups (group-type-manager.ts, groups.ts, insertGroupType in         *)
(* src/src/utils/db/db.ts). Tasks of a thread share its caches, all         *)
(* threads share Postgres.                                                  *)
(*                                                                          *)
(* Abstracted: one team; the look-up of the team and of the names is one    *)
(* step with the query that fills their cache; the posthog client and the   *)
(* value of properties.                                                     *)
(***************************************************************************)
EXTENDS Integers, FiniteSets, SequencesExt

CONSTANTS
  Handler,     \* tasks that handle events at the same time
  Worker,      \* worker threads
  ThreadOf,    \* [task -> its thread]
  Definition,  \* pairs <<kind, name>>: definitions of event names and of properties
  GroupType,   \* types of groups
  MAX_GROUP_TYPES_PER_TEAM,
  Captured,    \* events: the definitions they need, a group type or none (a set)
  MaxEvents,   \* bound: events handled
  MaxFailures  \* bound: failed queries and killed threads

Kinds == {"event", "property"}

ASSUME TeamAssumption ==
  /\ ThreadOf \in [Handler -> Worker]
  /\ \A d \in Definition : d[1] \in Kinds
  /\ IsFiniteSet(GroupType)
  /\ \A event \in Captured :
       /\ event.definitions \in Seq(Definition)
       /\ event.groupType \subseteq GroupType /\ \A g, h \in event.groupType : g = h
  /\ MAX_GROUP_TYPES_PER_TEAM \in Nat \ {0} /\ MaxEvents \in Nat /\ MaxFailures \in Nat

VARIABLES
  defined,       \* Postgres: posthog_eventdefinition and posthog_propertydefinition
  ingested,      \* Postgres: ingested_event of the team
  mapping,       \* Postgres: posthog_grouptypemapping, pairs <<type, index>>
  teamCache,     \* [thread -> ingested_event of the cached team, or nothing: a set]
  namesCache,    \* [thread -> [kind -> cached definitions, or nothing: a set of sets]]
  groupsCache,   \* [thread -> cached mapping, or nothing: a set of sets]
  doing,         \* [task -> the event it handles and where it is]
  reports,       \* times 'first team event ingested' was captured
  handled,       \* events that were begun
  failures,      \* failures so far
  unreported,    \* history: a task failed between the flag of the team and its report
  duplicated     \* history: group types that two tasks inserted at the same time

teamCaches == <<teamCache, namesCache, groupsCache>>
teamVars == <<defined, ingested, mapping, teamCaches, doing, reports, handled, failures, unreported, duplicated>>

NoColumn == -1  \* null: the team has no column left for the group type

\* a task: the event it handles, and what it holds of the answers it had
NoEvent == [definitions |-> <<>>, groupType |-> {}]
Idle == [at |-> "idle", event |-> NoEvent, next |-> 1, ingestedThen |-> FALSE,
         snapshot |-> {}, index |-> 0, column |-> NoColumn]
Places == {"idle", "team", "again", "names", "properties", "define", "defining", "update", "members",
           "groups", "fetching", "insert", "inserting", "done"}

Locals == [at : Places, event : Captured \cup {NoEvent}, next : Nat \ {0}, ingestedThen : BOOLEAN,
           snapshot : SUBSET (GroupType \X Nat), index : Nat, column : Int]

TeamTypeOK ==
  /\ defined \subseteq Definition /\ ingested \in BOOLEAN
  /\ mapping \subseteq GroupType \X (0 .. MAX_GROUP_TYPES_PER_TEAM - 1)
  /\ teamCache \in [Worker -> SUBSET BOOLEAN]
  /\ namesCache \in [Worker -> [Kinds -> SUBSET SUBSET Definition]]
  /\ groupsCache \in [Worker -> SUBSET SUBSET (GroupType \X Nat)]
  /\ doing \in [Handler -> Locals]
  /\ reports \in Nat /\ handled \in 0 .. MaxEvents /\ failures \in 0 .. MaxFailures
  /\ unreported \in BOOLEAN /\ duplicated \subseteq GroupType

\* the types a team has already have the first columns
FirstColumns(types) ==
  LET columns == 0 .. Cardinality(types) - 1
  IN {{<<f[i], i>> : i \in columns} : f \in Bijection(columns, types)}

TeamInit ==
  /\ defined = {}
  /\ ingested = FALSE
  /\ \E types \in SUBSET GroupType :
       Cardinality(types) <= MAX_GROUP_TYPES_PER_TEAM /\ mapping \in FirstColumns(types)
  /\ teamCache = [t \in Worker |-> {}]
  /\ namesCache = [t \in Worker |-> [kind \in Kinds |-> {}]]
  /\ groupsCache = [t \in Worker |-> {}]
  /\ doing = [k \in Handler |-> Idle]
  /\ reports = 0 /\ handled = 0 /\ failures = 0 /\ unreported = FALSE /\ duplicated = {}

-----------------------------------------------------------------------------
At(k, place) == doing[k].at = place
MoveTask(k, place) == doing' = [doing EXCEPT ![k].at = place]
The(S) == CHOOSE x \in S : TRUE  \* the element of a set that has one

\* the task ends, or goes on to the groups, and its variables are gone
End(k, column) ==
  doing' = [doing EXCEPT ![k] =
    [Idle EXCEPT !.at = "done", !.event = doing[k].event, !.column = column]]
ToGroups(k) ==
  doing' = [doing EXCEPT ![k] = [@ EXCEPT !.at = "groups", !.next = 1, !.ingestedThen = FALSE]]

Begin(k) ==
  /\ doing[k].at \in {"idle", "done"} /\ handled < MaxEvents
  /\ handled' = handled + 1
  /\ \E event \in Captured : doing' = [doing EXCEPT ![k] = [Idle EXCEPT !.at = "team", !.event = event]]
  /\ UNCHANGED <<defined, ingested, mapping, teamCaches, reports, failures, unreported, duplicated>>

(***************************************************************************)
(* TeamManager                                                              *)
(***************************************************************************)
\* fetchTeam, from the cache or from Postgres
Team(t) == IF teamCache[t] # {} THEN The(teamCache[t]) ELSE ingested

\* captureEE fetches the team; events without definition skip the rest
FetchTeam(k) ==
  /\ At(k, "team")
  /\ teamCache' = [teamCache EXCEPT ![ThreadOf[k]] = {Team(ThreadOf[k])}]
  /\ IF doing[k].event.definitions = <<>> THEN ToGroups(k) ELSE MoveTask(k, "again")
  /\ UNCHANGED <<defined, ingested, mapping, namesCache, groupsCache, reports, handled, failures, unreported, duplicated>>

\* updateEventNamesAndProperties fetches it again, and goes on with this copy
FetchTeamAgain(k) ==
  /\ At(k, "again")
  /\ teamCache' = [teamCache EXCEPT ![ThreadOf[k]] = {Team(ThreadOf[k])}]
  /\ doing' = [doing EXCEPT ![k] = [@ EXCEPT !.at = "names", !.ingestedThen = Team(ThreadOf[k])]]
  /\ UNCHANGED <<defined, ingested, mapping, namesCache, groupsCache, reports, handled, failures, unreported, duplicated>>

\* cacheEventNamesAndProperties: what is cached once is never fetched again
CacheNames(k, kind, from, to) ==
  /\ At(k, from)
  /\ namesCache' = [namesCache EXCEPT ![ThreadOf[k]][kind] =
                      IF @ = {} THEN {{d \in defined : d[1] = kind}} ELSE @]
  /\ MoveTask(k, to)
  /\ UNCHANGED <<defined, ingested, mapping, teamCache, groupsCache, reports, handled, failures, unreported, duplicated>>

Cached(t, d) == \E names \in namesCache[t][d[1]] : d \in names

\* INSERT ... ON CONFLICT DO NOTHING
Inserted(d) == defined \cup {d}

Current(k) == doing[k].event.definitions[doing[k].next]
NoneLeft(k) == doing[k].next > Len(doing[k].event.definitions)

Remember(t, d) == namesCache' = [namesCache EXCEPT ![t][d[1]] = {names \cup {d} : names \in @}]

(* Mutant: the name is cached before the INSERT is answered. *)
DefineCachesFirst(k) ==
  /\ At(k, "define")
  /\ IF NoneLeft(k)
     THEN /\ IF doing[k].ingestedThen THEN ToGroups(k) ELSE MoveTask(k, "update")
          /\ UNCHANGED namesCache
     ELSE IF Cached(ThreadOf[k], Current(k))
     THEN doing' = [doing EXCEPT ![k].next = @ + 1] /\ UNCHANGED namesCache
     ELSE MoveTask(k, "defining") /\ Remember(ThreadOf[k], Current(k))
  /\ UNCHANGED <<defined, ingested, mapping, teamCache, groupsCache, reports, handled, failures, unreported, duplicated>>

\* the definitions of the event in order, the name of the event first: one that
\* the thread has cached is skipped, any other one inserted
Define(k) ==
  /\ At(k, "define")
  /\ IF NoneLeft(k)
     THEN IF doing[k].ingestedThen THEN ToGroups(k) ELSE MoveTask(k, "update")
     ELSE IF Cached(ThreadOf[k], Current(k))
     THEN doing' = [doing EXCEPT ![k].next = @ + 1]
     ELSE MoveTask(k, "defining")
  /\ UNCHANGED <<defined, ingested, mapping, teamCaches, reports, handled, failures, unreported, duplicated>>

\* the INSERT is answered, and the name cached
Defined(k) ==
  /\ At(k, "defining")
  /\ defined' = Inserted(Current(k))
  /\ Remember(ThreadOf[k], Current(k))
  /\ doing' = [doing EXCEPT ![k] = [@ EXCEPT !.at = "define", !.next = doing[k].next + 1]]
  /\ UNCHANGED <<ingested, mapping, teamCache, groupsCache, reports, handled, failures, unreported, duplicated>>

\* the first event of the team: the flag first, then the report
UpdateTeam(k) ==
  /\ At(k, "update")
  /\ ingested' = TRUE
  /\ MoveTask(k, "members")
  /\ UNCHANGED <<defined, mapping, teamCaches, reports, handled, failures, unreported, duplicated>>

(* Mutant: no report for a team that others have marked meanwhile. *)
ReportUnlessIngested(k) ==
  /\ At(k, "members")
  /\ reports' = IF ingested THEN reports ELSE reports + 1
  /\ ToGroups(k)
  /\ UNCHANGED <<defined, ingested, mapping, teamCaches, handled, failures, unreported, duplicated>>

Report(k) ==
  /\ At(k, "members")
  /\ reports' = reports + 1
  /\ ToGroups(k)
  /\ UNCHANGED <<defined, ingested, mapping, teamCaches, handled, failures, unreported, duplicated>>

(***************************************************************************)
(* GroupTypeManager                                                         *)
(***************************************************************************)
ColumnsOf(types, type) == {m[2] : m \in {n \in types : n[1] = type}}

(* Mutant: the number of types is taken for the last index. *)
FirstFreeNext(types) == Cardinality(types) + 1

\* the index that is tried first
FirstFree(types) == Cardinality(types)

\* the column of the event's group if it is among the types; otherwise its type
\* is inserted after those that are known
UseTypes(k, types) ==
  LET columns == UNION {ColumnsOf(types, type) : type \in doing[k].event.groupType}
  IN IF columns # {} THEN End(k, The(columns))
     ELSE doing' = [doing EXCEPT ![k] = [@ EXCEPT !.at = "insert", !.index = FirstFree(types)]]

\* fetchGroupTypes: the types the thread has cached, or a query for them
FetchGroupTypes(k) ==
  /\ At(k, "groups")
  /\ LET t == ThreadOf[k]
     IN IF doing[k].event.groupType = {} THEN End(k, NoColumn)
        ELSE IF groupsCache[t] # {} THEN UseTypes(k, The(groupsCache[t]))
        ELSE doing' = [doing EXCEPT ![k] = [@ EXCEPT !.at = "fetching", !.snapshot = mapping]]
  /\ UNCHANGED <<defined, ingested, mapping, teamCaches, reports, handled, failures, unreported, duplicated>>

\* the answer is stored when it comes, also over a cache that was filled or
\* emptied meanwhile
GroupTypesFetched(k) ==
  /\ At(k, "fetching")
  /\ groupsCache' = [groupsCache EXCEPT ![ThreadOf[k]] = {doing[k].snapshot}]
  /\ UseTypes(k, doing[k].snapshot)
  /\ UNCHANGED <<defined, ingested, mapping, teamCache, namesCache, reports, handled, failures, unreported, duplicated>>

(* Mutant: the check of the limit lets one type more pass. *)
InsertGroupTypeOneMore(k) ==
  /\ At(k, "insert")
  /\ IF doing[k].index > MAX_GROUP_TYPES_PER_TEAM
     THEN End(k, NoColumn)
     ELSE doing' = [doing EXCEPT ![k] = [@ EXCEPT !.at = "inserting", !.snapshot = mapping]]
  /\ UNCHANGED <<defined, ingested, mapping, teamCaches, reports, handled, failures, unreported, duplicated>>

\* insertGroupType: the statement sees the rows that were there when it began
InsertGroupType(k) ==
  /\ At(k, "insert")
  /\ IF doing[k].index >= MAX_GROUP_TYPES_PER_TEAM
     THEN End(k, NoColumn)
     ELSE doing' = [doing EXCEPT ![k] = [@ EXCEPT !.at = "inserting", !.snapshot = mapping]]
  /\ UNCHANGED <<defined, ingested, mapping, teamCaches, reports, handled, failures, unreported, duplicated>>

(* Mutant: the answer is the index that was tried. *)
RowsTried(k, free) == {doing[k].index}

\* rows of the statement: the inserted one, or the one its snapshot has
Rows(k, free) ==
  IF free THEN {doing[k].index}
  ELSE UNION {ColumnsOf(doing[k].snapshot, type) : type \in doing[k].event.groupType}

\* type and index are unique: a conflict with a row that the snapshot lacks
\* gives no row, and the next index is tried
GroupTypeInserted(k) ==
  /\ At(k, "inserting")
  /\ LET type == The(doing[k].event.groupType)
         index == doing[k].index
         free == \A m \in mapping : m[1] # type /\ m[2] # index
         rows == Rows(k, free)
     IN /\ mapping' = IF free THEN mapping \cup {<<type, index>>} ELSE mapping
        /\ IF rows = {}
           THEN /\ doing' = [doing EXCEPT ![k] = [@ EXCEPT !.at = "insert", !.index = index + 1]]
                /\ UNCHANGED groupsCache
                /\ duplicated' = IF ColumnsOf(mapping, type) # {} THEN duplicated \cup {type}
                                                                ELSE duplicated
           ELSE /\ End(k, The(rows))
                /\ groupsCache' = [groupsCache EXCEPT ![ThreadOf[k]] = {}]
                /\ UNCHANGED duplicated
  /\ UNCHANGED <<defined, ingested, teamCache, namesCache, reports, handled, failures, unreported>>

(***************************************************************************)
(* Time and failures                                                        *)
(***************************************************************************)
\* getByAge: a team, or the group types of a team, is cached for 30 seconds
CacheExpires(t) ==
  /\ \/ teamCache[t] # {} /\ teamCache' = [teamCache EXCEPT ![t] = {}] /\ UNCHANGED groupsCache
     \/ groupsCache[t] # {} /\ groupsCache' = [groupsCache EXCEPT ![t] = {}] /\ UNCHANGED teamCache
  /\ UNCHANGED <<defined, ingested, mapping, namesCache, doing, reports, handled, failures, unreported, duplicated>>

Working(k) == doing[k].at \notin {"idle", "done"}

\* a query of the task fails, and the event with it
Fail(k) ==
  /\ Working(k) /\ failures < MaxFailures
  /\ failures' = failures + 1
  /\ unreported' = (unreported \/ At(k, "members"))
  /\ doing' = [doing EXCEPT ![k] = Idle]
  /\ UNCHANGED <<defined, ingested, mapping, teamCaches, reports, handled, duplicated>>

TeamNext ==
  \/ \E k \in Handler :
       \/ Begin(k) \/ FetchTeam(k) \/ FetchTeamAgain(k)
       \/ CacheNames(k, "event", "names", "properties")
       \/ CacheNames(k, "property", "properties", "define")
       \/ Define(k) \/ Defined(k) \/ UpdateTeam(k) \/ Report(k)
       \/ FetchGroupTypes(k) \/ GroupTypesFetched(k) \/ InsertGroupType(k) \/ GroupTypeInserted(k)
       \/ Fail(k)
  \/ \E t \in Worker : CacheExpires(t)

TeamSpec == TeamInit /\ [][TeamNext]_teamVars

-----------------------------------------------------------------------------
(* Properties *)

\* The name and the properties of an event that was handled are defined, also
\* those that its thread did not insert because another task had cached them.
HandledIsDefined ==
  \A k \in Handler : At(k, "done") => ToSet(doing[k].event.definitions) \subseteq defined

\* A team whose first event was ingested is reported, or about to be, whichever
\* task set its flag, unless one failed between the flag and the report: then it
\* may never be, as every later event finds the flag set.
FirstEventIsReported ==
  ingested => reports > 0 \/ unreported \/ \E k \in Handler : At(k, "members")

\* The columns of a team are taken from the first one on, without a gap, however
\* old the cached types are whose number is the index that is tried first.
ColumnsAreDense == {m[2] : m \in mapping} = 0 .. Cardinality(mapping) - 1

\* The column an event is given for its group is the one Postgres has for it.
ColumnAgrees ==
  \A k \in Handler : At(k, "done") /\ doing[k].column # NoColumn =>
    \E type \in doing[k].event.groupType : <<type, doing[k].column>> \in mapping

\* An event whose group gets no column finds the team's columns all taken by other
\* types, unless another task inserted the type at the same moment: then the
\* statement returns no row, and the search may go past the last column.
NoColumnMeansFull ==
  \A k \in Handler : At(k, "done") /\ doing[k].event.groupType # {} /\ doing[k].column = NoColumn =>
    /\ Cardinality(mapping) = MAX_GROUP_TYPES_PER_TEAM
    /\ \A type \in doing[k].event.groupType :
         ColumnsOf(mapping, type) = {} \/ type \in duplicated

\* What events need for their team is there once they are handled, and the first
\* of them is reported (updateEventNamesAndProperties, team-manager.ts:40-99).
DefinitionsOK == TeamTypeOK /\ HandledIsDefined /\ FirstEventIsReported

\* A team's group types have the first columns, and events get them as long as
\* there are any, whatever tasks insert at the same time (insertGroupType, db.ts).
ColumnsAgree == ColumnsAreDense /\ ColumnAgrees /\ NoColumnMeansFull
=============================================================================
