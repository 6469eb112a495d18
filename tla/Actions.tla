------------------------------- MODULE Actions -------------------------------
(***************************************************************************)
(* The actions every worker thread keeps of all teams                       *)
(* (src/src/worker/ingestion/action-manager.ts): read from Postgres when    *)
(* the thread starts, kept up to date by messages that the web application  *)
(* publishes on Redis and the main thread broadcasts                        *)
(* (src/src/main/pluginsServer.ts), and read anew every five minutes.       *)
(*                                                                          *)
(* Abstracted: an action is the version of its row and of its steps; teams. *)
(***************************************************************************)
EXTENDS Integers, FiniteSets, SequencesExt

CONSTANTS
  Thread,      \* worker threads
  Action,      \* actions of all teams, also those not yet created
  MaxVersion,  \* bound: versions of an action
  MaxTasks,    \* bound: tasks and fetches of a thread when all actions are reloaded
  MaxLosses    \* bound: lost messages and failed queries

ASSUME ActionsAssumption ==
  Action # {} /\ MaxVersion \in Nat \ {0} /\ MaxTasks \in Nat \ {0} /\ MaxLosses \in Nat

VARIABLES
  stored,      \* Postgres: [action -> its version and whether it is there]
  channel,     \* Redis: messages on the way to the main thread
  subscribed,  \* the main thread has subscribed (PubSub.start)
  inbox,       \* [thread -> tasks broadcast to it, in order]
  ready,       \* [thread -> prepare is done]
  cache,       \* [thread -> actionCache: of each action what is cached]
  fetches,     \* [thread -> fetches under way, the oldest first]
  losses,      \* lost messages and failed queries so far
  doubt        \* history: [thread -> its cache may be out of date, see Disturb]

actionsVars == <<stored, channel, subscribed, inbox, ready, cache, fetches, losses, doubt>>

NoAction == [row |-> 0, steps |-> 0]  \* not in the cache
Stored(a) == IF stored[a].there THEN [row |-> stored[a].version, steps |-> stored[a].version]
             ELSE NoAction

Message(name, a) == [name |-> name, action |-> a]
ReloadAll == Message("reloadAllActions", CHOOSE a \in Action : TRUE)

\* A fetch: of one action, or of all; rows and steps are two queries, and the
\* answer may be late. alone: nothing else happened to the cache meanwhile.
NewFetch(of, all) == [of |-> of, all |-> all, at |-> "rows", found |-> [a \in Action |-> NoAction],
                      alone |-> TRUE]

ActionsTypeOK ==
  /\ stored \in [Action -> [version : 0 .. MaxVersion, there : BOOLEAN]]
  /\ subscribed \in BOOLEAN /\ ready \in [Thread -> BOOLEAN] /\ doubt \in [Thread -> BOOLEAN]
  /\ losses \in 0 .. MaxLosses
  /\ \A t \in Thread :
       /\ \A a \in Action : cache[t][a].row = 0 => cache[t][a] = NoAction
       /\ \A k \in DOMAIN fetches[t] :
            /\ fetches[t][k].at \in {"rows", "steps", "answer"}
            /\ fetches[t][k].of \subseteq Action /\ fetches[t][k].of # {}
            /\ fetches[t][k].all => fetches[t][k].of = Action

ActionsInit ==
  /\ stored \in [Action -> {[version |-> 0, there |-> FALSE], [version |-> 1, there |-> TRUE]}]
  /\ channel = <<>> /\ subscribed = FALSE
  /\ inbox = [t \in Thread |-> <<>>]
  /\ ready = [t \in Thread |-> FALSE]
  /\ cache = [t \in Thread |-> [a \in Action |-> NoAction]]
  /\ fetches = [t \in Thread |-> <<NewFetch(Action, TRUE)>>]   \* prepare
  /\ losses = 0
  /\ doubt = [t \in Thread |-> FALSE]

-----------------------------------------------------------------------------
(* The history: what may leave a cache out of date until a fetch of all       *)
(* actions has had it for itself.                                            *)

Alone(fs, b) == [k \in DOMAIN fs |-> [fs[k] EXCEPT !.alone = @ /\ b]]

Disturb(ts) ==
  /\ doubt' = [t \in Thread |-> doubt[t] \/ t \in ts]
  /\ fetches' = [t \in Thread |-> IF t \in ts THEN Alone(fetches[t], FALSE) ELSE fetches[t]]

-----------------------------------------------------------------------------
(* The web application: an action is written, then a message published. The  *)
(* main thread broadcasts messages it gets once it has subscribed.           *)

Publish(message) ==
  IF subscribed THEN channel' = Append(channel, message) /\ UNCHANGED <<doubt, fetches>>
                ELSE UNCHANGED channel /\ Disturb(Thread)

Save(a) ==
  /\ stored[a].version < MaxVersion
  /\ stored' = [stored EXCEPT ![a] = [version |-> @.version + 1, there |-> TRUE]]
  /\ Publish(Message("reloadAction", a))
  /\ UNCHANGED <<subscribed, inbox, ready, cache, losses>>

Delete(a) ==
  /\ stored[a].there
  /\ stored' = [stored EXCEPT ![a].there = FALSE]
  /\ Publish(Message("dropAction", a))
  /\ UNCHANGED <<subscribed, inbox, ready, cache, losses>>

Subscribe ==
  /\ ~subscribed
  /\ subscribed' = TRUE
  /\ UNCHANGED <<stored, channel, inbox, ready, cache, fetches, losses, doubt>>

Broadcast(task) == inbox' = [t \in Thread |-> Append(inbox[t], task)]

OnMessage ==
  /\ channel # <<>>
  /\ Broadcast(Head(channel))
  /\ channel' = Tail(channel)
  /\ UNCHANGED <<stored, subscribed, ready, cache, fetches, losses, doubt>>

LoseMessage ==
  /\ channel # <<>> /\ losses < MaxLosses
  /\ losses' = losses + 1
  /\ channel' = Tail(channel)
  /\ Disturb(Thread)
  /\ UNCHANGED <<stored, subscribed, inbox, ready, cache>>

\* actionsReloadJob: every five minutes, for eventual consistency
ActionsReload ==
  /\ subscribed
  /\ \A t \in Thread : Len(inbox[t]) + Len(fetches[t]) < MaxTasks
  /\ Broadcast(ReloadAll)
  /\ UNCHANGED <<stored, channel, subscribed, ready, cache, fetches, losses, doubt>>

-----------------------------------------------------------------------------
(* A worker thread *)

\* a fetch starts: together with another one both may overwrite newer answers
StartFetch(t, fetch) ==
  IF fetches[t] = <<>>
  THEN fetches' = [fetches EXCEPT ![t] = <<fetch>>] /\ UNCHANGED doubt
  ELSE /\ fetches' = [fetches EXCEPT ![t] = Alone(Append(@, fetch), FALSE)]
       /\ doubt' = [doubt EXCEPT ![t] = TRUE]

(* Mutant: the action stays in the cache. *)
DropActionNot(t, a) ==
  /\ UNCHANGED cache
  /\ IF fetches[t] # <<>> THEN Disturb({t}) ELSE UNCHANGED <<doubt, fetches>>

(* Mutant: the steps of the action stay in the cache. *)
DropActionRow(t, a) ==
  /\ cache' = [cache EXCEPT ![t][a].row = 0]
  /\ IF fetches[t] # <<>> THEN Disturb({t}) ELSE UNCHANGED <<doubt, fetches>>

\* dropAction, at once; a fetch that is under way may bring the action back
DropAction(t, a) ==
  /\ cache' = [cache EXCEPT ![t][a] = NoAction]
  /\ IF fetches[t] # <<>> THEN Disturb({t}) ELSE UNCHANGED <<doubt, fetches>>

\* tasks.reloadAction, dropAction and reloadAllActions, when the hub is there
StartTask(t) ==
  /\ ready[t] /\ inbox[t] # <<>>
  /\ inbox' = [inbox EXCEPT ![t] = Tail(@)]
  /\ LET task == Head(inbox[t])
     IN \/ task.name = "reloadAction" /\ StartFetch(t, NewFetch({task.action}, FALSE)) /\ UNCHANGED cache
        \/ task = ReloadAll /\ StartFetch(t, NewFetch(Action, TRUE)) /\ UNCHANGED cache
        \/ task.name = "dropAction" /\ DropAction(t, task.action)
  /\ UNCHANGED <<stored, channel, subscribed, ready, losses>>

SetFetch(t, k, at, found) ==
  fetches' = [fetches EXCEPT ![t][k] = [@ EXCEPT !.at = at, !.found = found]]

\* SELECT * FROM posthog_action WHERE deleted = FALSE
FetchRows(t, k) ==
  /\ k \in DOMAIN fetches[t] /\ fetches[t][k].at = "rows"
  /\ LET of == fetches[t][k].of
     IN SetFetch(t, k, IF \E a \in of : stored[a].there THEN "steps" ELSE "answer",
                 [a \in Action |-> IF a \in of /\ stored[a].there
                                   THEN [row |-> stored[a].version, steps |-> 0] ELSE NoAction])
  /\ UNCHANGED <<stored, channel, subscribed, inbox, ready, cache, losses, doubt>>

\* the steps: of all actions only for those that are still there
FetchSteps(t, k) ==
  /\ k \in DOMAIN fetches[t] /\ fetches[t][k].at = "steps"
  /\ LET found == fetches[t][k].found
     IN SetFetch(t, k, "answer",
                 [a \in Action |->
                    IF found[a].row > 0 /\ (stored[a].there \/ ~fetches[t][k].all)
                    THEN [found[a] EXCEPT !.steps = stored[a].version] ELSE found[a]])
  /\ UNCHANGED <<stored, channel, subscribed, inbox, ready, cache, losses, doubt>>

(* Mutant: an action that is not found stays in the cache. *)
AnsweredKeeping(t, fetch) ==
  [a \in Action |-> IF a \in fetch.of /\ fetch.found[a] # NoAction THEN fetch.found[a] ELSE cache[t][a]]

\* reloadAction sets or deletes its action, reloadAllActions replaces the cache
Answered(t, fetch) ==
  [a \in Action |-> IF a \in fetch.of THEN fetch.found[a] ELSE cache[t][a]]

Undisturbed(t, fetch) ==
  fetch.alone /\ fetch.all /\ inbox[t] = <<>> /\ channel = <<>>

Answer(t, k) ==
  /\ k \in DOMAIN fetches[t] /\ fetches[t][k].at = "answer"
  /\ cache' = [cache EXCEPT ![t] = Answered(t, fetches[t][k])]
  /\ ready' = [ready EXCEPT ![t] = TRUE]
  /\ fetches' = [fetches EXCEPT ![t] = RemoveAt(@, k)]
  /\ doubt' = [doubt EXCEPT ![t] = @ /\ ~Undisturbed(t, fetches[t][k])]
  /\ UNCHANGED <<stored, channel, subscribed, inbox, losses>>

\* a query fails, and the task with it; prepare is not tried again
FetchFails(t, k) ==
  /\ ready[t] /\ k \in DOMAIN fetches[t] /\ losses < MaxLosses
  /\ losses' = losses + 1
  /\ fetches' = [fetches EXCEPT ![t] = Alone(RemoveAt(@, k), FALSE)]
  /\ doubt' = [doubt EXCEPT ![t] = TRUE]
  /\ UNCHANGED <<stored, channel, subscribed, inbox, ready, cache>>

Fetching(t, k) == FetchRows(t, k) \/ FetchSteps(t, k) \/ Answer(t, k)

ActionsNext ==
  \/ Subscribe \/ OnMessage \/ LoseMessage \/ ActionsReload
  \/ \E a \in Action : Save(a) \/ Delete(a)
  \/ \E t \in Thread :
       \/ StartTask(t)
       \/ \E k \in DOMAIN fetches[t] : Fetching(t, k) \/ FetchFails(t, k)

\* Queries are answered, tasks are started, messages arrive, and the timer
\* fires; queries may overtake one another.
ActionsFairness ==
  /\ WF_actionsVars(Subscribe) /\ WF_actionsVars(OnMessage) /\ WF_actionsVars(ActionsReload)
  /\ \A t \in Thread : WF_actionsVars(StartTask(t)) /\ WF_actionsVars(Fetching(t, 1))

ActionsSpec == ActionsInit /\ [][ActionsNext]_actionsVars /\ ActionsFairness

-----------------------------------------------------------------------------
(* Properties *)

Agrees(t) == \A a \in Action : cache[t][a] = Stored(a)

\* With nothing on the way and nothing under way, a thread's cache agrees with
\* Postgres, steps included, unless since the last undisturbed reload of all
\* actions a message was lost, a query failed, or two fetches, or a fetch and a
\* drop, ran into each other.
AgreesWhenQuiet ==
  channel = <<>> =>
    \A t \in Thread : ready[t] /\ inbox[t] = <<>> /\ fetches[t] = <<>> /\ ~doubt[t] => Agrees(t)

\* What a thread caches of actions has its type and agrees with Postgres
\* (ActionManager, action-manager.ts).
ActionsOK == ActionsTypeOK /\ AgreesWhenQuiet

EditsOver == \A a \in Action : stored[a].version = MaxVersion

\* Once no action is edited any more every cache agrees with Postgres for good,
\* whatever was lost or overtaken before: the eventual consistency that the
\* comment of the five-minute reload promises (pluginsServer.ts:174).
EventuallyAgrees == EditsOver ~> [](\A t \in Thread : Agrees(t))

=============================================================================
