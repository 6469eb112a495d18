---------------------------- MODULE MCWorkerCaches ----------------------------
(***************************************************************************)
(* Model values and bounds for checking ActionMatching, Actions and         *)
(* TeamDefinitions with TLC, in one run: they share no variable, and every  *)
(* behaviour is one of a single part.                                       *)
(***************************************************************************)
EXTENDS ActionMatching, Actions, TeamDefinitions

VARIABLE part

-----------------------------------------------------------------------------
(* ActionMatching: up to four elements with the features p and q (four only  *)
(* if each has one), selectors of up to three parts, and of four in pairs of *)
(* parent and child; values and filters that the casts tell apart.           *)

CONSTANTS p, q

MCElementLists ==
  UNION {[1 .. n -> SUBSET {p, q}] : n \in 0 .. 3} \cup [1 .. 4 -> SUBSET {p, q} \ {{}}]

Separators == {<<>>, <<Child>>, <<Child, Star>>, <<Child, Star, Child>>}
Tags == {<<Tag({p})>>, <<Tag({q})>>}
ChildOf(parents, children) == {a \o <<Child>> \o b : a \in parents, b \in children}

MCSelectors ==
  Tags \cup {a \o s \o b : a \in Tags, s \in Separators, b \in Tags}
  \cup {a \o s \o b \o t \o c : a \in Tags, s \in Separators, b \in Tags, t \in Separators, c \in Tags}
  \cup {a \o s \o b : a \in ChildOf(Tags, Tags), s \in {<<>>, <<Child>>}, b \in ChildOf(Tags \cup {<<Star>>}, Tags)}

Val(type, num, bool, words) ==
  [type |-> type, num |-> num, bool |-> bool, words |-> words, isPattern |-> words # {"("}]

MCValues ==
  {Val("string", 0, 0, {"0"}), Val("string", 1, 1, {"1"}), Val("string", 2, Null, {"2"}),
   Val("string", NaN, 1, {"true"}), Val("string", NaN, Null, {"x"}), Val("string", NaN, Null, {"x", "y"}), Val("string", NaN, Null, {"("}),
   Val("number", 1, 1, {"1"}), Val("number", 2, Null, {"2"}),
   Val("boolean", 1, 1, {"true"}), Val("boolean", 0, 0, {"false"}), Val("null", 0, Null, {"null"})}

Filter(type, key, operator, value) ==
  [type |-> type, key |-> key, operator |-> operator, values |-> <<value>>, cohort |-> "none",
   selectors |-> {}, features |-> {}]

X == Val("string", NaN, Null, {"x"})
Unbalanced == Val("string", NaN, Null, {"("})
Throws == [Filter("cohort", "id", "exact", X) EXCEPT !.cohort = "NaN"]
Filters ==
  {Filter("event", "k", "is_not", X), Filter("person", "k", "exact", X), Filter("person", "k", "is_not", X),
   [Filter("cohort", "id", "exact", X) EXCEPT !.cohort = "c1"],
   Throws, Filter("event", "k", "not_regex", Unbalanced),
   [Filter("event", "k", "regex", X) EXCEPT !.values = <<X, Unbalanced>>],
   [Filter("event", "k", "regex", X) EXCEPT !.values = <<Unbalanced, X>>],
   [Filter("element", "selector", "exact", X) EXCEPT !.selectors = {<<Tag({p}), Child, Tag({q})>>}]}

Step(filters) ==
  [elements |-> {}, selector |-> <<>>, url |-> [exact |-> FALSE, words |-> {}], event |-> "", filters |-> filters]

MCSteps ==
  {Step(<<>>), [Step(<<>>) EXCEPT !.elements = {p}], [Step(<<>>) EXCEPT !.selector = <<Tag({p}), Tag({q})>>],
   [Step(<<>>) EXCEPT !.url = [exact |-> TRUE, words |-> {"x"}]], [Step(<<>>) EXCEPT !.event = "e"]}
  \cup {Step(<<f>>) : f \in Filters}
  \cup {Step(<<f, Throws>>) : f \in Filters} \cup {Step(<<Throws, f>>) : f \in Filters}

MCEvents ==
  [name : {"e"}, url : {{"x"}, {"x", "y"}}, elements : {<<>>, <<{q}, {p}>>}, properties : {<<>>, [k |-> X]}]
  \cup {[name |-> "f", url |-> {}, elements |-> <<>>, properties |-> <<>>]}

MCPersons ==
  {[known |-> FALSE, properties |-> <<>>, cohorts |-> {}, failing |-> {}],
   [known |-> TRUE, properties |-> <<>>, cohorts |-> {"c1"}, failing |-> {}],
   [known |-> TRUE, properties |-> <<>>, cohorts |-> {"c1"}, failing |-> {"c1"}],
   [known |-> TRUE, properties |-> [k |-> X], cohorts |-> {}, failing |-> {}]}

-----------------------------------------------------------------------------
(* TeamDefinitions: three tasks, two of one thread; the team has one group   *)
(* type, g3, from the start, and two more types compete for its last column. *)

CONSTANTS k1, k2, k3, h1, h2, g1, g2, g3

ThreadEach == k1 :> h1 @@ k2 :> h1 @@ k3 :> h2
MCDefinition == {<<"event", "e">>, <<"property", "p">>}
Names == <<<<"event", "e">>, <<"property", "p">>>>
MCCaptured ==
  {[definitions |-> Names, groupType |-> {g1}], [definitions |-> <<>>, groupType |-> {g2}]}

-----------------------------------------------------------------------------
NoInput == [of |-> "none"]
FirstActions == stored = [a \in Action |-> [version |-> 0, there |-> FALSE]]
FirstTeam == mapping = {}

Init ==
  /\ ActionsInit /\ TeamInit
  /\ \/ part = "matching" /\ input \in Inputs /\ FirstActions /\ FirstTeam
     \/ part = "actions" /\ input = NoInput /\ FirstTeam
     \/ part = "team" /\ input = NoInput /\ FirstActions /\ mapping = {<<g3, 0>>}

Next ==
  \/ part = "actions" /\ ActionsNext /\ UNCHANGED <<part, input, teamVars>>
  \/ part = "team" /\ TeamNext /\ UNCHANGED <<part, input, actionsVars>>

vars == <<part, input, actionsVars, teamVars>>

(* ActionsFairness, and nothing of the other parts: the actions they leave    *)
(* alone never have the versions that EventuallyAgrees is about.             *)
FairSpec ==
  /\ Init /\ [][Next]_vars
  /\ WF_actionsVars(part = "actions" /\ Subscribe)
  /\ WF_actionsVars(part = "actions" /\ OnMessage)
  /\ WF_actionsVars(part = "actions" /\ ActionsReload)
  /\ \A t \in Thread :
       /\ WF_actionsVars(part = "actions" /\ StartTask(t))
       /\ WF_actionsVars(part = "actions" /\ Fetching(t, 1))
=============================================================================
