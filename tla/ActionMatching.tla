---------------------------- MODULE ActionMatching ----------------------------
(***************************************************************************)
(* Which actions an event matches (src/src/worker/ingestion/                *)
(* action-matcher.ts), as operators: the code runs without an await, but    *)
(* for the query of a cohort.                                               *)
(*                                                                          *)
(* Abstracted: an element is the set of its features (tag name, id, href,   *)
(* classes, attributes, position), and a part of a selector the set of      *)
(* features it asks for; a string is the set of words in it; the value of   *)
(* a property is a record with what the casts of the code make of it.       *)
(***************************************************************************)
EXTENDS Integers, FiniteSets, SequencesExt

CONSTANTS
  ElementLists,  \* inputs the properties are checked for: elements of an event,
  Selectors,     \*   tokens of a selector,
  Values,        \*   values of properties and filters,
  Events,        \*   events,
  Persons,       \*   what is known of their persons,
  Steps          \*   and steps of actions

NaN == -99   \* Number(v) when v is not a number
Null == -98  \* a cast that gives null

-----------------------------------------------------------------------------
(* checkElementsAgainstSelector. Elements are listed from the clicked one to *)
(* the outermost one; tokens are what the selector has between its blanks.   *)

Child == [kind |-> "child", requirements |-> {}]   \* >
Star == [kind |-> "star", requirements |-> {}]     \* *
Tag(requirements) == [kind |-> "tag", requirements |-> requirements]

(* The positions of a set, from left to right.                               *)
Ascending(positions) ==
  [k \in 1 .. Cardinality(positions) |->
     CHOOSE i \in positions : Cardinality({j \in positions : j <= i}) = k]

(* String.replace: an occurrence of the pattern goes if it begins after the  *)
(* end of every one before it that goes.                                     *)
Replaced(tokens, pattern) ==
  LET n == Len(pattern)
      occurrences == {i \in DOMAIN tokens : i + n - 1 <= Len(tokens) /\ SubSeq(tokens, i, i + n - 1) = pattern}
  IN CHOOSE starts \in SUBSET occurrences :
       \A i \in occurrences : i \in starts <=> \A j \in starts : j < i => j + n <= i

Without(tokens, pattern) ==
  LET starts == Replaced(tokens, pattern)
      kept == Ascending({i \in DOMAIN tokens : \A j \in starts : i \notin j .. j + Len(pattern) - 1})
  IN [k \in DOMAIN kept |-> tokens[kept[k]]]

(* Sometimes people manually add *: they 'don't do anything'.                *)
WithoutStars(tokens) == Without(Without(tokens, <<Child, Star, Child>>), <<Child, Star>>)

TagPositions(tokens) == {i \in DOMAIN tokens : tokens[i] # Child}

SelectorParts(tokens) ==
  LET tags == Ascending(TagPositions(tokens))
  IN [k \in DOMAIN tags |->
        [requirements |-> tokens[tags[k]].requirements,
         directDescendant |-> tags[k] > 1 /\ tokens[tags[k] - 1] = Child]]

ElementMatches(element, requirements) == requirements \subseteq element

(* What is tried when no element was found for the part: the part before it  *)
(* once more, or the same part below.                                        *)
MovesBase(part) == ~part.directDescendant

(* Mutant: the element at the base itself is a candidate.                    *)
CandidatesWithBase(part, base) == IF part.directDescendant THEN {base} ELSE 0 .. base

(* Mutant: the clicked element is left out. *)
CandidatesAboveClicked(part, base) == IF part.directDescendant THEN {base - 1} ELSE 1 .. base - 1

(* Elements the part may match, below the one at base.                       *)
Candidates(part, base) == IF part.directDescendant THEN {base - 1} ELSE 0 .. base - 1

Found(elements, part, base) ==
  {k \in Candidates(part, base) : k < Len(elements) /\ ElementMatches(elements[k + 1], part.requirements)}

(* The loop over the parts, from the outermost element inwards: at is the    *)
(* part it has come to and the base. The code throws when it goes back       *)
(* before the first part (a selector that starts with >): the step does not  *)
(* match.                                                                    *)
MatchParts(elements, parts) ==
  LET loop[at \in (0 .. Len(parts) + 1) \X (0 .. Len(elements))] ==
        LET i == at[1]
            base == at[2]
            found == Found(elements, parts[i], base)
        IN IF i > Len(parts) THEN TRUE
           ELSE IF base = 0 \/ i = 0 THEN FALSE
           ELSE IF found # {} THEN loop[<<i + 1, Max(found)>>]
           ELSE IF MovesBase(parts[i]) THEN loop[<<i, base - 1>>]
           ELSE loop[<<i - 1, base>>]
  IN loop[<<1, Len(elements)>>]

CheckSelector(elements, tokens) == MatchParts(elements, SelectorParts(WithoutStars(tokens)))

(* What the selector means in CSS: its tags match elements further and       *)
(* further inwards, and one after > the child of the element before.         *)
MatchesCSS(elements, tokens) ==
  LET tags == TagPositions(tokens)
  IN \E at \in [tags -> DOMAIN elements] :
       \A i \in tags :
         /\ ElementMatches(elements[at[i]], tokens[i].requirements)
         /\ \A j \in tags : j < i => at[i] < at[j]
         /\ i > 2 /\ tokens[i - 1] = Child => at[i] = at[i - 2] - 1

-----------------------------------------------------------------------------
(* Values. num is Number(v); bool is 1, 0 or Null: stringToBoolean(v, true); *)
(* words are those of String(v), and isPattern says that RE2 takes them for  *)
(* a regular expression.                                                     *)

(* a == b                                                                    *)
LooselyEqual(a, b) ==
  IF a.type = b.type THEN a = b
  ELSE "null" \notin {a.type, b.type} /\ a.num # NaN /\ a.num = b.num

Cast(v) == IF v.bool # Null THEN v.bool ELSE v.num

Less(x, y) == x # NaN /\ y # NaN /\ x < y

StrictlyTyped(a, b) == a.type # "string" /\ b.type # "string"

CastingCompare(a, b, operator) ==
  CASE operator = "exact" ->
         \/ LooselyEqual(a, b)
         \/ a.type # b.type /\ Cast(a) # NaN /\ Cast(a) = Cast(b)
    [] operator = "is_not" ->
         \/ ~LooselyEqual(a, b)
         \/ a.type # b.type /\ (Cast(a) = NaN \/ Cast(a) # Cast(b))
    [] operator = "lt" ->
         \/ StrictlyTyped(a, b) /\ Less(a.num, b.num)
         \/ a.type # b.type /\ Less(Cast(a), Cast(b))
    [] operator = "gt" ->
         \/ StrictlyTyped(a, b) /\ Less(b.num, a.num)
         \/ a.type # b.type /\ Less(Cast(b), Cast(a))

(* Mutant: is_not asks for a property that is there. *)
EmptyMatchingNotSet == {"is_not_set", "not_icontains", "not_regex"}

EmptyMatchingOperators == {"is_not_set", "is_not", "not_icontains", "not_regex"}

RequiredTypes(operator) ==
  IF operator \in {"icontains", "not_icontains", "regex", "not_regex"} THEN {"string"}
  ELSE IF operator \in {"gt", "lt"} THEN {"number", "boolean"}
  ELSE {"string", "number", "boolean", "null"}

(* A regular expression that is one is taken for the words it asks for.      *)
Passes(found, value, operator) ==
  CASE operator \in {"exact", "is_not", "lt", "gt"} -> CastingCompare(found, value, operator)
    [] operator \in {"icontains", "regex"} -> value.words \subseteq found.words
    [] operator \in {"not_icontains", "not_regex"} -> ~(value.words \subseteq found.words)
    [] operator = "is_set" -> TRUE
    [] operator = "is_not_set" -> FALSE

AnswerOf(b) == IF b THEN "yes" ELSE "no"

(* A check in order: the first answer that is not passed over is its own.    *)
Deciding(answers, passedOver) ==
  LET others == {k \in DOMAIN answers : answers[k] # passedOver}
  IN IF others = {} THEN passedOver ELSE answers[Min(others)]

(* new RE2 throws at a pattern that is none, whatever it is to be tested on. *)
Test(found, value, operator) ==
  IF operator \in {"regex", "not_regex"} /\ ~value.isPattern THEN "throws"
  ELSE AnswerOf(Passes(found, value, operator))

(* properties has the keys that are there; one of the values must pass.      *)
CheckProperties(properties, filter) ==
  IF filter.key \notin DOMAIN properties
     \/ properties[filter.key].type \notin RequiredTypes(filter.operator)
  THEN AnswerOf(filter.operator \in EmptyMatchingOperators)
  ELSE Deciding([k \in DOMAIN filter.values |->
                   Test(properties[filter.key], filter.values[k], filter.operator)], "no")

-----------------------------------------------------------------------------
(* checkAction, with an event [name, url, elements, properties], a person    *)
(* [known, properties, cohorts, failing] (failing has the cohorts of which   *)
(* the query fails) and steps [elements, selector, url, event, filters]; a   *)
(* constraint of a step that is empty is not checked.                        *)

(* checkStepElement: one element has the href, tag name and text asked for.  *)
CheckStepElement(event, step) ==
  /\ step.elements # {} =>
       \E k \in DOMAIN event.elements : ElementMatches(event.elements[k], step.elements)
  /\ step.selector # <<>> => CheckSelector(event.elements, step.selector)

(* checkStepUrl: a URL is the set of its words; LIKE patterns and regular    *)
(* expressions ask for some of them.                                         *)
CheckStepUrl(event, step) ==
  step.url.words # {} => IF step.url.exact THEN step.url.words = event.url
                                           ELSE step.url.words \subseteq event.url

CheckStepEvent(event, step) == step.event # "" => event.name = step.event

(* checkEventAgainstFilter: a cohort throws that is not a number, and one    *)
(* whose query fails.                                                        *)
CheckFilter(event, person, filter) ==
  CASE filter.type = "event" -> CheckProperties(event.properties, filter)
    [] filter.type = "person" ->
         IF ~person.known THEN AnswerOf(filter.operator \in EmptyMatchingOperators)
         ELSE CheckProperties(person.properties, filter)
    [] filter.type = "element" ->
         AnswerOf(\/ \E tokens \in filter.selectors : CheckSelector(event.elements, tokens)
                  \/ filter.features # {} /\ \E k \in DOMAIN event.elements :
                       ElementMatches(event.elements[k], filter.features))
    [] filter.type = "cohort" ->
         IF filter.cohort = "all" THEN "yes"
         ELSE IF ~person.known THEN "no"
         ELSE IF filter.cohort \in {"NaN"} \cup person.failing THEN "throws"
         ELSE AnswerOf(filter.cohort \in person.cohorts)

(* checkStepFilters: the first that does not match decides.                  *)
CheckStepFilters(event, person, step) ==
  Deciding([k \in DOMAIN step.filters |-> CheckFilter(event, person, step.filters[k])], "yes")

CheckStep(event, person, step) ==
  IF CheckStepElement(event, step) /\ CheckStepUrl(event, step) /\ CheckStepEvent(event, step)
  THEN CheckStepFilters(event, person, step)
  ELSE "no"

(* Mutant: an exception ends the check of the action.                        *)
ActionMatchesUntilThrow(answers) ==
  \E k \in DOMAIN answers : answers[k] = "yes" /\ \A j \in 1 .. k : answers[j] # "throws"

(* The steps in order, until one matches; an exception is caught.            *)
ActionMatches(answers) ==
  LET loop[k \in 1 .. Len(answers) + 1] ==
        IF k > Len(answers) THEN FALSE
        ELSE IF answers[k] = "yes" THEN TRUE
        ELSE loop[k + 1]
  IN loop[1]

CheckAction(event, person, steps) ==
  ActionMatches([k \in DOMAIN steps |-> CheckStep(event, person, steps[k])])

(***************************************************************************)
(* Properties: of one input, and the run starts with every one of them      *)
(***************************************************************************)
VARIABLE input

(* Elements and tokens are lists; a selector in CSS begins and ends with a    *)
(* tag, and has one > at most between two of them.                           *)
ListOf(s) == s \in Seq(Range(s))
ASSUME MatchingAssumption ==
  /\ \A elements \in ElementLists : ListOf(elements)
  /\ \A tokens \in Selectors :
       /\ ListOf(tokens)
       /\ tokens # <<>> => tokens[1] # Child /\ tokens[Len(tokens)] # Child
       /\ \A i \in 1 .. Len(tokens) - 1 : Child \notin {tokens[i], tokens[i + 1]} \/ tokens[i] # tokens[i + 1]

Inputs ==
  [of : {"selector"}, elements : ElementLists, tokens : Selectors]
  \cup [of : {"filter"}, found : Values, value : Values]
  \cup [of : {"action"}, event : Events, person : Persons, first : Steps, second : Steps]

(* One input, to which nothing happens.                                      *)
MatchingSpec == input \in Inputs /\ [][FALSE]_input

Selected == CheckSelector(input.elements, input.tokens)

(* A tag between two >, and a star after one.                                *)
ChildOfChild(tokens) ==
  \E i \in DOMAIN tokens : i + 2 \in DOMAIN tokens /\ tokens[i] = Child /\ tokens[i + 2] = Child
ChildStar(tokens) ==
  \E i \in DOMAIN tokens : i + 1 \in DOMAIN tokens /\ tokens[i] = Child /\ tokens[i + 1] = Star

\* No selector misses elements that it matches in CSS, although the loop of
\* checkElementsAgainstSelector goes back by one part only (line 482) and the code
\* takes stars away that stand for a level (435).
SelectorComplete ==
  input.of = "selector" => (MatchesCSS(input.elements, input.tokens) => Selected)

\* It matches others only when a part is asked for as the child of a child (after
\* it is not found, the one before may match a child of itself), or the code took
\* a star away.
SelectorSound ==
  input.of = "selector" =>
    (Selected => \/ MatchesCSS(input.elements, input.tokens)
                 \/ ChildOfChild(input.tokens) \/ ChildStar(input.tokens))

Negations == {<<"exact", "is_not">>, <<"icontains", "not_icontains">>,
              <<"regex", "not_regex">>, <<"is_set", "is_not_set">>}

Said(operator, properties) ==
  CheckProperties(properties, [key |-> "k", operator |-> operator, values |-> <<input.value>>])

\* Properties match a filter with one value or its negation, unless the value is no
\* pattern: then both throw, and the step matches in neither form. They do not match
\* both, unless the types differ: the string true is_not the boolean, and exactly
\* the boolean. What is not there matches the negation only, whatever the value is.
NegationAgrees ==
  input.of = "filter" =>
    \A pair \in Negations :
      LET said == Said(pair[1], [k |-> input.found])
          denied == Said(pair[2], [k |-> input.found])
      IN /\ \/ "yes" \in {said, denied}
            \/ said = "throws" /\ denied = "throws" /\ ~input.value.isPattern
         /\ input.found.type = input.value.type => ~(said = "yes" /\ denied = "yes")
         /\ Said(pair[1], <<>>) = "no" /\ Said(pair[2], <<>>) = "yes"

\* An action matches an event as soon as one of its steps alone does: neither a
\* step that throws (a cohort, a pattern) nor the order of the steps makes a
\* difference.
StepsAreAlternatives ==
  input.of = "action" =>
    LET Matches(steps) == CheckAction(input.event, input.person, steps)
    IN Matches(<<input.first, input.second>>)
         = (Matches(<<input.first>>) \/ Matches(<<input.second>>))

\* The matcher does what selectors, filters and steps say (action-matcher.ts).
MatcherAgrees == SelectorComplete /\ SelectorSound /\ NegationAgrees /\ StepsAreAlternatives
=============================================================================
