-------------------------- MODULE MCPersonIdentity --------------------------
(* Small instances of PersonIdentity for TLC. *)
EXTENDS PersonIdentity, TLC

CONSTANTS t1, t2, t3, h1, h2, d1, d2, d3, p1, p2, p3

OneThread == [t \in Task |-> h1]
ThreadEach == [t \in Task |-> IF t = t1 THEN h1 ELSE h2]

(* Every alias between two distinct IDs, and captures of each. *)
AllCalls == [kind : Kind, prev : DistinctId, id : DistinctId]
Aliases == {c \in AllCalls : c.kind # "capture" /\ c.prev # c.id}
Captures == {c \in AllCalls : c.kind = "capture" /\ c.prev = c.id}
AliasesAndCaptures == Aliases \cup Captures


(* Each person is merged into the next. *)
Next123 == [d \in {d1, d2, d3} |-> IF d = d1 THEN d2 ELSE IF d = d2 THEN d3 ELSE d1]
MergeRing == {[kind |-> "$create_alias", prev |-> d, id |-> Next123[d]] : d \in {d1, d2, d3}}
             \cup {[kind |-> "$identify", prev |-> d2, id |-> d1]}

(* Two persons merged into each other, by $create_alias and by $identify. *)
MergePair ==
  {[kind |-> k, prev |-> d, id |-> e] : k \in {"$create_alias"}, d \in {d1, d2}, e \in {d1, d2}}
  \cup {[kind |-> "$identify", prev |-> d2, id |-> d1]}

(* Any subset of the distinct IDs has persons, of one distinct ID each. *)
AnyDatabase ==
  {f \in [DistinctId -> PersonId \cup {NoPerson}] :
     \A d, e \in DistinctId : f[d] = f[e] /\ f[d] # NoPerson => d = e}
FullDatabase ==
  {[d \in DistinctId |-> IF d = d1 THEN p1 ELSE IF d = d2 THEN p2 ELSE p3]}

Symmetry == Permutations(PersonId) \cup Permutations(DistinctId)
=============================================================================
