--------------------------- MODULE PersonPartition ---------------------------
(***************************************************************************)
(* What $identify, $create_alias and captured events promise: distinct IDs  *)
(* are partitioned into persons; an ID without a person is given one, is    *)
(* attached to the person of another ID, or has its person merged into      *)
(* another; a person, once identified, stays identified, in merges too.     *)
(* Every operation is atomic.                                               *)
(***************************************************************************)
CONSTANTS DistinctId, PersonId, NoPerson

VARIABLES
  personOf,  \* the person of each distinct ID
  known      \* the distinct IDs whose person is identified

vars == <<personOf, known>>

(* Types, and one answer per person to whether it is identified. *)
TypeOK ==
  /\ personOf \in [DistinctId -> PersonId \cup {NoPerson}]
  /\ known \subseteq {d \in DistinctId : personOf[d] # NoPerson}
  /\ \A d, e \in DistinctId : personOf[d] = personOf[e] => (d \in known <=> e \in known)

Init == TypeOK

Members(d) == {e \in DistinctId : personOf[e] = personOf[d]}

(* The IDs in ids, none of which has a person, share a new one. *)
Create(ids, p, isIdentified) ==
  /\ \A d \in ids : personOf[d] = NoPerson
  /\ \A d \in DistinctId : personOf[d] # p
  /\ personOf' = [d \in DistinctId |-> IF d \in ids THEN p ELSE personOf[d]]
  /\ known' = IF isIdentified THEN known \cup ids ELSE known

(* d joins the person of e. *)
Attach(d, e) ==
  /\ personOf[d] = NoPerson
  /\ personOf[e] # NoPerson
  /\ personOf' = [personOf EXCEPT ![d] = personOf[e]]
  /\ known' = IF e \in known THEN known \cup {d} ELSE known

(* The person of d is merged into the person of e. *)
Merge(d, e) ==
  /\ personOf[d] # personOf[e]
  /\ personOf[d] # NoPerson
  /\ personOf[e] # NoPerson
  /\ personOf' = [f \in DistinctId |-> IF f \in Members(d) THEN personOf[e]
                                                           ELSE personOf[f]]
  /\ known' = IF d \in known \/ e \in known
              THEN known \cup Members(d) \cup Members(e) ELSE known

(* The person of d is identified. *)
Identify(d) ==
  /\ personOf[d] # NoPerson
  /\ known' = known \cup Members(d)
  /\ UNCHANGED personOf

Next ==
  \/ \E d, e \in DistinctId, p \in PersonId :
       Create({d, e}, p, TRUE) \/ Create({d, e}, p, FALSE)
  \/ \E d, e \in DistinctId : Attach(d, e) \/ Merge(d, e)
  \/ \E d \in DistinctId : Identify(d)

Spec == Init /\ [][Next]_vars
=============================================================================
