------------------------------- MODULE MultiMap -------------------------------
(***************************************************************************)
(* What PhTreeMultiMap promises: a set of values for every key, to which   *)
(* values are added, from which they are removed, and whose values move    *)
(* from one key to another in one step.                                    *)
(***************************************************************************)
CONSTANTS Key, Value

VARIABLE content           \* the pairs of a key and a value

Init == content = {}

Emplace(k, v) == content' = content \cup {<<k, v>>}

Erase(k, v) == content' = content \ {<<k, v>>}

(* The values S of key old move to key new. *)
Relocate(old, new, S) ==
  /\ {old} \X S \subseteq content
  /\ content' = (content \ ({old} \X S)) \cup ({new} \X S)

Clear == content' = {}

Next ==
  \/ \E k \in Key, v \in Value : Emplace(k, v) \/ Erase(k, v)
  \/ \E old, new \in Key, S \in SUBSET Value : Relocate(old, new, S)
  \/ Clear

Spec == Init /\ [][Next]_content
=============================================================================
