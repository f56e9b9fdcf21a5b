------------------------------ MODULE OrderedMap ------------------------------
(***************************************************************************)
(* What a map promises, whatever its layout: its pairs, in ascending order *)
(* of their keys.                                                          *)
(***************************************************************************)
EXTENDS Naturals, Sequences, SequencesExt

CONSTANT Items     \* the pairs of a key and a value that are used

VARIABLES
  unique,          \* what is stored at most once: "key", "pair" or "none"
  pairs            \* the pairs in the order of an iteration

Init == unique \in {"key", "pair", "none"} /\ pairs = <<>>

Conflict(k, v) ==
  \E i \in DOMAIN pairs : \/ unique = "key" /\ pairs[i][1] = k
                          \/ unique = "pair" /\ pairs[i] = <<k, v>>

(* A pair that may not be stored again changes nothing, which is a         *)
(* stuttering step.                                                        *)
Emplace(k, v) ==
  /\ ~Conflict(k, v)
  /\ \E i \in 1..(Len(pairs) + 1) :
       /\ \A j \in DOMAIN pairs : IF j < i THEN pairs[j][1] <= k ELSE k <= pairs[j][1]
       /\ pairs' = InsertAt(pairs, i, <<k, v>>)

(* The value of a key is replaced. *)
Assign(k, v) ==
  \E i \in DOMAIN pairs : pairs[i][1] = k /\ pairs' = [pairs EXCEPT ![i] = <<k, v>>]

(* The pairs from position i to before j go. *)
Erase(i, j) ==
  pairs' = SubSeq(pairs, 1, i - 1) \o SubSeq(pairs, j, Len(pairs))

Next ==
  /\ UNCHANGED unique
  /\ \/ \E item \in Items : Emplace(item[1], item[2]) \/ Assign(item[1], item[2])
     \/ \E i \in DOMAIN pairs, j \in 2..(Len(pairs) + 1) : i < j /\ Erase(i, j)

Spec == Init /\ [][Next]_<<unique, pairs>>
=============================================================================
