------------------------------- MODULE KeyStore -------------------------------
(***************************************************************************)
(* What a bulk insertion promises: a set of entries with pairwise          *)
(* different keys that only grows.  The first entry of a key stays.        *)
(***************************************************************************)
EXTENDS Naturals

CONSTANTS
  Ids,             \* the entries
  KeyOf            \* the key of every entry

VARIABLE stored    \* the entries in the store

Keys(es) == {KeyOf[e] : e \in es}

Init == stored = {}

(* A new key: the entry is stored.  An entry whose key is present changes  *)
(* nothing, which is a stuttering step.                                    *)
Insert(e) ==
  /\ KeyOf[e] \notin Keys(stored)
  /\ stored' = stored \cup {e}

Next == \E e \in Ids : Insert(e)

Spec == Init /\ [][Next]_stored
=============================================================================
