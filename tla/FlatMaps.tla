------------------------------- MODULE FlatMaps -------------------------------
(***************************************************************************)
(* The maps of small nodes in src/Ph-Tree-v1.0: an array with one slot for *)
(* every key and a word that tells the occupied ones (flat_array_map.h),   *)
(* and a vector of pairs in the order of their keys (flat_sparse_map.h).   *)
(***************************************************************************)
EXTENDS Integers, Sequences, FiniteSets, SequencesExt, FiniteSetsExt

CONSTANTS
  SIZE,            \* number of keys, from 0
  WordBits,        \* bits of the occupancy word (64), at least SIZE
  Vals

VARIABLES
  layout,          \* "array" or "sparse"
  occupancy,       \* of an array: the word
  slots,           \* of an array: data_, where erased pairs leave their bits
  data,            \* of a sparse map: data_
  pairs            \* what an iteration over the map reads

vars == <<layout, occupancy, slots, data, pairs>>

Keys == 0..(SIZE - 1)

-----------------------------------------------------------------------------
(* flat_array_map.h *)

Occupied(o, k) == (o \div 2^k) % 2 = 1

(* occupancy ^= 1 << k *)
Flip(o, k) == IF Occupied(o, k) THEN o - 2^k ELSE o + 2^k

CountTrailingZeros(w) ==
  IF w = 0 THEN WordBits ELSE CHOOSE n \in 0..(WordBits - 1) : w % 2^n = 0 /\ w % 2^(n + 1) # 0

SlipUnclamped(o, k) == k + CountTrailingZeros(o \div 2^k)

LowerBoundIndex(o, k) ==
  LET n == k + CountTrailingZeros(o \div 2^k) IN IF n < SIZE THEN n ELSE SIZE

(* The indices an iterator stands on from i to the end. *)
RECURSIVE IndicesFrom(_, _)
IndicesFrom(o, i) ==
  IF i >= SIZE THEN <<>>
  ELSE <<i>> \o IndicesFrom(o, IF i + 1 >= SIZE THEN SIZE ELSE LowerBoundIndex(o, i + 1))

ArrayWalk(o, s) ==
  LET is == IndicesFrom(o, LowerBoundIndex(o, 0)) IN [n \in DOMAIN is |-> s[is[n]]]

SlipUpperBound(d, k) == 1 + Cardinality({i \in DOMAIN d : d[i][1] <= k})

(* flat_sparse_map.h: std::lower_bound, from 1 to one after the end. *)
LowerBound(d, k) == 1 + Cardinality({i \in DOMAIN d : d[i][1] < k})

IsAt(d, i, k) == i <= Len(d) /\ d[i][1] = k

-----------------------------------------------------------------------------
Init ==
  /\ layout \in {"array", "sparse"}
  /\ occupancy = 0 /\ slots = [k \in Keys |-> <<>>]
  /\ data = <<>> /\ pairs = <<>>

ArrayEmplace(k, v) ==
  /\ layout = "array" /\ ~Occupied(occupancy, k)
  /\ slots' = [slots EXCEPT ![k] = <<k, v>>]
  /\ occupancy' = Flip(occupancy, k)
  /\ pairs' = ArrayWalk(occupancy', slots')
  /\ UNCHANGED <<layout, data>>

ArrayErase(k) ==
  /\ layout = "array" /\ Occupied(occupancy, k)
  /\ occupancy' = Flip(occupancy, k)
  /\ pairs' = ArrayWalk(occupancy', slots)
  /\ UNCHANGED <<layout, slots, data>>

Store(d) == data' = d /\ pairs' = data' /\ UNCHANGED <<layout, occupancy, slots>>

(* try_emplace, also with the iterator lower_bound has returned as hint. *)
SparseEmplace(k, v) ==
  LET i == LowerBound(data, k)
  IN layout = "sparse" /\ ~IsAt(data, i, k) /\ Store(InsertAt(data, i, <<k, v>>))

SparseErase(k) ==
  LET i == LowerBound(data, k)
  IN layout = "sparse" /\ IsAt(data, i, k) /\ Store(RemoveAt(data, i))

Next == \E k \in Keys : \/ \E v \in Vals : ArrayEmplace(k, v) \/ SparseEmplace(k, v)
                        \/ ArrayErase(k) \/ SparseErase(k)

Spec == Init /\ [][Next]_vars

-----------------------------------------------------------------------------
(* lower_bound finds the first pair with a key not below the one asked     *)
(* for, also above the last pair and for the last key of the word.         *)
LowerBoundRight ==
  LET keys == {pairs[i][1] : i \in DOMAIN pairs}
      first(k) == IF \E l \in keys : l >= k THEN Min({l \in keys : l >= k}) ELSE SIZE
      found(k) == CASE layout = "array" -> LowerBoundIndex(occupancy, k)
                    [] OTHER -> IF LowerBound(data, k) > Len(data) THEN SIZE
                                ELSE data[LowerBound(data, k)][1]
  IN \A k \in Keys : found(k) = first(k)
=============================================================================
