----------------------------- MODULE EntryTreeMap -----------------------------
(***************************************************************************)
(* The path of the last entry that a thread has inserted                   *)
(* (src/Ph-Tree/util/EntryTreeMap.h): the nodes below the root it went     *)
(* through, each with the index at which it starts.  The next insertion of *)
(* the thread starts at the deepest of them that the new entry needs as    *)
(* well, found by a binary search, and that no thread has replaced since.  *)
(*                                                                         *)
(* Of two entries only the index of the first difference matters, of a     *)
(* node only whether it was replaced.  ParallelBulkInsert takes the result *)
(* of the search (KeptNodes) and has the real tree and the other threads.  *)
(***************************************************************************)
EXTENDS Integers

CONSTANT WIDTH

VARIABLES
  pc,          \* "idle", or in compareForStart ("search"), before
               \* getNextUndeletedNode ("start") or on the way down ("walk")
  top,         \* lowestCommonNodeIndex_, -1 without a path
  starts,      \* startIndices_
  removed,     \* whether each of mappedNodes_ was replaced
  l, r,        \* the interval that is searched
  different    \* differentAtMsb

mapVars == <<pc, top, starts, removed, l, r, different>>

Indices == 0 .. WIDTH - 1

Init ==
  /\ pc = "idle" /\ top = -1
  /\ starts = [i \in Indices |-> 0] /\ removed = [i \in Indices |-> FALSE]
  /\ l = 0 /\ r = 0 /\ different = 0

(* compareForStart. An entry like the last one is done at once. *)
CompareForStart(d) ==
  /\ pc = "idle"
  /\ top # -1 => d < WIDTH
  /\ IF top = -1 THEN pc' = "start" /\ UNCHANGED <<l, r, different>>
     ELSE pc' = "search" /\ l' = 0 /\ r' = top /\ different' = d
  /\ UNCHANGED <<top, starts, removed>>

Middle == (l + r) \div 2

(* Slip: the interval is taken for one that holds its right border. *)
HalveClosed ==
  /\ pc = "search" /\ l < r
  /\ \/ starts[Middle] < different /\ l' = Middle + 1 /\ r' = r
     \/ starts[Middle] > different /\ l' = l /\ r' = Middle - 1
     \/ starts[Middle] = different /\ l' = Middle /\ r' = Middle
  /\ UNCHANGED <<pc, top, starts, removed, different>>

Halve ==
  /\ pc = "search" /\ l < r
  /\ \/ starts[Middle] < different /\ l' = Middle + 1 /\ r' = r
     \/ starts[Middle] > different /\ l' = l /\ r' = Middle
     \/ starts[Middle] = different /\ l' = Middle /\ r' = Middle
  /\ UNCHANGED <<pc, top, starts, removed, different>>

(* One step back if the search went too far; the entry differs in the node *)
(* before the one found, or just behind it.                                *)
Found == IF starts[l] > different THEN l - 1 ELSE l
EndSearch ==
  /\ pc = "search" /\ l >= r
  /\ pc' = "start" /\ top' = IF Found = -1 THEN -1 ELSE Found - 1
  /\ l' = 0 /\ r' = 0 /\ different' = 0
  /\ UNCHANGED <<starts, removed>>

(* The insertion starts at the root if no node is left.                    *)
GetNextUndeletedNode ==
  /\ pc = "start" /\ pc' = "walk"
  /\ top' \in -1 .. top
  /\ top' # -1 => ~removed[top']
  /\ \A i \in top' + 1 .. top : removed[i]
  /\ UNCHANGED <<starts, removed, l, r, different>>

(* The walk goes on in a subnode that starts behind the current node's     *)
(* address.                                                                *)
Put(startIndex) ==
  /\ pc = "walk"
  /\ startIndex < WIDTH
  /\ startIndex > IF top = -1 THEN 0 ELSE starts[top]
  /\ top' = top + 1
  /\ starts' = [starts EXCEPT ![top + 1] = startIndex]
  /\ removed' = [removed EXCEPT ![top + 1] = FALSE]
  /\ UNCHANGED <<pc, l, r, different>>

(* A lock was refused. *)
Restart ==
  /\ pc = "walk" /\ pc' = "start"
  /\ UNCHANGED <<top, starts, removed, l, r, different>>

(* The node the walk started at must be replaced, which needs its parent.  *)
EnforcePreviousNode ==
  /\ pc = "walk" /\ top # -1
  /\ top' = top - 1 /\ pc' = "start"
  /\ UNCHANGED <<starts, removed, l, r, different>>

Inserted ==
  /\ pc = "walk" /\ pc' = "idle"
  /\ UNCHANGED <<top, starts, removed, l, r, different>>

(* A synchronisation phase, between entries or after a failed insertion.   *)
ClearMap ==
  /\ pc \in {"idle", "walk"} /\ pc' = "idle"
  /\ top' = -1
  /\ UNCHANGED <<starts, removed, l, r, different>>

(* Another thread replaces a node of the path. *)
Replace(i) ==
  /\ ~removed[i]
  /\ removed' = [removed EXCEPT ![i] = TRUE]
  /\ UNCHANGED <<pc, top, starts, l, r, different>>

Next ==
  \/ \E d \in Indices : CompareForStart(d)
  \/ Halve \/ EndSearch
  \/ GetNextUndeletedNode
  \/ \E s \in Indices : Put(s)
  \/ Restart \/ EnforcePreviousNode \/ Inserted \/ ClearMap
  \/ \E i \in 0 .. top : Replace(i)

Spec == Init /\ [][Next]_mapVars

-----------------------------------------------------------------------------
TypeOK ==
  /\ pc \in {"idle", "search", "start", "walk"}
  /\ top \in -1 .. WIDTH - 1
  /\ starts \in [Indices -> Indices]
  /\ removed \in [Indices -> BOOLEAN]
  /\ l \in Int /\ r \in Int
  /\ different \in Indices

(* The nodes of the path start one behind the other, below the root.       *)
PathGrows ==
  \A i \in 0 .. top : i < starts[i] /\ \A j \in 0 .. i - 1 : starts[j] < starts[i]

(* The search never looks behind the path (EntryTreeMap.h:101), and it     *)
(* ends at the last node that starts no later than the difference: the     *)
(* nodes in front of it are those that the new entry needs unchanged.      *)
SearchExact ==
  pc = "search" =>
    /\ 0 <= l /\ l <= r /\ r <= top
    /\ l >= r => \A i \in 0 .. top : starts[i] <= different <=> i <= Found

(* What the asserts of put demand, and what the search finds.              *)
StartExact == PathGrows /\ SearchExact

(* Each step of the search makes the interval smaller. *)
SearchShrinks == [][pc = "search" /\ pc' = "search" => r' - l' < r - l \/ UNCHANGED <<l, r>>]_mapVars
=============================================================================
