------------------------- MODULE RangeQueryThreadPool -------------------------
(***************************************************************************)
(* Queries for many ranges by several threads                              *)
(* (src/Ph-Tree/util/RangeQueryThreadPool.h): each thread queries the tree *)
(* for a chunk of the ranges and stores the entries in blocks of its own   *)
(* (src/Ph-Tree/util/ResultStorage.h), linked as they fill up.             *)
(*                                                                         *)
(* A hyper-rectangle of Half dimensions is stored as a point, lower left   *)
(* before upper right (PHTree::insertHyperRect); a query for rectangles is *)
(* a range query for their points.  The threads only read the tree.        *)
(***************************************************************************)
EXTENDS Integers, Sequences, FiniteSets

CONSTANTS
  NThreads,        \* nThreads_
  CAPACITY,        \* ResultStorage::CAPACITY, 1000 in the code
  Half,            \* DIM / 2
  MaxValue,        \* the largest value of a dimension
  RangeLists,      \* the lists of ranges asked for, each range like a rectangle
  Rect,            \* the rectangle of every entry
  InOrder(_)       \* the sequence in which the iterator returns a set of entries

VARIABLES
  stored,          \* the entries in the tree, which does not change
  phase,           \* "none", "running" or "deleted"
  type, ranges,    \* type_ and ranges_
  pc, index,       \* where each thread is, and i in processNext
  hits,            \* what the iterator of each thread has yet to return
  storage,         \* the last block of each thread
  blocks           \* startStorage_ and the blocks allocated

queryPoolVars == <<phase, type, ranges, pc, index, hits, storage, blocks>>

Threads == 0 .. NThreads - 1
Dims == 1 .. 2 * Half
NULL == -1
NewStorage == [entries |-> <<>>, next |-> NULL]

-----------------------------------------------------------------------------
(* processNext: the chunk of thread t. *)

(* Slip: the chunk size rounded down. *)
ChunkSizeRoundedDown == Len(ranges) \div NThreads

ChunkSize == 1 + Len(ranges) \div NThreads
Start(t) == ChunkSize * t
End(t) == IF ChunkSize * (t + 1) < Len(ranges) THEN ChunkSize * (t + 1) ELSE Len(ranges)

(* PHTree::intersectionQuery and PHTree::inclusionQuery: the corners of    *)
(* the range query.                                                        *)
LowerLeft(r) ==
  [d \in Dims |-> IF type = "inclusion" THEN r[1 + ((d - 1) % Half)]
                  ELSE IF d <= Half THEN 0 ELSE r[d - Half]]
UpperRight(r) ==
  [d \in Dims |-> IF type = "inclusion" THEN r[Half + 1 + ((d - 1) % Half)]
                  ELSE IF d <= Half THEN r[d + Half] ELSE MaxValue]
RangeQuery(r) ==
  {e \in stored : \A d \in Dims : LowerLeft(r)[d] <= Rect[e][d] /\ Rect[e][d] <= UpperRight(r)[d]}

(* The iterator asserts that the corners differ in every dimension. *)
CornersDiffer ==
  \A i \in DOMAIN ranges : \A d \in Dims : LowerLeft(ranges[i])[d] < UpperRight(ranges[i])[d]

-----------------------------------------------------------------------------
Init ==
  /\ phase = "none"
  /\ type = "" /\ ranges = <<>>
  /\ pc = [t \in Threads |-> "next"] /\ index = [t \in Threads |-> 0]
  /\ hits = [t \in Threads |-> <<>>]
  /\ storage = [t \in Threads |-> NULL]
  /\ blocks = <<>>

(* The pool is created; one of the threads is the caller (joinPool).       *)
CreatePool ==
  /\ phase = "none" /\ phase' = "running"
  /\ type' \in {"intersection", "inclusion"}
  /\ ranges' \in RangeLists
  /\ CornersDiffer'
  /\ index' = [t \in Threads |-> Start(t)']
  /\ storage' = [t \in Threads |-> t]
  /\ blocks' = [b \in Threads |-> NewStorage]
  /\ UNCHANGED <<pc, hits>>

NextRange(t) ==
  /\ phase = "running" /\ pc[t] = "next" /\ index[t] < End(t)
  /\ hits' = [hits EXCEPT ![t] = InOrder(RangeQuery(ranges[index[t] + 1]))]
  /\ pc' = [pc EXCEPT ![t] = "iterate"]
  /\ UNCHANGED <<phase, type, ranges, index, storage, blocks>>

NewBlock == Cardinality(DOMAIN blocks)   \* the blocks are numbered

(* ResultStorage::add, with the link to the next block once it is full.    *)
Add(t) ==
  /\ phase = "running" /\ pc[t] = "iterate" /\ hits[t] # <<>>
  /\ hits' = [hits EXCEPT ![t] = Tail(@)]
  /\ LET s == storage[t]
         entries == Append(blocks[s].entries, Head(hits[t]))
     IN  IF Len(entries) = CAPACITY
         THEN /\ blocks' = [b \in DOMAIN blocks \cup {NewBlock} |->
                              IF b = s THEN [entries |-> entries, next |-> NewBlock]
                              ELSE IF b = NewBlock THEN NewStorage ELSE blocks[b]]
              /\ storage' = [storage EXCEPT ![t] = NewBlock]
         ELSE blocks' = [blocks EXCEPT ![s].entries = entries] /\ UNCHANGED storage
  /\ UNCHANGED <<phase, type, ranges, pc, index>>

EndRange(t) ==
  /\ phase = "running" /\ pc[t] = "iterate" /\ hits[t] = <<>>
  /\ index' = [index EXCEPT ![t] = @ + 1]
  /\ pc' = [pc EXCEPT ![t] = "next"]
  /\ UNCHANGED <<phase, type, ranges, hits, storage, blocks>>

Finish(t) ==
  /\ phase = "running" /\ pc[t] = "next" /\ index[t] >= End(t)
  /\ pc' = [pc EXCEPT ![t] = "done"]
  /\ UNCHANGED <<phase, type, ranges, index, hits, storage, blocks>>

AllDone == phase = "running" /\ \A t \in Threads : pc[t] = "done"

(* ~RangeQueryThreadPool: join and clearResults, which frees the blocks    *)
(* linked to the first one of a thread; that one goes with the pool.       *)
Linked == {blocks[b].next : b \in DOMAIN blocks} \ {NULL}
Delete ==
  /\ AllDone
  /\ phase' = "deleted"
  /\ blocks' = [b \in DOMAIN blocks \ (Threads \cup Linked) |-> blocks[b]]
  /\ UNCHANGED <<type, ranges, pc, index, hits, storage>>

Query(t) == NextRange(t) \/ Add(t) \/ EndRange(t) \/ Finish(t)
Proceed == Delete \/ \E t \in Threads : Query(t)
Next == CreatePool \/ Proceed

Spec == Init /\ [][Next]_queryPoolVars

-----------------------------------------------------------------------------
(* Every range is queried by one thread.                                   *)
EachRangeOnce ==
  AllDone =>
    \A i \in 0 .. Len(ranges) - 1 :
      /\ \E t \in Threads : Start(t) <= i /\ i < index[t]
      /\ \A t, u \in Threads : (/\ Start(t) <= i /\ i < index[t]
                                /\ Start(u) <= i /\ i < index[u]) => t = u

(* The rectangles that range i asks for. *)
Asking(i) ==
  {e \in stored : \A k \in 1 .. Half :
     IF type = "inclusion"
       THEN ranges[i][k] <= Rect[e][k] /\ Rect[e][Half + k] <= ranges[i][Half + k]
       ELSE Rect[e][k] <= ranges[i][Half + k] /\ ranges[i][k] <= Rect[e][Half + k]}

(* All that thread t has stored, and all that the threads have stored. *)
Results(t) ==
  LET from[b \in DOMAIN blocks] ==
        blocks[b].entries \o IF blocks[b].next = NULL THEN <<>> ELSE from[blocks[b].next]
  IN  from[t]
AllResults ==
  LET upTo[t \in Threads] == IF t = 0 THEN Results(0) ELSE upTo[t - 1] \o Results(t)
  IN  upTo[NThreads - 1]
Answers ==
  LET upTo[i \in 0 .. Len(ranges)] ==
        IF i = 0 THEN <<>> ELSE upTo[i - 1] \o InOrder(Asking(i))
  IN  upTo[Len(ranges)]

(* When the threads are joined their results are, in the order of the      *)
(* ranges, the rectangles that intersect each range or are included in it, *)
(* each once; a block is linked to another exactly when it is full, and    *)
(* none is left when the pool is deleted.                                  *)
RangesAnswered ==
  /\ AllDone => AllResults = Answers
  /\ \A b \in DOMAIN blocks :
       /\ Len(blocks[b].entries) <= CAPACITY
       /\ blocks[b].next # NULL <=> Len(blocks[b].entries) = CAPACITY
  /\ phase = "deleted" => blocks = <<>>
=============================================================================
