----------------------------- MODULE QueriesV16 -----------------------------
(***************************************************************************)
(* Queries of the tree of src/Ph-Tree-v1.0: the iterator over a window     *)
(* (iterator_hc.h), the one over all entries (iterator_full.h), the one    *)
(* for nearest neighbours (iterator_knn_hs.h), the same traversals with a  *)
(* callback (for_each_hc.h, for_each.h) and the filters for boxes and      *)
(* spheres (filter.h).                                                     *)
(*                                                                         *)
(* The tree is the one of PhTreeV16.  A key is the sequence of its         *)
(* hypercube addresses, which stands for the coordinates of a point: of    *)
(* WIDTH bits, the first of them the sign.  Distances are squared, since   *)
(* they are only compared.  An iterator is used up before the tree is      *)
(* changed.                                                                *)
(***************************************************************************)
EXTENDS Integers, Sequences, FiniteSets, SequencesExt, FiniteSetsExt

CONSTANTS
  DIM, WIDTH,      \* dimensions and MAX_BIT_WIDTH of a coordinate
  Window,          \* boxes asked for, [min |-> a point, max |-> a point]
  Filter,          \* the filters
  Center,          \* points whose neighbours are asked for
  Limit            \* how many of them

VARIABLES
  nodes,           \* the tree, which does not change during a query
  query,           \* the query under way
  stack,           \* the nodes an iterator is in, with what is left of them
  queue,           \* queue_ of the nearest neighbours
  found            \* the keys returned so far

Dims == 1 .. DIM
NoFilter == [kind |-> "none"]
NoQuery == [kind |-> "none"]

Queries ==
  [kind : {"window"}, box : Window, filter : Filter]
    \cup [kind : {"full"}, filter : Filter]
    \cup [kind : {"nearest"}, center : Center, limit : Limit, filter : Filter]

-----------------------------------------------------------------------------
(* Points *)

Bits(a) == {d \in Dims : (a \div 2^(DIM - d)) % 2 = 1}
Number(S) == MapThenSumSet(LAMBDA d : 2^(DIM - d), S)

Weight(i) == IF i = 1 THEN -(2^(WIDTH - 1)) ELSE 2^(WIDTH - i)
Point(k) ==
  [d \in Dims |-> MapThenSumSet(Weight, {i \in DOMAIN k : d \in Bits(k[i])})]

PostfixLen(n) == WIDTH - 1 - Len(n)

(* Entry::SetNodeCenter *)
NodeCenter(n) ==
  [d \in Dims |-> IF n = <<>> THEN 0 ELSE Point(n)[d] + 2^PostfixLen(n)]

(* x with its last b bits cleared or set. *)
RoundDown(x, b) == x - (x % 2^b)
RoundUp(x, b) == RoundDown(x, b) + 2^b - 1

Clamp(x, lo, hi) == IF x < lo THEN lo ELSE IF x > hi THEN hi ELSE x
Distance(p, q) == MapThenSumSet(LAMBDA d : (p[d] - q[d]) * (p[d] - q[d]), Dims)
IsInRange(p, box) == \A d \in Dims : box.min[d] <= p[d] /\ p[d] <= box.max[d]

(* The point of the region of node n that is closest to p. *)
ClosestIn(n, p) ==
  LET b == PostfixLen(n) + 1 IN
    [d \in Dims |-> Clamp(p[d], RoundDown(NodeCenter(n)[d], b), RoundUp(NodeCenter(n)[d], b))]

-----------------------------------------------------------------------------
(* The filters.  FilterNoOp lets everything pass. *)

IsEntryValid(f, p) ==
  CASE f.kind = "none"   -> TRUE
    [] f.kind = "box"    -> IsInRange(p, f)
    [] f.kind = "sphere" -> Distance(f.center, p) <= f.radius

(* Slip: a node is judged by its centre. *)
IsNodeValidByCenter(f, n) == IsEntryValid(f, NodeCenter(n))

IsNodeValid(f, n) ==
  LET b == PostfixLen(n) + 1 IN
    \/ f.kind = "none"
    \/ b >= WIDTH - 1
    \/ /\ f.kind = "box"
       /\ \A d \in Dims : /\ RoundUp(NodeCenter(n)[d], b) >= f.min[d]
                          /\ RoundDown(NodeCenter(n)[d], b) <= f.max[d]
    \/ f.kind = "sphere" /\ Distance(f.center, ClosestIn(n, f.center)) <= f.radius

(* IteratorWithFilter::ApplyFilter *)
ApplyFilter(e) ==
  IF e.kind = "node" THEN IsNodeValid(query.filter, e.key)
  ELSE IsEntryValid(query.filter, Point(e.key))

-----------------------------------------------------------------------------
(* Windows *)

(* CalcLimits: the dimensions in which only the upper half of the node     *)
(* meets the window, and those in which its upper half meets it at all.    *)
(* In the root the upper half are the negative values.                     *)

(* Slip: a window that ends at the centre leaves out the upper half. *)
MaskUpperStrict(n, box) ==
  {d \in Dims : IF n = <<>> THEN box.min[d] < 0 ELSE box.max[d] > NodeCenter(n)[d]}

MaskLower(n, box) ==
  {d \in Dims : IF n = <<>> THEN box.max[d] < 0 ELSE box.min[d] >= NodeCenter(n)[d]}
MaskUpper(n, box) ==
  {d \in Dims : IF n = <<>> THEN box.min[d] < 0 ELSE box.max[d] >= NodeCenter(n)[d]}
IsPosValid(a, lower, upper) == (Bits(a) \cup lower) \cap upper = Bits(a)

HasNodeInfix(e, parent) == Len(e.key) > Len(parent) + 1

(* Slip: the lower corner is not rounded to the bits of the node. *)
CheckEntryUnrounded(e, parent, box) ==
  IF e.kind = "value" THEN IsInRange(Point(e.key), box)
  ELSE HasNodeInfix(e, parent) =>
         IsInRange([d \in Dims |-> RoundDown(NodeCenter(e.key)[d], PostfixLen(e.key) + 1)], box)

(* CheckEntry: without an infix the masks have checked the node already.   *)
CheckEntry(e, parent, box) ==
  IF e.kind = "value" THEN IsInRange(Point(e.key), box)
  ELSE LET b == PostfixLen(e.key) + 1
           in(d) == RoundDown(NodeCenter(e.key)[d], b)
       IN  HasNodeInfix(e, parent) =>
             \A d \in Dims : in(d) <= box.max[d] /\ in(d) >= RoundDown(box.min[d], b)

(* NumberOfDivergingBits *)
DivergingBits(p, q) ==
  Min({b \in 0 .. WIDTH :
         \A d \in Dims : (p[d] % 2^WIDTH) \div 2^b = (q[d] % 2^WIDTH) \div 2^b})

(* find_starting_node: the deepest node all of the window is in.           *)
StartingNode(box) ==
  LET bits == DivergingBits(box.min, box.max)
      holds(n) == \/ n = <<>>
                  \/ /\ PostfixLen(n) >= bits
                     /\ DivergingBits(NodeCenter(n), box.min) <= PostfixLen(n) + 1
  IN  IF bits > PostfixLen(<<>>) THEN <<>>
      ELSE CHOOSE n \in DOMAIN nodes :
             holds(n) /\ \A m \in DOMAIN nodes : holds(m) => Len(m) <= Len(n)

-----------------------------------------------------------------------------
(* A node on the stack: the limits of its addresses, and those the         *)
(* iterator of its map has not passed.                                     *)
Frame(q, n) ==
  LET lower == IF q.kind = "window" THEN MaskLower(n, q.box) ELSE {}
      upper == IF q.kind = "window" THEN MaskUpper(n, q.box) ELSE Dims
  IN  [node |-> n, lower |-> lower, upper |-> upper,
       rest |-> {a \in DOMAIN nodes[n] : a >= Number(lower)}]

Init == query = NoQuery /\ stack = <<>> /\ queue = {} /\ found = <<>>

Open(q) ==
  /\ query = NoQuery
  /\ query' = q /\ found' = <<>>
  /\ stack' = CASE q.kind = "window"  -> <<Frame(q, StartingNode(q.box))>>
                [] q.kind = "full"    -> <<Frame(q, <<>>)>>
                [] q.kind = "nearest" -> <<>>
  /\ queue' = IF q.kind = "nearest" /\ q.limit > 0 /\ nodes[<<>>] # <<>>
                THEN {[distance |-> 0, entry |-> [kind |-> "node", key |-> <<>>]]}
                ELSE {}

Top == Last(stack)
AtEnd == \A a \in Top.rest : a > Number(Top.upper)

(* FindNextElement of IteratorHC and IteratorFull: one entry of the node   *)
(* on top, or back to the node below.                                      *)
Accepts(e) ==
  /\ query.kind = "window" => CheckEntry(e, Top.node, query.box)
  /\ ApplyFilter(e)

Visit ==
  /\ stack # <<>> /\ ~AtEnd
  /\ LET a == Min(Top.rest)
         e == nodes[Top.node][a]
         passed == [stack EXCEPT ![Len(stack)].rest = @ \ {a}]
         valid == IsPosValid(a, Top.lower, Top.upper) /\ Accepts(e)
     IN  /\ UNCHANGED <<query, queue>>
         /\ stack' = IF valid /\ e.kind = "node" THEN Append(passed, Frame(query, e.key)) ELSE passed
         /\ found' = IF valid /\ e.kind = "value" THEN Append(found, e.key) ELSE found

Pop ==
  /\ stack # <<>> /\ AtEnd
  /\ stack' = Front(stack)
  /\ UNCHANGED <<query, queue, found>>

-----------------------------------------------------------------------------
(* IteratorKnnHS *)

(* Slip: the distance to a node is that to its centre. *)
DistanceToCenter(n) == Distance(query.center, NodeCenter(n))

DistanceToNode(n) == Distance(query.center, ClosestIn(n, query.center))

Candidate(e) ==
  [distance |-> IF e.kind = "node" THEN DistanceToNode(e.key)
                ELSE Distance(query.center, Point(e.key)),
   entry |-> e]

(* FindNextElement: which of several closest candidates is on top is up to *)
(* the queue.                                                              *)
PopNearest ==
  /\ query.kind = "nearest" /\ Len(found) < query.limit
  /\ \E c \in queue :
       /\ \A d \in queue : c.distance <= d.distance
       /\ \/ /\ c.entry.kind = "value"
             /\ found' = Append(found, c.entry.key) /\ queue' = queue \ {c}
          \/ /\ c.entry.kind = "node"
             /\ queue' = (queue \ {c}) \cup
                  {Candidate(e) : e \in {f \in Range(nodes[c.entry.key]) : ApplyFilter(f)}}
             /\ UNCHANGED found
  /\ UNCHANGED <<query, stack>>

IsEnd ==
  stack = <<>> /\ (query.kind = "nearest" => queue = {} \/ Len(found) = query.limit)

(* The iterator is dropped. *)
Close ==
  /\ query # NoQuery /\ IsEnd
  /\ query' = NoQuery /\ queue' = {} /\ found' = <<>>
  /\ UNCHANGED stack

Next == (\E q \in Queries : Open(q)) \/ Visit \/ Pop \/ PopNearest \/ Close

-----------------------------------------------------------------------------
(* Traverse of ForEachHC and ForEach: the keys for which the callback is   *)
(* called, from a node on.                                                 *)
Traverse(start) ==
  LET accepts(n, a) ==
        /\ query.kind = "window" =>
             /\ IsPosValid(a, MaskLower(n, query.box), MaskUpper(n, query.box))
             /\ CheckEntry(nodes[n][a], n, query.box)
        /\ ApplyFilter(nodes[n][a])
      below[n \in DOMAIN nodes] ==
        LET keys(a) == IF nodes[n][a].kind = "node" THEN below[nodes[n][a].key]
                       ELSE <<nodes[n][a].key>>
        IN  FoldLeft(LAMBDA seq, a : seq \o keys(a), <<>>,
                     SetToSortSeq({a \in DOMAIN nodes[n] : accepts(n, a)}, <))
  IN  below[start]

-----------------------------------------------------------------------------
StoredKeys ==
  {e.key : e \in {f \in UNION {Range(nodes[n]) : n \in DOMAIN nodes} : f.kind = "value"}}
Matching ==
  {k \in StoredKeys : /\ IsEntryValid(query.filter, Point(k))
                      /\ query.kind = "window" => IsInRange(Point(k), query.box)}
Before(k, l) == \E i \in DOMAIN k : k[i] < l[i] /\ \A j \in 1 .. i - 1 : k[j] = l[j]

(* Point p lies in node n, below address a: its bits at n are those of a,  *)
(* and the bits above are those of the node.                               *)
LiesIn(p, n, a) ==
  LET b == PostfixLen(n) + 1 IN
    \A d \in Dims :
      /\ d \in Bits(a) <=> IF n = <<>> THEN p[d] < 0 ELSE p[d] >= NodeCenter(n)[d]
      /\ n # <<>> => RoundDown(p[d], b) = RoundDown(NodeCenter(n)[d], b)

(* The keys below a node lie in its region.                                *)
RegionsExact ==
  \A n \in DOMAIN nodes : \A k \in StoredKeys :
    /\ NodeCenter(n) \in [Dims -> Int]
    /\ IsPrefix(n, k) => LiesIn(Point(k), n, k[Len(n) + 1])

(* What is said of a tree and of the points of its keys: they are points   *)
(* of integers, a width is a number with a power, an entry below a node is *)
(* a longer key, and RegionsExact.                                         *)
WellPlaced ==
  /\ RegionsExact
  /\ \A k \in StoredKeys : Point(k) \in [Dims -> Int]
  /\ \A n \in DOMAIN nodes : \A a \in DOMAIN nodes[n] :
       LET e == nodes[n][a] IN
         \/ e.kind = "value" /\ e.key \in StoredKeys
         \/ /\ e.kind = "node" /\ e.key \in DOMAIN nodes \ {<<>>}
            /\ 2^(PostfixLen(e.key) + 1) \in Nat \ {0}

(* Whatever nodes are skipped by masks, infixes, filters and the choice of *)
(* the starting node, the iterators over a window and over the tree return *)
(* the keys that match, each once and in the order of their addresses, and *)
(* the traversals with a callback the same keys.                           *)
ScanExact ==
  /\ query.kind = "full" => WellPlaced
  /\ query.kind \in {"window", "full"} =>
       LET answer == SetToSortSeq(Matching, Before) IN
         /\ IsPrefix(found, answer)
         /\ IsEnd =>
              /\ found = answer
              /\ Traverse(IF query.kind = "full" THEN <<>> ELSE StartingNode(query.box)) = answer

(* Neighbours are returned in the order of their distance, none is passed  *)
(* over for one further away although the distance to a node is only a     *)
(* bound, and there are as many as asked for if there are any left.        *)
NearestExact ==
  LET far(k) == Distance(query.center, Point(k)) IN
    query.kind = "nearest" =>
      /\ Range(found) \subseteq Matching /\ IsInjective(found)
      /\ \A i \in DOMAIN found :
           \A k \in Matching \ {found[j] : j \in 1 .. i} : far(found[i]) <= far(k)
      /\ IsEnd => Len(found) = Min({query.limit, Cardinality(Matching)})
=============================================================================
