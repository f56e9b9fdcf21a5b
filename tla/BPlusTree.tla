------------------------------- MODULE BPlusTree -------------------------------
(***************************************************************************)
(* The B+ trees of src/Ph-Tree-v1.0: the nodes with their siblings and     *)
(* parents (b_plus_tree_base.h) and the three containers on them: the map  *)
(* (b_plus_tree_map.h), the set ordered by hashes (b_plus_tree_hash_map.h) *)
(* and the multimap (b_plus_tree_multimap.h).                              *)
(*                                                                         *)
(* The functions of a node that change the tree around it are operators    *)
(* from a tree to a tree; a call of a container is an action.  An          *)
(* assertion of the code that fails clears ok.                             *)
(***************************************************************************)
EXTENDS Integers, Sequences, FiniteSets, SequencesExt, FiniteSetsExt, TLC

CONSTANTS
  LeafMax, InnerMax,   \* CFG::MAX of leaves and inner nodes (16)
  Starts,              \* the trees to start from, see Init
  RebalancesInner      \* whether calls that rebalance inner nodes are included

VARIABLES
  start,               \* the start of this behaviour
  tree,
  pairs,               \* what an iteration over the tree reads
  script,              \* calls to be made first
  left                 \* number of free calls after that, Endless: any number

vars == <<start, tree, pairs, script, left>>

kind    == start.kind  \* "map", "set" or "multimap"
MIN     == 2           \* CFG::MIN
Null    == 0
EndIt   == <<Null, 0>> \* an iterator is a leaf and an index in its data
Endless == -1

Leaf == [leaf |-> TRUE, parent |-> Null, prev |-> Null, next |-> Null, data |-> <<>>]
EmptyTree == [nodes |-> (1 :> Leaf), root |-> 1, size |-> 0, ok |-> TRUE, rebalanced |-> FALSE]

-----------------------------------------------------------------------------
(* b_plus_tree_base.h: nodes.  What a node does goes up and down the tree  *)
(* in calls of the same functions on its parent and children.              *)

RECURSIVE UpdateKey(_, _, _, _, _), CheckSplit(_, _), EraseEntry(_, _, _),
          FirstLeaf(_, _), LowerBoundLeaf(_, _, _), LowerBoundOrLastLeaf(_, _, _),
          IteratorsFrom(_, _), FindValue(_, _, _, _), EraseLeaves(_, _, _, _)

Data(t, i)  == t.nodes[i].data
Back(t, i)  == Data(t, i)[Len(Data(t, i))][1]
Parent(t, i) == t.nodes[i].parent
Fail(t)     == [t EXCEPT !.ok = FALSE]
MaxOf(t, i) == IF t.nodes[i].leaf THEN LeafMax ELSE InnerMax
NewId(t)    == CHOOSE i \in 1..(Cardinality(DOMAIN t.nodes) + 1) : i \notin DOMAIN t.nodes

Without(t, i) == [t EXCEPT !.nodes = [j \in DOMAIN @ \ {i} |-> @[j]]]
SetParent(t, children, p) ==
  [t EXCEPT !.nodes = [j \in DOMAIN @ |-> IF j \in children THEN [@[j] EXCEPT !.parent = p] ELSE @[j]]]
Children(d) == {d[j][2] : j \in DOMAIN d}

LowerBound(d, k) == 1 + Cardinality({j \in DOMAIN d : d[j][1] < k})

(* The place of a child in an inner node, 0 if it is not there. *)
LowerBoundNode(t, i, k, child) ==
  LET at == {j \in DOMAIN Data(t, i) : Data(t, i)[j] = <<k, child>>}
  IN IF at = {} THEN 0 ELSE Min(at)

(* The highest key below a child changes, and with it the keys above it as *)
(* far as the child is the last one.                                       *)
UpdateKey(t, i, old, new, child) ==
  LET j == LowerBoundNode(t, i, old, child)
      u == [t EXCEPT !.nodes[i].data[j][1] = new]
  IN IF old = new THEN t
     ELSE IF j = 0 THEN Fail(t)
     ELSE IF Parent(t, i) # Null /\ j = Len(Data(t, i)) THEN UpdateKey(u, Parent(t, i), old, new, i)
     ELSE u

(* A full node passes entries to its next sibling if that is less than     *)
(* half full.                                                              *)
CanRebalance(t, i) ==
  LET next == t.nodes[i].next
  IN next # Null /\ MaxOf(t, i) - Len(Data(t, next)) > MaxOf(t, i) \div 2

Rebalance(t, i) ==
  LET d    == Data(t, i)
      keep == Len(d) - MaxOf(t, i) \div 4
      u    == [t EXCEPT !.nodes[t.nodes[i].next].data = SubSeq(d, keep + 1, Len(d)) \o @,
                        !.nodes[i].data = SubSeq(d, 1, keep),
                        !.rebalanced = @ \/ ~t.nodes[i].leaf]
  IN UpdateKey(u, Parent(t, i), Back(t, i), Back(u, i), i)

(* A new child c2 follows c1, whose highest key was old and is new. *)
UpdateKeyAndAddNode(t, i, old, new, c1, c2) ==
  LET s    == CheckSplit(t, i)
      dest == IF Len(Data(t, i)) >= InnerMax /\ old > Back(s, i) THEN s.nodes[i].next ELSE i
      j    == LowerBoundNode(s, dest, old, c1)
      next == s.nodes[i].next
  IN IF j = 0 THEN Fail(s)
     ELSE [s EXCEPT !.nodes[dest].data = InsertAt([@ EXCEPT ![j][1] = new], j + 1, <<old, c2>>),
                    !.nodes[c2].parent = dest,
                    !.ok = @ /\ (dest # i \/ next = Null \/ Data(s, next)[1][1] > new)]

(* A new root above node i. *)
WithRoot(t, i, root) ==
  [t EXCEPT !.nodes = (root :> [Leaf EXCEPT !.leaf = FALSE, !.data = <<<<Back(t, i), i>>>>])
                        @@ [@ EXCEPT ![i].parent = root],
            !.root = root]

(* The upper half of node n, which is node i, goes to node new.            *)
Cut(t, i, n, half, new) ==
  [t EXCEPT !.nodes =
     (new :> [n EXCEPT !.prev = i, !.data = SubSeq(@, half + 1, Len(@))])
       @@ [j \in DOMAIN @ |-> IF j = n.next THEN [@[j] EXCEPT !.prev = new]
                              ELSE IF j = i THEN [n EXCEPT !.next = new, !.data = SubSeq(@, 1, half)]
                              ELSE @[j]]]

(* Data d has moved to node i. *)
Adopt(t, i, d) == IF t.nodes[i].leaf THEN t ELSE SetParent(t, Children(d), i)

Linked(t, i, old, new) == UpdateKeyAndAddNode(t, Parent(t, i), old, Back(t, i), i, new)

SplitBelow(t, i, half, new) ==
  Linked(Adopt(Cut(t, i, t.nodes[i], half, new), new, SubSeq(Data(t, i), half + 1, Len(Data(t, i)))),
         i, Back(t, i), new)

SplitNode(t, i) ==
  LET grown == IF Parent(t, i) # Null THEN t ELSE WithRoot(t, i, NewId(t))
  IN SplitBelow(grown, i, MaxOf(t, i) \div 2, NewId(grown))

CheckSplit(t, i) ==
  IF Len(Data(t, i)) < MaxOf(t, i) THEN t
  ELSE IF CanRebalance(t, i) THEN Rebalance(t, i)
  ELSE SplitNode(t, i)

RemoveFromSiblings(t, i) ==
  LET n == t.nodes[i]
  IN [t EXCEPT !.nodes = [j \in DOMAIN @ |-> IF j = n.next THEN [@[j] EXCEPT !.prev = n.prev]
                                             ELSE IF j = n.prev THEN [@[j] EXCEPT !.next = n.next]
                                             ELSE @[j]]]

Begin(t, i) == IF i = Null THEN EndIt ELSE <<i, 1>>

(* What is left of the tree, and the iterator to the entry after the       *)
(* erased one.                                                             *)
Result(t, it) == [tree |-> t, it |-> it]

(* The child of i that has highest key k goes. *)
RemoveNode(t, i, k, child) ==
  LET j == LowerBoundNode(t, i, k, child)
  IN IF j = 0 THEN Fail(t) ELSE EraseEntry(Without(t, child), i, j).tree

(* The last entry of node i moves to the sibling to, and i goes. *)
MoveTo(t, i, to, old, data) ==
  RemoveNode(Adopt([RemoveFromSiblings(t, i) EXCEPT !.nodes[to].data = data], to, Data(t, i)), Parent(t, i), old, i)

Raised(t, i, old, new) ==
  IF Parent(t, i) = Null THEN t ELSE UpdateKey(t, Parent(t, i), old, new, i)

(* After an erasure before place j of node i, whose highest key was old. *)
CheckMerge(t, i, j, old) ==
  LET n     == t.nodes[i]
      tail  == j > Len(n.data)
      small == n.data # <<>> /\ Len(n.data) < MIN
      RoomIn(s) == s # Null /\ Len(Data(t, s)) < MaxOf(t, i)
      ToPrev == Raised(MoveTo(t, i, n.prev, old, Data(t, n.prev) \o n.data),
                       n.prev, Back(t, n.prev), n.data[1][1])
      only   == n.data[1][2]
  IN CASE n.parent = Null ->
            Result(IF n.leaf \/ Len(n.data) >= 2 THEN t
                   ELSE [SetParent(Without(t, i), {only}, Null) EXCEPT !.root = only],
                   IF tail THEN EndIt ELSE <<i, j>>)
       [] n.parent # Null /\ n.data = <<>> ->
            Result(RemoveNode(RemoveFromSiblings(t, i), n.parent, old, i), Begin(t, n.next))
       [] n.parent # Null /\ small /\ RoomIn(n.prev) ->
            Result(ToPrev, IF tail THEN Begin(t, n.next) ELSE <<n.prev, Len(Data(t, n.prev)) + 1>>)
       [] n.parent # Null /\ small /\ ~RoomIn(n.prev) /\ RoomIn(n.next) ->
            Result(MoveTo(t, i, n.next, old, n.data \o Data(t, n.next)), <<n.next, IF tail THEN 2 ELSE 1>>)
       [] OTHER ->
            IF tail THEN Result(UpdateKey(t, n.parent, old, Back(t, i), i), Begin(t, n.next))
            ELSE Result(t, <<i, j>>)

SlipPlaceBeforeMerge(t, i, j) ==
  Result(CheckMerge([t EXCEPT !.nodes[i].data = RemoveAt(@, j)], i, j, Back(t, i)).tree, <<i, j>>)

EraseEntry(t, i, j) ==
  CheckMerge([t EXCEPT !.nodes[i].data = RemoveAt(@, j)], i, j, Back(t, i))

-----------------------------------------------------------------------------
(* b_plus_tree_base.h: iterators and the way to a leaf *)

FirstLeaf(t, i) == IF t.nodes[i].leaf THEN i ELSE FirstLeaf(t, Data(t, i)[1][2])

First(t) == LET leaf == FirstLeaf(t, t.root)
            IN IF Data(t, leaf) = <<>> THEN EndIt ELSE <<leaf, 1>>

Advance(t, it) == IF it[2] < Len(Data(t, it[1])) THEN <<it[1], it[2] + 1>>
                  ELSE Begin(t, t.nodes[it[1]].next)

Deref(t, it) == Data(t, it[1])[it[2]]

IteratorsFrom(t, it) == IF it = EndIt THEN <<>> ELSE <<it>> \o IteratorsFrom(t, Advance(t, it))

Iterators(t) == IteratorsFrom(t, First(t))
Walk(t)      == LET its == Iterators(t) IN [n \in DOMAIN its |-> Deref(t, its[n])]

LowerBoundLeaf(t, i, k) ==
  LET j == LowerBound(Data(t, i), k)
  IN IF i = Null \/ t.nodes[i].leaf THEN i
     ELSE IF j > Len(Data(t, i)) THEN Null ELSE LowerBoundLeaf(t, Data(t, i)[j][2], k)

LowerBoundOrLastLeaf(t, i, k) ==
  LET d == Data(t, i)
      j == LowerBound(d, k)
  IN IF t.nodes[i].leaf THEN i
     ELSE LowerBoundOrLastLeaf(t, d[IF j > Len(d) THEN Len(d) ELSE j][2], k)

(* lower_bound_as_iter in the leaf for the key. *)
LowerBoundIt(t, k) ==
  LET leaf == LowerBoundLeaf(t, t.root, k)
      j    == LowerBound(Data(t, leaf), k)
  IN IF leaf = Null THEN EndIt ELSE IF j > Len(Data(t, leaf)) THEN EndIt ELSE <<leaf, j>>

-----------------------------------------------------------------------------
(* The containers *)

SlipFirstOnly(t, it, k, v) ==
  IF it = EndIt THEN EndIt ELSE IF Deref(t, it) = <<k, v>> THEN it ELSE EndIt

(* The entries of key k from it on: the value is looked for among them. *)
FindValue(t, it, k, v) ==
  IF it = EndIt THEN EndIt
  ELSE IF Deref(t, it)[1] # k THEN EndIt
  ELSE IF Deref(t, it)[2] = v THEN it
  ELSE FindValue(t, Advance(t, it), k, v)

SlipKeepsParentKey(t, i, j, k, v) ==
  Result([t EXCEPT !.nodes[i].data = InsertAt(@, j, <<k, v>>), !.size = @ + 1], <<i, j>>)

InsertIn(t, i, j, k, v) ==
  LET u == IF Parent(t, i) # Null /\ k > Back(t, i) THEN UpdateKey(t, Parent(t, i), Back(t, i), k, i) ELSE t
  IN Result([u EXCEPT !.nodes[i].data = InsertAt(@, j, <<k, v>>), !.size = @ + 1], <<i, j>>)

(* A new entry at place j of leaf i, or in the next leaf if a split has    *)
(* moved its place there (check_split_and_adjust_iterator).                *)
InsertEntry(t, i, j, k, v) ==
  LET s    == CheckSplit(t, i)
      next == s.nodes[i].next
  IN IF Len(Data(t, i)) >= LeafMax /\ k > Back(s, i)
     THEN InsertIn(s, next, LowerBound(Data(s, next), k), k, v)
     ELSE InsertIn(s, i, j, k, v)

(* bpt_node_leaf::try_emplace of the three containers. *)
LeafTryEmplace(t, i, k, v) ==
  LET j     == LowerBound(Data(t, i), k)
      there == j <= Len(Data(t, i)) /\ Data(t, i)[j][1] = k
      same  == CASE kind = "map" /\ there -> <<i, j>>
                 [] kind = "set" /\ there -> FindValue(t, <<i, j>>, k, v)
                 [] OTHER                 -> EndIt
  IN IF same # EndIt THEN Result(t, same) ELSE InsertEntry(t, i, j, k, v)

EmplaceIn(t, k, v) == LeafTryEmplace(t, LowerBoundOrLastLeaf(t, t.root, k), k, v)

EmplaceAt(t, hint, k, v) ==
  LET d == Data(t, hint[1])
  IN IF t.size = 0 \/ hint = EndIt THEN EmplaceIn(t, k, v)
     ELSE IF d[1][1] > k \/ Back(t, hint[1]) < k THEN EmplaceIn(t, k, v)
     ELSE LeafTryEmplace(t, hint[1], k, v)

EraseIt(t, it) == EraseEntry([t EXCEPT !.size = @ - 1], it[1], it[2])

(* b_plus_tree_multimap::erase(begin, end): leaf after leaf is emptied up  *)
(* to the one of end, in which offset entries go.                          *)
EraseLeaves(t, it, end, offset) ==
  LET i    == it[1]
      d    == Data(t, i)
      stop == IF end = EndIt THEN Len(d) + 1 ELSE it[2] + offset
      cut  == [t EXCEPT !.nodes[i].data = SubSeq(@, 1, it[2] - 1), !.size = @ - (Len(d) - it[2] + 1)]
      last == [t EXCEPT !.nodes[i].data = SubSeq(@, 1, it[2] - 1) \o SubSeq(@, stop, Len(@)),
                        !.size = @ - (stop - it[2])]
      EraseRest(r) == EraseLeaves(r.tree, r.it, end, offset)
  IN IF i # end[1] /\ t.nodes[i].next # Null THEN EraseRest(CheckMerge(cut, i, it[2], Back(t, i)))
     ELSE CheckMerge(last, i, it[2], Back(t, i))

EraseRange(t, begin, end) ==
  EraseLeaves(t, begin, end, IF begin[1] = end[1] THEN end[2] - begin[2] ELSE end[2] - 1)

(* erase by key, and by value in a set. *)
EraseKeyIn(t, k, v) ==
  LET low == LowerBoundIt(t, k)
      it  == IF kind = "set" THEN FindValue(t, low, k, v)
             ELSE IF low # EndIt /\ Deref(t, low)[1] = k THEN low ELSE EndIt
      end == LowerBoundIt(t, k + 1)
  IN IF kind = "multimap" THEN (IF low = end THEN t ELSE EraseRange(t, low, end).tree)
     ELSE IF it = EndIt THEN t ELSE EraseIt(t, it).tree

-----------------------------------------------------------------------------
(* A start has a kind, the items that calls are about, pairs of a key (of  *)
(* a set: the hash) and a value, a script, a number of free calls, and a   *)
(* bound on the number of pairs.                                           *)
InitFor(s) ==
  /\ start = s /\ script = s.script /\ left = s.calls
  /\ tree = EmptyTree /\ pairs = <<>>

Init == \E s \in Starts : InitFor(s)

Become(t) ==
  /\ RebalancesInner \/ ~t.rebalanced
  /\ t.size <= start.max
  /\ tree' = t /\ pairs' = Walk(tree')
  /\ UNCHANGED start

Scripted ==
  /\ script # <<>> /\ script' = Tail(script)
  /\ LET c == Head(script)
     IN Become(IF c[1] = "erase" THEN EraseKeyIn(tree, c[2], c[3]) ELSE EmplaceIn(tree, c[2], c[3]).tree)
  /\ UNCHANGED left

Call(t) ==
  /\ script = <<>> /\ left # 0
  /\ left' = IF left = Endless THEN left ELSE left - 1
  /\ Become(t)
  /\ UNCHANGED script

Emplace(k, v) == Call(EmplaceIn(tree, k, v).tree)

(* Of a set, a hint is no later than the leaf with the first of the equal  *)
(* hashes: equal values are looked for from the hint on.                   *)
Hints(k) ==
  {it \in ToSet(Iterators(tree)) :
     kind = "set" => \/ it[1] = LowerBoundOrLastLeaf(tree, tree.root, k)
                     \/ Data(tree, it[1])[1][1] > k \/ Back(tree, it[1]) < k}

EmplaceHint(it, k, v) == it \in Hints(k) /\ Call(EmplaceAt(tree, it, k, v).tree)

EraseKey(k, v) == Call(EraseKeyIn(tree, k, v))

EraseIterator(it) == Call(EraseIt(tree, it).tree)

EraseIterators(begin, end) == kind = "multimap" /\ Call(EraseRange(tree, begin, end).tree)

Next ==
  \/ Scripted
  \/ \E c \in start.items : \/ Emplace(c[1], c[2]) \/ EraseKey(c[1], c[2])
                            \/ \E it \in ToSet(Iterators(tree)) : EmplaceHint(it, c[1], c[2])
  \/ LET its == Iterators(tree)
     IN \E n \in DOMAIN its : \/ EraseIterator(its[n])
                             \/ \E m \in (n + 1)..Len(its) : EraseIterators(its[n], its[m])
                             \/ EraseIterators(its[n], EndIt)

Spec == Init /\ [][Next]_vars

-----------------------------------------------------------------------------
Inner(t)   == {i \in DOMAIN t.nodes : ~t.nodes[i].leaf}
ItAt(t, n) == IF n \in DOMAIN Iterators(t) THEN Iterators(t)[n] ELSE EndIt

(* Every node is the child its parent_ says. *)
ParentsKnown ==
  \A i \in Inner(tree) : \A c \in Children(Data(tree, i)) : Parent(tree, c) = i

(* What _check() asserts of the containers after any sequence of calls: no *)
(* assertion has failed on the way, keys ascend in every node, parents     *)
(* know the highest key of each child and are known to it, leaves are      *)
(* linked in both directions in the order of their keys, nothing is        *)
(* lost, the size is right; and lower_bound is right for every key.        *)
TreeExact ==
  LET its == Iterators(tree)
      d   == [i \in DOMAIN tree.nodes |-> Data(tree, i)]
  IN /\ tree.ok /\ ParentsKnown
     /\ Parent(tree, tree.root) = Null
     /\ \A i \in DOMAIN tree.nodes \ {tree.root} :
          /\ d[i] # <<>>
          /\ \E j \in DOMAIN d[Parent(tree, i)] : d[Parent(tree, i)][j] = <<Back(tree, i), i>>
     /\ \A i \in DOMAIN tree.nodes :
          /\ \A j \in 2..Len(d[i]) : d[i][j - 1][1] <= d[i][j][1]
          /\ LET next == tree.nodes[i].next IN next # Null => tree.nodes[next].prev = i
          /\ LET prev == tree.nodes[i].prev IN prev # Null => tree.nodes[prev].next = i
     /\ {its[n][1] : n \in DOMAIN its} = {i \in DOMAIN tree.nodes : tree.nodes[i].leaf /\ d[i] # <<>>}
     /\ Len(its) = tree.size
     /\ \A c \in start.items :
          LowerBoundIt(tree, c[1]) = ItAt(tree, LowerBound([n \in DOMAIN its |-> Deref(tree, its[n])], c[1]))

(* An erasure returns the iterator to the entry after what went, wherever  *)
(* the merges have moved it, and an insertion the iterator to its entry.   *)
AnswersRight ==
  LET its == Iterators(tree)
      Follows(r, n) == r.it = ItAt(r.tree, n)
  IN script = <<>> =>
       /\ \A n \in DOMAIN its :
            /\ Follows(EraseIt(tree, its[n]), n)
            /\ kind = "multimap" => \A m \in (n + 1)..(Len(its) + 1) :
                                     Follows(EraseRange(tree, its[n], ItAt(tree, m)), n)
       /\ \A c \in start.items :
            LET r == EmplaceIn(tree, c[1], c[2])
            IN (RebalancesInner \/ ~r.tree.rebalanced) =>
                 /\ r.it \in ToSet(Iterators(r.tree))
                 /\ Deref(r.tree, r.it)[1] = c[1]
                 /\ kind # "map" => Deref(r.tree, r.it)[2] = c[2]

(* What the containers store at most once. *)
Unique == CASE kind = "map" -> "key" [] kind = "set" -> "pair" [] OTHER -> "none"
=============================================================================
