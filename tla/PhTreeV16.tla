------------------------------- MODULE PhTreeV16 -------------------------------
(***************************************************************************)
(* The tree of src/Ph-Tree-v1.0 (phtree_v16.h, node.h, entry.h) with the   *)
(* buckets of the multimap on top of it (phtree_multimap.h).               *)
(*                                                                         *)
(* A node owns a map from hypercube addresses to entries, and an entry     *)
(* holds a key with its bucket or a node.  The operations keep pointers to *)
(* entries while they change the maps: in a map of flat_array_map.h an     *)
(* entry stays where it is, in one of flat_sparse_map.h or                 *)
(* b_plus_tree_map.h an insertion or removal may move all of the map's     *)
(* entries.  A relocation is split into the steps between which pointers   *)
(* are kept; the other calls are one action.                               *)
(***************************************************************************)
EXTENDS Integers, Sequences, FiniteSets, SequencesExt

CONSTANTS
  Key,             \* keys as the sequences of their hypercube addresses
  Value,           \* values of a bucket
  Maps,            \* layouts of a node's map: "array" (DIM <= 3), "sparse"
  Moving,          \* layouts for which values move between buckets
  Refused          \* whether such calls include those that move nothing to a
                   \* key that is not in the tree

ASSUME KeyAssumption ==
  /\ Key \subseteq Seq(Nat) /\ IsFiniteSet(Key) /\ Key # {}
  /\ \A k, l \in Key : Len(k) = Len(l) /\ Len(k) > 0
ASSUME MapAssumption ==
  Maps \subseteq {"array", "sparse"} /\ Moving \subseteq Maps /\ Refused \in BOOLEAN

VARIABLES
  map,             \* the layout of the nodes' maps
  nodes,           \* nodes by the addresses their keys share: address -> entry
  numEntries,      \* PhTreeV16::num_entries_
  size,            \* PhTreeMultiMap::size_
  pc,
  call,            \* the relocation under way
  ptr              \* the pointers to entries it keeps

vars == <<map, nodes, numEntries, size, pc, call, ptr>>

KeyEntry(k, b) == [kind |-> "value", key |-> k, bucket |-> b]
NodeEntry(n)   == [kind |-> "node", key |-> n]

(* The tree that has only a root, with nothing in it. *)
Empty == [n \in {<<>>} |-> <<>>]

(* A pointer to an entry: the node whose map it is in and its address.     *)
(* root_ is in no map.                                                     *)
Ptr(n, a)  == [node |-> n, addr |-> a]
RootEntry  == [root |-> TRUE]
Stale      == [stale |-> TRUE]
Null       == [null |-> TRUE]
NoPointers == [old |-> Null, oldNode |-> Null, parent |-> Null, new |-> Null, newNode |-> Null]

Init ==
  /\ map \in Maps
  /\ nodes = Empty
  /\ numEntries = 0 /\ size = 0
  /\ pc = "idle" /\ call = <<>> /\ ptr = NoPointers

-----------------------------------------------------------------------------
(* node.h *)

Common(k, l) == LongestCommonPrefix({k, l})
AddressIn(n, k) == k[Len(n) + 1]

(* The node where the walk for key k ends: Node::Find and Node::Emplace    *)
(* descend as long as the entry at the key's address is a node whose key   *)
(* agrees with k.                                                          *)
Deepest(ns, k) ==
  CHOOSE n \in DOMAIN ns : /\ IsPrefix(n, k)
                           /\ \A m \in DOMAIN ns : IsPrefix(m, k) => Len(m) <= Len(n)

Parent(ns, n) == Deepest([m \in DOMAIN ns \ {n} |-> ns[m]], n)
EntryOf(ns, n) ==
  IF n = <<>> THEN RootEntry ELSE Ptr(Parent(ns, n), AddressIn(Parent(ns, n), n))

(* Where Find returns the entry of key k, or nullptr.                      *)
Find(ns, k) ==
  LET n == Deepest(ns, k)
      a == AddressIn(n, k)
  IN  IF a \in DOMAIN ns[n] /\ ns[n][a].key = k THEN Ptr(n, a) ELSE Null

At(ns, p) == ns[p.node][p.addr]
With(f, x, v) == [y \in DOMAIN f \cup {x} |-> IF y = x THEN v ELSE f[y]]
Put(ns, p, entry) == [ns EXCEPT ![p.node] = With(@, p.addr, entry)]

(* Node::Emplace from the root on, of key k with bucket b if k is new; an  *)
(* entry in its way is moved into a new node together with k               *)
(* (HandleCollision, InsertSplit).                                         *)
Emplaced(ns, k, b) ==
  LET n == Deepest(ns, k)
      p == Ptr(n, AddressIn(n, k))
  IN  IF p.addr \notin DOMAIN ns[n] THEN Put(ns, p, KeyEntry(k, b))
      ELSE IF At(ns, p).key = k THEN ns
      ELSE LET old == At(ns, p)
               m == Common(old.key, k)
               both == [a \in {AddressIn(m, k), AddressIn(m, old.key)} |->
                          IF a = AddressIn(m, k) THEN KeyEntry(k, b) ELSE old]
           IN  With(Put(ns, p, NodeEntry(m)), m, both)

(* Slip: a last entry that is a node stays. *)
RemovedUnlessNode(ns, k) ==
  LET n == Deepest(ns, k)
      rest == DOMAIN ns[n] \ {AddressIn(n, k)}
      kept == [a \in rest |-> ns[n][a]]
  IN  IF n # <<>> /\ Cardinality(rest) = 1 /\ \A a \in rest : kept[a].kind = "value"
        THEN LET last == kept[CHOOSE a \in rest : TRUE]
             IN  Put([m \in DOMAIN ns \ {n} |-> ns[m]], EntryOf(ns, n), last)
        ELSE [ns EXCEPT ![n] = kept]

(* Node::Erase of key k: if one entry is left it replaces the node in the  *)
(* parent (ReplaceNodeWithDataFromEntry), except in the root.              *)
Removed(ns, k) ==
  LET n == Deepest(ns, k)
      rest == DOMAIN ns[n] \ {AddressIn(n, k)}
      kept == [a \in rest |-> ns[n][a]]
  IN  IF n # <<>> /\ Cardinality(rest) = 1
        THEN LET last == kept[CHOOSE a \in rest : TRUE]
             IN  Put([m \in DOMAIN ns \ {n} |-> ns[m]], EntryOf(ns, n), last)
        ELSE [ns EXCEPT ![n] = kept]

(* What becomes of a pointer when the nodes change from ns to ms.          *)
IsStale(p, ns, ms) ==
  \/ p = Stale
  \/ "node" \in DOMAIN p /\ (\/ p.node \notin DOMAIN ms
                             \/ p.addr \notin DOMAIN ms[p.node]
                             \/ map = "sparse" /\ DOMAIN ms[p.node] # DOMAIN ns[p.node])
Kept(ms) == [f \in DOMAIN ptr |-> IF IsStale(ptr[f], nodes, ms) THEN Stale ELSE ptr[f]]

HoldsNode(p) == p = RootEntry \/ At(nodes, p).kind = "node"
Bucket(k) == IF Find(nodes, k) = Null THEN {} ELSE At(nodes, Find(nodes, k)).bucket

One(b) == IF b THEN 1 ELSE 0
Return == pc' = "idle" /\ call' = <<>> /\ ptr' = NoPointers

-----------------------------------------------------------------------------
(* PhTreeMultiMap::emplace *)
Emplace(k, v) ==
  /\ pc = "idle"
  /\ LET ns == Emplaced(nodes, k, {}) IN
       nodes' = Put(ns, Find(ns, k), KeyEntry(k, Bucket(k) \cup {v}))
  /\ numEntries' = numEntries + One(Find(nodes, k) = Null)
  /\ size' = size + One(v \notin Bucket(k))
  /\ UNCHANGED <<map, pc, call, ptr>>

(* PhTreeMultiMap::erase of a value; PhTreeV16::erase of an emptied bucket *)
Erase(k, v) ==
  /\ pc = "idle" /\ Find(nodes, k) # Null
  /\ LET rest == Bucket(k) \ {v} IN
       /\ nodes' = IF rest = {} THEN Removed(nodes, k)
                   ELSE Put(nodes, Find(nodes, k), KeyEntry(k, rest))
       /\ numEntries' = numEntries - One(rest = {})
  /\ size' = size - One(v \in Bucket(k))
  /\ UNCHANGED <<map, pc, call, ptr>>

Clear ==
  /\ pc = "idle"
  /\ nodes' = Empty /\ numEntries' = 0 /\ size' = 0
  /\ UNCHANGED <<map, pc, call, ptr>>

-----------------------------------------------------------------------------
(* The entry of old is also the place for key new: the keys differ below   *)
(* the address in the node.                                                *)
SamePlace(old, new) ==
  IsPrefix(Append(Deepest(nodes, old), AddressIn(Deepest(nodes, old), old)), new)

Rename(old, new) ==
  /\ nodes' = Put(nodes, Find(nodes, old), KeyEntry(new, Bucket(old)))
  /\ UNCHANGED <<map, numEntries, size, pc, call, ptr>>

(* The walk for key old, with the node in which new leaves its way.        *)
PointersFor(old, new) ==
  LET n == Deepest(nodes, old) IN
    [NoPointers EXCEPT
       !.old = Find(nodes, old),
       !.oldNode = EntryOf(nodes, n),
       !.parent = IF n = <<>> THEN Null ELSE EntryOf(nodes, Parent(nodes, n)),
       !.newNode = EntryOf(nodes, Deepest(nodes, Common(old, new)))]

(* PhTreeV16::relocate_if, whose predicate accepts the value: all values   *)
(* of a key move as one.                                                   *)

(* Slip: the new key is not looked up. *)
IsFreeAssumed(k) == TRUE

IsFree(k) == Find(nodes, k) = Null

FindForRelocateIf(old, new) ==
  /\ pc = "idle" /\ old # new /\ Find(nodes, old) # Null
  /\ \/ SamePlace(old, new) /\ Rename(old, new)
     \/ /\ ~SamePlace(old, new) /\ IsFree(new)
        /\ pc' = "insert" /\ call' = <<old, new, Bucket(old)>>
        /\ ptr' = [PointersFor(old, new) EXCEPT !.newNode = EntryOf(nodes, Deepest(nodes, new))]
        /\ UNCHANGED <<map, nodes, numEntries, size>>

(* Slip: the node of the old entry is taken to stay in its place. *)
EraseFromOldNode(kept) == kept.oldNode

(* After an insertion into its parent the old node is looked up again.     *)
EraseFrom(kept) == IF ptr.parent = ptr.newNode THEN kept.parent ELSE kept.oldNode

InsertMoved ==
  /\ pc = "insert"
  /\ LET ns == Emplaced(Put(nodes, ptr.old, KeyEntry(call[1], {})), call[2], call[3])
     IN  nodes' = ns /\ ptr' = [Kept(ns) EXCEPT !.oldNode = EraseFrom(Kept(ns))]
  /\ pc' = "erase"
  /\ UNCHANGED <<map, numEntries, size, call>>

EraseMoved ==
  /\ pc = "erase" /\ ptr.oldNode # Stale
  /\ nodes' = Removed(nodes, call[1])
  /\ Return /\ UNCHANGED <<map, numEntries, size>>

-----------------------------------------------------------------------------
(* PhTreeV16::_relocate_mm as called by PhTreeMultiMap::relocate and       *)
(* relocate_if: the values that are in vs move from one bucket to another. *)

FindForMove(old, new, vs) ==
  /\ pc = "idle" /\ map \in Moving /\ old # new /\ Find(nodes, old) # Null
  /\ Refused \/ Bucket(new) # {} \/ vs \cap Bucket(old) # {}
  /\ \/ /\ SamePlace(old, new) /\ Cardinality(Bucket(old)) = 1
        /\ vs \cap Bucket(old) # {} /\ Rename(old, new)
     \/ /\ ~(SamePlace(old, new) /\ Cardinality(Bucket(old)) = 1)
        /\ pc' = "create" /\ call' = <<old, new, vs>>
        /\ ptr' = PointersFor(old, new)
        /\ UNCHANGED <<map, nodes, numEntries, size>>

(* The bucket of the new key is created if there is none.  If that may     *)
(* have moved the old entry, because both were in one node, it is looked   *)
(* up again.                                                               *)
CreateBucket ==
  /\ pc = "create"
  /\ LET old == call[1]
         new == call[2]
         ns == Emplaced(nodes, new, {})
         again == ns # nodes /\ ptr.oldNode = ptr.newNode
     IN  /\ nodes' = ns
         /\ numEntries' = numEntries + One(ns # nodes)
         /\ ptr' = [Kept(ns) EXCEPT
                      !.new = Find(ns, new),
                      !.newNode = EntryOf(nodes, Deepest(nodes, new)),
                      !.old = IF again THEN Find(ns, old) ELSE @,
                      !.oldNode = IF again THEN EntryOf(ns, Deepest(ns, old)) ELSE @]
  /\ pc' = "move"
  /\ UNCHANGED <<map, size, call>>

MoveValues ==
  /\ pc = "move"
  /\ LET src == At(nodes, ptr.old).bucket
         dst == At(nodes, ptr.new).bucket
         moved == (call[3] \cap src) \ dst
     IN  /\ nodes' = Put(Put(nodes, ptr.old, KeyEntry(call[1], src \ moved)),
                         ptr.new, KeyEntry(call[2], dst \cup moved))
         /\ pc' = IF moved = {} THEN "cleannew" ELSE "cleanold"
  /\ UNCHANGED <<map, numEntries, size, call, ptr>>

(* Slip: the entry is removed and not counted. *)
CleanUpUncounted(k, empty, found) ==
  /\ nodes' = IF empty /\ found THEN Removed(nodes, k) ELSE nodes
  /\ UNCHANGED numEntries

(* clean_up: if the entry has an empty bucket, it is erased from its node  *)
(* on.                                                                     *)
CleanUp(k, empty, found) ==
  /\ nodes' = IF empty /\ found THEN Removed(nodes, k) ELSE nodes
  /\ numEntries' = numEntries - One(empty /\ found)

CleanUpNew ==
  /\ pc = "cleannew"
  /\ CleanUp(call[2], At(nodes, ptr.new).bucket = {}, TRUE)
  /\ ptr' = Kept(nodes') /\ pc' = "cleanold"
  /\ UNCHANGED <<map, size, call>>

(* What is read through a stale pointer is anything.                       *)
CleanUpOld ==
  /\ pc = "cleanold"
  /\ \E empty \in IF ptr.old = Stale THEN BOOLEAN ELSE {At(nodes, ptr.old).bucket = {}},
        found \in IF ptr.oldNode = Stale THEN BOOLEAN ELSE {HoldsNode(ptr.oldNode)} :
       CleanUp(call[1], empty, found)
  /\ Return /\ UNCHANGED <<map, size>>

-----------------------------------------------------------------------------
Call ==
  \/ \E k \in Key, v \in Value : Emplace(k, v) \/ Erase(k, v)
  \/ Clear
  \/ \E old, new \in Key : FindForRelocateIf(old, new)
  \/ \E old, new \in Key, vs \in SUBSET Value \ {{}} : FindForMove(old, new, vs)

Next ==
  \/ Call
  \/ InsertMoved \/ EraseMoved
  \/ CreateBucket \/ MoveValues \/ CleanUpNew \/ CleanUpOld

Spec == Init /\ [][Next]_vars

-----------------------------------------------------------------------------
KeyEntries == {e \in UNION {{nodes[n][a] : a \in DOMAIN nodes[n]} : n \in DOMAIN nodes} :
                 e.kind = "value"}

(* The variables have their types, and an entry is at the address its key  *)
(* has in a node whose key it shares.                                      *)
TypeOK ==
  /\ <<>> \in DOMAIN nodes
  /\ \A n \in DOMAIN nodes : \A a \in DOMAIN nodes[n] :
       LET e == nodes[n][a] IN
         /\ \/ e.kind = "value" /\ e.key \in Key /\ e.bucket \subseteq Value
            \/ e.kind = "node" /\ e.key \in DOMAIN nodes
         /\ IsPrefix(n, e.key) /\ AddressIn(n, e.key) = a
  /\ numEntries \in Nat /\ size \in Nat
  /\ pc \in {"idle", "insert", "erase", "create", "move", "cleannew", "cleanold"}

(* CheckConsistency of nodes, tree and multimap, between two calls: a node *)
(* has at least two entries, the counters agree with the tree and no       *)
(* bucket is empty, however values were moved about.                       *)
Consistent ==
  TypeOK /\ (pc = "idle" =>
    /\ \A n \in DOMAIN nodes \ {<<>>} : Cardinality(DOMAIN nodes[n]) >= 2
    /\ numEntries = Cardinality(KeyEntries)
    /\ \A e \in KeyEntries : e.bucket # {}
    /\ size = Cardinality(UNION {{e.key} \X e.bucket : e \in KeyEntries}))

(* Between two calls the tree is the one its keys determine, whatever was  *)
(* split, merged and moved before.                                         *)
Canonical ==
  LET keys == {e.key : e \in KeyEntries}
      below(p) == {k \in keys : IsPrefix(p, k)}
      entry(p) == IF Cardinality(below(p)) = 1
                    THEN CHOOSE e \in KeyEntries : e.key \in below(p)
                    ELSE NodeEntry(LongestCommonPrefix(below(p)))
  IN  pc = "idle" =>
        nodes = [n \in {<<>>} \cup UNION {{Common(k, l) : l \in keys \ {k}} : k \in keys} |->
                   [a \in {AddressIn(n, k) : k \in below(n)} |-> entry(Append(n, a))]]

(* A pointer kept across a change of the tree still leads to what it was   *)
(* taken for when it is used, as GetValue and GetNode assert.              *)
PointersValid ==
  LET names(p, k) == p # Stale /\ At(nodes, p).kind = "value" /\ At(nodes, p).key = k
  IN  /\ pc \in {"insert", "move", "cleanold"} => names(ptr.old, call[1])
      /\ pc \in {"move", "cleannew"} => names(ptr.new, call[2])
      /\ pc = "erase" => ptr.oldNode # Stale /\ HoldsNode(ptr.oldNode)
      /\ pc = "cleanold" /\ At(nodes, ptr.old).bucket = {} => ptr.oldNode # Stale

(* The tree with its buckets implements the multimap: a value that moves   *)
(* to another key is at every moment at one of the two.                    *)
Content == UNION {{e.key} \X e.bucket : e \in KeyEntries}
Abstract == INSTANCE MultiMap WITH content <- Content
ImplementsMultiMap == Abstract!Spec
=============================================================================
