--------------------------- MODULE SequentialInsert ---------------------------
(***************************************************************************)
(* One thread that inserts entries into an empty PH-tree, one at a time    *)
(* (DynamicNodeOperationsUtil::insert) or with entry buffers               *)
(* (DynamicNodeOperationsUtil::bulkInsert).                                *)
(*                                                                         *)
(* Each action is one iteration of the loop that walks down the tree, with *)
(* the operation it ends in; a full deallocation of the pool is an action  *)
(* of its own.  The root may be replaced here; the parallel insertion      *)
(* starts from a root of full size instead.                                *)
(***************************************************************************)
EXTENDS PHTreeNodes

CONSTANTS
  Workloads,       \* pairs of a mode, "insert" or "bulk", and the entries
  PoolSize,        \* EntryBufferPool::capacity_
  BufferCapacity   \* EntryBuffer::capacity_

ASSUME WorkAssumption == Workloads \subseteq {"insert", "bulk"} \X Seq(Entries)
ASSUME BufferAssumption ==
  PoolSize \in Nat \ {0} /\ BufferCapacity \in Nat /\ BufferCapacity > 2

VARIABLES
  work,            \* the workload of this run
  nodes,           \* the allocated nodes; those split are never freed
  root,            \* PHTree::root_
  headIndex, nInitialized, nFree, nextIndex, inUse,  \* the buffer pool
  buffer,          \* the contents of every buffer
  pos,             \* the entry the loop is at
  pc,
  cur, last,       \* currentNode and lastNode
  slot             \* the buffer allocated last

poolVars == <<headIndex, nInitialized, nFree, nextIndex, inUse>>
vars == <<work, nodes, root, poolVars, buffer, pos, pc, cur, last, slot>>

Slots == 0 .. PoolSize - 1
Cleared == [node |-> None, addr |-> 0, rows |-> <<>>]

Pool == INSTANCE EntryBufferPool WITH
          Capacity <- PoolSize, MaxRows <- BufferCapacity, Total <- 1,
          filled <- {s \in Slots : buffer[s].node # None},
          phase <- "operating", pending <- {}

Init ==
  /\ work \in Workloads
  /\ nodes = [n \in {Root} |-> [BuildNode(0, [a \in HCAddresses |-> Empty])
                                  EXCEPT !.max = NodeCapacity(1)]]
  /\ root = Root
  /\ Pool!PoolInit
  /\ buffer = [s \in Slots |-> Cleared]
  /\ pos = 1
  /\ pc = "next"
  /\ cur = Root /\ last = None /\ slot = -1

Bulk == work[1] = "bulk"
Done == pos > Len(work[2])
Entry == work[2][pos]
Address == AddressIn(Entry, cur)
Content == nodes[cur].cont[Address]

-----------------------------------------------------------------------------
(* The loop over the entries. *)
NextEntry ==
  /\ pc = "next" /\ ~Done
  /\ pc' = "visit"
  /\ cur' = root /\ last' = None
  /\ UNCHANGED <<nodes, root, poolVars, buffer, pos, slot>>

(* The entry is dealt with. *)
Inserted ==
  /\ pc' = "next" /\ pos' = pos + 1
  /\ UNCHANGED <<cur, last>>

PrefixIncluded ==
  LET m == Content.node IN SharedPrefix(Entry, m, nodes[m].prefix) = nodes[m].prefix

Descend ==
  /\ pc = "visit" /\ Content.kind = "subnode" /\ PrefixIncluded
  /\ last' = cur /\ cur' = Content.node
  /\ UNCHANGED <<nodes, root, poolVars, buffer, pos, pc, slot>>

(* splitSubnodePrefix; the old subnode is left behind.                     *)
SplitPrefix ==
  LET n == Content.node
      upper == NewId(SplitPath(nodes, n, Entry), DOMAIN nodes)
      copy == NewId(Path(n), DOMAIN nodes)
  IN
  /\ pc = "visit" /\ Content.kind = "subnode" /\ ~PrefixIncluded
  /\ nodes' = [Split(nodes, n, cur, Entry, upper, copy) EXCEPT ![n].removed = TRUE]
  /\ buffer' = BuffersMoved(buffer, nodes[n], copy)
  /\ Inserted
  /\ UNCHANGED <<root, poolVars, slot>>

SameKey == Key[Content.entry] = Key[Entry]

(* createSubnodeWithExistingSuffix: a subnode for the two entries; nothing *)
(* happens if they have the same key.                                      *)
CreateSubnode ==
  /\ pc = "visit" /\ Content.kind = "suffix" /\ ~Bulk
  /\ nodes' = IF SameKey THEN nodes
              ELSE Flushed(nodes, {[node |-> cur, addr |-> Address,
                                    rows |-> <<Content.entry, Entry>>]})
  /\ Inserted
  /\ UNCHANGED <<root, poolVars, buffer, slot>>

(* The buffer for a suffix in the way; if there is none all buffers are    *)
(* flushed first (Drain).                                                  *)
AllocateBuffer ==
  /\ pc = "visit" /\ Content.kind = "suffix" /\ Bulk
  /\ Pool!Allocate
  /\ slot' = headIndex
  /\ pc' = "swap"
  /\ UNCHANGED <<nodes, root, buffer, pos, cur, last>>

(* swapSuffixWithBuffer, whose result is not looked at: if the suffix has  *)
(* the same key the new buffer stays allocated and empty.                  *)
SwapSuffix ==
  /\ pc = "swap"
  /\ IF SameKey
       THEN UNCHANGED <<nodes, nextIndex, buffer>>
       ELSE /\ buffer' = [buffer EXCEPT ![slot] = [node |-> cur, addr |-> Address,
                                                  rows |-> <<Content.entry, Entry>>]]
            /\ nextIndex' = [nextIndex EXCEPT ![slot] = 2]
            /\ nodes' = [nodes EXCEPT ![cur].cont[Address] = Buf(slot)]
  /\ slot' = -1
  /\ Inserted
  /\ UNCHANGED <<root, headIndex, nInitialized, nFree, inUse>>

(* EntryBuffer::insert returns true for a row that was stored, which       *)
(* bulkInsert takes as the request to flush: the buffer is flushed with    *)
(* its third row.                                                          *)
InsertIntoBuffer ==
  LET s == Content.slot IN
  /\ pc = "visit" /\ Content.kind = "buffer"
  /\ Len(buffer[s].rows) < BufferCapacity
  /\ nodes' = Flushed(nodes, {[buffer[s] EXCEPT !.rows = Append(@, Entry)]})
  /\ buffer' = [buffer EXCEPT ![s] = Cleared]
  /\ Pool!Deallocate(s)
  /\ Inserted
  /\ UNCHANGED <<root, slot>>

(* insertSuffix into a node with room. *)
InsertSuffix ==
  /\ pc = "visit" /\ Content.kind = "empty"
  /\ ~IsFull(nodes[cur])
  /\ nodes' = [nodes EXCEPT ![cur].cont[Address] = Suffix(Entry)]
  /\ Inserted
  /\ UNCHANGED <<root, poolVars, buffer, slot>>

(* Slip: the parent keeps the pointer to the node that was replaced. *)
ReplacingWithoutParent(new) ==
  WithNode(nodes, new, LargerCopy(nodes[cur], Address, Entry))

(* The nodes with a larger copy of the current one in its place; the       *)
(* parent, if there is one, is told.                                       *)
Replacing(new) ==
  WithNode(IF last = None THEN nodes
             ELSE [nodes EXCEPT ![last].cont[AddressIn(Entry, last)] = Sub(new)],
           new, LargerCopy(nodes[cur], Address, Entry))

(* insertSuffix into a larger copy; the old node is freed.                 *)
EnlargeNode ==
  LET new == NewId(Path(cur), DOMAIN nodes)
      all == Replacing(new)
  IN
  /\ pc = "visit" /\ Content.kind = "empty"
  /\ IsFull(nodes[cur])
  /\ nodes' = [n \in DOMAIN all \ {cur} |-> all[n]]
  /\ buffer' = BuffersMoved(buffer, nodes[cur], new)
  /\ root' = IF last = None THEN new ELSE root
  /\ Inserted
  /\ UNCHANGED <<poolVars, slot>>

-----------------------------------------------------------------------------
(* fullDeallocate: every buffer in use is flushed; flushToSubtree asserts  *)
(* that it holds something.                                                *)
FlushAll ==
  /\ \A s \in inUse : buffer[s].node # None
  /\ nodes' = Flushed(nodes, {buffer[s] : s \in inUse})
  /\ buffer' = [s \in Slots |-> Cleared]
  /\ Pool!FullDeallocate

(* allocate returned NULL. *)
Drain ==
  /\ pc = "visit" /\ Content.kind = "suffix" /\ Bulk
  /\ nFree = 0
  /\ FlushAll
  /\ UNCHANGED <<root, pos, pc, cur, last, slot>>

(* The end of insert, or of bulkInsert, which flushes what is left.        *)
FinishInsert ==
  /\ pc = "next" /\ Done /\ ~Bulk
  /\ pc' = "finished"
  /\ UNCHANGED <<nodes, root, poolVars, buffer, pos, cur, last, slot>>

(* Slip: the last full deallocation is forgotten. *)
FinishBulkUnflushed ==
  /\ pc = "next" /\ Done /\ Bulk
  /\ pc' = "finished"
  /\ UNCHANGED <<nodes, root, poolVars, buffer, pos, cur, last, slot>>

FinishBulk ==
  /\ pc = "next" /\ Done /\ Bulk
  /\ FlushAll
  /\ pc' = "finished"
  /\ UNCHANGED <<root, pos, cur, last, slot>>

Step ==
  \/ NextEntry \/ Descend \/ SplitPrefix \/ CreateSubnode
  \/ AllocateBuffer \/ SwapSuffix \/ InsertIntoBuffer
  \/ InsertSuffix \/ EnlargeNode
  \/ Drain \/ FinishInsert \/ FinishBulk

Terminated == pc = "finished" /\ UNCHANGED vars

Next == (Step /\ UNCHANGED work) \/ Terminated

Spec == Init /\ [][Next]_vars

(* The loop of the inserting thread goes on. *)
FairSpec == Spec /\ WF_vars(Next)

-----------------------------------------------------------------------------
(* The variables have their types; a node holds no more than it has room   *)
(* for, and what the loop refers to is allocated.  A node that was split   *)
(* may refer to nodes that are gone.                                       *)
TypeOK ==
  /\ root \in DOMAIN nodes
  /\ \A n \in LiveNodes(nodes) :
       /\ nodes[n].cont \in [HCAddresses -> {Empty} \cup {Suffix(e) : e \in Entries}
                               \cup {Sub(m) : m \in DOMAIN nodes} \cup {Buf(s) : s \in Slots}]
       /\ nodes[n].prefix \in 0 .. Len(Path(n))
       /\ NContents(nodes[n]) <= nodes[n].max
  /\ pos \in 1 .. Len(work[2]) + 1
  /\ pc \in {"next", "visit", "swap", "finished"}
  /\ pc \in {"visit", "swap"} => cur \in DOMAIN nodes /\ last \in DOMAIN nodes \cup {None}
  /\ slot \in Slots \cup {-1}

(* After every step of the loop the tree is one, its entries lie where a   *)
(* lookup finds them and every buffer is where it is referenced from, in   *)
(* whatever order nodes are split, enlarged and flushed.                   *)
WellFormed ==
  /\ TypeOK
  /\ IsTree(nodes, root)
  /\ AllPlaced(nodes, buffer)
  /\ AllAnchored(nodes, buffer)

(* When no entry is in a buffer the tree has the shape that its entries    *)
(* alone determine: bulkInsert builds the tree that insert builds, in      *)
(* every order of the entries.                                             *)
Canonical ==
  (\A s \in Slots : buffer[s] = Cleared) => IsCanonical(nodes)

(* assert (suffixBits_ > 0) in flushToSubtree: when a full deallocation is *)
(* due, every buffer in use was filled by swapSuffixWithBuffer.            *)
FlushesFilledBuffers ==
  (pc = "next" /\ Done /\ Bulk) \/ (pc = "visit" /\ Bulk /\ nFree = 0) =>
    \A s \in inUse : buffer[s].node # None

(* The tree with its buffers implements the abstract store, and when the   *)
(* loop ends every key is in a node.                                       *)
Store == INSTANCE KeyStore WITH Ids <- Entries, KeyOf <- Key,
                                stored <- StoredIn(nodes, buffer)
ImplementsStore == Store!Spec
AllInserted ==
  pc = "finished" =>
    {Key[work[2][i]] : i \in DOMAIN work[2]} = {Key[e] : e \in SuffixEntries(nodes)}

(* Every insertion comes to an end: the walk never descends for ever.      *)
Termination == <>(pc = "finished")
=============================================================================
