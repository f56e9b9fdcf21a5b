# A TLA+ model of the PH-tree

The repository holds two implementations of the PH-tree, a multidimensional
index: `src/Ph-Tree` (the older one, with a concurrent bulk insertion and
parallel queries) and `src/Ph-Tree-v1.0` (a later single-threaded library). This
project models, of the first, the entry buffers and their pool, the tree and its
sequential and parallel insertions, the threads that run them, the layout of a
node down to its packed bits, and range queries by one or several threads; of the
second the tree, the multimap on top of it, the maps inside its nodes, and its
queries. Each definition is translated from the source; `PROJECT.json` maps it to
its lines.

## 1. Inventory

### src/Ph-Tree

A node stores, at up to 2^DIM hypercube addresses, suffixes of entries,
references to subnodes, or (as *special pointers*) references to entry buffers.
A node also has a prefix of addresses that all entries below it share.

| component | state | operations | correct if |
|---|---|---|---|
| `util/EntryBufferPool.h` | slots, a free list threaded through `nextIndex_`, `headIndex_`, `nInitialized_`, `nFree_` | `allocate`, `deallocate`, `fullDeallocate`, or `prepare...`, `do...Part`, `finishFullDeallocate` by several threads | a buffer has one owner, none leaks, a full deallocation leaves nothing behind |
| `util/EntryBuffer.h` | rows, `nextIndex_`, `insertCompleted_`, `suffixBits_`, the matrix of common prefixes, the node and address it hangs off | `init`, `insert`, `flushToSubtree`, `clear`, `updateNode` | only complete rows are flushed, duplicates go, the subtree holds the rest |
| `util/DynamicNodeOperationsUtil.h` | the nodes: contents, `removed`, `updateCounter`, a read-write lock | `insert`, `bulkInsert`, `parallelBulkInsert`, prefix splits, node replacement, buffer flushes | the tree stays one tree, an entry inserted is found, the shape does not depend on the order |
| `util/InsertionThreadPool.h` | `i_`, `syncPhaseRequired_`, `nRemainingThreads_`, a barrier, the `DeletedNodes` and `EntryTreeMap` of each thread | `processNext`, `insertBySelectedStrategy`, `handlePoolFlushSync`, `handleDoneBySelectedStrategy` | each entry is inserted once, phases exclude insertions, all threads end |
| `util/EntryTreeMap.h` | the path of nodes of the last entry of a thread | `compareForStart`, `getNextUndeletedNode`, `enforcePreviousNode`, `clearMap` | the node a thread starts from lies on the way to its entry |
| `util/DeletedNodes.h` | replaced nodes not yet freed | `add`, `full`, `deleteAll` | never overflows, frees nothing in use |
| `util/NodeTypeUtil.h`, `nodes/Node.h` | - | build, copy to a larger node | contents and buffers move along |
| `nodes/AHC.h`, `LHC.h`, `TNode.h`, `SuffixStorage.h` | array or sorted table of references, suffix blocks | `insertAtAddress`, `lookup`, `reserveSuffixSpace`, `freeSuffixSpace` | an address map |
| `util/MultiDimBitset.h` | packed interleaved bits | compare, interleave, duplicate | agrees with bit sequences |
| `PHTree.h` | `root_` | `insert`, `bulkInsert`, `parallelBulkInsert`, lookup, range queries | a map from keys to ids |
| `iterators/`, `util/SpatialSelectionOperationsUtil.h`, `RangeQueryUtil.h` | a stack of node iterators with masks | `hasNext`, `next`, `lookup` | the keys in the box, once each |
| `util/RangeQueryThreadPool.h`, `ResultStorage.h` | chunks of ranges, result lists | `processNext` | every range is answered |
| `visitors/` | counters | traversal | statistics only |
| `main.cpp`, `PlotUtil.h`, `FileInputUtil.h`, `compare/` | - | benchmarks | - |
| `libmorton/` | - | vendored | - |

How they interact: `InsertionThreadPool` starts threads that take entries and
call `parallelBulkInsert` on the one shared tree. The insertion calls the pool
(under its mutex) for buffers, writes rows without a lock (an atomic counter
reserves them), and takes read and write locks of nodes. When a thread finds no
free buffer, or its list of replaced nodes is full, it sets
`syncPhaseRequired_`; every thread sees the flag before its next entry, and all
meet at the barrier, where they flush the whole pool in parts, free replaced
nodes and clear their maps.

The hard behaviours are therefore

- the gap between giving up a read lock and getting the write lock;
- a node replaced while other threads wait for it, hold it in a map, or while
  buffers hang off it;
- a buffer that is flushed, returned and reused while a thread waits to flush it;
- a row reserved and not yet written when the buffer is flushed;
- a phase that is requested while another one ends, and threads that have no
  entries left and must still take part;
- everything at its limit: the pool, a buffer, a node, the list of replaced nodes.

### src/Ph-Tree-v1.0

| component | state | operations | correct if |
|---|---|---|---|
| `phtree_v16.h`, `node.h`, `entry.h` | a tree of entries held by value in the map of each node | `try_emplace` (with hint), `erase`, `relocate_if`, `_relocate_mm` | a map; pointers to entries kept across a change of a node stay valid |
| `phtree_multimap.h` | a tree of buckets, `size_` | `emplace`, `emplace_hint`, `erase`, `relocate`, `relocate_all` | a multimap; `size_` is its size; no empty bucket |
| `flat_array_map.h`, `flat_sparse_map.h`, `b_plus_tree_*.h` | array, sorted vector, B+ tree | find, insert, erase, iterate | a finite map; nodes keep their fill |
| `iterator_*.h`, `for_each*.h`, `filter.h`, `distance.h` | stacks, queue of nearest neighbours | iterate | the keys asked for, once each |
| `converter.h`, `bits.h`, `base_types.h`, ... | - | conversions | - |

There is no concurrency in it. Its hard behaviours are the validity of pointers
to entries while a node's map shifts, splits or merges, the counters on the
paths of a refused relocation, the repair of a B+ tree after a removal, and
queries that leave out nodes by masks and bounds.

## 2. Modules

Modules of `src/Ph-Tree`:

| module | models | composed with |
|---|---|---|
| `EntryBufferPool` | the pool, each operation one action (the code holds the pool's mutex); the callers as they use a buffer | `ParallelBulkInsert`, `SequentialInsert` (its operations as actions on their variables) and `InsertionThreadPool` (as the specification it implements) |
| `EntryBufferRows` | the inside of a buffer: rows written by several threads, the matrix of common prefixes, the flush that builds a subtree from it, clearing | beside the pool in `MCStructures` |
| `PHTreeNodes` | contents, prefixes and capacities of nodes, prefix splits, the subtree a flush builds; predicates on the tree | extended by the insertions, `EntryBufferRows` and `RangeQuery` |
| `KeyStore` | abstract: entries are added one at a time, under a new key, and stay | implemented by both insertions |
| `SequentialInsert` | `insert` and `bulkInsert`, one action per iteration of the walk | `MCSequentialInsert` has its workloads |
| `ParallelBulkInsert` | `parallelBulkInsert` by several threads on one tree | `MCParallelBulkInsert` has its workloads |
| `InsertionThreadPool` | dealing out entries, the barrier and the phases, the end | `EntryBufferPool` |
| `EntryTreeMap` | the path of a thread's last entry and the binary search for the start of the next | part of `MCStructures` |
| `NodeLayout` | one node: `LHC` (sorted table of packed addresses), `AHC` (array), suffix blocks with compaction, node iterators, choice of the node type and replacement | part of `MCStructures`; implements `OrderedMap` |
| `MultiDimBitset` | strings of interleaved bits in blocks | part of `MCStructures` |
| `RangeQuery` | lookup, and the stack machine of `RangeQueryIterator` with its masks | on the finished trees of `SequentialInsert`, in `MCSequentialInsert` |
| `RangeQueryThreadPool` | chunks of ranges for several threads, intersection and inclusion queries, the linked result blocks | on the same trees, in `MCSequentialInsert` |

Modules of `src/Ph-Tree-v1.0`:

| module | models | composed with |
|---|---|---|
| `MultiMap` | abstract: values are added, removed, and move from one key to another in one step | implemented by `PhTreeV16` |
| `PhTreeV16` | the tree and multimap: `emplace`, `erase`, `clear`, and the relocations step by step with the pointers they keep | `MCPhTreeV16` has its keys |
| `QueriesV16` | the iterators for windows, for all entries and for nearest neighbours, the traversals with a callback, the filters for boxes and spheres | on the trees of `PhTreeV16`, in `MCPhTreeV16` |
| `OrderedMap` | abstract: pairs in the order of their keys | implemented by `BPlusTree`, `FlatMaps` and `NodeLayout` |
| `BPlusTree` | the B+ trees: map, multimap and set by hashes, with the leaf chain, splits, merges and removal | part of `MCStructures` |
| `FlatMaps` | array with an occupancy word; sorted vector | part of `MCStructures` |

`MCStructures` has the data structures below the trees side by side: the pool and the
inside of a buffer, nodes, bit strings, the path of the last entry, B+ trees and flat
maps. A behaviour is about one of them (`structure`).

Proofs: `EntryBufferPoolProofs`; `ThreadPoolProofs` (the insertion threads with the
barrier, and the query threads); `PHTreeNodesProofs` (what flushes, replacements and
splits do to the nodes), extended by `ParallelBulkInsertProofs` and
`SequentialInsertProofs`; `EntryTreeMapProofs`; `PhTreeV16Proofs` (the v1.0 tree and its
window queries); with the arithmetic of quotients and the facts about prefixes of
sequences in `DataLemmas`.

### How state and actions correspond to the code

**Keys and nodes.** A key is its sequence of WIDTH hypercube addresses, highest
bit first; an entry is its index. A node is named by its path (the addresses from
the root through its prefix) and a version, so that nodes which replace each
other are told apart. `prefix` is the length of its prefix, `max` the number of
contents its type has room for (`NodeCapacity`, from `determineNodeType`). The
bits of prefixes and suffixes follow from path and key and are not stored.

**ParallelBulkInsert.** `readers` and `writers` are the locks, `updates` is
`updateCounter`, `removed` the flag of a replaced node, `entryMap[t]` a thread's
`EntryTreeMap`, `deleted[t]` its `DeletedNodes`, and `local[t]` the variables of
the function. One action is what a thread does between two points at which
another thread can notice: it reads a node under its read lock and decides
(`VisitSubnode`, `VisitFullBuffer`, `VisitBuffer`, `VisitSuffix`,
`VisitSuffixNoBuffer`, `VisitFullNode`, `VisitRoom`); it reserves, fills and
compares a row (`Reserve`, `Fill`, `Compare`); it gets a write lock, checks that
nothing changed and does its change, or starts over (`InsertSuffix`,
`SwapSuffix`, `LockFlush` with `Recheck`, `FlushSubtree` and `LockDowngraded`,
`LockParent` with `CopyNode` or `SplitPrefix`). A read lock may be got while no
writer holds the node, a write lock while nobody does. `SyncPhase` is the whole
synchronisation phase; `InsertionThreadPool` shows separately that nothing else
runs during one.

**SequentialInsert.** `Descend`, `SplitPrefix`, `CreateSubnode`,
`InsertIntoBuffer`, `AllocateBuffer` with `SwapSuffix`, `InsertSuffix` and
`EnlargeNode` are the branches of the loop; `Drain` and `FlushAll` are a full
deallocation in the middle and at the end.

**InsertionThreadPool.** `Take`, `BeginEntry` and `Advance` are `processNext`
with its three orders; `InsertDirectly` to `NoBuffer` are what an insertion does
to the pool and to the list of replaced nodes; `Prepare`, `FlushPart`, `Settle`,
`FinishFlush` lie between the waits of `handlePoolFlushSync`; `Arrive` and
`WakeUp` are `boost::barrier`, which is not in the repository and is modelled by
its use: it counts arrivals, and the last one starts a new round (a generation,
counted modulo `Generations`) and wakes the others. `optimistic_locking` calls a
function whose body is commented out; so does the model (section 6).

**EntryBufferRows.** `Insert(t)` are the steps of one thread: it reserves a row, fills
it, and enters its common prefix with each earlier row into the matrix `lcps`
(spinning until that row is complete). `FlushRound` takes the rows with the
longest common prefix and makes a node of them, until one is left. The other models take the result of a flush (`SubtreeFor`) in
one step; `FlushExact` says that this is what the flush builds.

**EntryTreeMap.** `starts` and `removed` are what matters of the remembered nodes:
the index each starts at, and whether it was replaced. `CompareForStart`, `Halve`
and `EndSearch` are the binary search, one action per iteration.
`ParallelBulkInsert` takes the search's result (`KeptNodes`).

**NodeLayout, MultiDimBitset.** Arrays are functions from 0 and blocks are numbers
of `BlockBits` bits. A shift by the full width, which the language leaves undefined,
is modelled as x86 does it: the count is taken modulo the width.

**RangeQuery.** A mask is the set of the dimensions whose bit it has; each action is
one iteration of a loop of the constructor or of `goToNextValidSuffix`. In
`RangeQueryThreadPool` the answer of a single query is the set of stored entries in
the box, in z-order, which `QueryExact` justifies.

**PhTreeV16.** `nodes` maps each node, named by the addresses all keys below it
share, to its map from addresses to entries; an entry holds a key with its bucket
or a node, by value, as `Entry` does. `numEntries` and `size` are the counters of
tree and multimap. A relocation is cut where it uses pointers to entries after
the tree has changed: `relocate_if` of the tree into `FindForRelocateIf`,
`InsertMoved` and `EraseMoved`; `_relocate_mm` into `FindForMove`, `CreateBucket`,
`MoveValues`, `CleanUpNew` and `CleanUpOld`. `ptr` is what it keeps: places, that
is a node and an address in it. A place becomes `Stale` when the entry is no
longer at that location in memory: its node is freed, it is erased, or its map moves its entries
(`map = "sparse"`: `flat_sparse_map.h` and the B+ tree map of 4 and more
dimensions; `"array"`: `flat_array_map.h` up to 3). What the code reads through a
stale pointer is any value.

**QueriesV16.** A key stands for a point with coordinates of WIDTH bits, the first
of them the sign, so the order of addresses at the root puts negative values
last, as in the code. `MaskLower` and `MaskUpper` are `CalcLimits`; `Visit` is one
iteration of the inner loop of `IteratorHC` and `IteratorFull`, `Pop` of the
outer one; `PopNearest` one of the nearest-neighbour search, where any of several
equally close candidates may be on top. `Traverse` is the recursion of `ForEachHC`
and `ForEach`, compared with the iterators.

**BPlusTree, FlatMaps.** The functions of a node that change the tree around it are
operators from a tree to a tree, in the order of the code's steps; a call of a
container is an action. A failed assertion of the code clears `ok`. Erased slots
of a flat array keep their bits, as `data_` does.

**EntryBufferPool.** `nextIndex` is one field with two uses, the link of a free
slot and the number of rows of a used one, as in the code. `Linked` is the lazy
initialisation, one slot per allocation.

## 3. Runs

All runs are exhaustive; numbers are distinct states.

| run | states | question | result |
|---|---|---|---|
| `Structures` | 131 942 | does any order of requests, uses and full deallocations break the free list or miss a buffer? is what a buffer flushes the subtree of its rows, in whatever order threads wrote them? is each layout of a node, each B+ tree and each flat map a map, is its structure what its code asserts, do bit strings agree with what they hold, and does the search on the path of the last entry find the start? | holds |
| `ParallelInsert` | 139 365 | two threads, three workloads dealt out in every way: is the tree one tree, is each entry where a lookup finds it, is the final tree the one its entries determine, does it implement `KeyStore`, are flushes under the right lock and of complete rows, are replaced nodes never written again? | holds |
| `ParallelScarce` | 19 166 | three threads, one buffer, one replaced node each: do the phases keep all promises, and do the threads finish? | holds |
| `ParallelReuse` | - | may a buffer be flushed while a row is being written? | yes, see 6 |
| `SequentialInsert` | 58 982 | do both algorithms build the same tree in each of the 720 orders of six keys (and with a key twice)? does every range query of the chosen trees return its window, do three threads answer lists of ranges, and do queries end? | holds |
| `SequentialDuplicate` | - | is every flushed buffer filled? | no, see 6 |
| `Threads` | 258 471 | three threads, two entries, all orders and two approaches: each entry once? is the pool used as it requires? exclusion, one responsible thread, leaving together, no request lost, termination? | holds |
| `TreeRelocation` | 279 914 | v1.0: does any order of insertions, removals and relocations leave tree, counters and buckets consistent and the tree canonical, without the use of a stale pointer, and is it a multimap? are queries of every such tree exact? | holds |
| `TreeMoveStale` | - | is the tree consistent after values moved, in maps that move their entries? | no, see 6 |
| `TreeRebalance` | - | does every child in a B+ tree know its parent after inner nodes share their children? | no, see 6 |
| `PrefixPush` | - | does a bit string hold what was pushed onto it, at every place and of any length? | no, see 6 |
| `PrefixCopy` | - | is every prefix of a bit string copied right? | no, see 6 |

### Bounds, and why they are enough

- `Structures` checks each structure on its own: `structure` is chosen at the start and
  the other variables do not change. Deadlock is checked; only the calls to a tree may be
  used up (`CallsDone`), and the uses of a buffer (`Terminated`).
- `EntryBufferPool`: four slots, so that the list has linked, unlinked, returned
  and used slots at once, and three parts, which do not divide four. `MaxRows`
  caps the row counter; rows past the first two are alike to the pool. Buffers of
  `EntryBufferRows` have up to five rows of keys with common prefixes of every
  length, a key twice, in every order by one thread and by three threads at once.
- Parallel and sequential insertion: two dimensions and three bits, the smallest
  tree with a node above a node below the root. Node capacities are the code's
  for two dimensions (2, 3 or 4 contents). `BufferCapacity` is 3 instead of 10,
  the least that `swapSuffixWithBuffer` allows. The workloads (module
  `MCParallelBulkInsert`) are chosen so that a buffer fills and is flushed to a
  subtree of one or two levels, a prefix is split by a later entry, a node with a
  buffer is replaced, a remembered node is replaced, a key comes twice, and two
  threads want the same change. A workload leaves out what would let `ParallelReuse`'s
  case happen, since that one is reported on its own; `Reuse` has it.
- `MaxDeleted` is 1 or 2 instead of 2000, `PoolSize` 1 or 2 instead of 10000, so
  that both limits are met.
- `InsertionThreadPool`: three threads and two entries, so that the division has a
  remainder and one thread has nothing to do; the theorems of section 5 cover all
  other numbers. `Generations` is 2: a thread
  that has not woken can be at most one round behind, as `TypeOK` and
  `PhaseExclusive` confirm, so two rounds need to be told apart.
- `RangeQuery`: trees with nodes at all levels, with and without prefixes, and
  every pair of corners that differ in each dimension: the constructor asserts
  that (`RangeQueryIterator.h:87-92`), although `PHTree::intersectionQuery` (254)
  only asks for `<=`. `RangeQueryThreadPool`: three threads, two results per
  block instead of 1000, lists of 0 to 5 ranges, so that chunks are uneven, start
  behind the end, and results fill several blocks.
- `NodeLayout`: three dimensions, blocks of four bits, so that a packed address lies
  at every offset and across blocks; six of the eight addresses. `MultiDimBitset`:
  values of three addresses of three bits over blocks of four bits, with all addresses, and for
  what is pushed and removed also values of four addresses ("long"). What `PrefixPush` reports
  is excluded by `SplitsRight`: strings of several blocks are pushed only at bit 0 of a
  block or at its middle, and every string of one block at any place; with four addresses
  strings of two blocks are pushed at both. `EntryTreeMap`: five levels; the proofs are for all.
- `BPlusTree`: `MAX` is 4 instead of 16, the least for which halves and merges
  are as in the code. Small trees take every sequence of calls; tall ones (a
  root over inner nodes) are built by a script and take any two calls
  after it. Excluded are calls that rebalance inner nodes (`RebalancesInner`,
  reported by `TreeRebalance`), more equal keys in a multimap than a leaf holds, for
  which `b_plus_tree_base.h:348-352` may split an inner node between equal keys, and
  hints for `emplace_hint` of a hash set that stand in a later leaf of equal hashes.
- `FlatMaps`: five keys and a word of six bits. As in the code the word is wider than the
  array (64 bits for 8 slots at most), so the border is the end of the array.
- `PhTreeV16`: five keys of three addresses (`MCPhTreeV16`), so that nodes lie
  one below the other under the root, and nodes split, merge, and merge into a
  parent that is not the root; two values, so that a bucket may be moved in part,
  and the target may have one of them already. `TreeRelocation` moves values only
  in array maps (`Moving`) and not where nothing would be moved to a key that
  is not in the tree (`Refused`), since there the code fails (section 6);
  `relocate_if` of the tree runs with both layouts.
- `QueriesV16`: the keys are points of two coordinates from -4 to 3 on both sides of
  zero, so that nodes hang below the root with and without infix; 225 windows, from
  one point to the whole space, each with four filters; nine centres and limits of
  0, 1, 3 and more than there are keys. All 32 trees of the five keys are queried
  (`AskTree`): buckets and layouts do not matter to a query, so one of each is
  taken. An iterator is used up before the tree is changed.

`syncPhaseRequired_` is a plain `bool` that threads read and write without a
lock. A thread that reads an old value does what it would do if the other thread
had set the flag later; the interleavings include that order.

### Fairness

`WF` on each thread's steps: the code starts `std::thread`s that run until they
block, and the operating system schedules each thread that can run. A thread
that waits for a lock or the barrier has no enabled step, so weak fairness asks
nothing for it that the code does not give; in particular no strong fairness of
locks is assumed (in these runs a thread overtaken at a lock still gets it,
since the others run out of entries). A query that was started is read to its end:
`WF` of `Proceed` in `RangeQuery` and in `RangeQueryThreadPool`, and nothing is
assumed of the caller that starts one. The runs with liveness are
`ParallelScarce`, `SequentialInsert` and `Threads`.

## 4. Properties

Each is stated and explained in its module. The ones that carry the project:

- `ImplementsStore` (both insertions): each step of any thread adds nothing or
  one entry under a new key to what is stored in nodes and buffers, and removes
  nothing; replacing nodes, splitting prefixes, flushing buffers and phases do
  not change it.
- `Canonical`: with the buffers empty the tree is the one its entries determine,
  whatever the order and the interleaving. This is the PH-tree's defining
  property, that its shape does not depend on the insertion order.
- `OnTheWay`, `EntriesPlaced`: remembered nodes and walks never leave the way to
  the entry, although others split and replace nodes on it.
- `ExclusiveFlush` (the lock of the node, complete rows): what a flush relies on.
- `ReplacedFrozen`, `InsertedKept`: no lost update in the gap of a lock upgrade.
- `PhaseExclusive`, `OneResponsible`, `LeaveTogether`, `RequestKept`: what a
  phase relies on; and `UsesPoolCorrectly`, that the threads with their barrier
  implement the specification `EntryBufferPool` is proved correct under.
- `FlushExact`: whatever the interleaving of the threads that wrote them, the rows
  give the subtree that their keys determine, each entry once.
- `MasksExact`, `QueryExact`, `RangesAnswered`: a range query leaves out whole
  nodes by masks and by comparisons it remembers from the nodes above; it
  nevertheless returns the entries of its window, each once and in order, and
  several threads answer each range once.
- `QueriesExact`: the same for the v1.0 iterators, whose bounds on nodes are
  different ones, and for neighbours: none is passed over for one further away.
- `PointersValid`: when a relocation uses an entry it looked up before it changed
  the tree, the entry is still there; with `Consistent` (what `CheckConsistency`
  asserts), `Canonical` and `ImplementsMultiMap`, that a relocation loses and
  doubles no value on any of its paths.
- `NodeImplementsMap`, `TreeImplementsMap`, `FlatImplementsMap`: the maps below the
  trees implement `OrderedMap`, and `LayoutExact`, `TreeExact` are the structure
  their lookups rely on; `AnswersRight` is what single calls return.

Every property has a mutant, a plausible slip in one definition that models code
(marked `Slip` in the modules), under which the same run finds it violated.

## 5. Proofs

| theorem | says |
|---|---|
| `TypeCorrect` | `Spec => []TypeOK` of `EntryBufferPool` |
| `FreeListCorrect` | `Spec => []FreeListInv` |
| `AllocationExclusive` | `Spec => []AllocatesUnusedBuffer` |
| `FullDeallocationComplete` | `Spec => []DrainedWhenDone` |
| `InsertionsExcluded` | `Spec => []PhaseExclusive` of `InsertionThreadPool` |
| `SingleResponsible` | `Spec => []OneResponsible` |
| `RequestsKept` | `Spec => RequestKept`, an action property |
| `ThreadsLeaveTogether` | `Spec => []LeaveTogether` |
| `PoolUsedCorrectly` | `Spec => UsesPoolCorrectly`: the threads implement `EntryBufferPool` |
| `PoolSoundUnderThreads` | `Spec => []` what is proved of the pool, for the pool as the threads use it |
| `RangesCover`, `RangesDisjoint` | the ranges of `range_per_thread` partition the entries |
| `EntriesOnce` | `Spec => []EachEntryOnce` |
| `RangesPartitioned` | `Spec => []` each range is queried by one thread, of `RangeQueryThreadPool` |
| `RangesAnsweredAlways` | `Spec /\ [](phase = "running" => stored = Tree) => []` both parts of `RangesAnswered`: the blocks of the threads hold the answers, in the order of the ranges |
| `StartFound` | `Spec => []` the search of `EntryTreeMap` stays in the path and finds the last node that starts no later than the difference |
| `SearchEnds` | `Spec =>` each step of the search makes its interval smaller |

The parallel insertion, in `ParallelBulkInsertProofs`:

| theorem | says |
|---|---|
| `DeletedNeverOverflows` | `Spec => []DeletedFits` |
| `WritersAlone` | `Spec =>` always a node one thread may write to is locked by no other thread |
| `Inductive` | `Spec /\ []FlushLocksNode => []IInv`, the inductive invariant |
| `StaysWellFormed` | ... `=> []WellFormed`: types, one tree, each entry where a lookup finds it, each buffer hung up once, the pool intact |
| `StaysCanonical` | ... `=> []Canonical`: with the buffers empty, the tree that its entries determine |
| `WalksRight` | ... `=> []OnTheWay` |
| `ReferencesValid` | ... `=> []NoDanglingReference`: no thread refers to a freed node |
| `ReplacedStayFrozen` | ... `=> ReplacedFrozen`, an action property |
| `StoreImplemented` | ... `=> ImplementsStore`, the refinement of `KeyStore` |
| `NothingLost` | ... `=> []InsertedKept` |
| `ReuseAloneEndangers` | `Spec /\ NeverReused => []FlushLocksNode` |
| `FlushesExclusive` | `Spec /\ NeverReused => []ExclusiveFlush` |
| `OneThreadSafe` | with one thread, `Spec => []FlushLocksNode` |

The sequential insertion, in `SequentialInsertProofs`:

| theorem | says |
|---|---|
| `Inductive` | `Spec => []IInv`, the inductive invariant |
| `StaysWellFormed` | `Spec => []WellFormed`: as above |
| `StaysCanonical` | `Spec => []Canonical` |
| `InsertsAll` | `Spec => []AllInserted`: at the end the tree holds the keys of the given entries and no others |
| `StoreImplemented` | `Spec => ImplementsStore`, the refinement of `KeyStore` |

The v1.0 tree and multimap, in `PhTreeV16Proofs`:

| theorem | says |
|---|---|
| `StaleAloneEndangers` | `Spec /\ []ValidAtCleanUp => [](Consistent /\ Canonical /\ PointersValid) /\ ImplementsMultiMap`, for both layouts of maps |
| `ArraysInductive` | `Spec => [](IInv /\ ValidAtCleanUp)`; this and the next four if values move only in array maps, and not where nothing would be moved to an absent key |
| `StaysConsistent` | `Spec => []Consistent`: nodes, counters and buckets between calls |
| `StaysCanonical` | `Spec => []Canonical`: the tree its keys determine |
| `PointersStay` | `Spec => []PointersValid` |
| `MultiMapImplemented` | `Spec => ImplementsMultiMap`, the refinement of `MultiMap` |
| `WindowKeepsMatches` | in every tree the calls build a window query of `QueriesV16`, with a box filter or none, finds an entry on the way to a match in each node and passes it |

What both insertions rest on, in `PHTreeNodesProofs`, for every tree: `FlushedSound` and `FlushedEntries`
(flushing any set of buffers at once leaves a sound tree with the same
entries), `CopiedSound` and `ResplitSound` (so do replacing a node and splitting a prefix),
`SoundCanonical` (a sound tree without buffers is canonical). Their root is any
node with the empty path (`AtTop`), since the sequential insertion may replace it.

The theorems about threads and the pool hold for every capacity, bound on rows, number of parts, threads and
entries, and every strategy. The assumptions are that these are positive numbers,
at least 2 rows in a buffer (`PoolAssumption`, `RowsAssumption`,
`TotalAssumption`, `ThreadsAssumption`, `RangeAssumption`), that the strategies
are among those of the code (`StrategyAssumption`), and that the barrier's counter
of rounds has at least two values (`GenerationsAssumption`). The parallel insertion is
proved for every number of dimensions and bits, finite set of keys, set of
threads, workload, and size of pool, buffers and lists. So is the sequential one
(`BufferAssumption`, `WorkAssumption`), and without a hypothesis on the flushes: one
thread has no locks to lose. `KeyAssumption` says that a
key has an address per bit; `PowerAssumption`, that 2^DIM is a positive number, is
stated because the provers do not know powers. The v1.0 tree is proved for every finite,
non-empty set of keys of one length and every set of values.

**The pool.** The free list is stated by a witness: a sequence `f` of slots, without
repetition, that lists exactly the slots not in use, the slots not yet linked
first (at the end of the list, in falling order), and whose links follow
`nextIndex` among the slots that have been linked. `FreeListInv` alone is not
inductive. `allocate` links slot `nInitialized` as it goes, so one must know
that the slots beyond are untouched (`TailInv`); and a full deallocation resets
the list from scratch, which is right only if by then all slots are empty, so
one must know during it that each slot in use belongs to a part still to be
done (`FlushInv`). `IInv == TypeOK /\ FreeListInv /\ TailInv /\ FlushInv` is
inductive: one lemma per operation shows that it is preserved, with a new
witness for `allocate` (the old sequence without its last slot) and `deallocate`
(the old one with the slot appended). That a part exists for each slot is
arithmetic of quotients (`ChunksCover`): parts of `1 + n / total` slots cover
`n` slots.

`PoolUsedCorrectly` is the refinement, step by step: each step of `InsertionThreadPool`
is a step of `EntryBufferPool` or none. `HeldInv` says that the buffers in use and not
filled are those the threads hold, each of them one and cleared; the parts still to
be flushed in a phase are those of the threads that have not passed `FlushPart`
(`Pending`), which the barrier's invariants keep in step with the pool. With the lemmas of `EntryBufferPoolProofs`, instanced, the pool's
invariants hold below the threads (`PoolSoundUnderThreads`).

**The barrier.** `PhaseExclusive` alone is not inductive, for it says nothing of
threads that wait. `BarrierInv` says that all threads are between the same two of
the four waits (`SameStage`), where a thread that the barrier has let through but
that did not wake up yet counts to the stage behind it (`Released`), and that the
stages of a phase have the same one responsible thread. `BarrierType` ties the
barrier's count to the threads blocked in its current round. A barrier opens only
when all other threads are blocked in that round (`OpenStep`), so nobody is still
asleep from the round before; therefore two values of the round counter suffice
to tell rounds apart, and its overflow does no harm. `LeaveInv` says that
`nRemainingThreads_` is the number of threads that have not settled their final
phase, and that it is positive while somebody is at the first wait.

**The nodes.** `Sound` says of a set of nodes that it is typed; that a reference
leads to a node that is not removed and whose path goes on at that address for just
the length of its prefix, that every node but the root is referred to, and that
nodes on one path are linked one after the other (`Tree`); that no node holds more
than it has room for; that every node but the root has two contents at least; and
that every entry lies on its lookup path. Each of the operations that change nodes preserves it. The subtree a flush builds is given by
the branching points of the buffer's keys (`SubtreeFor`), so one has to
show that there are no more nodes than that and none is missed: each branching
point hangs off the next longer one above it (`PathAbove`), and below a branching
point the keys that continue at one address either are one key or have a
branching point of their own, the top one of which is their longest common
prefix. Where this calls for induction over the lengths of paths it is done by the least
counterexample (`LeastNatural`), which needs no operator as a parameter.
`SoundCanonical` is the converse: in a sound tree without buffers a path is a
branching point of the stored keys if and only if there is a node.

**The parallel insertion.** None of its properties is inductive. `IInv` is
the conjunction of

- `ControlInv`: which locks a thread holds at which label, that writers are alone,
  and that a thread's list of replaced nodes is not full while it inserts.
  It is inductive by itself and gives `DeletedNeverOverflows` and `WritersAlone`.
- `WorkTyped`: the threads' entries and where they are in them.
- `TreeInv`: the nodes are `Sound`; each buffer hangs at the node and address it
  records and nowhere else (`Hung`); its rows lie on their lookup paths, as many as
  its counter says, and of two different keys at least (`RowsRight`); exactly the nodes
  on the threads' lists are marked as removed (`DeletedInv`).
- `FilledInv`: a row that is not complete has a thread that is filling it.
- `HeldInv`: a buffer taken from the pool and not in the tree is held by one thread,
  which is about to swap it for a suffix.
- `PoolProofs!IInv`: the invariant of the pool, with its lemmas.
- `ThreadInv(t)`: what thread `t` relies on at its label. Its map holds nodes on the way to its
  entry, from the top down (`MapInv`). Of a node it has locked it knows the content
  (`Known`); of one it gave up the lock of, it knows that either the update
  counter has grown or the content is as seen (`Remembered`, `Since`).

What one thread does to what another relies on is said once, by `Grown`: nodes stay
or are added, counters do not fall, a removed node does not change, and a node
whose counter stays has the same contents, except that a subtree may take the
place of a buffer, for the flush is the one change that is not counted. All that
threads remember is closed under `Grown` (`OthersInv`), so that for each
action what is left to show is `Grown`, the invariants of the tree, and what the
acting thread knows afterwards. `StoreImplemented` adds for each action the effect
on the stored entries.

All of it but `ControlInv` needs that a buffer is flushed under the lock of the node
it hangs off (`FlushLocksNode`): the code does not guarantee this (section 6,
`ParallelReuse`), and with it fails what follows. `ReuseAloneEndangers` says why it
fails: if it does, a buffer that a thread was waiting to flush had been emptied
and hung up again (`Reused`). There is no second cause, whatever the sizes and the
number of threads; and no cause at all with one thread (`OneThreadSafe`).
`FlushLocksNode` is weaker than `NeverReused`, for a buffer that is reused and
not yet full again is not flushed; this happens in the run `ParallelInsert`, in which
`FlushLocksNode` holds (a part of `ExclusiveFlush`).

**The sequential insertion.** A prefix split leaves the old node behind, which is
removed but still refers to nodes of the tree. When one of those is replaced later it is
freed, and the reference in the node left behind leads nowhere. Nothing follows it, but
the variable `nodes` is no longer a typed set of nodes as the lemmas want it. The proofs
therefore follow another set `G` that agrees with `nodes` on the nodes of the tree
(`Shadow`) and from which references to freed nodes are dropped (`Dropped`). Of `G` they
show that it is `Sound`, that the buffers hang in it (`Hung`) with their rows on
their lookup paths (`BuffersLie`), and that the other buffers are cleared (`Held`). `IInv` is the
conjunction of

- `TreeInv`: there is such a `G`; and the root is a node of the tree, with nothing
  above it.
- `ControlInv`: the labels, and that without `bulkInsert` no buffer is in use.
- `WalkInv`: the current node is on the way of the entry's key, and so is the
  node before it, which refers to it; this makes replacing a node correct.
- `SwapInv`: the buffer allocated for a suffix is in use and not yet in the tree, and
  the suffix is still at its address.
- `KeysInv`: the keys stored are those of the entries passed.
- `PoolProofs!IInv`: the invariant of the pool, as in the parallel insertion.

A `bulkInsert` of an entry whose key is that of the suffix it meets leaves the buffer
allocated and empty (section 6). Such a buffer is in use and not in the tree, and `IInv`
allows it. A full deallocation asserts that each buffer it flushes is filled, and
the specification stops where the assertion fails: the theorems say that all is
right up to there, and `AllInserted` that the insertions which come to their end lose nothing.
Each iteration that ends the walk of an entry adds it, or its key was
stored before (`Dealt`): this is the step of `KeyStore`.

**Dealing out.** `DealInv` says where each entry is: not dealt out, in what
exactly one thread still has, or taken; and that a thread is inside its range's
loop if and only if that range is not empty. It rests on the barrier's invariants,
because a thread that comes back from a phase continues where it left off.
`RangesDisjoint` and `RangesCover` give the case of one range per thread.

**Queries for many ranges.** A range lies in the chunk of exactly one thread, the one
whose number is the quotient of the range's index by the chunk size; chunks may
start behind the last range and are empty then. The invariant `IndexInv` says which
ranges of its chunk a thread has done. `ResultInv` says what the blocks hold: each
belongs to one thread, those of a thread are linked upwards from its first one to
the one it stores in, which is the only one with room (`Chains`); and what a thread's
blocks list, with what its iterator has yet to return, is the answer to the ranges
it has been through (`Progress`). `AddChains` is the step that matters: whether or not
the entry fills its block, it is appended to the list of its thread and to no other.
The recursive functions of `Results`, `AllResults` and `Answers` are reached by
showing that a function with their equation exists (`UpToExists`; `Chains` carries
the one for the blocks along) and that there is only one (`UpToUnique`, `ListedUnique`), both by the
least counterexample. `WindowAsks` says that the corners of the range query are the
question that was asked, for both kinds of queries. Assumed are
(`QueriesAssumption`) that a rectangle in the tree has its corners in order, as
`PHTree.h:150` asserts, and that the iterator returns a sequence of the entries it is to
return, whose order is left open; and that the tree does not change while the threads
run. That `RangeQueryIterator` returns that set is `QueryExact`, which TLC checks.

**The start node.** The indices of a path grow strictly (`PathGrows`), and what the
search has ruled out on either side stays ruled out (`SearchInv`); at its end
the interval is one node, or the last step went one too far, which the code
corrects. Both hold for every `WIDTH`.

**The v1.0 tree.** `IInv` is the conjunction of

- `Tree`: every entry is a key with a bucket or one of the nodes, its key goes on behind
  its node with the address it is at (`Typed`); from a node above another one an
  entry leads to it or towards it (`Linked`); a node but the root has two entries at least
  (`Full`).
- `CountInv`: `numEntries` is the number of stored keys, one less while `relocate_if` has
  its key in the tree twice; `size` is the number of pairs of a key and a value.
- `BucketInv`: only the two keys of the relocation under way may have an empty bucket,
  each at the labels where it may.
- `CallInv`, `PtrInv`: what a relocation is about and what its pointers lead to at
  each label.

`Consistent`, `Canonical` and `PointersValid` speak of the tree between calls or of
the use of pointers, and none is inductive. `Tree` leaves no choice of where a key can be (`WhereKey`,
`FindIs`): the entry of a key is in the deepest node that is a prefix of it. Hence each change of a
map is followed by saying which keys and buckets it leaves (`EmplacedStore`,
`RemovedStore`, `ChangedStore`), and a pointer is followed by where the deepest node
of its key is after the change. An
insertion of the new key changes the addresses of one map only, that of the deepest node that
is a prefix of it. If this map holds the old node's entry, which is to be entered to
erase the old key, `relocate_if` enters the parent instead (`EraseFrom`); if it
is the old node's own, `_relocate_mm` looks the old key up again; in all other
cases the entries stay where they are (`EntryStays`, `FindStays`). What
`_relocate_mm` does not correct is the first of these cases: when it comes to erase the
emptied old bucket in a map that moves its entries, its pointer to the old node's entry may
be stale, and the old entry's own may be when the new key was erased again from the same node.
`ValidAtCleanUp` says that at this label the pointers are right; `StaleAloneEndangers`, that
there is no other danger in any call, with any layout. `TreeMoveStale` shows that the code
violates it; for array maps, and without the refused calls of section 6, it is proved
(`ArraysValid`). That the
root has a key below it (`Typed`) is why the set of keys must not be empty.

That a tree with `Tree` is canonical is shown in both directions: a node is the
longest common prefix of two stored keys, for its two entries lead to a key each
(`KeyBelow`, by the least counterexample), and the longest common prefix of two keys is a node, for
their walks part at one (`NodesAre`).

**Windows.** `WindowKeepsMatches` is about one step of a query: the node has an entry at
the address of a matching key (`WayToKey`), and `CalcLimits`, `CheckEntry` and the box filter all say
yes to it. It holds for every `DIM` and `WIDTH`, because rounding to the bits of a node
keeps the order of coordinates, negative ones included (`RoundMonotone`). The tree is any
the calls can build (`IInv`). What is assumed of its points is `WellPlaced`: the keys below a node lie in its region, on the
side of the centre their address says. `WellPlaced` is model-checked as a part of
`QueriesExact`, since points are sums over the bits of a key; so are the spheres,
the nearest neighbours and the order and completeness of the whole traversal.

Not proved, and left to TLC:

- liveness and `ENABLED`;
- that the inside of a flush computes `SubtreeFor` (`FlushExact`), which folds over rows, and
  the search in `EntryTreeMap` as used by `KeptNodes`, whose theorem `StartFound` is about
  the search alone;
- single queries (`MasksExact`, `QueryExact`, `QueriesExact`) beyond
  `WindowKeepsMatches`: points are sums over the bits of a key
  and traversals are recursive;
- the maps of `MCStructures`, which are stated by folds and recursive operators over their
  contents. The induction theorems take an operator as a parameter, which the provers
  cannot instantiate.

## 6. Where the code and its own statements differ

- **Flushing a reused buffer** (`ParallelReuse`,
  `DynamicNodeOperationsUtil.h:1028`). A thread finds a full buffer and waits for
  the node's write lock. Another flushes and returns the buffer; the flush does
  not increase the update counter. The buffer is allocated again below the new
  subtree and filled; the waiting thread, whose recheck sees an unchanged counter
  and a full buffer, flushes it without the lock of its node while a row is being
  written, against the assertion at `EntryBuffer.h:233`.
- **A buffer lost to a duplicate** (`SequentialDuplicate`,
  `DynamicNodeOperationsUtil.h:899`). `bulkInsert` ignores that
  `swapSuffixWithBuffer` refuses a key already stored; the buffer stays allocated
  without having been initialised, and the next full deallocation flushes it,
  against the assertion at `EntryBuffer.h:212`.
- **A bucket left empty** (`TreeMoveStale`, `phtree_v16.h:325`). `_relocate_mm`
  inserts the new key before it erases the old one. If it goes into the map of
  the old node's parent, a sparse or B+ tree map moves its entries, among them the
  old node's, to which `old_node_entry` points. `relocate_if` corrects its
  pointer in this case (225-227), `_relocate_mm` only when both keys are in one
  node. The emptied bucket stays, against the assertion at
  `phtree_multimap.h:473`.
- **A B+ tree loses track of parents** (`TreeRebalance`, `b_plus_tree_base.h:241`).
  Before it splits, a full inner node gives its last children, a quarter of a full node's
  (`MAX >> 2`), to its next sibling if that has room. Their `parent_` still is the old
  node, against the assertion at `b_plus_tree_base.h:200`; `split_node` sets it.
- **A long prefix is pushed wrongly** (`PrefixPush`, `MultiDimBitset.h:636`).
  `pushBackBitset` splits each block but the last between two blocks of the target, whose
  first one is filled up to bit `s`. The part that fits is the lowest `64 - s` bits; the mask
  `firstToMask` takes the lowest `s` instead, and the other part is shifted down by `s` instead of
  `64 - s`. Both agree for `s = 0` and `s = 32` only. The last block (651-661) is right, and so is a
  string of one block. The drawing at lines 626-629 shows what should come out.
  `stepDown` of the range query pushes node prefixes with it (`RangeQueryIterator.h:386`);
  prefixes of more than 64 bits need many dimensions or long common prefixes.
  The same happens when `MultiDimBitset.h` is compiled and called: with 10
  dimensions, 120 bits pushed at bit 10 or 20 are corrupted, at bit 0 and at bit 32 of a block they are
  not. For `s = 0` the mask is shifted by 64, which the language leaves undefined; compiled with
  g++ for x86, with and without optimisation, it keeps the whole block, as the model has
  it. `RangeQuery` walks with sequences of addresses instead of blocks: what it shows of queries
  holds for trees whose prefixes have 64 bits at most.
- **A copied prefix is cleared** (`PrefixCopy`, `MultiDimBitset.h:561`). The mask for
  the last block is shifted by the full width if the prefix ends at the end of a
  block; the block is then empty, where line 557 says that only bits copied
  wrongly are removed. Flushes copy prefixes with it (`EntryBuffer.h:341`).

A comment at `InsertionThreadPool.h:260` says that ranges per thread miss the
last entries. They do not: theorem `RangesCover`.

Seen while modelling and described only: no property is about these, and the models
or their inputs leave them out:

- `optimistic_locking` inserts nothing (`Threads` includes it for its phases): it calls a function whose body is commented
  out (`DynamicNodeOperationsUtil.h:601`), against the assertion at
  `InsertionThreadPool.h:148`.
- If a relocation moves nothing, the new bucket is erased again
  (`phtree_v16.h:339`); when that leaves the old entry alone in its node, it goes
  into the parent and the node is freed, but the old entry is read once more.
- `PhTreeMultiMap::emplace_hint` (`phtree_multimap.h`) hands the iterator of the
  hint's bucket to the bucket of the key; if these are two buckets,
  `b_plus_tree_hash_map.h:118-131` may insert into the wrong one.
- `FilterBoxAABB::IsNodeValid` (`filter.h:187`) compares the lower corners of a node's
  boxes with the minimum and the upper ones with the maximum, where
  `IsEntryValid` (172) does the opposite; it may skip a node with a matching box.
- The full iterator asserts that its stack has a place left after the push
  (`iterator_full.h:62`); a tree with a node for every bit fills the stack exactly (the model
  does not have this assertion).
- The deprecated `_find_or_create_two_mm` (`phtree_v16.h:394`) leaves an empty bucket
  if the old key is absent; `relocate_all` calls a function the tree does not have.
- A range query of an empty tree sets an iterator of an empty table
  (`LHCIterator.h:53`), where the counter minus 1 wraps.
- The copy constructor of the B+ tree map copies the pointer to its root.

## 7. Not modelled, and what could follow

Partly modelled:

- v1.0 tree and multimap: `try_emplace` and `emplace_hint` with a hint (the same walk
  from a node further down, if that node lies on the way), removal by iterator
  (the same removal from the entry's node on), and the deprecated `relocate2`,
  `relocate_if2`.
- v1.0 queries: filters and keys for boxes (their keys have twice the dimensions),
  filters on values of a bucket and the iterators over buckets of the multimap,
  `DistanceL1`; for `FilterBoxAABB` see section 6. Distances are exact squares,
  without the rounding of `double`.
- `MultiDimBitset`: the branches for two and three dimensions that use `libmorton`,
  and printing.
- Data races on plain fields: `syncPhaseRequired_` and `insertCompleted_` are read
  while another thread writes them; the models take such a read as old or new.

Not modelled: visitors (statistics only), `Entry` (a value), benchmarks, file and
random input, vendored `libmorton`, conversions of floating-point keys, printing.
There is nothing persistent and no communication, hence no crashes or messages.

What could follow: a proof of `MasksExact` for one node, like `WindowKeepsMatches`.
