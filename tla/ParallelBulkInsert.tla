-------------------------- MODULE ParallelBulkInsert --------------------------
(***************************************************************************)
(* Threads that insert entries into one PH-tree at the same time           *)
(* (DynamicNodeOperationsUtil::parallelBulkInsert, called from             *)
(* InsertionThreadPool::insertBySelectedStrategy).                         *)
(*                                                                         *)
(* Every node has a read-write lock, a flag that it was replaced and a     *)
(* counter of its updates.  A thread walks down with read locks.  To       *)
(* change a node it gives its read lock up, waits for the write lock and   *)
(* starts over if the counter moved meanwhile.  Entries that collide with  *)
(* a suffix are collected in a buffer; a full buffer is turned into a      *)
(* subtree.  If the buffers or a thread's list of replaced nodes run out,  *)
(* all threads meet in a synchronisation phase that flushes every buffer   *)
(* and frees the replaced nodes.                                           *)
(*                                                                         *)
(* Each action is what one thread does between two operations another      *)
(* thread can observe.  Giving up read locks is part of the action that    *)
(* decides to do so.  The synchronisation phase is one action here; module *)
(* InsertionThreadPool has its barriers.                                   *)
(***************************************************************************)
EXTENDS PHTreeNodes

CONSTANTS
  Thread,          \* threads of the InsertionThreadPool
  Workloads,       \* the entries of each thread, in the order it inserts them
  PoolSize,        \* EntryBufferPool::capacity_
  BufferCapacity,  \* EntryBuffer::capacity_, 10 in the code
  MaxDeleted       \* DeletedNodes::SIZE, 2000 in the code

ASSUME WorkAssumption ==
  /\ IsFiniteSet(Thread) /\ Thread # {}
  /\ Workloads \subseteq [Thread -> Seq(Entries)]
(* swapSuffixWithBuffer asserts room for a third row.                      *)
ASSUME BufferAssumption ==
  PoolSize \in Nat \ {0} /\ BufferCapacity \in Nat /\ BufferCapacity > 2
ASSUME DeletedAssumption == MaxDeleted \in Nat \ {0}

VARIABLES
  work,            \* the workload of this run: values_ by thread
  nodes,           \* the allocated nodes: id -> node
  readers,         \* read locks: <<thread, node id>>
  writers,         \* write locks: <<thread, node id>>
  headIndex, nInitialized, nFree, nextIndex, inUse,  \* the buffer pool
  buffer,          \* the contents of every buffer
  syncPhaseRequired,
  deleted,         \* DeletedNodes of every thread
  entryMap,        \* EntryTreeMap of every thread: mappedNodes_, from the top
  pos,             \* the entry of work[t] thread t is at
  pc,
  local            \* the local variables of parallelBulkInsert

poolVars == <<headIndex, nInitialized, nFree, nextIndex, inUse>>
vars == <<work, nodes, readers, writers, poolVars, buffer, syncPhaseRequired,
          deleted, entryMap, pos, pc, local>>

Slots == 0 .. PoolSize - 1

(* rows of a buffer: the entry whose thread reserved the row; complete:    *)
(* the rows with insertCompleted_.  nextIndex counts reservations.         *)
Cleared == [node |-> None, addr |-> 0, rows |-> <<>>, complete |-> {}, flushing |-> FALSE]

Pool == INSTANCE EntryBufferPool WITH
          Capacity <- PoolSize,
          MaxRows <- BufferCapacity + Cardinality(Thread),
          Total <- Cardinality(Thread),
          filled <- {s \in Slots : buffer[s].node # None},
          phase <- "operating", pending <- {}

NoLocal == [cur |-> None, last |-> None, child |-> None, slot |-> -1,
            row |-> 0, seen |-> 0, seenLast |-> 0]

Init ==
  /\ work \in Workloads
  /\ nodes = [n \in {Root} |-> [BuildNode(0, [a \in HCAddresses |-> Empty]) EXCEPT
                                  !.max = NodeCapacity(2^DIM)]]
  /\ readers = {} /\ writers = {}
  /\ Pool!PoolInit
  /\ buffer = [s \in Slots |-> Cleared]
  /\ syncPhaseRequired = FALSE
  /\ deleted = [t \in Thread |-> {}]
  /\ entryMap = [t \in Thread |-> <<>>]
  /\ pos = [t \in Thread |-> 1]
  /\ pc = [t \in Thread |-> "next"]
  /\ local = [t \in Thread |-> NoLocal]

-----------------------------------------------------------------------------
Done(t) == pos[t] > Len(work[t])
Entry(t) == work[t][pos[t]]

NoWriter(n) == \A t \in Thread : <<t, n>> \notin writers

Unlocked(n) == NoWriter(n) /\ \A t \in Thread : <<t, n>> \notin readers

(* The thread holds these locks and no others. *)
HoldsRead(t, ns)  == readers' = {l \in readers : l[1] # t} \cup ({t} \X (ns \ {None}))
HoldsWrite(t, ns) == writers' = {l \in writers : l[1] # t} \cup ({t} \X ns)

GoTo(t, label) == pc' = [pc EXCEPT ![t] = label]
SetLocal(t, l) == local' = [local EXCEPT ![t] = l]

(* Every lock is given up and the loop of parallelBulkInsert starts over.  *)
Restart(t) ==
  /\ GoTo(t, "start") /\ SetLocal(t, NoLocal)
  /\ HoldsRead(t, {}) /\ HoldsWrite(t, {})

(* Every lock is given up and parallelBulkInsert returns true.             *)
Finish(t) ==
  /\ GoTo(t, "next") /\ SetLocal(t, NoLocal)
  /\ pos' = [pos EXCEPT ![t] = @ + 1]
  /\ HoldsRead(t, {}) /\ HoldsWrite(t, {})

(* EntryBuffer::full. *)
BufferFull(s) == nextIndex[s] >= BufferCapacity /\ buffer[s].node # None

-----------------------------------------------------------------------------
(* insertBySelectedStrategy up to the call, and                            *)
(* EntryTreeMap::compareForStart.                                          *)

(* The nodes of the map that start at or before bit diff; those before the *)
(* last of them lie on the way to the new entry.                           *)
StartIndex(n) == Len(Path(n)) - nodes[n].prefix

(* Slip: the last of them is kept as well. *)
KeptNodesAll(t, diff) ==
  LET n == Cardinality({i \in DOMAIN entryMap[t] : StartIndex(entryMap[t][i]) <= diff})
  IN  SubSeq(entryMap[t], 1, n)

KeptNodes(t, diff) ==
  LET n == Cardinality({i \in DOMAIN entryMap[t] : StartIndex(entryMap[t][i]) <= diff})
  IN  SubSeq(entryMap[t], 1, n - 1)

(* The index of the first address in which the entry differs from the last *)
(* one; WIDTH if there is none.                                            *)
DifferentAt(t) ==
  Len(LongestCommonPrefix({Key[Entry(t)], Key[work[t][pos[t] - 1]]}))

(* Slip: a full list of replaced nodes is not noticed. *)
SyncRequiredByFlag(t) == syncPhaseRequired

(* Slip: the flag set by the other threads is not read. *)
SyncRequiredByList(t) == Cardinality(deleted[t]) = MaxDeleted

(* A synchronisation phase is due before the next call.                    *)
SyncRequired(t) == syncPhaseRequired \/ Cardinality(deleted[t]) = MaxDeleted

(* A thread that comes from a phase goes on without looking for the next.  *)
NextEntry(t) ==
  /\ pc[t] \in {"next", "synced"} /\ ~Done(t)
  /\ LET sync == pc[t] = "next" /\ SyncRequired(t)
         diff == IF entryMap[t] = <<>> THEN 0 ELSE DifferentAt(t)
     IN  /\ syncPhaseRequired' = (syncPhaseRequired \/ sync)
         /\ IF sync
              THEN GoTo(t, "barrier") /\ UNCHANGED <<entryMap, pos>>
            ELSE IF entryMap[t] # <<>> /\ diff = WIDTH
              THEN pos' = [pos EXCEPT ![t] = @ + 1] /\ UNCHANGED <<pc, entryMap>>
            ELSE /\ entryMap' = [entryMap EXCEPT ![t] = KeptNodes(t, diff)]
                 /\ GoTo(t, "start") /\ UNCHANGED pos
  /\ UNCHANGED <<nodes, readers, writers, poolVars, buffer, deleted, local>>

(* The entries of this thread are inserted: handleDoneBySelectedStrategy.  *)
NoMoreEntries(t) ==
  /\ pc[t] = "next" /\ Done(t)
  /\ GoTo(t, "barrier")
  /\ UNCHANGED <<nodes, readers, writers, poolVars, buffer, syncPhaseRequired,
                 deleted, entryMap, pos, local>>

(* EntryTreeMap::getNextUndeletedNode.                                     *)
Start(t) ==
  /\ pc[t] = "start"
  /\ LET valid == {i \in DOMAIN entryMap[t] : ~nodes[entryMap[t][i]].removed}
         i == IF valid = {} THEN 0 ELSE CHOOSE j \in valid : \A k \in valid : k <= j
     IN  /\ entryMap' = [entryMap EXCEPT ![t] = SubSeq(@, 1, i)]
         /\ SetLocal(t, [NoLocal EXCEPT !.cur = IF i = 0 THEN Root ELSE entryMap[t][i]])
  /\ GoTo(t, "lock")
  /\ UNCHANGED <<nodes, readers, writers, poolVars, buffer, syncPhaseRequired,
                 deleted, pos>>

(* readLockBlocking of the first node.                                     *)
LockStart(t) ==
  /\ pc[t] = "lock"
  /\ NoWriter(local[t].cur)
  /\ IF nodes[local[t].cur].removed
       THEN Restart(t)
       ELSE /\ HoldsRead(t, {local[t].cur})
            /\ GoTo(t, "visit") /\ UNCHANGED <<local, writers>>
  /\ UNCHANGED <<nodes, poolVars, buffer, syncPhaseRequired, deleted, entryMap, pos>>

-----------------------------------------------------------------------------
(* The loop of parallelBulkInsert. A thread visits node cur under a read   *)
(* lock; last is the parent if its read lock is still held.                *)

Content(t) == nodes[local[t].cur].cont[AddressIn(Entry(t), local[t].cur)]

(* Waits for a write lock on cur: all read locks are given up, the         *)
(* counter seen last is kept.                                              *)
AwaitWriteLock(t, label, slot) ==
  /\ GoTo(t, label)
  /\ HoldsRead(t, {}) /\ UNCHANGED writers
  /\ SetLocal(t, [NoLocal EXCEPT !.cur = local[t].cur, !.slot = slot,
                                 !.seen = nodes[local[t].cur].updates])

(* Waits for write locks on parent and then on child, to replace child.    *)
AwaitBothWriteLocks(t, parent, child, label) ==
  /\ GoTo(t, label)
  /\ HoldsRead(t, {}) /\ UNCHANGED writers
  /\ SetLocal(t, [NoLocal EXCEPT !.cur = child, !.last = parent,
                                 !.seen = nodes[child].updates,
                                 !.seenLast = nodes[parent].updates])

VisitSubnode(t) ==
  /\ pc[t] = "visit" /\ Content(t).kind = "subnode"
  /\ GoTo(t, "lockchild")
  /\ SetLocal(t, [local[t] EXCEPT !.last = None, !.child = Content(t).node])
  /\ HoldsRead(t, {local[t].cur})
  /\ UNCHANGED <<nodes, writers, poolVars, buffer, syncPhaseRequired, deleted,
                 entryMap, pos>>

(* readLockBlocking of the subnode and the comparison with its prefix.     *)
LockChild(t) ==
  LET child == local[t].child IN
  /\ pc[t] = "lockchild"
  /\ NoWriter(child)
  /\ IF nodes[child].removed
       THEN Restart(t) /\ UNCHANGED entryMap
     ELSE IF SharedPrefix(Entry(t), child, nodes[child].prefix) = nodes[child].prefix
       THEN /\ HoldsRead(t, {local[t].cur, child})
            /\ SetLocal(t, [NoLocal EXCEPT !.cur = child, !.last = local[t].cur])
            /\ entryMap' = [entryMap EXCEPT ![t] = Append(@, child)]
            /\ GoTo(t, "visit") /\ UNCHANGED writers
     ELSE AwaitBothWriteLocks(t, local[t].cur, child, "split") /\ UNCHANGED entryMap
  /\ UNCHANGED <<nodes, poolVars, buffer, syncPhaseRequired, deleted, pos>>

VisitFullBuffer(t) ==
  /\ pc[t] = "visit" /\ Content(t).kind = "buffer"
  /\ BufferFull(Content(t).slot)
  /\ AwaitWriteLock(t, "flush", Content(t).slot)
  /\ UNCHANGED <<nodes, poolVars, buffer, syncPhaseRequired, deleted, entryMap, pos>>

VisitBuffer(t) ==
  /\ pc[t] = "visit" /\ Content(t).kind = "buffer"
  /\ ~BufferFull(Content(t).slot)
  /\ GoTo(t, "reserve")
  /\ SetLocal(t, [NoLocal EXCEPT !.cur = local[t].cur, !.slot = Content(t).slot])
  /\ HoldsRead(t, {local[t].cur})
  /\ UNCHANGED <<nodes, writers, poolVars, buffer, syncPhaseRequired, deleted,
                 entryMap, pos>>

(* A suffix is in the way and no buffer is left: parallelBulkInsert        *)
(* returns false and the caller asks for a synchronisation phase.          *)
VisitSuffixNoBuffer(t) ==
  /\ pc[t] = "visit" /\ Content(t).kind = "suffix"
  /\ Pool!AllocateNull
  /\ syncPhaseRequired' = TRUE
  /\ GoTo(t, "next") /\ SetLocal(t, NoLocal)
  /\ HoldsRead(t, {})
  /\ UNCHANGED <<nodes, writers, buffer, deleted, entryMap, pos>>

VisitSuffix(t) ==
  /\ pc[t] = "visit" /\ Content(t).kind = "suffix"
  /\ Pool!Allocate
  /\ AwaitWriteLock(t, "swap", headIndex)
  /\ UNCHANGED <<nodes, buffer, syncPhaseRequired, deleted, entryMap, pos>>

(* The node has no room, so its parent has to change too; without the      *)
(* parent's lock the thread starts over from the node before this one      *)
(* (EntryTreeMap::enforcePreviousNode).                                    *)
VisitFullNode(t) ==
  /\ pc[t] = "visit" /\ Content(t).kind = "empty"
  /\ IsFull(nodes[local[t].cur])
  /\ IF local[t].last = None
       THEN Restart(t) /\ entryMap' = [entryMap EXCEPT ![t] = Front(@)]
       ELSE /\ AwaitBothWriteLocks(t, local[t].last, local[t].cur, "copy")
            /\ UNCHANGED entryMap
  /\ UNCHANGED <<nodes, poolVars, buffer, syncPhaseRequired, deleted, pos>>

VisitRoom(t) ==
  /\ pc[t] = "visit" /\ Content(t).kind = "empty"
  /\ ~IsFull(nodes[local[t].cur])
  /\ AwaitWriteLock(t, "insert", -1)
  /\ UNCHANGED <<nodes, poolVars, buffer, syncPhaseRequired, deleted, entryMap, pos>>

-----------------------------------------------------------------------------
(* EntryBuffer::insert, under a read lock on the buffer's node.            *)

(* The row is taken with the atomic increment of nextIndex_.               *)
Reserve(t) ==
  LET s == local[t].slot IN
  /\ pc[t] = "reserve"
  /\ nextIndex' = [nextIndex EXCEPT ![s] = @ + 1]
  /\ IF nextIndex[s] >= BufferCapacity
       THEN Restart(t) /\ UNCHANGED buffer
       ELSE /\ buffer' = [buffer EXCEPT ![s].rows = Append(@, Entry(t))]
            /\ SetLocal(t, [local[t] EXCEPT !.row = nextIndex[s] + 1])
            /\ GoTo(t, "fill") /\ UNCHANGED <<readers, writers>>
  /\ UNCHANGED <<nodes, headIndex, nInitialized, nFree, inUse, syncPhaseRequired,
                 deleted, entryMap, pos>>

Fill(t) ==
  /\ pc[t] = "fill"
  /\ buffer' = [buffer EXCEPT ![local[t].slot].complete = @ \cup {local[t].row}]
  /\ GoTo(t, "compare")
  /\ UNCHANGED <<nodes, readers, writers, poolVars, syncPhaseRequired, deleted,
                 entryMap, pos, local>>

(* The row is compared with the rows before it, once they are complete.    *)
Compare(t) ==
  /\ pc[t] = "compare"
  /\ 1 .. local[t].row - 1 \subseteq buffer[local[t].slot].complete
  /\ Finish(t)
  /\ UNCHANGED <<nodes, poolVars, buffer, syncPhaseRequired, deleted, entryMap>>

-----------------------------------------------------------------------------
(* Changes under write locks. *)

(* Slip: the update counter is not compared. *)
ValidUnlessRemoved(n, seen) == ~nodes[n].removed

(* The read lock given up before was traded for the write lock and nothing *)
(* happened in between.                                                    *)
Valid(n, seen) == ~nodes[n].removed /\ nodes[n].updates = seen

(* Slip: the update is not counted. *)
SetContentUncounted(n, a, c) == [nodes EXCEPT ![n].cont[a] = c]

(* writeUnlock counts the update.                                          *)
SetContent(n, a, c) == [nodes EXCEPT ![n].cont[a] = c, ![n].updates = @ + 1]

(* Slip: nothing is checked after the write lock is granted. *)
InsertSuffixUnchecked(t) ==
  LET n == local[t].cur IN
  /\ pc[t] = "insert"
  /\ Unlocked(n)
  /\ nodes' = SetContent(n, AddressIn(Entry(t), n), Suffix(Entry(t)))
  /\ Finish(t)
  /\ UNCHANGED <<poolVars, buffer, syncPhaseRequired, deleted, entryMap>>

(* insertSuffix into a node that has room.                                 *)
InsertSuffix(t) ==
  LET n == local[t].cur IN
  /\ pc[t] = "insert"
  /\ Unlocked(n)
  /\ IF Valid(n, local[t].seen)
       THEN /\ nodes' = SetContent(n, AddressIn(Entry(t), n), Suffix(Entry(t)))
            /\ Finish(t)
       ELSE Restart(t) /\ UNCHANGED <<nodes, pos>>
  /\ UNCHANGED <<poolVars, buffer, syncPhaseRequired, deleted, entryMap>>

(* swapSuffixWithBuffer; the buffer goes back to the pool if the suffix    *)
(* belongs to the same key.                                                *)
SwapSuffix(t) ==
  LET n == local[t].cur
      a == AddressIn(Entry(t), n)
      s == local[t].slot
      old == nodes[n].cont[a].entry
  IN
  /\ pc[t] = "swap"
  /\ Unlocked(n)
  /\ IF ~Valid(n, local[t].seen)
       THEN Pool!Deallocate(s) /\ Restart(t) /\ UNCHANGED <<nodes, buffer, pos>>
     ELSE IF Key[old] = Key[Entry(t)]
       THEN /\ Pool!Deallocate(s) /\ Finish(t)
            /\ nodes' = [nodes EXCEPT ![n].updates = @ + 1] /\ UNCHANGED buffer
     ELSE /\ buffer' = [buffer EXCEPT ![s] =
                          [node |-> n, addr |-> a, rows |-> <<old, Entry(t)>>,
                           complete |-> {1, 2}, flushing |-> FALSE]]
          /\ nextIndex' = [nextIndex EXCEPT ![s] = 2]
          /\ nodes' = SetContent(n, a, Buf(s))
          /\ Finish(t)
          /\ UNCHANGED <<headIndex, nInitialized, nFree, inUse>>
  /\ UNCHANGED <<syncPhaseRequired, deleted, entryMap>>

(* The write lock for a flush. *)
LockFlush(t) ==
  LET n == local[t].cur IN
  /\ pc[t] = "flush"
  /\ Unlocked(n)
  /\ IF Valid(n, local[t].seen)
       THEN HoldsWrite(t, {n}) /\ GoTo(t, "recheck") /\ UNCHANGED <<readers, local>>
       ELSE Restart(t)
  /\ UNCHANGED <<nodes, poolVars, buffer, syncPhaseRequired, deleted, entryMap, pos>>

(* downgradeWriterToReader: the write lock is given up without counting    *)
(* an update, then a read lock is requested.                               *)
Downgrade(t) ==
  /\ GoTo(t, "downgrade")
  /\ HoldsWrite(t, {}) /\ UNCHANGED readers
  /\ SetLocal(t, [NoLocal EXCEPT !.cur = local[t].cur,
                                 !.seen = nodes[local[t].cur].updates])

(* Slip: the buffer is flushed without a second test. *)
RecheckSkipped(t) ==
  /\ pc[t] = "recheck"
  /\ buffer' = [buffer EXCEPT ![local[t].slot].flushing = TRUE]
  /\ GoTo(t, "flushing")
  /\ UNCHANGED <<nodes, readers, writers, poolVars, syncPhaseRequired, deleted,
                 entryMap, pos, local>>

(* The second test of full().                                              *)
Recheck(t) ==
  /\ pc[t] = "recheck"
  /\ IF BufferFull(local[t].slot)
       THEN /\ buffer' = [buffer EXCEPT ![local[t].slot].flushing = TRUE]
            /\ GoTo(t, "flushing") /\ UNCHANGED <<readers, writers, local>>
       ELSE Downgrade(t) /\ UNCHANGED buffer
  /\ UNCHANGED <<nodes, poolVars, syncPhaseRequired, deleted, entryMap, pos>>

(* flushSubtree: the buffer is flushed, cleared and returned to the pool.  *)
FlushSubtree(t) ==
  LET s == local[t].slot IN
  /\ pc[t] = "flushing"
  /\ nodes' = Flushed(nodes, {buffer[s]})
  /\ buffer' = [buffer EXCEPT ![s] = Cleared]
  /\ Pool!Deallocate(s)
  /\ Downgrade(t)
  /\ UNCHANGED <<syncPhaseRequired, deleted, entryMap, pos>>

(* The read lock that replaces the write lock.                             *)
LockDowngraded(t) ==
  LET n == local[t].cur IN
  /\ pc[t] = "downgrade"
  /\ NoWriter(n)
  /\ IF Valid(n, local[t].seen)
       THEN /\ HoldsRead(t, {n}) /\ GoTo(t, "visit")
            /\ SetLocal(t, [NoLocal EXCEPT !.cur = n]) /\ UNCHANGED writers
       ELSE Restart(t)
  /\ UNCHANGED <<nodes, poolVars, buffer, syncPhaseRequired, deleted, entryMap, pos>>

-----------------------------------------------------------------------------
(* Changes that replace a node: the parent is locked first.                *)

LockParent(t) ==
  /\ pc[t] \in {"split", "copy"}
  /\ <<t, local[t].last>> \notin writers
  /\ Unlocked(local[t].last)
  /\ IF Valid(local[t].last, local[t].seenLast)
       THEN HoldsWrite(t, {local[t].last}) /\ UNCHANGED <<readers, pc, local>>
       ELSE Restart(t)
  /\ UNCHANGED <<nodes, poolVars, buffer, syncPhaseRequired, deleted, entryMap, pos>>

(* DeletedNodes::add and writeUnlock of both nodes.                        *)
Replaced(t, parent, child, ns) ==
  /\ nodes' = [ns EXCEPT ![child].removed = TRUE, ![child].updates = @ + 1,
                         ![parent].updates = @ + 1]
  /\ deleted' = [deleted EXCEPT ![t] = @ \cup {child}]

(* insertSuffix into a copy with more room (copyIntoLargerNode).           *)
CopyNode(t) ==
  LET n == local[t].cur
      parent == local[t].last
      new == NewId(Path(n), DOMAIN nodes)
  IN
  /\ pc[t] = "copy" /\ <<t, parent>> \in writers
  /\ Unlocked(n)
  /\ IF Valid(n, local[t].seen)
       THEN /\ Replaced(t, parent, n,
                 WithNode([nodes EXCEPT ![parent].cont[AddressIn(Entry(t), parent)] = Sub(new)],
                          new, LargerCopy(nodes[n], AddressIn(Entry(t), n), Entry(t))))
            /\ buffer' = BuffersMoved(buffer, nodes[n], new)
            /\ Finish(t)
       ELSE Restart(t) /\ UNCHANGED <<nodes, deleted, buffer, pos>>
  /\ UNCHANGED <<poolVars, syncPhaseRequired, entryMap>>

(* splitSubnodePrefix; the replaced node is kept in the deleted nodes.     *)
SplitPrefix(t) ==
  LET n == local[t].cur
      parent == local[t].last
      upper == NewId(SplitPath(nodes, n, Entry(t)), DOMAIN nodes)
      copy == NewId(Path(n), DOMAIN nodes)
  IN
  /\ pc[t] = "split" /\ <<t, parent>> \in writers
  /\ Unlocked(n)
  /\ IF Valid(n, local[t].seen)
       THEN /\ Replaced(t, parent, n, Split(nodes, n, parent, Entry(t), upper, copy))
            /\ buffer' = BuffersMoved(buffer, nodes[n], copy)
            /\ Finish(t)
       ELSE Restart(t) /\ UNCHANGED <<nodes, deleted, buffer, pos>>
  /\ UNCHANGED <<poolVars, syncPhaseRequired, entryMap>>

-----------------------------------------------------------------------------
(* Slip: a thread without entries left keeps its map. *)
MapsKept == entryMap' = [t \in Thread |-> IF Done(t) THEN entryMap[t] ELSE <<>>]

(* EntryTreeMap::clearMap of every thread.                                 *)
MapsCleared == entryMap' = [t \in Thread |-> <<>>]

(* All threads are in handlePoolFlushSync: every buffer is flushed, the    *)
(* replaced nodes are deleted, the maps cleared, the pool reset.  Threads  *)
(* with entries left continue, the others join the next phase unless this  *)
(* was the last one (nRemainingThreads_).                                  *)
SyncPhase ==
  LET dead == UNION {deleted[t] : t \in Thread}
      flushed == Flushed(nodes, {buffer[s] : s \in inUse})
  IN
  /\ \A t \in Thread : pc[t] = "barrier"
  /\ nodes' = [n \in DOMAIN flushed \ dead |-> flushed[n]]
  /\ buffer' = [s \in Slots |-> Cleared]
  /\ Pool!FullDeallocate
  /\ syncPhaseRequired' = FALSE
  /\ deleted' = [t \in Thread |-> {}]
  /\ MapsCleared
  /\ pc' = [t \in Thread |-> IF \A u \in Thread : Done(u) THEN "finished"
                             ELSE IF Done(t) THEN "barrier" ELSE "synced"]
  /\ UNCHANGED <<work, readers, writers, pos, local>>

Step(t) ==
  /\ \/ NextEntry(t) \/ NoMoreEntries(t) \/ Start(t) \/ LockStart(t)
     \/ VisitSubnode(t) \/ LockChild(t) \/ VisitFullBuffer(t) \/ VisitBuffer(t)
     \/ VisitSuffixNoBuffer(t) \/ VisitSuffix(t) \/ VisitFullNode(t) \/ VisitRoom(t)
     \/ Reserve(t) \/ Fill(t) \/ Compare(t)
     \/ InsertSuffix(t) \/ SwapSuffix(t)
     \/ LockFlush(t) \/ Recheck(t) \/ FlushSubtree(t) \/ LockDowngraded(t)
     \/ LockParent(t) \/ CopyNode(t) \/ SplitPrefix(t)
  /\ UNCHANGED work

Terminated == (\A t \in Thread : pc[t] = "finished") /\ UNCHANGED vars

Next == SyncPhase \/ Terminated \/ \E t \in Thread : Step(t)

Spec == Init /\ [][Next]_vars

(* Every thread that can take a step is scheduled eventually.              *)
Fairness == WF_vars(SyncPhase) /\ \A t \in Thread : WF_vars(Step(t))
FairSpec == Spec /\ Fairness

-----------------------------------------------------------------------------
Labels == {"next", "synced", "start", "lock", "visit", "lockchild", "reserve", "fill",
           "compare", "insert", "swap", "flush", "recheck", "flushing",
           "downgrade", "split", "copy", "barrier", "finished"}

UsedBuffers == {s \in Slots : buffer[s].node # None}

(* Every variable has its type; a node never holds more than it has room   *)
(* for.                                                                    *)
TypeOK ==
  /\ Root \in DOMAIN nodes
  /\ \A n \in DOMAIN nodes :
       /\ nodes[n].cont \in [HCAddresses -> {Empty} \cup {Suffix(e) : e \in Entries}
                               \cup {Sub(m) : m \in DOMAIN nodes} \cup {Buf(s) : s \in Slots}]
       /\ nodes[n].prefix \in 0 .. Len(Path(n))
       /\ NContents(nodes[n]) <= nodes[n].max
       /\ nodes[n].removed \in BOOLEAN /\ nodes[n].updates \in Nat
  /\ readers \cup writers \subseteq Thread \X DOMAIN nodes
  /\ UsedBuffers \subseteq inUse
  /\ syncPhaseRequired \in BOOLEAN
  /\ deleted \in [Thread -> SUBSET DOMAIN nodes]
  /\ pc \in [Thread -> Labels]
  /\ \A t \in Thread : pos[t] \in 1 .. Len(work[t]) + 1

(* The nodes not replaced form one tree under the root.                    *)
TreeShape == IsTree(nodes, Root)

(* An entry stored in the tree, as a suffix or as a row of a buffer, lies  *)
(* where a lookup of its key leads.                                        *)
EntriesPlaced == AllPlaced(nodes, buffer)

(* A used buffer is referenced from the node and address it records and    *)
(* from nowhere else in the tree, although nodes are replaced while        *)
(* buffers hang off them.                                                  *)
BuffersAnchored == AllAnchored(nodes, buffer)

(* The pool hands out buffers nobody uses while threads insert, flush and  *)
(* return them (the assertions of EntryBufferPool::allocate).              *)
PoolConsistent == Pool!FreeListInv /\ Pool!AllocatesUnusedBuffer

(* After every step of a thread, whatever locks are held: types, the one   *)
(* tree with every entry on its lookup path, every buffer hung up once and *)
(* the pool's list intact.                                                 *)
WellFormed == TypeOK /\ TreeShape /\ EntriesPlaced /\ BuffersAnchored /\ PoolConsistent

(* Without buffers the tree is the one that its entries have, in whatever  *)
(* order the threads inserted them.                                        *)
Canonical == UsedBuffers = {} => IsCanonical(nodes)

(* No thread refers to a node that was freed in a synchronisation phase.   *)
NoDanglingReference ==
  \A t \in Thread :
    /\ ToSet(entryMap[t]) \subseteq DOMAIN nodes
    /\ {local[t].cur, local[t].last, local[t].child} \subseteq DOMAIN nodes \cup {None}

(* The node a thread starts from or visits lies on the way to its entry:   *)
(* what EntryTreeMap keeps from the last entry is still right for this one *)
(* and no change by another thread leads the walk astray.                  *)
OnTheWay ==
  \A t \in Thread :
    pc[t] \in {"lock", "visit", "lockchild", "reserve", "insert", "swap", "downgrade"} =>
      IsPrefix(Path(local[t].cur), Key[Entry(t)])

(* A buffer is flushed under the write lock of the node it hangs off.      *)
FlushLocksNode ==
  \A t \in Thread :
    pc[t] = "flushing" => <<t, buffer[local[t].slot].node>> \in writers

(* assert (insertCompleted_[row]) in flushToSubtree: no row that is        *)
(* flushed is still being written.                                         *)
FlushedRowsComplete ==
  \A t \in Thread :
    pc[t] = "flushing" =>
      DOMAIN buffer[local[t].slot].rows \subseteq buffer[local[t].slot].complete

(* A buffer is flushed by one thread alone: the lock of its node keeps new *)
(* rows out, and the rows reserved before are complete.                    *)
ExclusiveFlush == FlushLocksNode /\ FlushedRowsComplete

(* The list of replaced nodes of a thread never overflows                  *)
(* (assert (nextIndex_ < SIZE) in DeletedNodes::add).                      *)
DeletedFits == \A t \in Thread : Cardinality(deleted[t]) <= MaxDeleted

Stored == StoredIn(nodes, buffer)

(* An entry whose insertion returned is there, or another with its key;    *)
(* no later insertion, replacement of a node, flush or synchronisation     *)
(* phase loses it.                                                         *)
InsertedKept ==
  \A t \in Thread : \A i \in 1 .. pos[t] - 1 :
    \E e \in Stored : Key[e] = Key[work[t][i]]

(* The tree with its buffers implements the abstract store: entries are    *)
(* added one at a time, under new keys only, and none disappears.          *)
Store == INSTANCE KeyStore WITH Ids <- Entries, KeyOf <- Key, stored <- Stored
ImplementsStore == Store!Spec

(* A replaced node is never changed again: no thread writes an entry to a  *)
(* node that was copied meanwhile.                                         *)
ReplacedFrozen ==
  [][\A n \in DOMAIN nodes \cap DOMAIN nodes' :
       nodes[n].removed => nodes'[n].removed /\ nodes'[n].cont = nodes[n].cont]_vars

(* Every thread inserts all its entries and leaves the last phase.         *)
Termination == <>(\A t \in Thread : pc[t] = "finished")
=============================================================================
