--------------------------- MODULE EntryBufferPool ---------------------------
(***************************************************************************)
(* The fixed pool of entry buffers of the bulk insertion                   *)
(* (src/Ph-Tree/util/EntryBufferPool.h).                                   *)
(*                                                                         *)
(* The slots are linked into a free list through EntryBuffer::nextIndex_,  *)
(* the same field in which a buffer in use counts its rows.  Slots are     *)
(* initialised lazily: every call of allocate links one more slot until    *)
(* all of them are linked.  Each operation runs under the pool's mutex and *)
(* is one action.  The callers appear only through what they do to a slot  *)
(* they hold: Init (EntryBuffer::init), InsertRow, Flush.                  *)
(*                                                                         *)
(* In a synchronisation phase no other operation runs: the threads flush   *)
(* disjoint chunks of the pool and one of them then resets it.             *)
(***************************************************************************)
EXTENDS Integers, FiniteSets

CONSTANTS
  Capacity,        \* EntryBufferPool::capacity_, 10000 in the code
  MaxRows,         \* bound on nextIndex_ of a buffer in use; rows beyond the
                   \* buffer's capacity are counted but not stored
  Total            \* number of threads that share a full deallocation

ASSUME PoolAssumption == Capacity \in Nat \ {0}
ASSUME RowsAssumption == MaxRows \in Nat /\ MaxRows >= 2
ASSUME TotalAssumption == Total \in Nat \ {0}

VARIABLES
  headIndex,       \* EntryBufferPool::headIndex_
  nInitialized,    \* EntryBufferPool::nInitialized_
  nFree,           \* EntryBufferPool::nFree_
  nextIndex,       \* EntryBuffer::nextIndex_ of every slot
  inUse,           \* the slots whose EntryBuffer::inUse is set
  filled,          \* the slots with suffixBits_ > 0, set by init, reset by clear
  phase,           \* "operating", or "flushing" during a full deallocation
  pending          \* parts of the full deallocation still to be done

poolVars == <<headIndex, nInitialized, nFree, nextIndex, inUse>>
vars == <<poolVars, filled, phase, pending>>

Slots == 0 .. Capacity - 1
Parts == 0 .. Total - 1

(* The end marker -1u of the list. *)
None == -1

(* Slot i passes the checks of EntryBuffer::assertCleared.                 *)
Cleared(i) == nextIndex[i] = 0 /\ i \notin filled

PoolInit ==
  /\ headIndex = 0
  /\ nInitialized = 0
  /\ nFree = Capacity
  /\ nextIndex = [i \in Slots |-> 0]
  /\ inUse = {}

Init ==
  /\ PoolInit
  /\ filled = {}
  /\ phase = "operating"
  /\ pending = {}

-----------------------------------------------------------------------------
(* allocate() *)

(* Slip: the new slot is linked to itself instead of to its successor. *)
LinkedToItself ==
  IF nInitialized < Capacity
  THEN [nextIndex EXCEPT ![nInitialized] = nInitialized]
  ELSE nextIndex

(* The links after the lazy initialisation at the start of allocate.       *)
Linked ==
  IF nInitialized < Capacity
  THEN [nextIndex EXCEPT ![nInitialized] = nInitialized + 1]
  ELSE nextIndex

NowInitialized ==
  IF nInitialized < Capacity THEN nInitialized + 1 ELSE nInitialized

Allocate ==
  /\ nFree > 0
  /\ nInitialized' = NowInitialized
  /\ nFree' = nFree - 1
  /\ headIndex' = IF nFree > 1 THEN Linked[headIndex] ELSE None
  /\ nextIndex' = [Linked EXCEPT ![headIndex] = 0]
  /\ inUse' = inUse \cup {headIndex}

(* allocate() returning NULL.                                              *)
AllocateNull ==
  /\ nFree = 0
  /\ nInitialized' = NowInitialized
  /\ nextIndex' = Linked
  /\ UNCHANGED <<headIndex, nFree, inUse>>

(* Slip: the buffer returned is not linked to the old head. *)
DeallocateUnlinked(i) ==
  /\ i \in inUse
  /\ inUse' = inUse \ {i}
  /\ headIndex' = i
  /\ nFree' = nFree + 1
  /\ UNCHANGED <<nInitialized, nextIndex>>

(* deallocate(buffer): the buffer was cleared before.                      *)
Deallocate(i) ==
  /\ i \in inUse
  /\ inUse' = inUse \ {i}
  /\ nextIndex' = [nextIndex EXCEPT ![i] = headIndex]
  /\ headIndex' = i
  /\ nFree' = nFree + 1
  /\ UNCHANGED nInitialized

-----------------------------------------------------------------------------
(* What the holder of a slot does to it. *)

InitBuffer(i) ==
  /\ i \in inUse
  /\ Cleared(i)
  /\ filled' = filled \cup {i}
  /\ nextIndex' = [nextIndex EXCEPT ![i] = 1]
  /\ UNCHANGED <<headIndex, nInitialized, nFree, inUse>>

(* insert() counts the row before it looks at the capacity.                *)
InsertRow(i) ==
  /\ i \in inUse \cap filled
  /\ nextIndex[i] < MaxRows
  /\ nextIndex' = [nextIndex EXCEPT ![i] = @ + 1]
  /\ UNCHANGED <<headIndex, nInitialized, nFree, inUse, filled>>

(* flushSubtree up to and including clear().                               *)
Flush(i) ==
  /\ i \in inUse \cap filled
  /\ filled' = filled \ {i}
  /\ nextIndex' = [nextIndex EXCEPT ![i] = 0]
  /\ UNCHANGED <<headIndex, nInitialized, nFree, inUse>>

-----------------------------------------------------------------------------
(* Full deallocation *)

(* Slip: the chunk size rounded down. *)
ChunkSizeRoundedDown == nInitialized \div Total

ChunkSize == 1 + nInitialized \div Total

(* The slots of part p: the loop of doFullDeallocatePart.                  *)
Chunk(p) == {i \in 0 .. nInitialized - 1 :
               ChunkSize * p <= i /\ i < ChunkSize * (p + 1)}

PrepareFullDeallocate ==
  /\ phase = "operating"
  /\ inUse \subseteq filled
  /\ phase' = "flushing"
  /\ pending' = Parts
  /\ UNCHANGED <<poolVars, filled>>

(* doFullDeallocatePart: what it does to the slots of its part.            *)
FlushChunk(p) ==
  /\ nextIndex' = [i \in Slots |-> IF i \in Chunk(p) THEN 0 ELSE nextIndex[i]]
  /\ inUse' = inUse \ Chunk(p)
  /\ filled' = filled \ Chunk(p)
  /\ UNCHANGED <<headIndex, nInitialized, nFree>>

DoFullDeallocatePart(p) ==
  /\ phase = "flushing"
  /\ p \in pending
  /\ FlushChunk(p)
  /\ pending' = pending \ {p}
  /\ UNCHANGED phase

(* finishFullDeallocate; the links are left as they are.                   *)
Reset ==
  /\ nFree' = Capacity
  /\ headIndex' = 0
  /\ nInitialized' = 0

FinishFullDeallocate ==
  /\ phase = "flushing"
  /\ pending = {}
  /\ Reset
  /\ phase' = "operating"
  /\ UNCHANGED <<nextIndex, inUse, filled, pending>>

(* Slip: the number of free buffers is not reset. *)
FullDeallocateKeepsCount ==
  /\ inUse' = inUse \ (0 .. nInitialized - 1)
  /\ nextIndex' = [i \in Slots |-> IF i < nInitialized THEN 0 ELSE nextIndex[i]]
  /\ nFree' = nFree /\ headIndex' = 0 /\ nInitialized' = 0

(* fullDeallocate(): the three steps by one thread.                        *)
FullDeallocate ==
  /\ inUse' = inUse \ (0 .. nInitialized - 1)
  /\ nextIndex' = [i \in Slots |-> IF i < nInitialized THEN 0 ELSE nextIndex[i]]
  /\ Reset

-----------------------------------------------------------------------------
(* Outside a full deallocation any thread may call allocate or deallocate. *)
Serve ==
  /\ phase = "operating"
  /\ \/ Allocate
     \/ AllocateNull
     \/ \E i \in Slots : Cleared(i) /\ Deallocate(i)
  /\ UNCHANGED <<filled, phase, pending>>

Use ==
  /\ phase = "operating"
  /\ \E i \in Slots : InitBuffer(i) \/ InsertRow(i) \/ Flush(i)
  /\ UNCHANGED <<phase, pending>>

Next ==
  \/ Serve
  \/ Use
  \/ PrepareFullDeallocate
  \/ \E p \in Parts : DoFullDeallocatePart(p)
  \/ FinishFullDeallocate

Spec == Init /\ [][Next]_vars

-----------------------------------------------------------------------------
(* Types of the pool's fields; a link may be the end marker or, for the    *)
(* last slot, the index after the end.                                     *)
TypeOK ==
  /\ headIndex \in Slots \cup {None}
  /\ nInitialized \in 0 .. Capacity
  /\ nFree \in 0 .. Capacity
  /\ nextIndex \in [Slots -> Int]
  /\ inUse \subseteq Slots
  /\ filled \subseteq inUse
  /\ phase \in {"operating", "flushing"}
  /\ pending \subseteq Parts

(* f lists the free slots from the end of the free list to its head: the   *)
(* slots not yet initialised, last slot first, then slots linked through   *)
(* nextIndex.                                                              *)
IsFreeList(f) ==
  /\ \A j, k \in 1 .. nFree : f[j] = f[k] => j = k
  /\ \A i \in Slots : i \notin inUse <=> \E k \in 1 .. nFree : f[k] = i
  /\ \A k \in 1 .. nFree : IF k <= Capacity - nInitialized
                             THEN f[k] = Capacity - k
                             ELSE f[k] < nInitialized
  /\ \A k \in 2 .. nFree :
        k > Capacity - nInitialized => nextIndex[f[k]] = f[k - 1]
  /\ headIndex = IF nFree = 0 THEN None ELSE f[nFree]

(* While the pool serves requests, the links from headIndex_ reach every   *)
(* slot that is not in use exactly once in nFree_ steps, and the slots     *)
(* allocate has not linked yet lie at the end of that list.                *)
FreeListInv ==
  phase = "operating" =>
    /\ Capacity - nInitialized <= nFree
    /\ \E f \in [1 .. nFree -> Slots] : IsFreeList(f)

(* allocate never returns a buffer somebody holds, and the buffer it       *)
(* returns, like the one it initialises, passes assertCleared once its     *)
(* link is reset (the assertions of allocate).                             *)
AllocatesUnusedBuffer ==
  phase = "operating" =>
    /\ nFree > 0 => headIndex \in Slots \ (inUse \cup filled)
    /\ nInitialized < Capacity => Cleared(nInitialized)
                                  /\ nInitialized \notin inUse

(* When all parts of a full deallocation are done no buffer is in use and  *)
(* all are cleared: the chunks missed none (the validation loop of         *)
(* finishFullDeallocate).                                                  *)
DrainedWhenDone ==
  phase = "flushing" /\ pending = {} =>
    inUse = {} /\ \A i \in Slots : Cleared(i)
=============================================================================
