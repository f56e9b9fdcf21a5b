-------------------------- MODULE InsertionThreadPool --------------------------
(***************************************************************************)
(* The threads of a parallel insertion: how the entries are dealt out,     *)
(* when the threads meet for a synchronisation phase and how they leave    *)
(* (src/Ph-Tree/util/InsertionThreadPool.h).                               *)
(*                                                                         *)
(* A synchronisation phase has four waits at one reusable barrier          *)
(* (boost::barrier), with the steps between them in which the threads      *)
(* flush their parts of the buffer pool, free replaced nodes and clear     *)
(* their maps.  The insertion of one entry is reduced to what it does to   *)
(* the pool and to the list of replaced nodes; module ParallelBulkInsert   *)
(* has the rest of it.                                                     *)
(***************************************************************************)
EXTENDS Integers, FiniteSets

CONSTANTS
  NThreads,        \* nThreads_
  Size,            \* values_.size()
  FixRange,        \* fixRangeSize, 100 in the code
  Orders,          \* values of order_ to look at
  Approaches,      \* values of approach_ to look at
  Capacity,        \* EntryBufferPool::capacity_
  MaxRows,         \* bound on the rows counted in a buffer
  MaxDeleted,      \* DeletedNodes::SIZE
  Generations      \* the barrier counts its rounds modulo this, 2^32 in boost

ASSUME ThreadsAssumption == NThreads \in Nat \ {0} /\ Size \in Nat \ {0}
ASSUME RangeAssumption == FixRange \in Nat \ {0}
ASSUME PoolAssumption ==
  Capacity \in Nat \ {0} /\ MaxRows \in Nat /\ MaxRows >= 2 /\ MaxDeleted \in Nat \ {0}
ASSUME GenerationsAssumption == Generations \in Nat /\ Generations > 1
ASSUME StrategyAssumption ==
  /\ Orders \subseteq {"sequential_entries", "range_per_thread", "sequential_ranges"}
  /\ Approaches \subseteq {"buffered_bulk", "optimistic_locking"}

VARIABLES
  order, approach,
  i,               \* i_: the next entry or block to be handed out
  syncPhaseRequired,
  nRemaining,      \* nRemainingThreads_
  count, generation,  \* boost::barrier: threads still missing; rounds
  nDeleted,        \* DeletedNodes::nextIndex_ of every thread
  headIndex, nInitialized, nFree, nextIndex, inUse, filled,  \* the buffer pool
  pc,
  range,           \* the entries a thread still has: [at, end)
  sync,            \* local variables of handlePoolFlushSync
  held,            \* the buffer a thread got from the pool or flushed
  taken            \* how often the insertion of each entry has returned

poolVars == <<headIndex, nInitialized, nFree, nextIndex, inUse, filled>>
vars == <<order, approach, i, syncPhaseRequired, nRemaining, count, generation,
          nDeleted, poolVars, pc, range, sync, held, taken>>

Threads == 0 .. NThreads - 1
EntryIndices == 0 .. Size - 1

(* Whether thread t has taken part in the preparation of a full            *)
(* deallocation that is not finished, and is the one responsible for it.   *)
Prepared(t) ==
  /\ sync[t].responsible
  /\ pc[t] \in {"ready", "part", "settle", "flushed", "finish"}

(* The state of the pool's full deallocation: it is prepared and not       *)
(* finished; the threads in these steps still have their part to do.       *)
Flushing == \E t \in Threads : Prepared(t)
Pending == IF Flushing THEN {t \in Threads : pc[t] \in {"gather", "ready", "part"}} ELSE {}

Pool == INSTANCE EntryBufferPool WITH
          Total <- NThreads,
          phase <- IF Flushing THEN "flushing" ELSE "operating",
          pending <- Pending

NoSync == [responsible |-> FALSE, lastFlush |-> FALSE, done |-> FALSE,
           blocked |-> FALSE, gen |-> 0]

Init ==
  /\ order \in Orders /\ approach \in Approaches
  /\ i = 0
  /\ syncPhaseRequired = FALSE
  /\ nRemaining = NThreads
  /\ count = NThreads /\ generation = 0
  /\ nDeleted = [t \in Threads |-> 0]
  /\ Pool!PoolInit /\ filled = {}
  /\ pc = [t \in Threads |-> "take"]
  /\ range = [t \in Threads |-> [at |-> 0, end |-> 0]]
  /\ sync = [t \in Threads |-> NoSync]
  /\ held = [t \in Threads |-> -1]
  /\ taken = [e \in EntryIndices |-> 0]

GoTo(t, label) == pc' = [pc EXCEPT ![t] = label]
Min2(a, b) == IF a < b THEN a ELSE b

-----------------------------------------------------------------------------
(* processNext: the entries are dealt out. *)

(* The entries start .. end - 1 are for thread t. *)
Assign(t, start, end) ==
  IF start < end
  THEN range' = [range EXCEPT ![t] = [at |-> start, end |-> end]] /\ GoTo(t, "entry")
  ELSE GoTo(t, "done") /\ UNCHANGED range

(* Slip: the size of a range is rounded down first. *)
RangeStartRounded(t) == (Size \div NThreads) * t

RangeStart(t) == (Size * t) \div NThreads

BlockEnd(block) == Min2(block * FixRange + FixRange, Size)

Take(t) ==
  /\ pc[t] = "take"
  /\ \/ /\ order = "range_per_thread"
        /\ Assign(t, RangeStart(t), Min2(RangeStart(t + 1), Size))
        /\ UNCHANGED i
     \/ /\ order = "sequential_entries"
        /\ i' = i + 1
        /\ Assign(t, i, Min2(i + 1, Size))
     \/ /\ order = "sequential_ranges"
        /\ i' = i + 1
        /\ Assign(t, i * FixRange, BlockEnd(i))
  /\ UNCHANGED <<syncPhaseRequired, nRemaining, count, generation, nDeleted, poolVars,
                 sync, held, taken>>

(* The insertion of the entry returned: the next one of the range, or the  *)
(* next range.                                                             *)
Advance(t) ==
  LET next == range[t].at + 1 IN
  /\ taken' = [taken EXCEPT ![range[t].at] = @ + 1]
  /\ range' = [range EXCEPT ![t].at = next]
  /\ GoTo(t, IF next < range[t].end THEN "entry"
             ELSE IF order = "range_per_thread" THEN "done" ELSE "take")

-----------------------------------------------------------------------------
(* insertBySelectedStrategy *)

(* handlePoolFlushSync is called. *)
Gather(t, lastFlush, done) ==
  /\ GoTo(t, "gather")
  /\ sync' = [sync EXCEPT ![t] = [NoSync EXCEPT !.lastFlush = lastFlush, !.done = done]]

MustSync(t) == syncPhaseRequired \/ nDeleted[t] = MaxDeleted

(* Slip: the thread that follows a request takes it back at once. *)
BeginEntryTakesRequest(t) ==
  /\ pc[t] = "entry" /\ approach = "buffered_bulk"
  /\ syncPhaseRequired' = FALSE
  /\ IF MustSync(t)
       THEN Gather(t, FALSE, FALSE)
       ELSE GoTo(t, "insert") /\ UNCHANGED sync
  /\ UNCHANGED <<i, nRemaining, count, generation, nDeleted, poolVars, range, held,
                 taken>>

(* A thread whose list of replaced nodes is full asks for a phase; if one  *)
(* was asked for, it is gone to before the entry is tried (again).         *)
BeginEntry(t) ==
  /\ pc[t] = "entry" /\ approach = "buffered_bulk"
  /\ syncPhaseRequired' = MustSync(t)
  /\ IF syncPhaseRequired'
       THEN Gather(t, FALSE, FALSE)
       ELSE GoTo(t, "insert") /\ UNCHANGED sync
  /\ UNCHANGED <<i, nRemaining, count, generation, nDeleted, poolVars, range, held,
                 taken>>

(* parallelInsert: all of its body is commented out.                       *)
ParallelInsert(t) ==
  /\ pc[t] = "entry" /\ approach = "optimistic_locking"
  /\ Advance(t)
  /\ UNCHANGED <<i, syncPhaseRequired, nRemaining, count, generation, nDeleted,
                 poolVars, sync, held>>

insertUnchanged == UNCHANGED <<i, nRemaining, count, generation, sync>>

(* parallelBulkInsert without a buffer; it may replace a node.             *)
InsertDirectly(t) ==
  /\ pc[t] = "insert"
  /\ \E n \in {0, 1} : nDeleted' = [nDeleted EXCEPT ![t] = @ + n]
  /\ Advance(t)
  /\ insertUnchanged /\ UNCHANGED <<syncPhaseRequired, poolVars, held>>

(* parallelBulkInsert into a row of a buffer.                              *)
InsertRow(t) ==
  /\ pc[t] = "insert"
  /\ \E s \in filled : Pool!InsertRow(s)
  /\ Advance(t)
  /\ insertUnchanged /\ UNCHANGED <<syncPhaseRequired, nDeleted, held>>

(* A buffer is taken for a suffix in the way...                            *)
TakeBuffer(t) ==
  /\ pc[t] = "insert"
  /\ Pool!Allocate /\ UNCHANGED filled
  /\ held' = [held EXCEPT ![t] = headIndex]
  /\ GoTo(t, "init")
  /\ insertUnchanged /\ UNCHANGED <<syncPhaseRequired, nDeleted, range, taken>>

(* ... and filled, or given back because the key is the same.              *)
FillBuffer(t) ==
  /\ pc[t] = "init"
  /\ \/ Pool!InitBuffer(held[t])
     \/ Pool!Deallocate(held[t]) /\ UNCHANGED filled
  /\ held' = [held EXCEPT ![t] = -1]
  /\ Advance(t)
  /\ insertUnchanged /\ UNCHANGED <<syncPhaseRequired, nDeleted>>

(* flushSubtree: a full buffer is flushed and cleared...                   *)
FlushBuffer(t) ==
  /\ pc[t] = "insert"
  /\ \E s \in filled : Pool!Flush(s) /\ held' = [held EXCEPT ![t] = s]
  /\ GoTo(t, "return")
  /\ insertUnchanged /\ UNCHANGED <<syncPhaseRequired, nDeleted, range, taken>>

(* ... and returned to the pool; the walk goes on.                         *)
ReturnBuffer(t) ==
  /\ pc[t] = "return"
  /\ Pool!Deallocate(held[t]) /\ UNCHANGED filled
  /\ held' = [held EXCEPT ![t] = -1]
  /\ GoTo(t, "insert")
  /\ insertUnchanged /\ UNCHANGED <<syncPhaseRequired, nDeleted, range, taken>>

(* allocate returned NULL: parallelBulkInsert returns false...             *)
NoBuffer(t) ==
  /\ pc[t] = "insert"
  /\ Pool!AllocateNull /\ UNCHANGED filled
  /\ GoTo(t, "failed")
  /\ insertUnchanged
  /\ UNCHANGED <<syncPhaseRequired, nDeleted, held, range, taken>>

(* ... and the flag is set afterwards.                                     *)
Fail(t) ==
  /\ pc[t] = "failed"
  /\ syncPhaseRequired' = TRUE
  /\ GoTo(t, "entry")
  /\ insertUnchanged /\ UNCHANGED <<nDeleted, poolVars, held, range, taken>>

-----------------------------------------------------------------------------
(* handlePoolFlushSync *)

Waits == {"gather", "ready", "flushed", "restart"}

(* Slip: the responsible thread is chosen anew at every wait. *)
PassedChoosingAnew(t, w, last) ==
  /\ sync' = [sync EXCEPT ![t].blocked = FALSE, ![t].responsible = last]
  /\ GoTo(t, CASE w = "gather"  -> IF last THEN "prepare" ELSE "ready"
               [] w = "ready"   -> "part"
               [] w = "flushed" -> IF last THEN "finish" ELSE "restart"
               [] w = "restart" -> IF sync[t].done THEN "check" ELSE "insert")

(* Where a thread goes on behind a wait; the one that arrived last at the  *)
(* first wait is responsible for the state.                                *)
Passed(t, w, last) ==
  /\ sync' = [sync EXCEPT ![t].blocked = FALSE,
                          ![t].responsible = IF w = "gather" THEN last ELSE @]
  /\ GoTo(t, CASE w = "gather"  -> IF last THEN "prepare" ELSE "ready"
               [] w = "ready"   -> "part"
               [] w = "flushed" -> IF sync[t].responsible THEN "finish" ELSE "restart"
               [] w = "restart" -> IF sync[t].done THEN "check" ELSE "insert")

(* Slip: every thread but one has to arrive. *)
LastToArriveTooEarly == count = 2

LastToArrive == count = 1

(* boost::barrier::wait: the last thread opens the barrier...              *)
Arrive(t) ==
  /\ pc[t] \in Waits /\ ~sync[t].blocked
  /\ IF LastToArrive
       THEN /\ generation' = (generation + 1) % Generations /\ count' = NThreads
            /\ Passed(t, pc[t], TRUE)
       ELSE /\ count' = count - 1
            /\ sync' = [sync EXCEPT ![t].blocked = TRUE, ![t].gen = generation]
            /\ UNCHANGED <<generation, pc>>
  /\ UNCHANGED <<i, syncPhaseRequired, nRemaining, nDeleted, poolVars, range, held, taken>>

(* ... and the others wake up one after the other.                         *)
WakeUp(t) ==
  /\ pc[t] \in Waits /\ sync[t].blocked /\ generation # sync[t].gen
  /\ Passed(t, pc[t], FALSE)
  /\ UNCHANGED <<i, syncPhaseRequired, nRemaining, count, generation, nDeleted, poolVars,
                 range, held, taken>>

(* prepareFullDeallocate only checks the free list.                        *)
Prepare(t) ==
  /\ pc[t] = "prepare"
  /\ GoTo(t, "ready")
  /\ UNCHANGED <<i, syncPhaseRequired, nRemaining, count, generation, nDeleted, poolVars,
                 range, sync, held, taken>>

FlushPart(t) ==
  /\ pc[t] = "part"
  /\ Pool!FlushChunk(t)
  /\ GoTo(t, "settle")
  /\ UNCHANGED <<i, syncPhaseRequired, nRemaining, count, generation, nDeleted,
                 range, sync, held, taken>>

(* Slip: the threads are not counted down. *)
RemainingUncounted(t) == nRemaining

Remaining(t) == IF sync[t].lastFlush THEN nRemaining - 1 ELSE nRemaining

(* deleteAll, clearMap, the flag and the count of the threads that are not *)
(* done.                                                                   *)
Settle(t) ==
  /\ pc[t] = "settle"
  /\ nDeleted' = [nDeleted EXCEPT ![t] = 0]
  /\ syncPhaseRequired' = (syncPhaseRequired /\ ~sync[t].responsible)
  /\ nRemaining' = Remaining(t)
  /\ GoTo(t, "flushed")
  /\ UNCHANGED <<i, count, generation, poolVars, range, sync, held, taken>>

FinishFlush(t) ==
  /\ pc[t] = "finish"
  /\ Pool!Reset /\ UNCHANGED <<nextIndex, inUse, filled>>
  /\ GoTo(t, "restart")
  /\ UNCHANGED <<i, syncPhaseRequired, nRemaining, count, generation, nDeleted,
                 range, sync, held, taken>>

-----------------------------------------------------------------------------
(* handleDoneBySelectedStrategy *)

(* Slip: a thread without entries left does not wait for the others. *)
NoThreadsRemain(t) == FALSE

ThreadsRemain(t) == nRemaining > 0

Done(t) ==
  /\ pc[t] = "done"
  /\ IF approach = "buffered_bulk"
       THEN Gather(t, TRUE, TRUE) /\ UNCHANGED nRemaining
       ELSE GoTo(t, "finished") /\ nRemaining' = nRemaining - 1 /\ UNCHANGED sync
  /\ UNCHANGED <<i, syncPhaseRequired, count, generation, nDeleted, poolVars, range, held,
                 taken>>

Check(t) ==
  /\ pc[t] = "check"
  /\ IF ThreadsRemain(t)
       THEN Gather(t, FALSE, TRUE)
       ELSE GoTo(t, "finished") /\ UNCHANGED sync
  /\ UNCHANGED <<i, syncPhaseRequired, nRemaining, count, generation, nDeleted, poolVars,
                 range, held, taken>>

Step(t) ==
  /\ \/ Take(t) \/ BeginEntry(t) \/ ParallelInsert(t)
     \/ InsertDirectly(t) \/ InsertRow(t) \/ TakeBuffer(t) \/ FillBuffer(t)
     \/ FlushBuffer(t) \/ ReturnBuffer(t) \/ NoBuffer(t) \/ Fail(t)
     \/ Arrive(t) \/ WakeUp(t) \/ Prepare(t) \/ FlushPart(t) \/ Settle(t) \/ FinishFlush(t)
     \/ Done(t) \/ Check(t)
  /\ UNCHANGED <<order, approach>>

(* The destructor joins the threads. *)
Joined == \A t \in Threads : pc[t] = "finished"
Terminated == Joined /\ UNCHANGED vars

Next == (\E t \in Threads : Step(t)) \/ Terminated

Spec == Init /\ [][Next]_vars

(* Every thread that is not blocked is scheduled eventually. *)
FairSpec == Spec /\ \A t \in Threads : WF_vars(Step(t))

-----------------------------------------------------------------------------
Labels == {"take", "entry", "insert", "init", "return", "failed", "prepare", "part",
           "settle", "finish", "done", "check", "finished"} \cup Waits

(* The variables have their types; the barrier misses the threads that are *)
(* not blocked in its current round, and no list of replaced nodes         *)
(* overflows.                                                              *)
TypeOK ==
  /\ i \in Nat /\ generation \in 0 .. Generations - 1
  /\ syncPhaseRequired \in BOOLEAN
  /\ nRemaining \in 0 .. NThreads
  /\ count = NThreads - Cardinality({t \in Threads : sync[t].blocked /\ sync[t].gen = generation})
  /\ nDeleted \in [Threads -> 0 .. MaxDeleted]
  /\ pc \in [Threads -> Labels]
  /\ held \in [Threads -> Pool!Slots \cup {-1}]

(* While a thread flushes its part of the pool, frees replaced nodes or    *)
(* resets the pool, no thread is inside an insertion: the barrier keeps    *)
(* the two apart in every phase, though it is the same for all four waits. *)
PhaseExclusive ==
  (\E t \in Threads : pc[t] \in {"prepare", "part", "settle", "finish"}) =>
    \A t \in Threads : pc[t] \notin {"insert", "init", "return", "failed", "entry", "take"}

(* One thread is responsible in each phase, and the others meet it: the    *)
(* threads between two waits are all between the same two.                 *)
OneResponsible ==
  /\ Cardinality({t \in Threads : Prepared(t) \/ pc[t] = "prepare"}) <= 1
  /\ (\E t \in Threads : pc[t] \in {"part", "settle"}) => Flushing

(* The way the pool is used by the threads is the one the pool is made     *)
(* for: it serves no request during a full deallocation, every part is     *)
(* done once, by its thread, after the preparation and before the reset.   *)
UsesPoolCorrectly == Pool!Spec

(* A request for a phase is only taken back inside a phase that all        *)
(* threads have joined; one that is made later is not lost.                *)
RequestKept ==
  [][syncPhaseRequired /\ ~syncPhaseRequired' =>
       \A t \in Threads : pc[t] \in {"ready", "part", "settle", "flushed"}]_vars

(* Every entry is handed out once, to one thread, in each order of handing *)
(* them out.                                                               *)
EachEntryOnce ==
  /\ \A e \in EntryIndices : taken[e] <= 1
  /\ Joined => \A e \in EntryIndices : taken[e] = 1

(* The destructor asserts nRemainingThreads_ == 0, and a thread leaves     *)
(* only when no other one will wait for it at the barrier again.           *)
LeaveTogether ==
  /\ Joined => nRemaining = 0
  /\ approach = "buffered_bulk" /\ (\E t \in Threads : pc[t] = "finished") =>
       \A t \in Threads : pc[t] \in {"restart", "check", "finished"}

(* All threads leave the pool: none waits at the barrier for ever.         *)
Termination == <>Joined
=============================================================================
