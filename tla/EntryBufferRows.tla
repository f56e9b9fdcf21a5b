--------------------------- MODULE EntryBufferRows ---------------------------
(***************************************************************************)
(* The inside of one entry buffer (src/Ph-Tree/util/EntryBuffer.h): its    *)
(* rows, the matrix of the longest common prefixes of every two rows, and  *)
(* the flush that builds a subtree from the matrix, bottom up.             *)
(*                                                                         *)
(* Threads insert rows at the same time, under read locks of the buffer's  *)
(* node; each compares its row with all earlier ones.  The flush runs      *)
(* under the write lock, when no insertion is under way.  A cleared buffer *)
(* is used again below another node.                                       *)
(***************************************************************************)
EXTENDS PHTreeNodes

CONSTANTS
  BufferCapacity,  \* EntryBuffer::capacity_
  Thread,
  Uses             \* the sequences of uses of the buffer to look at: each has
                   \* a node, the entries and the number of threads

VARIABLES
  uses,            \* the uses to come
  todo,            \* the entries still to be inserted
  threads,         \* the threads that insert
  phase,           \* "cleared", "insert", "flush" or "flushed"
  node,            \* TEntryBuffer::node_
  nextIndex,       \* nextIndex_
  values, ids,     \* buffer_: the part of each key below the buffer, and the id
  insertCompleted,
  lcps,            \* the lower half of the matrix, row by row
  pc, entry, row, other,            \* local variables of insert
  rowEmpty, rowNode, subtree        \* local variables of flushToSubtree; the
                                    \* nodes it has built

bufferVars == <<node, nextIndex, values, ids, insertCompleted, lcps>>
insertVars == <<todo, pc, entry, row, other>>
flushVars  == <<rowEmpty, rowNode, subtree>>
rowVars    == <<uses, threads, phase, bufferVars, insertVars, flushVars>>

Rows == 0 .. BufferCapacity - 1
NoValue == <<>>

Index(i, j) == LET a == IF i > j THEN i ELSE j
                   b == IF i > j THEN j ELSE i
               IN  (a * (a + 1)) \div 2 + b
Lcp(i, j) == lcps[Index(i, j)]
Cleared == [k \in 0 .. Index(BufferCapacity - 1, BufferCapacity - 1) |-> 0]

(* The part of entry e below address nodeHcAddress of node n. *)
ValueBelow(e, n) == SubSeq(Key[e], Len(Path(n)) + 2, WIDTH)
Common(v, w) == Len(LongestCommonPrefix({v, w}))

(* A row with the key of an earlier one is marked as empty in the diagonal.*)
Marked(l, i, j, v, w) ==
  IF v = w THEN [l EXCEPT ![Index(i, j)] = Common(v, w), ![Index(i, i)] = -1]
  ELSE [l EXCEPT ![Index(i, j)] = Common(v, w)]

Init ==
  /\ uses \in Uses
  /\ todo = <<>> /\ threads = {} /\ phase = "cleared"
  /\ node = None /\ nextIndex = 0
  /\ values = [r \in Rows |-> NoValue] /\ ids = [r \in Rows |-> 0]
  /\ insertCompleted = [r \in Rows |-> FALSE]
  /\ lcps = Cleared
  /\ pc = [t \in Thread |-> "idle"]
  /\ entry = [t \in Thread |-> 0] /\ row = [t \in Thread |-> 0] /\ other = [t \in Thread |-> 0]
  /\ rowEmpty = {} /\ rowNode = [r \in Rows |-> None] /\ subtree = <<>>

-----------------------------------------------------------------------------
(* swapSuffixWithBuffer, under the write lock: init for the suffix that is *)
(* in the way (row 0) and insert of the new entry, whose key differs.      *)
UseBuffer ==
  /\ phase = "cleared" /\ uses # <<>>
  /\ LET use == Head(uses)
         e == use.entries[1]
         f == use.entries[2]
         v == ValueBelow(e, use.node)
         w == ValueBelow(f, use.node)
     IN  /\ v # w
         /\ node' = use.node
         /\ values' = [values EXCEPT ![0] = v, ![1] = w]
         /\ ids' = [ids EXCEPT ![0] = e, ![1] = f]
         /\ lcps' = Marked(lcps, 1, 0, w, v)
         /\ todo' = SubSeq(use.entries, 3, Len(use.entries))
         /\ threads' = use.threads
  /\ nextIndex' = 2
  /\ insertCompleted' = [insertCompleted EXCEPT ![0] = TRUE, ![1] = TRUE]
  /\ uses' = Tail(uses)
  /\ phase' = "insert"
  /\ UNCHANGED <<pc, entry, row, other, flushVars>>

-----------------------------------------------------------------------------
(* insert *)

GoTo(t, label) == pc' = [pc EXCEPT ![t] = label]

(* A thread finds the buffer below a node and not full. *)
Visit(t) ==
  /\ phase = "insert" /\ t \in threads /\ pc[t] = "idle"
  /\ todo # <<>> /\ nextIndex < BufferCapacity
  /\ GoTo(t, "reserve")
  /\ entry' = [entry EXCEPT ![t] = Head(todo)]
  /\ todo' = Tail(todo)
  /\ UNCHANGED <<uses, threads, phase, bufferVars, row, other, flushVars>>

(* If other threads took the last rows meanwhile the insertion is refused. *)
Reserve(t) ==
  /\ pc[t] = "reserve"
  /\ nextIndex' = nextIndex + 1
  /\ IF nextIndex >= BufferCapacity
       THEN GoTo(t, "idle") /\ todo' = <<entry[t]>> \o todo /\ UNCHANGED row
       ELSE GoTo(t, "fill") /\ row' = [row EXCEPT ![t] = nextIndex] /\ UNCHANGED todo
  /\ UNCHANGED <<uses, threads, phase, node, values, ids, insertCompleted, lcps,
                 entry, other, flushVars>>

FillRow(t) ==
  /\ pc[t] = "fill"
  /\ values' = [values EXCEPT ![row[t]] = ValueBelow(entry[t], node)]
  /\ GoTo(t, "complete")
  /\ UNCHANGED <<uses, threads, phase, node, nextIndex, ids, insertCompleted, lcps,
                 todo, entry, row, other, flushVars>>

CompleteRow(t) ==
  /\ pc[t] = "complete"
  /\ insertCompleted' = [insertCompleted EXCEPT ![row[t]] = TRUE]
  /\ GoTo(t, "id")
  /\ UNCHANGED <<uses, threads, phase, node, nextIndex, values, ids, lcps,
                 todo, entry, row, other, flushVars>>

StoreId(t) ==
  /\ pc[t] = "id"
  /\ ids' = [ids EXCEPT ![row[t]] = entry[t]]
  /\ GoTo(t, "compare") /\ other' = [other EXCEPT ![t] = 0]
  /\ UNCHANGED <<uses, threads, phase, node, nextIndex, values, insertCompleted, lcps,
                 todo, entry, row, flushVars>>

(* Slip: the other row is not waited for. *)
RowReadyAtOnce(r) == TRUE

RowReady(r) == insertCompleted[r]

(* The thread waits for the next earlier row and compares its own with it. *)
CompareRow(t) ==
  /\ pc[t] = "compare" /\ RowReady(other[t])
  /\ lcps' = Marked(lcps, row[t], other[t], ValueBelow(entry[t], node), values[other[t]])
  /\ other' = [other EXCEPT ![t] = @ + 1]
  /\ IF other[t] + 1 = row[t] THEN GoTo(t, "idle") ELSE UNCHANGED pc
  /\ UNCHANGED <<uses, threads, phase, node, nextIndex, values, ids, insertCompleted,
                 todo, entry, row, flushVars>>

-----------------------------------------------------------------------------
(* flushToSubtree *)

NRows == IF nextIndex < BufferCapacity THEN nextIndex ELSE BufferCapacity

(* The node is locked: because the buffer is full, or in a full            *)
(* deallocation.  Entries that come later go to the subtree.               *)
StartFlush ==
  /\ phase = "insert" /\ \A t \in Thread : pc[t] = "idle"
  /\ nextIndex >= BufferCapacity \/ todo = <<>>
  /\ phase' = "flush" /\ todo' = <<>>
  /\ rowEmpty' = {r \in 0 .. NRows - 1 : Lcp(r, r) = -1}
  /\ rowNode' = [r \in Rows |-> None] /\ subtree' = <<>>
  /\ UNCHANGED <<uses, threads, bufferVars, pc, entry, row, other>>

NoStat == [max |-> -1, next |-> -1, suffixes |-> 0, subnodes |-> 0]

(* One more column is counted for row r: the longest prefix r shares with  *)
(* another row, with how many rows of which kind, and the second longest.  *)
NSubnodes(rs) == Cardinality({r \in rs : rowNode[r] # None})
Counted(s, r, column) ==
  LET lcp == Lcp(r, column) IN
    IF lcp <= s.next THEN s
    ELSE IF lcp = s.max THEN
      IF rowNode[column] # None THEN [s EXCEPT !.subnodes = @ + 1]
                                ELSE [s EXCEPT !.suffixes = @ + 1]
    ELSE IF lcp > s.max THEN
      [max |-> lcp, next |-> s.max,
       subnodes |-> NSubnodes({r, column}), suffixes |-> 2 - NSubnodes({r, column})]
    ELSE [s EXCEPT !.next = lcp]

OtherRows(r) == SelectSeq([k \in 1 .. NRows |-> k - 1],
                          LAMBDA c : c # r /\ c \notin rowEmpty)
RowStat(r) == FoldLeft(LAMBDA s, c : Counted(s, r, c), NoStat, OtherRows(r))

(* The new node for row r, which takes in the rows that share the longest  *)
(* prefix with it; they are represented by row r from then on.  The        *)
(* diagonal is left with the second longest prefix of the row.             *)
NodeOf(s, r, stat) ==
  NewId(Append(Path(node), Key[ids[0]][Len(Path(node)) + 1])
          \o SubSeq(values[r], 1, stat[r].max), {})
Joining(s, r, stat) ==
  {c \in r .. NRows - 1 : c \notin s.empty /\ (c = r \/ Lcp(r, c) = stat[r].max)}
BuiltNode(s, r, stat) ==
  LET at(a) == {c \in Joining(s, r, stat) : values[c][stat[r].max + 1] = a}
      content(c) == IF s.node[c] # None THEN Sub(s.node[c]) ELSE Suffix(ids[c])
  IN  [BuildNode(stat[r].max - (1 + stat[r].next),
                 [a \in HCAddresses |-> IF at(a) = {} THEN Empty
                                        ELSE content(CHOOSE c \in at(a) : TRUE)])
         EXCEPT !.max = NodeCapacity(stat[r].suffixes + stat[r].subnodes)]

(* The state with the node of row r built. *)
WithRowNode(s, r, stat) ==
  [lcps  |-> [s.lcps EXCEPT ![Index(r, r)] = stat[r].next],
   empty |-> s.empty \cup (Joining(s, r, stat) \ {r}),
   node  |-> [c \in Rows |-> IF c \in Joining(s, r, stat) THEN NodeOf(s, r, stat) ELSE s.node[c]],
   nodes |-> (NodeOf(s, r, stat) :> BuiltNode(s, r, stat)) @@ s.nodes]

(* One round: the nodes for the longest prefixes that are left.            *)
FlushRound ==
  /\ phase = "flush"
  /\ \E stat \in {[r \in (0 .. NRows - 1) \ rowEmpty |-> RowStat(r)]} :
     \E maxRowMax \in {Max({stat[r].max : r \in DOMAIN stat} \cup {0})} :
       IF DOMAIN stat = {0}
       THEN phase' = "flushed" /\ UNCHANGED <<lcps, flushVars>>
       ELSE \E s \in {FoldLeft(LAMBDA s, r : IF r \in s.empty \/ stat[r].max # maxRowMax
                                             THEN s ELSE WithRowNode(s, r, stat),
                               [lcps |-> lcps, empty |-> rowEmpty, node |-> rowNode,
                                nodes |-> subtree],
                               SelectSeq([k \in 1 .. NRows - 1 |-> k - 1],
                                         LAMBDA r : r \notin rowEmpty))} :
              /\ lcps' = s.lcps
              /\ rowEmpty' = s.empty /\ rowNode' = s.node /\ subtree' = s.nodes
              /\ UNCHANGED phase
  /\ UNCHANGED <<uses, threads, node, nextIndex, values, ids, insertCompleted, insertVars>>

(* clear; the ids are left as they are. *)
Clear ==
  /\ phase = "flushed"
  /\ node' = None /\ nextIndex' = 0
  /\ values' = [r \in Rows |-> NoValue]
  /\ insertCompleted' = [r \in Rows |-> FALSE]
  /\ lcps' = Cleared
  /\ phase' = "cleared"
  /\ UNCHANGED <<uses, threads, ids, insertVars, flushVars>>

Insert(t) ==
  Visit(t) \/ Reserve(t) \/ FillRow(t) \/ CompleteRow(t) \/ StoreId(t) \/ CompareRow(t)

(* All uses are over. *)
Terminated == uses = <<>> /\ phase = "cleared" /\ UNCHANGED rowVars

Next ==
  \/ UseBuffer \/ StartFlush \/ FlushRound \/ Clear
  \/ \E t \in Thread : Insert(t)
  \/ Terminated

-----------------------------------------------------------------------------
(* The flush of the rows that threads have filled and compared at the same *)
(* time gives the subtree of their different keys, the first row of each,  *)
(* with one node for every branch, whose room is the one for its contents; *)
(* nothing is left over from an earlier use of the buffer.                 *)
FlushExact ==
  phase = "flushed" =>
    LET kept == DistinctRows([k \in 1 .. NRows |-> ids[k - 1]]) IN
      /\ subtree = SubtreeFor(kept, node, {})
      /\ rowNode[0] = NewId(TopPath(kept), {})
=============================================================================
