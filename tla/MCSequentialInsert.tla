-------------------------- MODULE MCSequentialInsert --------------------------
(***************************************************************************)
(* Workloads for SequentialInsert: every order of six keys of three        *)
(* addresses in two dimensions; and, for the trees of QueryWorkloads, the  *)
(* range queries on the finished tree; and, for a tree of intervals, the   *)
(* queries for many ranges by three threads.                               *)
(***************************************************************************)
EXTENDS SequentialInsert

VARIABLES lower, upper, visited, stack, current, value, found, phase,
          poolPhase, type, ranges, poolPc, index, hits, storage, blocks

CONSTANTS QueryWorkloads, RectWorkloads, RangeLists

Keys == << <<0,0,0>>, <<0,0,1>>, <<0,1,0>>, <<0,2,0>>, <<0,1,3>>, <<3,1,1>>,
           <<0,0,1>>, <<3,1,2>>, <<2,3,0>>, <<3,3,3>>, <<1,2,2>>, <<2,0,3>> >>
KeyIndices == DOMAIN Keys

(* Entry 7 has the key of entry 2. *)
WithDuplicate == {<<"insert", s>> : s \in SetToSeqs({1, 2, 3, 4, 5, 7})}
Distinct == {"bulk"} \X SetToSeqs({1, 2, 3, 4, 5, 6})

(* The second entry of a key arrives while the first is in a buffer. *)
DuplicateRow == {<<"bulk", <<1, 2, 7>> \o s>> : s \in SetToSeqs({3, 4, 5})}

(* Trees with subnodes behind prefixes on both sides of the root, and a    *)
(* tree of the root alone.                                                 *)
Queried == {<<"bulk", <<1, 2, 3, 4, 5, 6, 8>> >>,
            <<"insert", <<2, 8, 6, 9, 10, 11, 3>> >>,
            <<"insert", <<11, 9>> >>}
NoQueries == {}

(* The intervals 0..2, 2..6, 7..7 and 1..5, and lists of ranges for them.  *)
Intervals == {<<"bulk", <<4, 9, 10, 12>> >>}
SomeRanges == << <<0,3>>, <<1,6>>, <<5,6>>, <<2,6>>, <<0,6>> >>
Ranges == {SubSeq(SomeRanges, 1, n) : n \in {1, 3, 4, 5}} \cup {<<>>, << <<6,7>> >>}

AllOrders == WithDuplicate \cup Distinct \cup DuplicateRow \cup Queried \cup Intervals
BulkDuplicates == {<<"bulk", s>> : s \in SetToSeqs({1, 2, 7})}

-----------------------------------------------------------------------------
Query == INSTANCE RangeQuery
queryVars == <<lower, upper, visited, stack, current, value, found, phase>>

(* The two values of every key: the bits of each dimension together again. *)
ValueOf(key, d) ==
  MapThenSumSet(LAMBDA i : 2^(WIDTH - i), {i \in 1 .. WIDTH : (key[i] \div 2^d) % 2 = 1})
Values == FoldLeft(LAMBDA vs, key : Append(vs, <<ValueOf(key, 0), ValueOf(key, 1)>>), <<>>, Keys)
InOrder(es) == SetToSortSeq(es, LAMBDA e, f : Query!Before(e, f))

QueryPool == INSTANCE RangeQueryThreadPool WITH
  NThreads <- 3, CAPACITY <- 2, Half <- DIM \div 2, MaxValue <- 2^WIDTH - 1,
  Rect <- Values, stored <- SuffixEntries(nodes),
  phase <- poolPhase, pc <- poolPc
queryPoolVars == <<poolPhase, type, ranges, poolPc, index, hits, storage, blocks>>

MCInit == Init /\ Query!Init /\ QueryPool!Init
Insertion == Next /\ UNCHANGED <<queryVars, queryPoolVars>>

(* A query of the finished tree. *)
Querying ==
  /\ pc = "finished" /\ work \in QueryWorkloads
  /\ Query!Next
  /\ UNCHANGED <<vars, queryPoolVars>>

(* Many queries for the finished tree of intervals.                        *)
QueryingMany ==
  /\ pc = "finished" /\ work \in RectWorkloads
  /\ QueryPool!Next
  /\ UNCHANGED <<vars, queryVars>>

MCNext == Insertion \/ Querying \/ QueryingMany

(* The inserting thread goes on, a query that was started is read to its   *)
(* end, and each thread of a pool goes on.                                 *)
MCSpec == MCInit /\ [][MCNext]_<<vars, queryVars, queryPoolVars>>
            /\ WF_vars(Next) /\ WF_queryVars(Query!Proceed)
            /\ WF_queryPoolVars(QueryPool!Proceed)

MasksExact == Query!MasksExact
QueryExact == Query!QueryExact

(* The results of a pool of threads are the answers to its ranges.         *)
RangesAnswered == QueryPool!EachRangeOnce /\ QueryPool!RangesAnswered

(* The insertion ends, every query comes to its end and every pool is      *)
(* deleted.                                                                *)
AllTerminate ==
  /\ Termination
  /\ phase = "root" ~> phase = "exhausted"
  /\ poolPhase = "running" ~> poolPhase = "deleted"
=============================================================================
