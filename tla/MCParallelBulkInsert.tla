------------------------ MODULE MCParallelBulkInsert ------------------------
(***************************************************************************)
(* Workloads for ParallelBulkInsert: keys of three addresses in two        *)
(* dimensions, and the ways to deal them out to the threads.               *)
(***************************************************************************)
EXTENDS ParallelBulkInsert

CONSTANTS t1, t2, t3

Keys == << <<0,0,0>>, <<0,0,1>>, <<0,0,2>>, <<0,1,0>>, <<0,0,3>>,
           <<0,1,0>>, <<0,0,0>>, <<0,2,0>>, <<0,0,2>> >>
KeyIndices == DOMAIN Keys

(* Three entries with a common prefix fill a buffer; the subtree it is     *)
(* flushed to has a prefix that entry 4 splits.                            *)
Splitting == <<1, 2, 3, 4, 5>>

(* The same key twice among the first three, so that the subtree has a     *)
(* node for two contents; later entries hang a buffer off this node and    *)
(* replace it by a larger one.  Three rows of this buffer would take a     *)
(* sixth entry (see Reuse).                                                *)
Copying == <<1, 4, 7, 2, 8>>

(* The first three entries make a subtree of two levels; entries 3, 9 (the *)
(* same key) and 5 go through both nodes while entry 8 replaces the upper  *)
(* one.                                                                    *)
Caching == <<1, 2, 4, 3, 9, 5, 8>>

(* The entries of s with the given owner, in the order of s. *)
Share(s, owner, t) ==
  LET mine == {i \in DOMAIN s : owner[i] = t}
  IN  [k \in 1 .. Cardinality(mine) |->
         s[CHOOSE i \in mine : Cardinality({j \in mine : j <= i}) = k]]

(* Every way to deal the entries of s out to the threads ts; the first n   *)
(* entries go to thread t1.                                                *)
Dealt(s, ts, n) ==
  {[t \in Thread |-> Share(s, owner, t)] :
     owner \in {f \in [DOMAIN s -> ts] : \A i \in 1 .. n : f[i] = t1}}

TwoThreads ==
  Dealt(Splitting, {t1, t2}, 1) \cup Dealt(Copying, {t1, t2}, 1)
    \cup Dealt(Caching, {t1, t2}, 3)

ThreeThreads == {(t1 :> <<1, 4>>) @@ (t2 :> <<7, 2>>) @@ (t3 :> <<8>>),
                 (t1 :> <<1, 4>>) @@ (t2 :> <<2>>) @@ (t3 :> <<3, 5>>)}

(* Entry 8 of thread t1 waits to flush the buffer below the root while     *)
(* thread t2 flushes it, gets it again for the new subtree and fills it.   *)
Reuse == {(t1 :> <<1, 8>>) @@ (t2 :> <<4, 7, 2, 3>>)}
=============================================================================
