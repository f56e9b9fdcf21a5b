----------------------------- MODULE MCPhTreeV16 -----------------------------
(***************************************************************************)
(* Keys for PhTreeV16, of three addresses of two bits: the nodes for the   *)
(* first three are one below the other, the fourth shares the first        *)
(* address with them and the fifth none.  A tree without call under way is *)
(* queried as QueriesV16 describes; what is in the buckets and how the     *)
(* maps are laid out makes no difference to that, so that one of each is   *)
(* enough.                                                                 *)
(***************************************************************************)
EXTENDS PhTreeV16

CONSTANT Queried           \* whether the tree is queried

VARIABLES query, stack, queue, found

(* (2,-4), (3,-3), (0,-2), (1,-1) and (-2,0) *)
Keys == {<<1,2,0>>, <<1,2,3>>, <<1,1,0>>, <<1,1,3>>, <<2,2,0>>}

Intervals == {x \in {-4, -3, -1, 0, 2} \X {-4, -3, -1, 0, 2} : x[1] <= x[2]}
Windows == {[min |-> <<x[1], y[1]>>, max |-> <<x[2], y[2]>>] : x, y \in Intervals}
Filters ==
  {[kind |-> "none"],
   [kind |-> "box", min |-> <<-2,-3>>, max |-> <<1,0>>],
   [kind |-> "sphere", center |-> <<1,-3>>, radius |-> 2],
   [kind |-> "sphere", center |-> <<-1,-1>>, radius |-> 5]}
Centers == {-4, 1, 3} \X {-3, -2, 1}

Q == INSTANCE QueriesV16 WITH
       DIM <- 2, WIDTH <- 3,
       Window <- Windows, Filter <- Filters, Center <- Centers, Limit <- {0, 1, 3, 6}

MCInit == Init /\ Q!Init

AskTree ==
  /\ Queried /\ pc = "idle" /\ map = "sparse"
  /\ \A e \in KeyEntries : e.bucket = {1}
  /\ \E q \in Q!Queries : Q!Open(q)
  /\ UNCHANGED vars

AnswerQuery ==
  /\ Q!Visit \/ Q!Pop \/ Q!PopNearest \/ Q!Close
  /\ UNCHANGED vars

ChangeTree ==
  /\ query = Q!NoQuery
  /\ Next
  /\ UNCHANGED <<query, stack, queue, found>>

MCNext == ChangeTree \/ AskTree \/ AnswerQuery

MCSpec == MCInit /\ [][MCNext]_<<vars, query, stack, queue, found>>

(* Queries of every tree the calls can build return exactly what they ask  *)
(* for, in order and once.                                                 *)
QueriesExact == Q!ScanExact /\ Q!NearestExact
=============================================================================
