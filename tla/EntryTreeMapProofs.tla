-------------------------- MODULE EntryTreeMapProofs --------------------------
(***************************************************************************)
(* The binary search for the start of an insertion is right for paths of   *)
(* every length, and it comes to an end.                                   *)
(***************************************************************************)
EXTENDS EntryTreeMap, TLAPS

(* While it searches: every node in front of l starts before the           *)
(* difference, and the one at r starts behind it unless r was never moved  *)
(* or an exact match ended the search.                                     *)
SearchInv ==
  pc = "search" =>
    /\ 0 <= l /\ l <= r /\ r <= top
    /\ l > 0 => starts[l - 1] < different
    /\ r < top => starts[r] > different \/ (l = r /\ starts[r] = different)

Inv == TypeOK /\ PathGrows /\ SearchInv

LEMMA HalfBetween ==
  ASSUME NEW a \in Int, NEW b \in Int, a < b
  PROVE  a <= (a + b) \div 2 /\ (a + b) \div 2 < b /\ (a + b) \div 2 \in Int
  BY SMT

LEMMA InitInv ==
  ASSUME WIDTH \in Nat \ {0}, Init PROVE Inv
  BY DEF Init, Inv, TypeOK, PathGrows, SearchInv, Indices

(* Only put changes the path: it is a path as long as it only gets shorter. *)
LEMMA PathKept ==
  ASSUME TypeOK, PathGrows, starts' = starts, top' \in -1 .. top
  PROVE  PathGrows'
  BY DEF PathGrows, TypeOK

LEMMA HalveInv ==
  ASSUME WIDTH \in Nat \ {0}, Inv, Halve
  PROVE  /\ Inv'
         /\ r' - l' < r - l
<1>1. /\ pc = "search" /\ pc' = "search" /\ l < r
      /\ top' = top /\ starts' = starts /\ removed' = removed /\ different' = different
  BY DEF Halve
<1>2. /\ l \in Int /\ r \in Int /\ top \in -1 .. WIDTH - 1 /\ 0 <= l /\ r <= top
  BY <1>1 DEF Inv, TypeOK, SearchInv
<1>3. l <= Middle /\ Middle < r /\ Middle \in Int
  BY <1>1, <1>2, HalfBetween DEF Middle
<1>4. starts[Middle] \in Int /\ different \in Int
  BY <1>2, <1>3 DEF Inv, TypeOK, Indices
<1>5. l' \in Int /\ r' \in Int /\ l' <= r' /\ 0 <= l' /\ r' <= top' /\ r' - l' < r - l
  BY <1>1, <1>2, <1>3 DEF Halve
<1>6. SearchInv'
  <2>1. CASE starts[Middle] < different /\ l' = Middle + 1 /\ r' = r
    <3>1. l' - 1 = Middle
      BY <1>3, <2>1
    <3>2. r < top => starts[r] > different
      BY <1>1, <1>2 DEF Inv, SearchInv
    <3>3. QED BY <1>1, <1>5, <2>1, <3>1, <3>2 DEF SearchInv
  <2>2. CASE starts[Middle] > different /\ l' = l /\ r' = Middle
    BY <1>1, <1>5, <2>2 DEF SearchInv, Inv
  <2>3. CASE starts[Middle] = different /\ l' = Middle /\ r' = Middle
    <3>1. l' > 0 => starts[l' - 1] < different
      <4>1. ASSUME Middle > 0 PROVE starts[Middle - 1] < starts[Middle]
        BY <1>2, <1>3, <4>1 DEF Inv, PathGrows
      <4>2. QED BY <2>3, <4>1
    <3>2. QED BY <1>1, <1>5, <2>3, <3>1 DEF SearchInv
  <2>4. QED BY <2>1, <2>2, <2>3 DEF Halve
<1>7. TypeOK' /\ PathGrows'
  BY <1>1, <1>5 DEF Inv, TypeOK, PathGrows
<1>8. QED BY <1>5, <1>6, <1>7 DEF Inv

LEMMA PutInv ==
  ASSUME WIDTH \in Nat \ {0}, Inv, NEW s \in Indices, Put(s)
  PROVE  Inv'
<1>1. /\ top \in -1 .. WIDTH - 1 /\ top' = top + 1 /\ pc' = "walk" /\ s \in 0 .. WIDTH - 1
      /\ starts \in [Indices -> Indices] /\ removed \in [Indices -> BOOLEAN]
  BY DEF Put, Inv, TypeOK, Indices
<1>2. s > top + 1
  <2>1. CASE top = -1
    BY <1>1, <2>1 DEF Put
  <2>2. CASE top # -1
    <3>1. top \in 0 .. top /\ top \in Indices
      BY <1>1, <2>2 DEF Indices
    <3>2. starts[top] \in Int /\ top < starts[top]
      BY <1>1, <3>1 DEF Inv, PathGrows, Indices
    <3>3. QED BY <1>1, <2>2, <3>2 DEF Put
  <2>3. QED BY <2>1, <2>2
<1>3. top + 1 \in Indices
  BY <1>1, <1>2 DEF Indices
<1>4. /\ starts'[top + 1] = s
      /\ \A i \in 0 .. top : starts'[i] = starts[i] /\ starts[i] \in Int
  <2>1. starts' = [starts EXCEPT ![top + 1] = s]
    BY DEF Put
  <2>2. \A i \in 0 .. top : i \in Indices /\ i # top + 1
    BY <1>1 DEF Indices
  <2>3. QED BY <1>1, <1>3, <2>1, <2>2 DEF Indices
<1>5. \A i \in 0 .. top : starts[i] < s
  <2>1. SUFFICES ASSUME NEW i \in 0 .. top PROVE starts[i] < s
    OBVIOUS
  <2>2. top \in 0 .. top /\ starts[top] < s
    BY <1>1, <1>4, <2>1 DEF Put
  <2>3. i = top \/ starts[i] < starts[top]
    BY <1>1, <2>1, <2>2 DEF Inv, PathGrows
  <2>4. QED BY <1>1, <1>4, <2>2, <2>3
<1>6. PathGrows'
  <2>1. \A i \in 0 .. top : i < starts'[i] /\ \A j \in 0 .. i - 1 : starts'[j] < starts'[i]
    BY <1>1, <1>4 DEF Inv, PathGrows
  <2>2. top + 1 < starts'[top + 1] /\ \A j \in 0 .. top : starts'[j] < starts'[top + 1]
    BY <1>2, <1>4, <1>5
  <2>3. top \in Int
    BY <1>1
  <2>4. QED BY <1>1, <2>1, <2>2, <2>3 DEF PathGrows
<1>7. TypeOK'
  BY <1>1, <1>3 DEF Put, Inv, TypeOK, Indices
<1>8. QED BY <1>1, <1>6, <1>7 DEF Inv, SearchInv

LEMMA StepInv ==
  ASSUME WIDTH \in Nat \ {0}, Inv, [Next]_mapVars
  PROVE  Inv'
<1>1. ASSUME NEW d \in Indices, CompareForStart(d) PROVE Inv'
  <2>1. TypeOK' /\ PathGrows'
    <3>1. top \in Int /\ d \in Indices
      BY DEF Inv, TypeOK
    <3>2. top' = top /\ starts' = starts /\ removed' = removed
      BY <1>1 DEF CompareForStart
    <3>3. /\ pc' \in {"start", "search"} /\ l' \in Int /\ r' \in Int
          /\ different' \in Indices
      BY <1>1, <3>1 DEF CompareForStart, Inv, TypeOK
    <3>4. QED BY <3>2, <3>3 DEF Inv, TypeOK, PathGrows
  <2>2. SearchInv'
    BY <1>1 DEF CompareForStart, Inv, TypeOK, SearchInv
  <2>3. QED BY <2>1, <2>2 DEF Inv
<1>2. CASE Halve
  BY <1>2, HalveInv
<1>3. CASE EndSearch
  <2>1. /\ l \in Int /\ 0 <= l /\ l <= top /\ top \in -1 .. WIDTH - 1
    BY <1>3 DEF EndSearch, Inv, TypeOK, SearchInv
  <2>2. top' \in -1 .. top
    BY <1>3, <2>1 DEF EndSearch, Found
  <2>3. PathGrows'
    BY <1>3, <2>2, PathKept DEF EndSearch, Inv
  <2>4. TypeOK'
    BY <1>3, <2>1, <2>2 DEF EndSearch, Inv, TypeOK, Indices
  <2>5. QED BY <1>3, <2>3, <2>4 DEF EndSearch, Inv, SearchInv
<1>4. CASE GetNextUndeletedNode
  <2>1. PathGrows'
    BY <1>4, PathKept DEF GetNextUndeletedNode, Inv
  <2>2. TypeOK'
    BY <1>4 DEF GetNextUndeletedNode, Inv, TypeOK
  <2>3. QED BY <1>4, <2>1, <2>2 DEF GetNextUndeletedNode, Inv, SearchInv
<1>5. ASSUME NEW s \in Indices, Put(s) PROVE Inv'
  BY <1>5, PutInv
<1>6. CASE EnforcePreviousNode
  <2>1. top' \in -1 .. top
    BY <1>6 DEF EnforcePreviousNode, Inv, TypeOK
  <2>2. PathGrows'
    BY <1>6, <2>1, PathKept DEF EnforcePreviousNode, Inv
  <2>3. QED BY <1>6, <2>1, <2>2 DEF EnforcePreviousNode, Inv, TypeOK, SearchInv
<1>7. CASE Restart \/ Inserted
  BY <1>7 DEF Restart, Inserted, Inv, TypeOK, PathGrows, SearchInv
<1>8. CASE ClearMap
  BY <1>8 DEF ClearMap, Inv, TypeOK, PathGrows, SearchInv
<1>9. ASSUME NEW i \in 0 .. top, Replace(i) PROVE Inv'
  BY <1>9 DEF Replace, Inv, TypeOK, PathGrows, SearchInv, Indices
<1>10. CASE UNCHANGED mapVars
  BY <1>10 DEF mapVars, Inv, TypeOK, PathGrows, SearchInv
<1>11. QED BY <1>1, <1>2, <1>3, <1>4, <1>5, <1>6, <1>7, <1>8, <1>9, <1>10 DEF Next

(* When the interval is empty, the node found is the last one that starts  *)
(* no later than the difference.                                           *)
LEMMA InvExact ==
  ASSUME WIDTH \in Nat \ {0}, Inv PROVE StartExact
<1> SUFFICES ASSUME pc = "search", l >= r, NEW i \in 0 .. top
             PROVE  starts[i] <= different <=> i <= Found
  BY DEF StartExact, Inv, SearchExact, SearchInv
<1>1. /\ l \in Int /\ r = l /\ 0 <= l /\ l <= top /\ top \in 0 .. WIDTH - 1 /\ i \in Int
  BY DEF Inv, TypeOK, SearchInv
<1>2. different \in Int /\ \A j \in 0 .. top : starts[j] \in Int
  BY <1>1 DEF Inv, TypeOK, Indices
<1>3. \A j, k \in 0 .. top : j < k => starts[j] < starts[k]
  <2>1. SUFFICES ASSUME NEW j \in 0 .. top, NEW k \in 0 .. top, j < k PROVE starts[j] < starts[k]
    OBVIOUS
  <2>2. j \in 0 .. k - 1
    BY <1>1, <2>1
  <2>3. QED BY <2>2 DEF Inv, PathGrows
<1>4. l > 0 => starts[l - 1] < different
  BY DEF Inv, SearchInv
<1>5. CASE i < l
  <2>1. i = l - 1 \/ starts[i] < starts[l - 1]
    BY <1>1, <1>3, <1>5
  <2>2. starts[i] < different
    BY <1>1, <1>2, <1>4, <1>5, <2>1
  <2>3. QED BY <1>1, <1>2, <1>5, <2>2 DEF Found
<1>6. CASE i = l
  BY <1>1, <1>2, <1>6 DEF Found
<1>7. CASE i > l
  <2>1. starts[l] < starts[i]
    BY <1>1, <1>3, <1>7
  <2>2. starts[l] >= different
    BY <1>1, <1>2, <1>7 DEF Inv, SearchInv
  <2>3. QED BY <1>1, <1>2, <1>7, <2>1, <2>2 DEF Found
<1>8. QED BY <1>1, <1>5, <1>6, <1>7

(* compareForStart finds the last node of the path that the new entry      *)
(* needs unchanged, without looking behind the path, and the path grows    *)
(* as put asserts, for every WIDTH.                                        *)
THEOREM StartFound ==
  ASSUME WIDTH \in Nat \ {0}
  PROVE  Spec => []StartExact
<1>1. Init => Inv
  BY InitInv
<1>2. Inv /\ [Next]_mapVars => Inv'
  BY StepInv
<1>3. Inv => StartExact
  BY InvExact
<1>4. QED BY <1>1, <1>2, <1>3, PTL DEF Spec

(* Each step of the search makes the interval smaller, so that it ends     *)
(* after at most WIDTH steps.                                              *)
THEOREM SearchEnds ==
  ASSUME WIDTH \in Nat \ {0}
  PROVE  Spec => SearchShrinks
<1>1. Init => Inv
  BY InitInv
<1>2. Inv /\ [Next]_mapVars => Inv'
  BY StepInv
<1>3. ASSUME Inv, [Next]_mapVars
      PROVE  [pc = "search" /\ pc' = "search" => r' - l' < r - l \/ UNCHANGED <<l, r>>]_mapVars
  <2>1. CASE Halve
    BY <1>3, <2>1, HalveInv
  <2>2. CASE UNCHANGED mapVars
    BY <2>2
  <2>3. CASE Next /\ ~Halve
    BY <2>3 DEF Next, CompareForStart, EndSearch, GetNextUndeletedNode, Put, Restart,
                EnforcePreviousNode, Inserted, ClearMap, Replace
  <2>4. QED BY <1>3, <2>1, <2>2, <2>3
<1>4. QED BY <1>1, <1>2, <1>3, PTL DEF Spec, SearchShrinks
=============================================================================
