------------------------------ MODULE RangeQuery ------------------------------
(***************************************************************************)
(* A range query on a finished PH-tree: the lookup of the lower left       *)
(* corner (SpatialSelectionOperationsUtil::lookup) and the iterator that   *)
(* walks from there to the upper right corner (RangeQueryIterator).        *)
(*                                                                         *)
(* A value is the sequence of its interleaved addresses and a mask is the  *)
(* set of the dimensions whose bit it has.  Each action is one iteration   *)
(* of a loop of the constructor or of goToNextValidSuffix; the entry found *)
(* stays current until next() is called.                                   *)
(***************************************************************************)
EXTENDS PHTreeNodes

VARIABLES
  nodes, root,      \* the tree, which does not change
  lower, upper,     \* lowerLeftCorner_ and upperRightCorner_
  visited,          \* what is left of visitedNodes
  stack,            \* stack_: the contents of the nodes above, the root first
  current,          \* currentContent
  value,            \* the first currentIndex_ addresses of currentValue
  found,            \* the ids returned by next()
  phase             \* "idle", "root", "start", "search", "found" or "exhausted"

queryVars == <<lower, upper, visited, stack, current, value, found, phase>>

Dims == 0 .. DIM - 1
End == 2^DIM
Bits(a) == {d \in Dims : (a \div 2^d) % 2 = 1}
Mask(ds) == MapThenSumSet(LAMBDA d : 2^d, ds)

(* NodeIterator::setAddress: the first address from a on that is filled,   *)
(* and operator++.                                                         *)
It(n, a) == Min({b \in HCAddresses : b >= a /\ nodes[n].cont[b] # Empty} \cup {End})
Advanced(c) == [c EXCEPT !.start = It(c.node, c.start + 1)]

(* MultiDimBitset::compareSmallerEqual on the addresses first .. last of   *)
(* two values: the dimensions of ds in which v is smaller than w, and      *)
(* those in which they are equal.                                          *)
EqualIn(v, w, first, last, ds) ==
  {d \in ds : \A i \in first .. last : d \in Bits(v[i]) <=> d \in Bits(w[i])}
SmallerIn(v, w, first, last, ds) ==
  {d \in ds : \E i \in first .. last :
                /\ d \in Bits(w[i]) \ Bits(v[i])
                /\ d \in EqualIn(v, w, first, i - 1, ds)}

(* Every window: the corners have to differ in every dimension.            *)
Windows ==
  LET values == [1 .. WIDTH -> HCAddresses] IN
    {c \in values \X values : SmallerIn(c[1], c[2], 1, WIDTH, Dims) = Dims}

-----------------------------------------------------------------------------
(* SpatialSelectionOperationsUtil::lookup *)

RECURSIVE LookupFrom(_, _, _)
LookupFrom(n, key, path) ==
  LET content == nodes[n].cont[key[Len(Path(n)) + 1]] IN
    IF ~IsPrefix(Path(n), key) THEN [id |-> 0, nodes |-> path]
    ELSE IF content.kind = "subnode"
      THEN LookupFrom(content.node, key, Append(path, n))
    ELSE [id    |-> IF content.kind = "suffix" /\ Key[content.entry] = key
                      THEN content.entry ELSE 0,
          nodes |-> Append(path, n)]
Lookup(key) == LookupFrom(root, key, <<>>)

-----------------------------------------------------------------------------
(* The comparisons of the corners with the current value, assembled from   *)
(* those of the node above and a local one.                                *)

(* connectLocalToPrevLower, connectLocalToPrevUpper *)
ConnectLower(c, eq, sm) ==
  [c EXCEPT !.lowerEq = eq \cap (c.lowerEq \cup (Dims \ c.lowerSm)),
            !.lowerSm = sm \cup c.lowerSm]

ConnectUpper(c, eq, sm) ==
  [c EXCEPT !.upperEq = eq \cap (c.upperEq \cup c.upperSm),
            !.upperSm = sm \cap (c.upperEq \cup c.upperSm)]

(* The address of a corner at position i; that above the root counts as 0. *)
Address(corner, i) == IF i = 0 THEN {} ELSE Bits(corner[i])

(* createCurrentContent, its first half: the value with the next address 0 *)
(* is compared with the lower left corner.  Address last is the one        *)
(* descended from.                                                         *)
LowerContent(c, n, last, at) ==
  LET prev == Address(lower, at)
      local == Bits(last)
      below == ConnectLower(c, {d \in Dims \ Bits(lower[at + 1]) : d \in prev <=> d \in local},
                               local \ prev)
      done == IF c.lowerIn THEN c
              ELSE [below EXCEPT !.lowerMask = Dims \ (below.lowerSm \cup below.lowerEq),
                                 !.lowerIn = below.lowerEq = {} /\ below.lowerSm = Dims]
  IN  [done EXCEPT !.start = It(n, IF done.lowerIn THEN 0 ELSE Mask(done.lowerMask))]

(* The second half: the value with the next address all ones is compared   *)
(* with the upper right corner.                                            *)
UpperContent(c, n, last, at) ==
  LET prev == Address(upper, at)
      curr == Bits(upper[at + 1])
      local == Bits(last)
      above == ConnectUpper(c, {d \in curr : d \in prev <=> d \in local},
                 (local \ prev) \cup ((prev \cap local) \ curr)
                   \cup (Dims \ (prev \cup local \cup curr)))
      done == IF c.upperIn THEN c
              ELSE [above EXCEPT !.upperMask = (Dims \ above.upperSm) \cup above.upperEq,
                                 !.upperIn = above.upperEq = {} /\ above.upperSm = {}]
  IN  [done EXCEPT !.end = It(n, IF done.upperIn THEN End ELSE Mask(done.upperMask) + 1)]

FullyContained(c) ==
  [c EXCEPT !.full = /\ c.lowerMask = {} /\ c.upperMask = Dims
                     /\ c.upperEq = {} /\ c.lowerEq = {}]

(* createCurrentContent for node n, starting from content compared.        *)
CreateContent(compared, n, last, at) ==
  \E below \in {LowerContent(compared, n, last, at)} :
    \E both \in {UpperContent(below, n, last, at)} :
      current' = [FullyContained(both) EXCEPT !.node = n, !.prefix = nodes[n].prefix]

(* compareLocalRangeLower and compareLocalRangeUpper: v is compared with   *)
(* the corners from address first on, in the dimensions that are not       *)
(* decided yet.                                                            *)
WithRange(c, v, first) ==
  LET lowerDims == c.lowerEq \cup (Dims \ c.lowerSm)
      upperDims == c.upperEq \cup c.upperSm
      below == IF c.lowerIn THEN c
               ELSE ConnectLower(c, EqualIn(lower, v, first, Len(v), lowerDims),
                                    SmallerIn(lower, v, first, Len(v), lowerDims))
  IN  IF c.upperIn THEN below
      ELSE ConnectUpper(below, EqualIn(upper, v, first, Len(v), upperDims),
                               SmallerIn(upper, v, first, Len(v), upperDims))

WithinRange(c) ==
  /\ c.lowerEq \cup c.lowerSm = Dims
  /\ c.upperEq \cup (Dims \ c.upperSm) = Dims

-----------------------------------------------------------------------------
(* The value of node m below address a.  Its path is value, a and the      *)
(* prefix.                                                                 *)
ValueOf(m) == SubSeq(Path(m), 1, Len(value) + 1 + nodes[m].prefix)

(* stepDown compares the address and the prefix of the next node.          *)
Compared(m) == IF nodes[m].prefix = 0 THEN current
               ELSE WithRange(current, ValueOf(m), Len(value) + 1)
PrefixValid(m) == nodes[m].prefix = 0 \/ WithinRange(Compared(m))

(* Slip: the node is entered with the address it is stored at in place of  *)
(* the last address of its prefix.                                         *)
LastAddressBeforePrefix(m) == Path(m)[Len(value) + 1]
LastAddress(m) == Path(m)[Len(Path(m))]

StepDown(m) ==
  /\ stack' = Append(stack, current)
  /\ \E compared \in {Compared(m)} :
       CreateContent(compared, m, LastAddress(m), Len(ValueOf(m)))
  /\ value' = ValueOf(m)

(* stepUp *)
StepUp ==
  /\ value' = SubSeq(value, 1, Len(value) - current.prefix - 1)
  /\ current' = Advanced(Last(stack))
  /\ stack' = Front(stack)

-----------------------------------------------------------------------------
NoContent ==
  [node |-> None, start |-> 0, end |-> 0, prefix |-> 0,
   lowerEq |-> Dims, lowerSm |-> {}, upperEq |-> Dims, upperSm |-> {},
   lowerMask |-> {}, upperMask |-> {}, lowerIn |-> FALSE, upperIn |-> FALSE,
   full |-> FALSE]

Init ==
  /\ lower = <<>> /\ upper = <<>>
  /\ visited = <<>> /\ stack = <<>> /\ current = NoContent /\ value = <<>>
  /\ found = <<>>
  /\ phase = "idle"

(* PHTree::rangeQuery: the corners, and the nodes on the way to the lower  *)
(* left one.                                                               *)
RangeQuery ==
  /\ phase = "idle"
  /\ \E c \in Windows :
       /\ lower' = c[1] /\ upper' = c[2]
       /\ visited' = Lookup(c[1]).nodes
  /\ phase' = "root"
  /\ UNCHANGED <<stack, current, value, found>>

(* The constructor: the content of the root ...                            *)
EnterRoot ==
  /\ phase = "root"
  /\ CreateContent(NoContent, Head(visited), 0, 0)
  /\ visited' = Tail(visited)
  /\ phase' = "start"
  /\ UNCHANGED <<lower, upper, stack, value, found>>

(* ... and a step down to each of the visited nodes.                       *)
EnterVisited ==
  /\ phase = "start" /\ visited # <<>>
  /\ StepDown(Head(visited))
  /\ visited' = Tail(visited)
  /\ UNCHANGED <<lower, upper, found, phase>>

Entered ==
  /\ phase = "start" /\ visited = <<>>
  /\ phase' = "search"
  /\ UNCHANGED <<lower, upper, visited, stack, current, value, found>>

(* goToNextValidSuffix: up from a node that is exhausted.                  *)
Ascend ==
  /\ phase = "search"
  /\ current.start = current.end
  /\ IF stack # <<>> THEN StepUp /\ phase' = phase
     ELSE phase' = "exhausted" /\ UNCHANGED <<stack, current, value>>
  /\ UNCHANGED <<lower, upper, visited, found>>

Content == nodes[current.node].cont[current.start]

(* Slip: the address is only compared with the lower mask. *)
InLowerMask(c) == c.full \/ c.lowerMask \subseteq Bits(c.start)

(* isInMaskRange *)
InMaskRange(c) ==
  c.full \/ (Bits(c.start) \cup c.lowerMask) \cap c.upperMask = Bits(c.start)

Examines == phase = "search" /\ current.start # current.end

SkipAddress ==
  /\ Examines /\ ~InMaskRange(current)
  /\ current' = Advanced(current)
  /\ UNCHANGED <<lower, upper, visited, stack, value, found, phase>>

Descend ==
  /\ Examines /\ InMaskRange(current) /\ Content.kind = "subnode"
  /\ IF PrefixValid(Content.node) THEN StepDown(Content.node)
     ELSE current' = Advanced(current) /\ UNCHANGED <<stack, value>>
  /\ UNCHANGED <<lower, upper, visited, found, phase>>

(* isSuffixInRange *)
SuffixInRange ==
  current.full \/ WithinRange(WithRange(current, Key[Content.entry], Len(value) + 1))

ExamineSuffix ==
  /\ Examines /\ InMaskRange(current) /\ Content.kind = "suffix"
  /\ IF SuffixInRange THEN phase' = "found" /\ UNCHANGED current
     ELSE current' = Advanced(current) /\ UNCHANGED phase
  /\ UNCHANGED <<lower, upper, visited, stack, value, found>>

(* next() *)
NextEntry ==
  /\ phase = "found"
  /\ found' = Append(found, Content.entry)
  /\ current' = Advanced(current)
  /\ phase' = "search"
  /\ UNCHANGED <<lower, upper, visited, stack, value>>

Proceed ==
  \/ EnterRoot \/ EnterVisited \/ Entered
  \/ Ascend \/ SkipAddress \/ Descend \/ ExamineSuffix \/ NextEntry

Next == RangeQuery \/ Proceed

-----------------------------------------------------------------------------
(* The comparisons and masks, put together along the way down and restored *)
(* on the way up, are those of the corners with the whole value: the       *)
(* asserts at the end of createCurrentContent.  The positions stay between *)
(* the masks, and what was visited for the lower left corner is entered.   *)
ContentExact(c, v) ==
  LET at == Len(v) + 1
      low == Append(v, 0)
      high == Append(v, End - 1)
      lowerEq == EqualIn(lower, low, 1, at, Dims)
      lowerSm == SmallerIn(lower, low, 1, at, Dims)
      upperEq == EqualIn(upper, high, 1, at, Dims)
      upperSm == SmallerIn(upper, high, 1, at, Dims)
  IN  /\ c.lowerEq = lowerEq /\ c.lowerSm = lowerSm
      /\ c.upperEq = upperEq /\ c.upperSm = upperSm
      /\ c.lowerMask = Dims \ (lowerEq \cup lowerSm)
      /\ c.upperMask = (Dims \ upperSm) \cup upperEq
      /\ Path(c.node) = v
      /\ Mask(c.lowerMask) <= c.start /\ c.start <= c.end
      /\ c.lowerIn /\ c.upperIn => c.full
MasksExact ==
  /\ phase = "start" /\ visited # <<>> =>
       /\ current.start < current.end
       /\ PrefixValid(Head(visited))
  /\ phase \in {"start", "search", "found"} =>
       /\ ContentExact(current, value)
       /\ \A i \in DOMAIN stack : ContentExact(stack[i], Path(stack[i].node))

(* The stored entries of the window, and the order of interleaved values.  *)
Answer ==
  {e \in SuffixEntries(nodes) :
     \A d \in Dims :
       /\ d \in EqualIn(lower, Key[e], 1, WIDTH, Dims) \cup SmallerIn(lower, Key[e], 1, WIDTH, Dims)
       /\ d \in EqualIn(upper, Key[e], 1, WIDTH, Dims) \cup SmallerIn(Key[e], upper, 1, WIDTH, Dims)}
Before(e, f) ==
  \E i \in 1 .. WIDTH : Key[e][i] < Key[f][i] /\ \A j \in 1 .. i - 1 : Key[e][j] = Key[f][j]

(* A query returns every stored entry of the window once, in the order of  *)
(* the interleaved values, and nothing else, although it prunes whole      *)
(* subtrees by masks and stops at the first address behind them; each of   *)
(* its results is found by a lookup.                                       *)
QueryExact ==
  /\ \A i \in 1 .. Len(found) - 1 : Before(found[i], found[i + 1])
  /\ found # <<>> =>
       ToSet(found) = {e \in Answer : e = Last(found) \/ Before(e, Last(found))}
  /\ phase = "exhausted" => ToSet(found) = Answer
  /\ phase = "found" => Lookup(Key[Content.entry]).id = Content.entry
=============================================================================
