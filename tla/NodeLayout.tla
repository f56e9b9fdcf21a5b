------------------------------ MODULE NodeLayout ------------------------------
(***************************************************************************)
(* The inside of a node of src/Ph-Tree: a table of packed hypercube        *)
(* addresses and references (LHC.h), an array of references by address     *)
(* (AHC.h), the storage of the suffixes that do not fit into a reference   *)
(* (SuffixStorage.h, TNode.h), the iterators over both kinds of node, and  *)
(* the choice between kinds and sizes (NodeTypeUtil.h).                    *)
(*                                                                         *)
(* One node and its storage are followed from their construction through   *)
(* the operations of DynamicNodeOperationsUtil.h on it.  Arrays are        *)
(* functions from 0.                                                       *)
(***************************************************************************)
EXTENDS Integers, Sequences, FiniteSets, SequencesExt

CONSTANTS
  DIM,
  BlockBits,       \* bits of an unsigned long (64 in the code), at least DIM
  Addresses,       \* the hypercube addresses that are used
  SuffixSizes,     \* blocks of a suffix; 0: it fits into a reference
  MaxSuffixSize,   \* blocks of the longest suffix of the tree
  Builds           \* numbers of contents and suffixes a node is built for

VARIABLES
  node,            \* the node
  storage,         \* Node::suffixes_
  size,            \* blocks of each suffix of the node
  due,             \* suffixes and subnodes the builder has yet to insert
  pairs            \* what an iteration over the node reads

vars == <<node, storage, size, due, pairs>>

End == 2^DIM

None            == [kind |-> "none"]
Special(id)     == [kind |-> "special", id |-> id]
Subnode(id)     == [kind |-> "subnode", id |-> id]
Direct(id)      == [kind |-> "direct", id |-> id]
Indexed(id, at) == [kind |-> "indexed", id |-> id, at |-> at]

-----------------------------------------------------------------------------
(* LHC.h: m rows of DIM bits in consecutive blocks *)

NewLHC(n) ==
  [type |-> "LHC", N |-> n, m |-> 0,
   addresses |-> [b \in 0..((n * DIM - 1) \div BlockBits) |-> 0],
   references |-> [i \in 0..(n - 1) |-> None]]

LookupIndex(n, i) ==
  LET block == (i * DIM) \div BlockBits
      first == (i * DIM) % BlockBits
      last  == ((i + 1) * DIM) % BlockBits
      low   == BlockBits - first
  IN IF block = ((i + 1) * DIM) \div BlockBits \/ last = 0
     THEN (n.addresses[block] \div 2^first) % 2^DIM
     ELSE (n.addresses[block] \div 2^first)
            + (n.addresses[block + 1] % 2^(DIM - low)) * 2^low

(* Block b with v in its bits from lo to before hi; bits of v beyond the   *)
(* block are lost.                                                         *)
WithBits(b, lo, hi, v) ==
  (b % 2^lo) + ((v * 2^lo) % 2^BlockBits) + (b \div 2^hi) * 2^hi

SlipOneBlock(n, i, a) ==
  LET block == (i * DIM) \div BlockBits
      first == (i * DIM) % BlockBits
      end   == IF first + DIM < BlockBits THEN first + DIM ELSE BlockBits
  IN [n EXCEPT !.addresses[block] = WithBits(@, first, end, a)]

InsertAddress(n, i, a) ==
  LET block == (i * DIM) \div BlockBits
      first == (i * DIM) % BlockBits
      low   == BlockBits - first
      one   == [n EXCEPT !.addresses[block] =
                  WithBits(@, first, IF DIM < low THEN first + DIM ELSE BlockBits, a)]
  IN IF DIM <= low THEN one
     ELSE [one EXCEPT !.addresses[block + 1] = WithBits(@, 0, DIM - low, a \div 2^low)]

(* The binary search in [l, r): whether the address is there, and the      *)
(* index it has or should have.                                            *)
LookupAddress(n, a) ==
  LET search[l \in 0..n.m, r \in 0..n.m] ==
        LET middle == (l + r) \div 2
            found  == LookupIndex(n, middle)
        IN IF l >= r THEN [exists |-> FALSE, index |-> r]
           ELSE IF found < a THEN search[middle + 1, r]
           ELSE IF found > a THEN search[l, middle]
           ELSE [exists |-> TRUE, index |-> middle]
  IN search[0, n.m]

(* The rows from index on move up by one, each read before it is           *)
(* overwritten by the row below it.                                        *)
AddRow(n, index, a, ref) ==
  LET grown == [n EXCEPT !.m = @ + 1]
      SetRow(t, i, row) ==
        InsertAddress([t EXCEPT !.references[i] = row.ref], i, row.address)
      Row(t, i) == [address |-> LookupIndex(t, i), ref |-> t.references[i]]
      moved == FoldLeft(LAMBDA s, i : [t |-> SetRow(s.t, i, s.last), last |-> Row(s.t, i)],
                        [t |-> grown, last |-> Row(grown, index)],
                        [j \in 1..(n.m - index - 1) |-> index + j])
  IN SetRow(IF index = n.m THEN grown ELSE SetRow(moved.t, n.m, moved.last),
            index, [address |-> a, ref |-> ref])

-----------------------------------------------------------------------------
(* AHC.h, and what both kinds of node have *)

NewAHC == [type |-> "AHC", N |-> End, m |-> 0, references |-> [a \in 0..(End - 1) |-> None]]

Put(n, a, ref) ==
  IF n.type = "AHC"
  THEN [n EXCEPT !.references[a] = ref, !.m = @ + (IF n.references[a] = None THEN 1 ELSE 0)]
  ELSE LET row == LookupAddress(n, a)
       IN IF row.exists THEN [n EXCEPT !.references[row.index] = ref]
          ELSE AddRow(n, row.index, a, ref)

RefAt(n, a) ==
  IF n.type = "AHC" THEN n.references[a]
  ELSE LET row == LookupAddress(n, a)
       IN IF row.exists THEN n.references[row.index] ELSE None

(* LHCIterator.h, AHCIterator.h: an iterator is at an address; that of an  *)
(* LHC also has the index of the row.  m - 1 is computed without sign.     *)
Word == 2^BlockBits

Seek(n, a) ==
  IF n.type = "AHC"
  THEN [at |-> CHOOSE b \in a..End : /\ b = End \/ n.references[b] # None
                                     /\ \A c \in a..(b - 1) : n.references[c] = None,
        index |-> 0]
  ELSE LET row == LookupAddress(n, a)
       IN [at |-> IF row.exists THEN a
                  ELSE IF row.index > (n.m - 1) % Word THEN End
                  ELSE LookupIndex(n, row.index),
           index |-> row.index]

Begin(n) ==
  IF n.type = "AHC" THEN Seek(n, 0)
  ELSE [at |-> IF n.m = 0 THEN End ELSE LookupIndex(n, 0), index |-> 0]

Advance(n, it) ==
  IF n.type = "AHC" THEN Seek(n, it.at + 1)
  ELSE IF it.index + 1 >= n.m THEN [at |-> End, index |-> n.m - 1]
  ELSE [at |-> LookupIndex(n, it.index + 1), index |-> it.index + 1]

Deref(n, it) ==
  IF n.type = "AHC" THEN [address |-> it.at, ref |-> n.references[it.at]]
  ELSE [address |-> LookupIndex(n, it.index), ref |-> n.references[it.index]]

(* The contents an iteration from begin() to end() visits. *)
Walk(n) ==
  LET from[it \in [at : 0..End, index : 0..End]] ==
        IF it.at = End THEN <<>> ELSE <<Deref(n, it)>> \o from[Advance(n, it)]
  IN from[Begin(n)]

NSuffixes(n) == Cardinality({i \in DOMAIN Walk(n) : Walk(n)[i].ref.kind \in {"direct", "indexed"}})

-----------------------------------------------------------------------------
(* NodeTypeUtil.h *)

(* The ratio k to n is below t hundredths. *)
Below(k, n, t) == 100 * k < t * n

LhcSizes == <<10, 20, 35, 50, 75>>

BuildNode(k) ==
  IF ~Below(k, End, 75) THEN NewAHC
  ELSE IF k < 3 THEN NewLHC(2)
  ELSE LET t == SelectInSeq(LhcSizes, LAMBDA s : Below(k, End, s))
       IN NewLHC(1 + (LhcSizes[t] * End) \div 100)

CopyContents(from, to) ==
  FoldLeft(LAMBDA n, c : Put(n, c.address, c.ref), to, Walk(from))

LargerNode(n) == CopyContents(n, BuildNode(n.N + 1))

(* SuffixStorage.h: a suffix takes size consecutive blocks, of which       *)
(* Block(id, k) is the k-th; unused blocks are 0.                          *)
Zero         == <<>>
Block(id, k) == <<id, k>>
NoStorage    == [max |-> 0, current |-> 0, blocks |-> <<>>]

NewStorage(n) == [max |-> n, current |-> 0, blocks |-> [i \in 0..(n - 1) |-> Zero]]

(* The blocks the storage for b blocks has. *)
Granted(b) ==
  LET most  == MaxSuffixSize * End
      ratio == <<1, 5, 10, 50, 100, 250, 500, 750>>
      t     == SelectInSeq(ratio, LAMBDA r : 1000 * b < r * most)
  IN IF b < 6 THEN b ELSE IF b < 8 THEN 7 ELSE IF b < 11 THEN 10
     ELSE IF t = 0 THEN most ELSE 1 + (ratio[t] * most) \div 1000

CopyStorage(s, n) ==
  [max |-> n, current |-> s.current,
   blocks |-> [i \in 0..(n - 1) |-> IF i < s.current THEN s.blocks[i] ELSE Zero]]

ShrinkIfPossible(s) ==
  IF s = NoStorage \/ Granted(s.current) = s.max THEN s
  ELSE IF s.current = 0 THEN NoStorage
  ELSE CopyStorage(s, Granted(s.current))

(* enlargeSuffixStorage, unless another suffix fits. *)
Enlarged(s) ==
  IF s.current + size <= s.max THEN s ELSE CopyStorage(s, Granted(s.current + size))

(* reserveBits, and the suffix of entry id in the reserved blocks. *)
Stored(s, id) ==
  [s EXCEPT !.current = @ + size,
            !.blocks = [i \in DOMAIN @ |-> IF i \in s.current..(s.current + size - 1)
                                           THEN Block(id, i - s.current) ELSE @[i]]]

SlipGapStays(n, s, at) ==
  LET last    == s.current - size
      holders == {c \in ToSet(Walk(n)) : c.ref.kind = "indexed" /\ c.ref.at = last}
  IN [node    |-> FoldLeft(LAMBDA m, c : Put(m, c.address, Indexed(c.ref.id, at)), n, SetToSeq(holders)),
      storage |-> [s EXCEPT !.current = last]]

(* TNode::freeSuffixSpace: the last suffix moves into the freed blocks and *)
(* the reference to it follows.                                            *)
FreeSuffix(n, s, at) ==
  LET last     == s.current - size
      moves    == last # 0 /\ at # last
      holder   == CHOOSE c \in ToSet(Walk(n)) : c.ref.kind = "indexed" /\ c.ref.at = last
      Cleared(bs) == [i \in DOMAIN bs |-> IF i \in last..(s.current - 1) THEN Zero ELSE bs[i]]
      Moved(bs)   == [i \in DOMAIN bs |-> IF i \in at..(at + size - 1)
                                          THEN bs[last + i - at] ELSE bs[i]]
  IN [node    |-> IF moves THEN Put(n, holder.address, Indexed(holder.ref.id, at)) ELSE n,
      storage |-> [s EXCEPT !.current = last,
                            !.blocks = Cleared(IF moves THEN Moved(@) ELSE @)]]

-----------------------------------------------------------------------------
(* What is read at an address, with the suffix found in the storage. *)
Content(n, s, a) ==
  LET ref == RefAt(n, a)
  IN CASE ref.kind = "indexed" -> [kind |-> "suffix", id |-> ref.id,
                                   suffix |-> [k \in 0..(size - 1) |-> s.blocks[ref.at + k]]]
       [] ref.kind = "direct"  -> [kind |-> "suffix", id |-> ref.id, suffix |-> <<>>]
       [] OTHER                -> ref

Read(n, s) ==
  LET walk == Walk(n)
  IN [i \in DOMAIN walk |-> <<walk[i].address, Content(n, s, walk[i].address)>>]

Change(n, s) ==
  /\ node' = n /\ storage' = s
  /\ pairs' = Read(node', storage')
  /\ UNCHANGED size

(* A suffix at a new address of n, in s, which has room for it. *)
PutSuffix(n, s, a) ==
  IF size = 0 THEN Change(Put(n, a, Direct(a)), s)
  ELSE Change(Put(n, a, Indexed(a, s.current)), Stored(s, a))

Building == due # <<0, 0>>

InitFor(b, s) ==
  /\ node = BuildNode(b[1])
  /\ storage = IF s > 0 /\ b[2] > 0 THEN NewStorage(Granted(b[2] * s)) ELSE NoStorage
  /\ size = s
  /\ due = <<b[2], b[1] - b[2]>>
  /\ pairs = <<>>

Init == \E b \in Builds, s \in SuffixSizes : InitFor(b, s)

(* The contents a node is built for: in flushToSubtree any number of       *)
(* suffixes and subnodes, in createSubnodeWithExistingSuffix two suffixes, *)
(* in splitSubnodePrefix one of each.                                      *)
BuildSuffix(a) ==
  /\ due[1] > 0 /\ RefAt(node, a) = None
  /\ PutSuffix(node, storage, a)
  /\ due' = [due EXCEPT ![1] = @ - 1]

BuildSubnode(a) ==
  /\ due[2] > 0 /\ RefAt(node, a) = None
  /\ Change(Put(node, a, Subnode(a)), storage)
  /\ due' = [due EXCEPT ![2] = @ - 1]

InsertSuffix(a) ==
  /\ ~Building /\ RefAt(node, a) = None
  /\ PutSuffix(IF node.m = node.N THEN LargerNode(node) ELSE node,
               IF size = 0 THEN storage ELSE Enlarged(storage), a)
  /\ UNCHANGED due

(* The suffix at a gives way to a subnode (createSubnodeWithExistingSuffix)*)
(* or to a buffer (swapSuffixWithBuffer): first the reference, then the    *)
(* storage.                                                                *)
ReplaceSuffix(a, ref) ==
  /\ ~Building
  /\ LET old == RefAt(node, a)
         put == Put(node, a, ref)
         rest == FreeSuffix(put, storage, old.at)
     IN \/ old.kind = "direct" /\ Change(put, storage)
        \/ old.kind = "indexed" /\ Change(rest.node, ShrinkIfPossible(rest.storage))
  /\ UNCHANGED due

(* A subnode takes the place of a buffer that is flushed.  (It also takes  *)
(* the place of a subnode whose prefix is split, which looks the same.)    *)
ReplaceBuffer(a) ==
  /\ ~Building /\ RefAt(node, a) = Special(a)
  /\ Change(Put(node, a, Subnode(a)), storage)
  /\ UNCHANGED due

(* splitSubnodePrefix goes on with a copy of the subnode. *)
CopyWithoutPrefix ==
  /\ ~Building
  /\ Change(CopyContents(node, BuildNode(node.m)), storage)
  /\ UNCHANGED due

Next ==
  \/ \E a \in Addresses :
       \/ BuildSuffix(a) \/ BuildSubnode(a) \/ InsertSuffix(a)
       \/ ReplaceSuffix(a, Subnode(a)) \/ ReplaceSuffix(a, Special(a)) \/ ReplaceBuffer(a)
  \/ CopyWithoutPrefix

Spec == Init /\ [][Next]_vars

-----------------------------------------------------------------------------
(* The node has room for what its builder inserts, its rows ascend, the    *)
(* walk and the two lookups agree on what is where, an iterator set to an  *)
(* address stands on the first content from it on, and the suffixes fill   *)
(* the storage's used blocks without gap or overlap, with zeros after      *)
(* them.                                                                   *)
LayoutExact ==
  LET walk    == Walk(node)
      present == {walk[i].address : i \in DOMAIN walk}
      starts  == {c.ref.at : c \in {d \in ToSet(walk) : d.ref.kind = "indexed"}}
  IN /\ node.m <= node.N /\ Len(walk) = node.m
     /\ \A i, j \in DOMAIN walk : i < j => walk[i].address < walk[j].address
     /\ \A c \in ToSet(walk) : c.ref # None /\ RefAt(node, c.address) = c.ref
     /\ \A a \in 0..(End - 1) :
          /\ a \notin present => RefAt(node, a) = None
          /\ node.m > 0 => LET it == Seek(node, a)
                           IN /\ \A b \in present : a <= b => it.at <= b
                              /\ it.at # End => it.at >= a /\ Deref(node, it).address = it.at
     /\ node.m + due[1] + due[2] <= node.N \/ ~Building
     /\ starts = {i * size : i \in 0..(Cardinality(starts) - 1)}
     /\ storage.current = Cardinality(starts) * size
     /\ size > 0 => Cardinality(starts) = NSuffixes(node)
     /\ storage.current <= storage.max
     /\ ~Building => storage.max = Granted(storage.max)
     /\ \A i \in storage.current..(storage.max - 1) : storage.blocks[i] = Zero

(* The contents an address may have, with suffixes as they were stored. *)
SuffixContents(a) ==
  {[kind |-> "suffix", id |-> a, suffix |-> IF n = 0 THEN <<>> ELSE [k \in 0..(n - 1) |-> Block(a, k)]] :
     n \in SuffixSizes}

AddressItems ==
  UNION {{a} \X (SuffixContents(a) \cup {Subnode(a), Special(a)}) : a \in Addresses}
=============================================================================
