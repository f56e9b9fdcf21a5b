----------------------------- MODULE PHTreeNodes -----------------------------
(***************************************************************************)
(* The data of the PH-tree that the insertion algorithms work on.          *)
(*                                                                         *)
(* An entry is a number; Key gives its hypercube addresses, one per bit of *)
(* the interleaved values, from the highest bit to the lowest.  A node is  *)
(* identified by the addresses on the way to it and through its prefix     *)
(* (its path) together with a version that distinguishes the nodes that    *)
(* replace each other at the same path.  Bits, suffix storage and the two  *)
(* node layouts (AHC and LHC) are left out; what is kept of a layout is    *)
(* the number of contents it has room for.                                 *)
(***************************************************************************)
EXTENDS Integers, Sequences, FiniteSets, SequencesExt

CONSTANTS
  DIM,             \* number of dimensions
  WIDTH,           \* bits per dimension: the length of a key
  Entries,         \* the entries to be inserted: their ids
  Key              \* the key of every entry

HCAddresses == 0 .. 2^DIM - 1

ASSUME DimAssumption == DIM \in Nat \ {0} /\ WIDTH \in Nat \ {0}
(* True of every number of dimensions; the provers know no powers.         *)
ASSUME PowerAssumption == 2^DIM \in Nat \ {0}
ASSUME KeyAssumption ==
  /\ Entries \subseteq Nat \ {0} /\ IsFiniteSet(Entries)
  /\ Key \in [Entries -> [1 .. WIDTH -> HCAddresses]]

(* What a node stores at an address: nothing, the rest of an entry, a      *)
(* subnode, or (special pointer) an entry buffer.                          *)
Empty     == [kind |-> "empty"]
Suffix(e) == [kind |-> "suffix", entry |-> e]
Sub(n)    == [kind |-> "subnode", node |-> n]
Buf(s)    == [kind |-> "buffer", slot |-> s]

Path(n) == n[1]
Root == << <<>>, 0 >>

(* determineNodeType and determineLhcSize: the room of a node built for c  *)
(* contents, an AHC from three quarters of all addresses on.               *)
NodeCapacity(c) ==
  LET size == 2^DIM IN
    IF 4 * c >= 3 * size THEN size
    ELSE IF c < 3 THEN 2
    ELSE IF 10 * c < size THEN 1 + (10 * size) \div 100
    ELSE IF 5 * c < size THEN 1 + (20 * size) \div 100
    ELSE IF 20 * c < 7 * size THEN 1 + (35 * size) \div 100
    ELSE IF 2 * c < size THEN 1 + (50 * size) \div 100
    ELSE 1 + (75 * size) \div 100

(* Node::getNumberOfContents and the test of                               *)
(* needToCopyNodeForSuffixInsertion.                                       *)
NContents(node) == Cardinality({a \in HCAddresses : node.cont[a] # Empty})

IsFull(node) == NContents(node) = node.max

(* buildNode for the given contents, behind a prefix of p addresses.       *)
BuildNode(p, cont) ==
  [prefix  |-> p,
   cont    |-> cont,
   max     |-> NodeCapacity(Cardinality({a \in DOMAIN cont : cont[a] # Empty})),
   removed |-> FALSE,
   updates |-> 0]

(* The node id for a new node at path p: the first version not in use.     *)
NewId(p, used) == << p, CHOOSE v \in 0 .. Cardinality(used) :
                          /\ << p, v >> \notin used
                          /\ \A w \in 0 .. v - 1 : << p, w >> \in used >>

(* The address of entry e in node n (interleaveBits at currentIndex).      *)
AddressIn(e, n) == Key[e][Len(Path(n)) + 1]

(* MultiDimBitset::compare of e with the prefix of n: the length of the    *)
(* part they share.  The bits before the prefix are not looked at.         *)
SharedPrefix(e, n, prefix) ==
  LET start == Len(Path(n)) - prefix IN
    Len(LongestCommonPrefix({SubSeq(Key[e], start + 1, Len(Path(n))),
                             SubSeq(Path(n), start + 1, Len(Path(n)))}))

(* The nodes with one more, or another, of this id. *)
WithNode(ns, id, node) ==
  [k \in DOMAIN ns \cup {id} |-> IF k = id THEN node ELSE ns[k]]

-----------------------------------------------------------------------------
(* The subtree that replaces a buffer (EntryBuffer::flushToSubtree).       *)

(* Slip: the last row with a key is kept instead of the first. *)
DistinctRowsLast(rows) ==
  {rows[i] : i \in {j \in DOMAIN rows :
                      \A k \in j + 1 .. Len(rows) : Key[rows[k]] # Key[rows[j]]}}

(* The rows that are kept: the first of those with the same key.           *)
DistinctRows(rows) ==
  {rows[i] : i \in {j \in DOMAIN rows :
                      \A k \in 1 .. j - 1 : Key[rows[k]] # Key[rows[j]]}}

(* Slip: only the last entry is compared with the others. *)
BranchPathsOfLast(es) ==
  LET last == CHOOSE e \in es : \A f \in es : f <= e
  IN  {LongestCommonPrefix({Key[a], Key[last]}) : a \in es \ {last}}

(* The longest common prefixes of two of the entries: one node for each.   *)
BranchPaths(es) ==
  UNION {{LongestCommonPrefix({Key[a], Key[b]}) : b \in es \ {a}} : a \in es}

Below(p, a, es) == {e \in es : IsPrefix(Append(p, a), Key[e])}

(* The path of the node for a set of at least two entries. *)
TopPath(es) == LongestCommonPrefix({Key[e] : e \in es})

(* The path of the node above the subtree's node at path p: one of the     *)
(* subtree or n, under which it hangs.                                     *)
PathAbove(p, es, n) ==
  LET above == {q \in BranchPaths(es) \cup {Path(n)} : IsStrictPrefix(q, p)}
  IN  CHOOSE q \in above : \A r \in above : Len(r) <= Len(q)

(* What the node at path p has at address b. *)
SubtreeContent(p, b, es, used) ==
  LET below == Below(p, b, es) IN
    IF below = {} THEN Empty
    ELSE IF Cardinality(below) = 1 THEN Suffix(CHOOSE e \in below : TRUE)
    ELSE Sub(NewId(TopPath(below), used))

(* The nodes of the subtree below node n: a function from their ids to     *)
(* the nodes.                                                              *)
SubtreeFor(es, n, used) ==
  [m \in {NewId(p, used) : p \in BranchPaths(es)} |->
     BuildNode(Len(Path(m)) - Len(PathAbove(Path(m), es, n)) - 1,
               [b \in HCAddresses |-> SubtreeContent(Path(m), b, es, used)])]

None == << <<>>, -1 >>   \* the node pointer NULL

(* The node at the top of the subtree that replaces buffer b. *)
TopNode(b, used) == NewId(TopPath(DistinctRows(b.rows)), used)

(* What the flush of the buffers bs does to the nodes ns: subtrees replace *)
(* the buffers in the nodes the buffers record, which are not looked up    *)
(* again (flushToSubtree).  The subtrees of several buffers hang off       *)
(* different addresses, so that their order makes no difference.           *)
Flushed(ns, bs) ==
  LET used == DOMAIN ns
      subtrees == {SubtreeFor(DistinctRows(b.rows), b.node, used) : b \in bs}
      stored(n, a) == {b \in bs : b.node = n /\ b.addr = a}
      content(n, a) == IF stored(n, a) = {} THEN ns[n].cont[a]
                       ELSE Sub(TopNode(CHOOSE b \in stored(n, a) : TRUE, used))
  IN  [m \in used \cup UNION {DOMAIN f : f \in subtrees} |->
         IF m \in used
           THEN [ns[m] EXCEPT !.cont = [a \in HCAddresses |-> content(m, a)]]
           ELSE (CHOOSE f \in subtrees : m \in DOMAIN f)[m]]

-----------------------------------------------------------------------------
(* Changes that replace a node. *)

(* copyIntoLargerNode, with entry e added at address a.                    *)
LargerCopy(node, a, e) ==
  [BuildNode(node.prefix, node.cont) EXCEPT !.max = NodeCapacity(node.max + 1),
                                            !.cont[a] = Suffix(e)]

(* What is left of the prefix of a node behind the part split off.         *)
PrefixLeft(node, shared) == node.prefix - shared - 1

(* The path of the node for the part of n's prefix that e shares.          *)
SplitPath(ns, n, e) ==
  SubSeq(Path(n), 1, Len(Path(n)) - ns[n].prefix + SharedPrefix(e, n, ns[n].prefix))

(* splitSubnodePrefix: a new node upper for the shared part of the prefix  *)
(* holds the entry and a copy of n with the rest of the prefix.            *)
Split(ns, n, parent, e, upper, copy) ==
  LET shared == SharedPrefix(e, n, ns[n].prefix)
      depth == Len(Path(upper)) + 1
      cont == [a \in HCAddresses |->
                 IF a = Key[e][depth] THEN Suffix(e)
                 ELSE IF a = Path(n)[depth] THEN Sub(copy)
                 ELSE Empty]
      linked == [ns EXCEPT ![parent].cont[AddressIn(e, parent)] = Sub(upper)]
  IN  WithNode(WithNode(linked, copy, BuildNode(PrefixLeft(ns[n], shared), ns[n].cont)),
               upper, BuildNode(shared, cont))

(* Slip: the buffers keep pointing to the replaced node. *)
BuffersNotMoved(bs, node, new) == bs

(* Node new has the contents of node; the buffers among them are told      *)
(* (copyContents, TEntryBuffer::updateNode).                               *)
BuffersMoved(bs, node, new) ==
  [s \in DOMAIN bs |-> IF \E a \in HCAddresses : node.cont[a] = Buf(s)
                         THEN [bs[s] EXCEPT !.node = new] ELSE bs[s]]

-----------------------------------------------------------------------------
(* What makes a set of nodes a PH-tree. *)

LiveNodes(ns) == {n \in DOMAIN ns : ~ns[n].removed}
Parents(ns, m) ==
  {p \in LiveNodes(ns) \X HCAddresses : ns[p[1]].cont[p[2]] = Sub(m)}

(* The nodes not removed form one tree under root: a subnode lies behind   *)
(* the address it is stored at with just its prefix in between, every node *)
(* but the root has one parent and at least two contents, and no reference *)
(* leads to a removed node.                                                *)
IsTree(ns, root) ==
  /\ root \in LiveNodes(ns) /\ ns[root].prefix = 0 /\ Path(root) = <<>>
  /\ Parents(ns, root) = {}
  /\ \A n \in LiveNodes(ns), a \in HCAddresses :
       ns[n].cont[a].kind = "subnode" =>
         LET m == ns[n].cont[a].node IN
           /\ m \in LiveNodes(ns)
           /\ IsPrefix(Append(Path(n), a), Path(m))
           /\ Len(Path(m)) = Len(Path(n)) + 1 + ns[m].prefix
  /\ \A m \in LiveNodes(ns) \ {root} :
       Cardinality(Parents(ns, m)) = 1 /\ NContents(ns[m]) >= 2

(* The entries in the nodes and in the buffers; of rows with the same key  *)
(* the first counts.                                                       *)
Contents(ns) == UNION {{ns[n].cont[a] : a \in HCAddresses} : n \in LiveNodes(ns)}
SuffixEntries(ns) == {c.entry : c \in {d \in Contents(ns) : d.kind = "suffix"}}
StoredIn(ns, bs) == SuffixEntries(ns) \cup UNION {DistinctRows(bs[s].rows) : s \in DOMAIN bs}

(* Every entry lies where a lookup of its key leads.                       *)
AllPlaced(ns, bs) ==
  /\ \A n \in LiveNodes(ns), a \in HCAddresses :
       ns[n].cont[a].kind = "suffix" =>
         IsPrefix(Append(Path(n), a), Key[ns[n].cont[a].entry])
  /\ \A s \in DOMAIN bs : \A i \in DOMAIN bs[s].rows :
       IsPrefix(Append(Path(bs[s].node), bs[s].addr), Key[bs[s].rows[i]])

(* Every buffer is stored in the node and at the address it records, and   *)
(* nowhere else.                                                           *)
AllAnchored(ns, bs) ==
  \A s \in DOMAIN bs :
    {p \in LiveNodes(ns) \X HCAddresses : ns[p[1]].cont[p[2]] = Buf(s)}
      = IF bs[s].node = None THEN {} ELSE {<<bs[s].node, bs[s].addr>>}

(* The shape depends on the keys alone: beside the root there is a node    *)
(* exactly where two stored keys part.                                     *)
IsCanonical(ns) ==
  LET es == SuffixEntries(ns)
      prefixes == UNION {{SubSeq(Key[e], 1, i) : i \in 0 .. WIDTH - 1} : e \in es}
      parts(p) == Cardinality({a \in HCAddresses : Below(p, a, es) # {}}) > 1
  IN  {Path(n) : n \in LiveNodes(ns)} = {<<>>} \cup {p \in prefixes : parts(p)}
=============================================================================
