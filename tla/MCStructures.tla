----------------------------- MODULE MCStructures -----------------------------
(***************************************************************************)
(* The data structures below the trees, side by side: the pool of entry    *)
(* buffers (EntryBufferPool) and the inside of one buffer                  *)
(* (EntryBufferRows); the nodes of src/Ph-Tree (NodeLayout), its bit       *)
(* strings (MultiDimBitset) and paths (EntryTreeMap); the B+ trees         *)
(* (BPlusTree) and the flat maps (FlatMaps) of src/Ph-Tree-v1.0.  A        *)
(* behaviour is about one of them; the variables of the others do not      *)
(* change.  The maps show their pairs in the same variable.                *)
(***************************************************************************)
EXTENDS EntryBufferPool, Sequences, SequencesExt

CONSTANTS
  Structures,      \* those that are checked: "pool", "rows", "node", "bits",
                   \* "long", "path", "tree", "flat"
  Thread, BufferCapacity,
  DIM, WIDTH, BlockBits, Addresses, SuffixSizes, MaxSuffixSize, Builds,
  PushesAnywhere,
  LeafMax, InnerMax, Starts, RebalancesInner,
  SIZE, WordBits, Vals

VARIABLES
  structure,
  uses, todo, threads, rowPhase, bufferNode, nRows, values, ids, insertCompleted, lcps,
  rowPc, entry, row, other, rowEmpty, rowNode, subtree,
  node, storage, size, due,
  blocks, value,
  pc, top, starts, removed, l, r, different,
  start, tree, script, left,
  layout, occupancy, slots, data,
  pairs

rowVars  == <<uses, todo, threads, rowPhase, bufferNode, nRows, values, ids, insertCompleted,
              lcps, rowPc, entry, row, other, rowEmpty, rowNode, subtree>>
nodeVars == <<node, storage, size, due>>
bitsVars == <<blocks, value>>
pathVars == <<pc, top, starts, removed, l, r, different>>
treeVars == <<start, tree, script, left>>
flatVars == <<layout, occupancy, slots, data>>
allVars  == <<structure, vars, rowVars, nodeVars, bitsVars, pathVars, treeVars, flatVars, pairs>>

-----------------------------------------------------------------------------
(* The workloads of a buffer give it its entries: in every order by one    *)
(* thread, for one use after another, and by three threads at once.  Entry *)
(* 7 has the key of entry 2, entry 8 the one of entry 1.                   *)
Keys == << <<0,0,0,0>>, <<0,0,0,1>>, <<0,0,2,0>>, <<0,3,0,0>>, <<0,0,2,3>>, <<0,0,0,2>>,
           <<0,0,0,1>>, <<0,0,0,0>> >>

Top    == << <<>>, 0 >>      \* a buffer for suffixes of three addresses
Bottom == << <<0>>, 0 >>     \* a buffer for suffixes of two

BufferUse(n, entries, ts) == [node |-> n, entries |-> entries, threads |-> ts]
First == CHOOSE t \in Thread : TRUE

InEveryOrder == {<<BufferUse(Top, <<1, 2>> \o s, {First})>> : s \in SetToSeqs({3, 4, 5, 7})}
                  \cup {<<BufferUse(Top, s, {First})>> : s \in SetToSeqs({1, 2, 3, 4, 6})}
Again == {<<BufferUse(Top, s, {First}), BufferUse(Bottom, <<5, 3, 6, 2, 1>>, {First})>> :
            s \in {<<1, 2, 8, 7, 4>>, <<4, 3>>, <<5, 1, 7, 3>>}}
AtOnce == {<<BufferUse(Top, s, Thread)>> : s \in {<<1, 2, 3, 7, 4, 5>>, <<4, 3, 5, 2, 6>>, <<1, 2, 8>>}}

Uses == IF "rows" \in Structures THEN InEveryOrder \cup Again \cup AtOnce ELSE {<<>>}

Rows == INSTANCE EntryBufferRows WITH
  DIM <- 2, WIDTH <- 4, Entries <- DOMAIN Keys, Key <- Keys,
  node <- bufferNode, phase <- rowPhase, nextIndex <- nRows, pc <- rowPc

NL == INSTANCE NodeLayout
MB == INSTANCE MultiDimBitset WITH BitAddresses <- 0 .. 2^DIM - 1
ML == INSTANCE MultiDimBitset WITH
  WIDTH <- WIDTH + 1, BitAddresses <- {0, 1, 6, 7}   \* for longer pushes
EM == INSTANCE EntryTreeMap WITH WIDTH <- 5          \* paths of up to four nodes
BT == INSTANCE BPlusTree
FM == INSTANCE FlatMaps

-----------------------------------------------------------------------------
MCInit ==
  /\ structure \in Structures
  /\ Init
  /\ Rows!Init
  /\ structure # "rows" => uses = CHOOSE us \in Uses : TRUE
  /\ IF structure = "node" THEN NL!Init ELSE node = <<>> /\ storage = <<>> /\ size = 0 /\ due = <<>>
  /\ CASE structure = "bits" -> MB!Init
       [] structure = "long" -> ML!Init
       [] OTHER -> blocks = <<>> /\ value = <<>>
  /\ EM!Init
  /\ IF structure = "tree" THEN BT!Init ELSE start = <<>> /\ tree = <<>> /\ script = <<>> /\ left = 0
  /\ IF structure = "flat" THEN FM!Init
     ELSE layout = "" /\ occupancy = 0 /\ slots = <<>> /\ data = <<>>
  /\ structure \notin {"node", "tree", "flat"} => pairs = <<>>

PoolStep == structure = "pool" /\ Next
            /\ UNCHANGED <<rowVars, nodeVars, bitsVars, pathVars, treeVars, flatVars, pairs>>
RowsStep == structure = "rows" /\ Rows!Next
            /\ UNCHANGED <<vars, nodeVars, bitsVars, pathVars, treeVars, flatVars, pairs>>
NodeStep == structure = "node" /\ NL!Next
            /\ UNCHANGED <<vars, rowVars, bitsVars, pathVars, treeVars, flatVars>>
BitsStep == structure = "bits" /\ MB!Next
            /\ UNCHANGED <<vars, rowVars, nodeVars, pathVars, treeVars, flatVars, pairs>>
LongStep == structure = "long" /\ ML!Next
            /\ UNCHANGED <<vars, rowVars, nodeVars, pathVars, treeVars, flatVars, pairs>>
PathStep == structure = "path" /\ EM!Next
            /\ UNCHANGED <<vars, rowVars, nodeVars, bitsVars, treeVars, flatVars, pairs>>
TreeStep == structure = "tree" /\ BT!Next
            /\ UNCHANGED <<vars, rowVars, nodeVars, bitsVars, pathVars, flatVars>>
FlatStep == structure = "flat" /\ FM!Next
            /\ UNCHANGED <<vars, rowVars, nodeVars, bitsVars, pathVars, treeVars>>

(* The calls to a tree may be used up. *)
CallsDone == structure = "tree" /\ left = 0 /\ script = <<>> /\ UNCHANGED allVars

Step == \/ PoolStep \/ RowsStep \/ NodeStep \/ BitsStep \/ LongStep
        \/ PathStep \/ TreeStep \/ FlatStep \/ CallsDone

MCSpec == MCInit /\ [][Step /\ UNCHANGED structure]_allVars

-----------------------------------------------------------------------------
(* The flush of a buffer gives the subtree of its rows.                    *)
FlushExact == structure = "rows" => Rows!FlushExact

(* A node of src/Ph-Tree is laid out as its lookups and iterators assume,  *)
(* and the blocks of a bit string hold its addresses.                      *)
LayoutExact ==
  /\ structure = "node" => NL!LayoutExact
  /\ structure = "bits" => MB!BlocksExact
  /\ structure = "long" => ML!BlocksExact

(* duplicateBits copies any number of addresses.                           *)
PrefixCopied == structure = "bits" => MB!PrefixCopied

(* pushBackBitset puts the addresses of a prefix below those of the value, *)
(* which stay as they are, whatever its length and place.                  *)
PrefixPushed == structure = "bits" => MB!BlocksExact

(* What _check() of the B+ trees asserts holds after any calls.            *)
TreeExact == structure = "tree" => BT!TreeExact

(* Each child of an inner node has it as its parent.                       *)
ParentsKnown == structure = "tree" => BT!ParentsKnown

(* The calls answer right: erasing and inserting in the B+ trees return    *)
(* the right iterators, lower_bound of the flat maps finds the right slot  *)
(* for every key, every way to read, copy or compare bit strings agrees    *)
(* with the addresses they hold, and the search on the path of the last    *)
(* entry finds where the next insertion starts.                            *)
AnswersRight ==
  /\ structure = "tree" => BT!AnswersRight
  /\ structure = "flat" => FM!LowerBoundRight
  /\ structure = "bits" => MB!ReadsExact
  /\ structure = "path" => EM!StartExact

(* The pairs of each kind of map, empty while another is checked. *)
Of(p) == IF structure = p THEN pairs ELSE <<>>

AddressMap == INSTANCE OrderedMap WITH
  Items <- NL!AddressItems, unique <- "key", pairs <- Of("node")
BTreeMap == INSTANCE OrderedMap WITH
  Items <- UNION {s.items : s \in Starts},
  unique <- IF structure # "tree" THEN "none" ELSE BT!Unique, pairs <- Of("tree")
FlatMap == INSTANCE OrderedMap WITH
  Items <- FM!Keys \X Vals, unique <- "key", pairs <- Of("flat")

(* A node is a map from addresses to contents, with every suffix intact,   *)
(* whatever its layout and while the layout changes.                       *)
NodeImplementsMap == AddressMap!Spec

(* A B+ tree is a map, set or multimap in the order of its keys.           *)
TreeImplementsMap == BTreeMap!Spec

(* The flat maps are maps in the order of their keys.                      *)
FlatImplementsMap == FlatMap!Spec

-----------------------------------------------------------------------------
NodeBuilds == {<<1,1>>, <<2,2>>, <<2,1>>, <<4,2>>, <<5,3>>}

KeyItems(ks) == ks \X {0}
Calls(op, s) == [i \in DOMAIN s |-> <<op, s[i], 0>>]
Free == [script |-> <<>>, calls |-> -1]

(* Twelve keys in descending order give two inner nodes below the root.    *)
Descending == Calls("emplace", [i \in 1..12 |-> 26 - 2 * i])

(* The first inner node is full, the second has one leaf.                  *)
Lopsided == Descending \o Calls("emplace", <<3>>) \o Calls("erase", <<24>>) \o Calls("emplace", <<5, 1>>)

Tall(s) == [kind |-> "map", items |-> KeyItems(0..25), script |-> s, calls |-> 2, max |-> 20]

TreeStarts == {
  Free @@ [kind |-> "map", items |-> KeyItems(1..7), max |-> 7],
  Free @@ [kind |-> "multimap", items |-> {<<1,1>>, <<2,1>>, <<2,2>>}, max |-> 5],
  Free @@ [kind |-> "set", items |-> {<<1,1>>, <<2,2>>, <<2,3>>, <<2,4>>, <<2,5>>, <<3,6>>}, max |-> 6],
  Tall(Descending),
  Tall(Calls("emplace", [i \in 1..12 |-> 2 * i] \o <<3, 11, 13, 21>>)) }

FullNext == {Tall(Lopsided)}
=============================================================================
