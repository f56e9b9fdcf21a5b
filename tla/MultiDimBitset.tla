---------------------------- MODULE MultiDimBitset ----------------------------
(***************************************************************************)
(* Strings of interleaved addresses packed into blocks, and the operations *)
(* of MultiDimBitset.h on them.  A string ends at bit 0 of block 0, so the *)
(* first address is in the highest bits; an address may lie across two     *)
(* blocks.                                                                 *)
(*                                                                         *)
(* The variable is the value a range query walks with (currentValue of     *)
(* RangeQueryIterator.h): addresses are appended to it and its last ones   *)
(* are removed, in blocks and, for comparison, as a sequence.              *)
(***************************************************************************)
EXTENDS Integers, Sequences, FiniteSets, SequencesExt, Bitwise

CONSTANTS
  DIM,
  WIDTH,           \* addresses of a full value
  BlockBits,       \* bitsPerBlock (64 in the code), at least DIM
  BitAddresses,    \* the addresses that are used, of DIM bits each
  PushesAnywhere   \* whether bits of more than one block may be pushed at any
                   \* place, or only where both parts of a block are as long

VARIABLES
  blocks,          \* currentValue
  value            \* its addresses, the first one first

Dims == 0 .. DIM - 1
NBits == DIM * WIDTH
Filled == 2^BlockBits - 1   \* filledBlock

NBlocks(n) == 1 + (n - 1) \div BlockBits
Unset(n) == [b \in 0 .. NBlocks(n) - 1 |-> 0]

(* Shifts within a block.  The count is taken modulo the width, which is   *)
(* what the processor does with a count that C leaves undefined.           *)
Shl(x, n) == (x * 2^(n % BlockBits)) % 2^BlockBits
Shr(x, n) == x \div 2^(n % BlockBits)

(* The bits of x below bit n, and those from bit n on. *)
Low(x, n) == x % 2^n
High(x, n) == x - Low(x, n)

(* What the blocks of a string of addresses contain. *)
BlocksOf(s) ==
  LET bit(g) == (s[Len(s) - g \div DIM] \div 2^(g % DIM)) % 2 IN
  [b \in 0 .. NBlocks(DIM * Len(s)) - 1 |->
     MapThenSumSet(LAMBDA g : bit(g) * 2^(g % BlockBits),
                   {g \in b * BlockBits .. (b + 1) * BlockBits - 1 : g < DIM * Len(s)})]

(* What it has in dimension d: bit WIDTH - i from address i. *)
DimValue(s, d) ==
  MapThenSumSet(LAMBDA i : ((s[i] \div 2^d) % 2) * 2^(WIDTH - i), DOMAIN s)

-----------------------------------------------------------------------------
(* toBitset for the dimensions without a Morton table, and toLongs         *)

ToBitset(vs) ==
  LET bit(g) == (vs[g % DIM] \div 2^(g \div DIM)) % 2 IN
  [b \in DOMAIN Unset(NBits) |->
     MapThenSumSet(LAMBDA g : bit(g) * 2^(g % BlockBits),
                   {g \in 0 .. NBits - 1 : g \div BlockBits = b})]

ToLongs(bs) ==
  [d \in Dims |->
     MapThenSumSet(LAMBDA i : ((bs[(DIM * i + d) \div BlockBits]
                                  \div 2^((DIM * i + d) % BlockBits)) % 2) * 2^i,
                   0 .. WIDTH - 1)]

-----------------------------------------------------------------------------
(* Comparisons *)

(* compareAlignedBlocks: the number of equal bits from the highest on. *)
EqualBits(b1, b2) == Cardinality({k \in 0 .. BlockBits - 1 : Shr(b1, k) = Shr(b2, k)})

(* One more block of the other string is compared. *)
CompareBlock(r, block, otherBlock) ==
  [same |-> block = otherBlock, n |-> r.n + EqualBits(block, otherBlock)]

(* compare: addresses from .. to - 1 of a string of n bits with a whole    *)
(* other one; whether they are the same, and the number of common first    *)
(* addresses.  The blocks of the first string are aligned to the other.    *)
Compare(bs, n, from, to, other, otherN) ==
  LET upper == n - DIM * from
      lower == n - DIM * to
      x == upper % BlockBits
      y == lower % BlockBits
      high == upper \div BlockBits
      low == lower \div BlockBits
      highest == Low(bs[high], x)
      start == IF x > y
               THEN CompareBlock([n |-> -(y + (BlockBits - x))], Shr(highest, y),
                                 other[(otherN - 1) \div BlockBits])
               ELSE [same |-> TRUE, n |-> -(y - x)]
      above(b) == IF b + 1 = high THEN (IF x > y THEN Low(highest, y) ELSE highest)
                  ELSE Low(bs[b + 1], y)
      aligned(b) == (Shl(above(b), BlockBits - y)) | (Shr(High(bs[b], y), y))
      end == FoldLeft(LAMBDA r, b : IF r.same THEN CompareBlock(r, aligned(b), other[b - low])
                                    ELSE r,
                      start, [k \in 1 .. (high - low) |-> high - k])
  IN  [same |-> end.same, n |-> end.n \div DIM]

(* compareFullAligned *)
CompareFull(bs, n, other) ==
  LET end == FoldLeft(LAMBDA r, b : IF r.same THEN CompareBlock(r, bs[b], other[b]) ELSE r,
                      [same |-> TRUE, n |-> 0],
                      [k \in 1 .. NBlocks(n) |-> NBlocks(n) - k])
  IN  (end.n - (NBlocks(n) * BlockBits - n)) \div DIM

(* dimBlock and dimBlockOffset: the bits of dimension 0 in block 0, and by *)
(* how many bits they move from one block to the next.                     *)
DimBlock == MapThenSumSet(LAMBDA i : 2^(DIM * i), {i \in 0 .. BlockBits \div DIM : DIM * i < BlockBits})
DimBlockOffset ==
  IF BlockBits % DIM = 0 THEN 0
  ELSE DIM - (BlockBits - (((BlockBits \div DIM) * DIM) % BlockBits))

(* Slip: the pattern of block 0 is used for every block. *)
DimMaskOfFirstBlock(block, d) == Shl(DimBlock, d)

(* The bits of dimension d in a block. *)
DimMask(block, d) == Shl(DimBlock, (d + DimBlockOffset * block) % DIM)

(* compareSmallerEqual: the dimensions of ds in which the first string is  *)
(* smaller than the second, without the lowest skip of n bits, and those   *)
(* in which they are equal.                                                *)
CompareSmallerEqual(v1, v2, n, skip, ds) ==
  LET lowest == skip \div BlockBits
      highest == (n - 1) \div BlockBits
      mask(b, d) ==
        LET m == DimMask(b, d)
            above == IF b = lowest THEN High(m, skip % BlockBits) ELSE m
        IN  IF b = highest THEN Low(above, ((n - 1) % BlockBits) + 1) ELSE above
      bits(v, b, d) == v[b] & mask(b, d)
  IN  FoldLeft(LAMBDA r, b :
                 [smaller |-> r.smaller \cup {d \in r.equal : bits(v1, b, d) < bits(v2, b, d)},
                  equal   |-> {d \in r.equal : bits(v1, b, d) = bits(v2, b, d)}],
               [smaller |-> {}, equal |-> ds],
               [k \in 1 .. (highest - lowest + 1) |-> highest + 1 - k])

(* checkRangeUnset *)
CheckRangeUnset(bs, n, from) ==
  LET first == from \div BlockBits
      last == (n - 1) \div BlockBits
      above(b) == IF b = first THEN High(bs[b], from % BlockBits) ELSE bs[b]
  IN  n = 0 \/ n = from \/
      \A b \in first .. last :
        (IF b = last THEN Low(above(b), ((n - 1) % BlockBits) + 1) ELSE above(b)) = 0

-----------------------------------------------------------------------------
(* Copies of a part *)

(* interleaveBits: address i, counted from 0. *)
InterleaveBits(bs, i, n) ==
  LET start == n - DIM * (i + 1)
      end == start + DIM
      block == start \div BlockBits
      lower == start % BlockBits
      second == (block + 1) * BlockBits - start
  IN  IF block = end \div BlockBits \/ end % BlockBits = 0
        THEN Low(Shr(bs[block], lower), DIM)
        ELSE Shr(High(bs[block], lower), lower)
               | Shl(Low(bs[block + 1], end % BlockBits), second)

(* removeHighestBits into an empty copy: what is left behind the first k   *)
(* addresses.                                                              *)
WithoutHighest(bs, n, k) ==
  LET rest == n - DIM * k
      cut == rest % BlockBits
  IN  [b \in DOMAIN Unset(rest) |->
         IF b < rest \div BlockBits THEN bs[b] ELSE Low(bs[b], cut)]

(* duplicateHighestBits into empty blocks: the first k addresses. *)
DuplicateHighest(bs, n, k) ==
  LET rest == n - DIM * k
      start == rest \div BlockBits
      last == (n - 1) \div BlockBits
      v == rest % BlockBits
      r(b) == Shr(High(bs[b], v), v)
      lastBit == n % BlockBits
  IN  [b \in 0 .. (last - start - 1) |->
         r(start + b) | Shl(Low(bs[start + b + 1], v), BlockBits - v)]
        @@ (IF v < lastBit \/ lastBit = 0 THEN (last - start :> r(last)) ELSE <<>>)

(* duplicateBits: the first k addresses of the lowest n bits.  What is     *)
(* copied too much is masked out of the last block.                        *)
DuplicateBits(bs, n, k) ==
  LET last == (DIM * k - 1) \div BlockBits
      mask == Filled - Shl(Filled, ((DIM * k - 1) % BlockBits) + 1)
  IN  [DuplicateHighest(bs, n, k) EXCEPT ![last] = @ & mask]

(* duplicateLowestBitsAligned *)
DuplicateLowest(bs, n) ==
  [b \in DOMAIN Unset(n) |-> IF b < n \div BlockBits THEN bs[b] ELSE Low(bs[b], n % BlockBits)]

(* calculateLongestCommonPrefix: the number of common first addresses, and *)
(* these addresses.                                                        *)
LongestCommonAddresses(bs, n, from, other, otherN) ==
  LET k == Compare(bs, n, from, from + otherN \div DIM, other, otherN).n
  IN  IF k > 0 THEN DuplicateHighest(other, otherN, k) ELSE <<>>

-----------------------------------------------------------------------------
(* Changes in place *)

(* pushBackValue: an address is put above the lowest n bits, which ...     *)
PushBackValue(bs, a, n) ==
  LET first == n \div BlockBits
      last == (n + DIM - 1) \div BlockBits
      with == [bs EXCEPT ![first] = @ | Shl(a, n % BlockBits)]
  IN  IF first = last THEN with
      ELSE [with EXCEPT ![last] = @ | Shr(a, BlockBits - (n % BlockBits))]

(* ... clearValue: ... are left as they are when it is removed.            *)
ClearValue(bs, n) ==
  LET first == n \div BlockBits
      last == (n + DIM - 1) \div BlockBits
      at == n % BlockBits
      with == [bs EXCEPT ![first] = @ & (Filled - Shl(2^DIM - 1, at))]
  IN  IF first = last THEN with
      ELSE [with EXCEPT ![last] = High(@, DIM - (BlockBits - at))]

(* A block that is pushed whole at bit "at" of a block is split by the     *)
(* mask of its lowest "at" bits: these are shifted up, the others down,    *)
(* both by "at".  For at = 0 the mask is the whole block.                  *)
PushBackFullBlock(bs, x, block, at) ==
  LET firstToMask == Shr(Filled, BlockBits - at)
      secondToMask == Filled - firstToMask
      with == [bs EXCEPT ![block] = @ | Shl(x & firstToMask, at)]
  IN  IF secondToMask = 0 THEN with
      ELSE [with EXCEPT ![block + 1] = @ | Shr(x & secondToMask, at)]

(* Slip: a single bit beyond the block is not seen. *)
PushBackLastBlockUpToBorder(bs, x, n, block, at) ==
  LET part == Low(x, n)
      with == [bs EXCEPT ![block] = @ | Shl(part, at)]
  IN  IF at = 0 \/ n + at <= BlockBits + 1 THEN with
      ELSE [with EXCEPT ![block + 1] = @ | Shr(part, BlockBits - at)]

(* The last block, of n bits: what does not fit goes into the next block.  *)
PushBackLastBlock(bs, x, n, block, at) ==
  LET part == Low(x, n)
      with == [bs EXCEPT ![block] = @ | Shl(part, at)]
  IN  IF at = 0 \/ n + at <= BlockBits THEN with
      ELSE [with EXCEPT ![block + 1] = @ | Shr(part, BlockBits - at)]

(* pushBackBitset: fromN bits are put above the lowest n bits. *)
PushBackBitset(from, fromN, bs, n) ==
  LET start == n \div BlockBits
      at == n % BlockBits
      last == NBlocks(fromN) - 1
      full == FoldLeft(LAMBDA to, i : PushBackFullBlock(to, from[i], start + i, at),
                       bs, [k \in 1 .. last |-> k - 1])
  IN  PushBackLastBlock(full, from[last], ((fromN - 1) % BlockBits) + 1, start + last, at)

(* removeHighestBits in place: the k bits below bit n are cleared. *)
RemoveHighest(bs, n, k) ==
  LET first == (n - k) \div BlockBits
      firstBit == (n - k) % BlockBits
      last == (n - 1) \div BlockBits
      lastBit == (n - 1) % BlockBits
  IN  [b \in DOMAIN bs |->
         IF first = last /\ b = first
           THEN IF k = BlockBits THEN 0
                ELSE bs[b] & (Filled - Shl(Shl(1, k) - 1, firstBit))
         ELSE IF b = first THEN Low(bs[b], firstBit)
         ELSE IF b = last THEN High(bs[b], lastBit + 1)
         ELSE IF first < b /\ b < last THEN 0
         ELSE bs[b]]

-----------------------------------------------------------------------------
FreeBits == DIM * (WIDTH - Len(value))   \* the bits below the last address

Init ==
  /\ value = <<>>
  /\ blocks = Unset(NBits)

(* A value is built from the numbers of an entry (Entry.h). *)
FromLongs ==
  \E s \in [1 .. WIDTH -> BitAddresses] :
    /\ value = <<>>
    /\ blocks' = ToBitset([d \in Dims |-> DimValue(s, d)])
    /\ value' = s

PushAddress ==
  \E a \in BitAddresses :
    /\ Len(value) < WIDTH
    /\ blocks' = PushBackValue(blocks, a, FreeBits - DIM)
    /\ value' = Append(value, a)

(* The mask of pushBackBitset splits every block where it must be split:   *)
(* none is pushed whole, or it is not split or into halves.                *)
SplitsRight(fromN, n) == NBlocks(fromN) = 1 \/ 2 * (n % BlockBits) \in {0, BlockBits}

PushPrefix ==
  \E k \in 1 .. WIDTH - Len(value) : \E s \in [1 .. k -> BitAddresses] :
    /\ PushesAnywhere \/ SplitsRight(DIM * k, FreeBits - DIM * k)
    /\ blocks' = PushBackBitset(BlocksOf(s), DIM * k, blocks, FreeBits - DIM * k)
    /\ value' = value \o s

RemoveAddress ==
  /\ value # <<>>
  /\ blocks' = ClearValue(blocks, FreeBits)
  /\ value' = Front(value)

RemoveAddresses ==
  \E k \in 1 .. Len(value) :
    /\ blocks' = RemoveHighest(blocks, FreeBits + DIM * k, DIM * k)
    /\ value' = SubSeq(value, 1, Len(value) - k)

Next == FromLongs \/ PushAddress \/ PushPrefix \/ RemoveAddress \/ RemoveAddresses

-----------------------------------------------------------------------------
(* After any additions and removals the blocks hold exactly the addresses  *)
(* that are left, and nothing below them, although addresses lie across    *)
(* blocks and only whole blocks can be written.  (With PushesAnywhere it   *)
(* states what pushBackBitset is drawn to do, and does not.)               *)
BlocksExact ==
  /\ blocks = BlocksOf(value \o [i \in 1 .. WIDTH - Len(value) |-> 0])
  /\ CheckRangeUnset(blocks, FreeBits, 0)

(* duplicateBits copies the first k addresses of the lowest n.             *)
Copied(n, k) ==
  DuplicateBits(blocks, DIM * n, k) = BlocksOf(SubSeq(value, WIDTH - n + 1, WIDTH - n + k))

(* duplicateBits copies the addresses it is asked for, of any number, as   *)
(* flushToSubtree expects of the prefix of a new node.                     *)
PrefixCopied == Len(value) = WIDTH => \A n \in 1 .. WIDTH : \A k \in 1 .. n : Copied(n, k)

(* Strings that agree with the value up to some bit. *)
Others ==
  {value} \cup
  {[value EXCEPT ![i] = IF (@ \div 2^d) % 2 = 0 THEN @ + 2^d ELSE @ - 2^d] :
     i \in 1 .. WIDTH, d \in Dims}
NCommon(s, t) == Len(LongestCommonPrefix({s, t}))

(* Every way to read, copy and compare parts of two full values agrees     *)
(* with their addresses, at all offsets of the parts within the blocks;    *)
(* except that duplicateBits may not fill its last block (PrefixCopied).   *)
ReadsExact ==
  Len(value) = WIDTH =>
    /\ \A i \in 1 .. WIDTH : InterleaveBits(blocks, i - 1, NBits) = value[i]
    /\ \A d \in Dims : ToLongs(blocks)[d] = DimValue(value, d)
    /\ \A k \in 1 .. WIDTH :
         /\ DuplicateHighest(blocks, NBits, k) = BlocksOf(SubSeq(value, 1, k))
         /\ DuplicateLowest(blocks, DIM * k) = BlocksOf(SubSeq(value, WIDTH - k + 1, WIDTH))
         /\ k < WIDTH => WithoutHighest(blocks, NBits, k) = BlocksOf(SubSeq(value, k + 1, WIDTH))
         /\ \A n \in k .. WIDTH : (DIM * k) % BlockBits # 0 => Copied(n, k)
         /\ \A j \in 0 .. k - 1 :
              CheckRangeUnset(blocks, DIM * k, DIM * j)
                = (\A i \in j .. k - 1 : value[WIDTH - i] = 0)
    /\ \A o \in Others : LET other == BlocksOf(o) IN
         /\ CompareFull(blocks, NBits, other) = NCommon(value, o)
         /\ \A from \in 1 .. WIDTH - 1 : \A to \in from + 1 .. WIDTH :
              LET s == SubSeq(value, from + 1, to)
                  t == SubSeq(o, from + 1, to)
              IN  Compare(blocks, NBits, from, to, BlocksOf(t), DIM * (to - from))
                    = [same |-> s = t, n |-> NCommon(s, t)]
         /\ \A from \in 1 .. WIDTH - 1 :
              LET s == SubSeq(value, from + 1, WIDTH)
                  t == SubSeq(o, from + 1, WIDTH)
                  k == NCommon(s, t)
              IN  LongestCommonAddresses(blocks, NBits, from, BlocksOf(t), DIM * Len(t))
                    = IF k = 0 THEN <<>> ELSE BlocksOf(SubSeq(t, 1, k))
         /\ \A n \in 1 .. WIDTH : \A skip \in 0 .. n - 1 :
              LET part(s) == SubSeq(s, WIDTH - n + 1, WIDTH - skip)
                  r == CompareSmallerEqual(blocks, other, DIM * n, DIM * skip, Dims)
              IN  /\ r.smaller = {d \in Dims : DimValue(part(value), d) < DimValue(part(o), d)}
                  /\ r.equal = {d \in Dims : DimValue(part(value), d) = DimValue(part(o), d)}
=============================================================================
