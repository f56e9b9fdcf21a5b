-------------------------- MODULE PHTreeNodesProofs --------------------------
(***************************************************************************)
(* What the operators of PHTreeNodes do to a tree of nodes, proved for     *)
(* every number of dimensions, key width and set of entries.               *)
(***************************************************************************)
EXTENDS PHTreeNodes, DataLemmas

-----------------------------------------------------------------------------
(* Node ids and ways to a key *)
NodeIds == Seq(HCAddresses) \X Nat

(* Node n is on the way to k, and k leads to address a in it. *)
On(n, k) == IsPrefix(Path(n), k)
Way(p, a, k) == IsPrefix(p, k) /\ Len(p) < Len(k) /\ k[Len(p) + 1] = a
Leads(n, a, k) == Way(Path(n), a, k)

(* A finite set leaves a version free: NewId is not in use and has the     *)
(* path asked for.                                                         *)
LEMMA NewIdFresh ==
  ASSUME NEW p, NEW used, IsFiniteSet(used)
  PROVE  /\ NewId(p, used) \notin used /\ Path(NewId(p, used)) = p
         /\ NewId(p, used) \in {p} \X Nat
<1> DEFINE c == Cardinality(used)
           V == {v \in 0 .. c : <<p, v>> \notin used}
<1>1. c \in Nat /\ IsFiniteSet(0 .. c) /\ Cardinality(0 .. c) = c + 1
  <2>1. c \in Nat
    BY FS_CardinalityType
  <2> QED BY <2>1, FS_Interval
<1>2. V # {}
  <2> SUFFICES ASSUME V = {} PROVE FALSE
    OBVIOUS
  <2> DEFINE f == [v \in 0 .. c |-> <<p, v>>]
  <2>1. f \in [0 .. c -> used]
    OBVIOUS
  <2>2. c < Cardinality(0 .. c)
    BY <1>1
  <2>3. \E x, y \in 0 .. c : x # y /\ f[x] = f[y]
    <3> HIDE DEF f
    <3> QED BY <1>1, <2>1, <2>2, FS_PigeonHole
  <2> QED BY <2>3
<1>3. PICK v \in V : \A u \in V : v <= u
  <2>1. V \in SUBSET Nat
    BY <1>1
  <2> HIDE DEF V
  <2> QED BY <1>2, <2>1, LeastNatural
<1>4. \A w \in 0 .. v - 1 : <<p, w>> \in used
  BY <1>1, <1>3
<1>5. NewId(p, used) \notin used /\ NewId(p, used) \in {p} \X Nat
  BY <1>1, <1>3, <1>4 DEF NewId
<1> QED BY <1>5 DEF Path

(* A key has WIDTH hypercube addresses.                                    *)
LEMMA KeyType ==
  ASSUME NEW e \in Entries
  PROVE  Key[e] \in Seq(HCAddresses) /\ Len(Key[e]) = WIDTH /\ WIDTH \in Nat
<1>1. Key[e] \in [1 .. WIDTH -> HCAddresses] /\ WIDTH \in Nat
  BY KeyAssumption, DimAssumption
<1> QED BY <1>1

(* Contents of different kinds differ. *)
LEMMA Kinds ==
  /\ Empty.kind = "empty"
  /\ \A e : Suffix(e).kind = "suffix" /\ Suffix(e).entry = e
  /\ \A m : Sub(m).kind = "subnode" /\ Sub(m).node = m
  /\ \A s : Buf(s).kind = "buffer" /\ Buf(s).slot = s
  BY DEF Empty, Suffix, Sub, Buf

-----------------------------------------------------------------------------
(* The paths of the nodes for a set of entries *)

(* The entries of a buffer at address a of node n. *)
Together(es, n, a) ==
  /\ es \subseteq Entries /\ n \in NodeIds
  /\ \A e, f \in es : Key[e] = Key[f] => e = f
  /\ \E e, f \in es : e # f
  /\ \A e \in es : Leads(n, a, Key[e])

(* Entries e and f part behind path p. *)
Part(p, e, f) ==
  /\ IsPrefix(p, Key[e]) /\ IsPrefix(p, Key[f]) /\ Len(p) < WIDTH
  /\ Key[e][Len(p) + 1] # Key[f][Len(p) + 1]

(* Two of the entries part behind every branch path.                       *)
LEMMA BranchPart ==
  ASSUME NEW es \in SUBSET Entries, \A e, f \in es : Key[e] = Key[f] => e = f
  PROVE  \A p \in BranchPaths(es) :
           p \in Seq(HCAddresses) /\ Len(p) < WIDTH /\ \E e, f \in es : Part(p, e, f)
<1> SUFFICES ASSUME NEW p \in BranchPaths(es)
             PROVE  p \in Seq(HCAddresses) /\ Len(p) < WIDTH /\ \E e, f \in es : Part(p, e, f)
  OBVIOUS
<1>1. PICK e \in es : \E f \in es \ {e} : p = LongestCommonPrefix({Key[e], Key[f]})
  BY DEF BranchPaths
<1>2. PICK f \in es \ {e} : p = LongestCommonPrefix({Key[e], Key[f]})
  BY <1>1
<1>3. f \in es /\ Key[e] # Key[f]
  OBVIOUS
<1>4. /\ Key[e] \in Seq(HCAddresses) /\ Len(Key[e]) = WIDTH
      /\ Key[f] \in Seq(HCAddresses) /\ Len(Key[f]) = WIDTH
  BY KeyType
<1> DEFINE q == LongestCommonPrefix({Key[e], Key[f]})
<1>5. /\ q \in Seq(HCAddresses) /\ Len(q) < WIDTH /\ IsPrefix(q, Key[e])
      /\ IsPrefix(q, Key[f]) /\ Key[e][Len(q) + 1] # Key[f][Len(q) + 1]
  <2> DEFINE x == Key[e]
             y == Key[f]
  <2>1. x \in Seq(HCAddresses) /\ y \in Seq(HCAddresses) /\ Len(x) = Len(y) /\ x # y
    BY <1>3, <1>4
  <2> HIDE DEF x, y
  <2>2. LET r == LongestCommonPrefix({x, y}) IN
           /\ r \in Seq(HCAddresses) /\ Len(r) < Len(x) /\ IsPrefix(r, x) /\ IsPrefix(r, y)
           /\ x[Len(r) + 1] # y[Len(r) + 1]
    BY <2>1, CommonOfTwo
  <2> QED BY <1>4, <2>2 DEF x, y
<1> HIDE DEF q
<1> QED BY <1>2, <1>5 DEF Part, q

(* Where two sequences differ ends every common prefix.                    *)
LEMMA PartLength ==
  ASSUME NEW x \in Seq(HCAddresses), NEW y \in Seq(HCAddresses),
         NEW p \in Seq(HCAddresses), NEW q \in Seq(HCAddresses),
         IsPrefix(p, x), IsPrefix(p, y), x[Len(q) + 1] # y[Len(q) + 1]
  PROVE  ~(Len(q) < Len(p))
<1> SUFFICES ASSUME Len(q) < Len(p) PROVE FALSE
  OBVIOUS
<1>1. Len(q) + 1 \in 1 .. Len(p)
  OBVIOUS
<1>2. x[Len(q) + 1] = p[Len(q) + 1]
  BY <1>1, PrefixIff
<1>3. y[Len(q) + 1] = p[Len(q) + 1]
  BY <1>1, PrefixIff
<1> QED BY <1>2, <1>3

(* Where two entries part there is a branch path.                          *)
LEMMA PartBranch ==
  ASSUME NEW es \in SUBSET Entries, NEW e \in es, NEW f \in es,
         NEW p \in Seq(HCAddresses), Part(p, e, f)
  PROVE  p \in BranchPaths(es)
<1> DEFINE q == LongestCommonPrefix({Key[e], Key[f]})
<1>1. /\ Key[e] \in Seq(HCAddresses) /\ Len(Key[e]) = WIDTH
      /\ Key[f] \in Seq(HCAddresses) /\ Len(Key[f]) = WIDTH
  BY KeyType
<1>2. Key[e] # Key[f] /\ f \in es \ {e}
  BY DEF Part
<1>3. /\ q \in Seq(HCAddresses) /\ Len(q) < WIDTH /\ IsPrefix(q, Key[e])
      /\ IsPrefix(q, Key[f]) /\ Key[e][Len(q) + 1] # Key[f][Len(q) + 1]
  BY <1>1, <1>2, CommonOfTwo
<1> HIDE DEF q
<1>4. Len(p) \in Nat /\ Len(q) \in Nat
  BY <1>3
<1>5. /\ IsPrefix(p, Key[e]) /\ IsPrefix(p, Key[f]) /\ Len(p) < WIDTH
      /\ Key[e][Len(p) + 1] # Key[f][Len(p) + 1]
  BY DEF Part
<1>6. ~(Len(q) < Len(p)) /\ ~(Len(p) < Len(q))
  BY <1>1, <1>3, <1>5, PartLength
<1>7. Len(p) = Len(q)
  BY <1>4, <1>6
<1>8. p = q
  BY <1>1, <1>3, <1>7, PrefixOrder, PrefixSame DEF Part
<1>9. p \in {LongestCommonPrefix({Key[e], Key[g]}) : g \in es \ {e}}
  BY <1>2, <1>8 DEF q
<1> QED BY <1>9 DEF BranchPaths

(* Finitely many entries have finitely many branch paths.                  *)
LEMMA BranchFinite ==
  ASSUME NEW es \in SUBSET Entries
  PROVE  IsFiniteSet(BranchPaths(es))
<1> DEFINE path == [p \in es \X es |-> LongestCommonPrefix({Key[p[1]], Key[p[2]]})]
           all == {path[p] : p \in es \X es}
<1>1. IsFiniteSet(es \X es)
  <2>1. IsFiniteSet(es)
    BY KeyAssumption, FS_Subset
  <2> QED BY <2>1, FS_Product
<1>2. path \in Surjection(es \X es, all)
  BY DEF Surjection
<1>3. IsFiniteSet(all)
  <2> HIDE DEF path
  <2> QED BY <1>1, <1>2, FS_Surjection
<1>4. BranchPaths(es) \subseteq all
  <2>1. ASSUME NEW e \in es, NEW f \in es \ {e}
        PROVE  LongestCommonPrefix({Key[e], Key[f]}) \in all
    <3>1. path[<<e, f>>] = LongestCommonPrefix({Key[e], Key[f]}) /\ <<e, f>> \in es \X es
      OBVIOUS
    <3> QED BY <3>1
  <2> HIDE DEF all
  <2>2. \A e \in es : {LongestCommonPrefix({Key[e], Key[f]}) : f \in es \ {e}} \subseteq all
    BY <2>1
  <2> QED BY <2>2 DEF BranchPaths
<1> HIDE DEF all
<1> QED BY <1>3, <1>4, FS_Subset

(* The top path of entries that differ is a branch path on the way to all  *)
(* of them, and the longest.                                               *)
LEMMA Top ==
  ASSUME NEW es \in SUBSET Entries, \A e, f \in es : Key[e] = Key[f] => e = f,
         NEW S \in SUBSET es, \E e, f \in S : e # f
  PROVE  /\ TopPath(S) \in BranchPaths(es) /\ TopPath(S) \in Seq(HCAddresses)
         /\ Len(TopPath(S)) < WIDTH
         /\ \A e \in S : IsPrefix(TopPath(S), Key[e])
         /\ \A q \in Seq(HCAddresses) : (\A e \in S : IsPrefix(q, Key[e])) => IsPrefix(q, TopPath(S))
<1> DEFINE p == TopPath(S)
           K == {Key[e] : e \in S}
<1>1. K \in SUBSET Seq(HCAddresses) /\ K # {}
  BY KeyType
<1>2. /\ p \in Seq(HCAddresses)
      /\ \A t \in K : IsPrefix(p, t)
      /\ \A q \in Seq(HCAddresses) : (\A t \in K : IsPrefix(q, t)) => IsPrefix(q, p)
  <2> HIDE DEF K
  <2> QED BY <1>1, CommonPrefix DEF TopPath, K
<1> HIDE DEF p
<1>3. \A e \in S : IsPrefix(p, Key[e])
  BY <1>2
<1>4. ASSUME NEW q \in Seq(HCAddresses), \A e \in S : IsPrefix(q, Key[e])
      PROVE  IsPrefix(q, p)
  BY <1>2, <1>4
<1>5. PICK e \in S, f \in S : e # f
  OBVIOUS
<1>6. Key[e] # Key[f]
  BY <1>5
<1>7. Len(p) \in Nat /\ Len(p) < WIDTH
  <2>1. Len(p) \in Nat /\ Len(p) <= WIDTH /\ WIDTH \in Nat
    BY <1>2, <1>3, KeyType, PrefixIff
  <2>2. Len(p) # WIDTH
    BY <1>2, <1>3, <1>6, KeyType, PrefixSame
  <2> QED BY <2>1, <2>2
<1>8. \E g, h \in S : Key[g][Len(p) + 1] # Key[h][Len(p) + 1]
  <2> SUFFICES ASSUME \A g, h \in S : Key[g][Len(p) + 1] = Key[h][Len(p) + 1] PROVE FALSE
    OBVIOUS
  <2> DEFINE a == Key[e][Len(p) + 1]
             q == Append(p, a)
  <2>1. a \in HCAddresses
    BY <1>7, KeyType
  <2>2. q \in Seq(HCAddresses) /\ Len(q) = Len(p) + 1
    BY <1>2, <2>1
  <2>3. \A g \in S : IsPrefix(q, Key[g])
    <3> TAKE g \in S
    <3>1. Key[g] \in Seq(HCAddresses) /\ Len(Key[g]) = WIDTH
      BY KeyType
    <3>2. IsPrefix(p, Key[g]) /\ Key[g][Len(p) + 1] = a
      BY <1>3
    <3> HIDE DEF a
    <3> QED BY <1>2, <1>7, <2>1, <3>1, <3>2, PrefixAppend
  <2>4. IsPrefix(q, p)
    BY <1>4, <2>2, <2>3
  <2>5. Len(q) <= Len(p)
    <3> HIDE DEF q
    <3> QED BY <1>2, <2>2, <2>4, PrefixIff
  <2> QED BY <1>7, <2>2, <2>5
<1>9. PICK g \in S, h \in S : Key[g][Len(p) + 1] # Key[h][Len(p) + 1]
  BY <1>8
<1>10. Part(p, g, h)
  BY <1>3, <1>7, <1>9 DEF Part
<1>11. p \in BranchPaths(es)
  BY <1>2, <1>10, PartBranch
<1> QED BY <1>2, <1>3, <1>4, <1>7, <1>11 DEF p

(* The entries below an address are those whose keys lead through it.      *)
LEMMA BelowIs ==
  ASSUME NEW es \in SUBSET Entries, NEW p \in Seq(HCAddresses), NEW b \in HCAddresses
  PROVE  Below(p, b, es) = {e \in es : Way(p, b, Key[e])}
<1>1. ASSUME NEW e \in es PROVE IsPrefix(Append(p, b), Key[e]) <=> Way(p, b, Key[e])
  <2>1. Key[e] \in Seq(HCAddresses)
    BY KeyType
  <2> QED BY <2>1, PrefixAppend DEF Way
<1> QED BY <1>1 DEF Below

(* What Together says, for use. *)
LEMMA TogetherFacts ==
  ASSUME NEW es, NEW n, NEW a, Together(es, n, a)
  PROVE  /\ es \in SUBSET Entries /\ (\A e, f \in es : Key[e] = Key[f] => e = f)
         /\ (\E e, f \in es : e # f) /\ Path(n) \in Seq(HCAddresses)
         /\ \A e \in es : Key[e] \in Seq(HCAddresses) /\ Len(Key[e]) = WIDTH /\ Way(Path(n), a, Key[e])
  BY KeyType DEF Together, Leads, Path, NodeIds

(* A way through two addresses goes through the upper one. *)
LEMMA WayThrough ==
  ASSUME NEW A, NEW p \in Seq(A), NEW q \in Seq(A), NEW k \in Seq(A), NEW a
  PROVE  /\ Way(p, a, q) /\ IsPrefix(q, k) => Way(p, a, k)
         /\ Way(p, a, k) /\ IsPrefix(q, k) /\ Len(p) < Len(q) => Way(p, a, q)
<1>1. /\ IsPrefix(q, k) <=> Len(q) <= Len(k) /\ \A i \in 1 .. Len(q) : q[i] = k[i]
      /\ IsPrefix(p, q) <=> Len(p) <= Len(q) /\ \A i \in 1 .. Len(p) : p[i] = q[i]
      /\ IsPrefix(p, k) <=> Len(p) <= Len(k) /\ \A i \in 1 .. Len(p) : p[i] = k[i]
  BY PrefixIff
<1> QED BY <1>1 DEF Way

(* The subtree's node at path q hangs under the longest other branch path  *)
(* on the way to q, or under n.                                            *)
LEMMA AboveIs ==
  ASSUME NEW es, NEW n, NEW a, Together(es, n, a), NEW q \in BranchPaths(es),
         NEW p \in BranchPaths(es) \cup {Path(n)}, IsPrefix(p, q), p # q,
         \A r \in BranchPaths(es) \cup {Path(n)} : IsPrefix(r, q) /\ r # q => Len(r) <= Len(p)
  PROVE  PathAbove(q, es, n) = p
<1> DEFINE above == {r \in BranchPaths(es) \cup {Path(n)} : IsStrictPrefix(r, q)}
           x == CHOOSE r \in above : \A s \in above : Len(s) <= Len(r)
<1>1. p \in above /\ \A s \in above : Len(s) <= Len(p)
  BY DEF IsStrictPrefix
<1>2. x \in above /\ \A s \in above : Len(s) <= Len(x)
  BY <1>1
<1>3. p \in Seq(HCAddresses) /\ x \in Seq(HCAddresses) /\ q \in Seq(HCAddresses)
  <2>1. \A r \in BranchPaths(es) \cup {Path(n)} : r \in Seq(HCAddresses)
    BY TogetherFacts, BranchPart
  <2>2. x \in BranchPaths(es) \cup {Path(n)}
    BY <1>2
  <2> HIDE DEF x
  <2> QED BY <2>1, <2>2
<1>4. IsPrefix(x, q)
  BY <1>2 DEF IsStrictPrefix
<1>5. Len(x) <= Len(p) /\ Len(p) <= Len(x)
  BY <1>1, <1>2
<1> HIDE DEF x
<1>6. Len(x) = Len(p)
  BY <1>3, <1>5
<1>7. x = p
  BY <1>3, <1>4, <1>6, PrefixOrder, PrefixSame
<1> QED BY <1>7 DEF PathAbove, x

(* Entries that part below address b of path p: their top path lies behind *)
(* b, and no other branch path lies between it and p.                      *)
LEMMA NextPath ==
  ASSUME NEW es, NEW n, NEW a, Together(es, n, a),
         NEW p \in Seq(HCAddresses), NEW b \in HCAddresses, Len(p) < WIDTH,
         \E e, f \in Below(p, b, es) : e # f
  PROVE  LET q == TopPath(Below(p, b, es)) IN
           /\ q \in BranchPaths(es) /\ Way(p, b, q)
           /\ \A r \in BranchPaths(es) : Way(p, b, r) => IsPrefix(q, r)
<1> DEFINE S == Below(p, b, es)
           q == TopPath(S)
<1>1. /\ es \in SUBSET Entries /\ \A e, f \in es : Key[e] = Key[f] => e = f
      /\ \A e \in es : Key[e] \in Seq(HCAddresses) /\ Len(Key[e]) = WIDTH
  BY TogetherFacts
<1>2. S = {e \in es : Way(p, b, Key[e])}
  BY <1>1, BelowIs
<1>3. /\ q \in BranchPaths(es) /\ q \in Seq(HCAddresses) /\ Len(q) < WIDTH
      /\ \A e \in S : IsPrefix(q, Key[e])
      /\ \A r \in Seq(HCAddresses) : (\A e \in S : IsPrefix(r, Key[e])) => IsPrefix(r, q)
  BY <1>1, <1>2, Top
<1> HIDE DEF q
<1>4. Way(p, b, q)
  <2> DEFINE pb == Append(p, b)
  <2>1. pb \in Seq(HCAddresses)
    OBVIOUS
  <2>2. \A e \in S : IsPrefix(pb, Key[e])
    BY DEF Below
  <2>3. IsPrefix(pb, q)
    <3> HIDE DEF pb
    <3> QED BY <1>3, <2>1, <2>2
  <2> QED BY <1>3, <2>3, PrefixAppend DEF Way
<1>5. ASSUME NEW r \in BranchPaths(es), Way(p, b, r)
      PROVE  IsPrefix(q, r)
  <2>1. r \in Seq(HCAddresses) /\ Len(r) < WIDTH /\ \E e, f \in es : Part(r, e, f)
    BY <1>1, BranchPart
  <2>2. PICK e \in es, f \in es : Part(r, e, f)
    BY <2>1
  <2>3. Way(p, b, Key[e]) /\ Way(p, b, Key[f])
    BY <1>1, <1>5, <2>1, <2>2, WayThrough DEF Part
  <2>4. IsPrefix(q, Key[e]) /\ IsPrefix(q, Key[f])
    BY <1>2, <1>3, <2>3
  <2>5. Len(q) <= Len(r)
    <3>1. SUFFICES ASSUME Len(r) < Len(q) PROVE FALSE
      BY <1>3, <2>1
    <3>2. Key[e][Len(r) + 1] = q[Len(r) + 1] /\ Key[f][Len(r) + 1] = q[Len(r) + 1]
      <4>1. Len(r) + 1 \in 1 .. Len(q)
        BY <1>3, <2>1, <3>1
      <4> QED BY <1>1, <1>3, <2>4, <4>1, PrefixIff
    <3> QED BY <2>2, <3>2 DEF Part
  <2> QED BY <1>1, <1>3, <2>1, <2>2, <2>4, <2>5, PrefixOrder DEF Part
<1> QED BY <1>3, <1>4, <1>5 DEF q

(* All entries of the buffer are below its address. *)
LEMMA AllBelow ==
  ASSUME NEW es, NEW n, NEW a, Together(es, n, a)
  PROVE  a \in HCAddresses /\ Below(Path(n), a, es) = es /\ Len(Path(n)) \in Nat /\ Len(Path(n)) < WIDTH
<1>1. PICK e \in es : TRUE
  BY TogetherFacts
<1>2. /\ Key[e] \in Seq(HCAddresses) /\ Len(Key[e]) = WIDTH /\ Way(Path(n), a, Key[e])
      /\ Path(n) \in Seq(HCAddresses)
  BY <1>1, TogetherFacts
<1>3. a \in HCAddresses /\ Len(Path(n)) \in Nat /\ Len(Path(n)) < WIDTH
  BY <1>2 DEF Way
<1>4. Below(Path(n), a, es) = {f \in es : Way(Path(n), a, Key[f])}
  BY <1>3, TogetherFacts, BelowIs
<1> QED BY <1>3, <1>4, TogetherFacts

(* Every branch path lies behind the buffer's address. *)
LEMMA BranchBehind ==
  ASSUME NEW es, NEW n, NEW a, Together(es, n, a), NEW p \in BranchPaths(es)
  PROVE  /\ p \in Seq(HCAddresses) /\ Len(p) < WIDTH /\ Way(Path(n), a, p)
         /\ IsPrefix(TopPath(es), p)
<1>1. p \in Seq(HCAddresses) /\ Len(p) < WIDTH /\ \E e, f \in es : Part(p, e, f)
  BY TogetherFacts, BranchPart
<1>2. PICK e \in es, f \in es : Part(p, e, f)
  BY <1>1
<1>3. /\ Path(n) \in Seq(HCAddresses)
      /\ Key[e] \in Seq(HCAddresses) /\ Len(Key[e]) = WIDTH /\ Way(Path(n), a, Key[e])
      /\ Key[f] \in Seq(HCAddresses) /\ Len(Key[f]) = WIDTH /\ Way(Path(n), a, Key[f])
  BY TogetherFacts
<1>4. Len(Path(n)) < Len(p)
  <2>1. SUFFICES ASSUME Len(p) <= Len(Path(n)) PROVE Key[e][Len(p) + 1] = Key[f][Len(p) + 1]
    BY <1>1, <1>2, <1>3 DEF Part
  <2>2. CASE Len(p) = Len(Path(n))
    BY <1>3, <2>2 DEF Way
  <2>3. CASE Len(p) < Len(Path(n))
    <3>1. Len(p) + 1 \in 1 .. Len(Path(n))
      BY <1>1, <1>3, <2>3
    <3> QED BY <1>3, <3>1, PrefixIff DEF Way
  <2> QED BY <1>1, <1>3, <2>1, <2>2, <2>3
<1>5. Way(Path(n), a, p)
  BY <1>1, <1>2, <1>3, <1>4, WayThrough DEF Part
<1>6. IsPrefix(TopPath(es), p)
  BY <1>5, AllBelow, TogetherFacts, NextPath
<1> QED BY <1>1, <1>5, <1>6

(* What a node of the subtree has at an address. *)
LEMMA ContentIs ==
  ASSUME NEW es \in SUBSET Entries, NEW p, NEW b, NEW used
  PROVE  LET S == Below(p, b, es) IN
           \/ S = {} /\ SubtreeContent(p, b, es, used) = Empty
           \/ \E e \in es : S = {e} /\ SubtreeContent(p, b, es, used) = Suffix(e)
           \/ /\ \E e, f \in S : e # f
              /\ SubtreeContent(p, b, es, used) = Sub(NewId(TopPath(S), used))
<1> DEFINE S == Below(p, b, es)
<1>1. S \subseteq es /\ IsFiniteSet(S)
  <2>1. S \subseteq Entries
    BY DEF Below
  <2> QED BY <2>1, KeyAssumption, FS_Subset DEF Below
<1>2. Cardinality(S) = 1 <=> \E x : S = {x}
  <2> HIDE DEF S
  <2> QED BY <1>1, FS_Singleton
<1>3. SubtreeContent(p, b, es, used) =
        IF S = {} THEN Empty
        ELSE IF Cardinality(S) = 1 THEN Suffix(CHOOSE e \in S : TRUE)
        ELSE Sub(NewId(TopPath(S), used))
  BY DEF SubtreeContent
<1> HIDE DEF S
<1>4. CASE S = {}
  BY <1>3, <1>4 DEF S
<1>5. CASE \E x : S = {x}
  <2>1. PICK x : S = {x}
    BY <1>5
  <2>2. (CHOOSE e \in S : TRUE) = x /\ x \in es /\ S # {} /\ Cardinality(S) = 1
    BY <1>1, <1>2, <2>1
  <2>3. SubtreeContent(p, b, es, used) = Suffix(x)
    BY <1>3, <2>2
  <2> QED BY <2>1, <2>2, <2>3 DEF S
<1>6. CASE S # {} /\ ~ \E x : S = {x}
  <2>1. \E e, f \in S : e # f
    BY <1>6
  <2>2. SubtreeContent(p, b, es, used) = Sub(NewId(TopPath(S), used))
    BY <1>2, <1>3, <1>6
  <2> QED BY <2>1, <2>2 DEF S
<1> QED BY <1>4, <1>5, <1>6

(* The ids of the subtree's nodes: fresh, and one for every branch path.   *)
LEMMA SubtreeIds ==
  ASSUME NEW es, NEW n, NEW a, Together(es, n, a), NEW used, IsFiniteSet(used)
  PROVE  /\ IsFiniteSet(DOMAIN SubtreeFor(es, n, used))
         /\ \A p \in BranchPaths(es) : NewId(p, used) \in DOMAIN SubtreeFor(es, n, used)
                                       /\ Path(NewId(p, used)) = p
         /\ \A m \in DOMAIN SubtreeFor(es, n, used) :
              /\ m \in NodeIds /\ m \notin used
              /\ Path(m) \in BranchPaths(es) /\ m = NewId(Path(m), used)
<1> DEFINE B == BranchPaths(es)
           f == [p \in B |-> NewId(p, used)]
           ids == {NewId(p, used) : p \in B}
<1>1. DOMAIN SubtreeFor(es, n, used) = ids
  BY DEF SubtreeFor
<1>2. f \in Surjection(B, ids)
  BY DEF Surjection
<1>3. IsFiniteSet(B)
  BY TogetherFacts, BranchFinite
<1>4. IsFiniteSet(ids)
  <2> HIDE DEF f, ids, B
  <2> QED BY <1>2, <1>3, FS_Surjection
<1>5. ASSUME NEW p \in B
      PROVE  /\ NewId(p, used) \notin used /\ Path(NewId(p, used)) = p
             /\ NewId(p, used) \in NodeIds /\ NewId(p, used) \in ids
  <2>1. p \in Seq(HCAddresses)
    BY BranchBehind
  <2>2. /\ NewId(p, used) \notin used /\ Path(NewId(p, used)) = p
        /\ NewId(p, used) \in {p} \X Nat
    BY NewIdFresh
  <2> QED BY <2>1, <2>2 DEF NodeIds
<1>6. ASSUME NEW m \in ids
      PROVE  m \in NodeIds /\ m \notin used /\ Path(m) \in B /\ m = NewId(Path(m), used)
  <2>1. PICK p \in B : m = NewId(p, used)
    OBVIOUS
  <2> QED BY <1>5, <2>1
<1> QED BY <1>1, <1>4, <1>5, <1>6

(* The parts of its nodes. *)
LEMMA SubtreeNode ==
  ASSUME NEW es, NEW n, NEW used, NEW m \in DOMAIN SubtreeFor(es, n, used), NEW b \in HCAddresses
  PROVE  SubtreeFor(es, n, used)[m].cont[b] = SubtreeContent(Path(m), b, es, used)
  BY DEF SubtreeFor, BuildNode

(* The prefix of a node of the subtree is what lies between it and the     *)
(* node above.                                                             *)
LEMMA SubtreePrefix ==
  ASSUME NEW es, NEW n, NEW used, NEW m \in DOMAIN SubtreeFor(es, n, used)
  PROVE  SubtreeFor(es, n, used)[m].prefix = Len(Path(m)) - Len(PathAbove(Path(m), es, n)) - 1
  BY DEF SubtreeFor, BuildNode

(* The subtree's nodes come from BuildNode.                                *)
LEMMA SubtreeBuilt ==
  ASSUME NEW es, NEW n, NEW used
  PROVE  \A m \in DOMAIN SubtreeFor(es, n, used) :
           \E p, c : SubtreeFor(es, n, used)[m] = BuildNode(p, c)
  BY DEF SubtreeFor

(* The node at the top hangs at the buffer's place. *)
LEMMA SubtreeTop ==
  ASSUME NEW es, NEW n, NEW a, Together(es, n, a), NEW used, IsFiniteSet(used)
  PROVE  LET top == NewId(TopPath(es), used)
             T == SubtreeFor(es, n, used) IN
           /\ top \in DOMAIN T
           /\ \A m \in DOMAIN T : Leads(n, a, Path(m)) /\ IsPrefix(Path(top), Path(m))
           /\ T[top].prefix = Len(Path(top)) - Len(Path(n)) - 1
<1> DEFINE q == TopPath(es)
           top == NewId(q, used)
           T == SubtreeFor(es, n, used)
<1>1. q \in BranchPaths(es) /\ Way(Path(n), a, q)
  BY AllBelow, TogetherFacts, NextPath
<1>2. top \in DOMAIN T /\ Path(top) = q
  BY <1>1, SubtreeIds
<1>3. \A m \in DOMAIN T : Leads(n, a, Path(m)) /\ IsPrefix(q, Path(m))
  BY SubtreeIds, BranchBehind DEF Leads
<1>4. PathAbove(q, es, n) = Path(n)
  <2>1. IsPrefix(Path(n), q) /\ Path(n) # q
    BY <1>1 DEF Way
  <2>2. ASSUME NEW r \in BranchPaths(es) \cup {Path(n)}, IsPrefix(r, q), r # q
        PROVE  Len(r) <= Len(Path(n))
    <3>1. CASE r = Path(n)
      BY <3>1, AllBelow
    <3>2. CASE r \in BranchPaths(es)
      <4>1. r \in Seq(HCAddresses) /\ q \in Seq(HCAddresses) /\ IsPrefix(q, r)
        BY <1>1, <3>2, BranchBehind
      <4>2. Len(r) = Len(q)
        BY <2>2, <4>1, PrefixIff
      <4>3. r = q
        BY <2>2, <4>1, <4>2, PrefixSame
      <4> QED BY <2>2, <4>3
    <3> QED BY <3>1, <3>2
  <2> QED BY <1>1, <2>1, <2>2, AboveIs
<1>5. T[top].prefix = Len(q) - Len(Path(n)) - 1
  <2>1. T[top].prefix = Len(Path(top)) - Len(PathAbove(Path(top), es, n)) - 1
    <3> HIDE DEF top
    <3> QED BY <1>2, SubtreePrefix
  <2> HIDE DEF q, top, T
  <2> QED BY <1>2, <1>4, <2>1
<1> QED BY <1>2, <1>3, <1>5

(* A subnode of a node of the subtree is one of the subtree, and lies      *)
(* behind its address with just its prefix in between.                     *)
LEMMA SubtreeSubs ==
  ASSUME NEW es, NEW n, NEW a, Together(es, n, a), NEW used, IsFiniteSet(used),
         NEW m \in DOMAIN SubtreeFor(es, n, used), NEW b \in HCAddresses, NEW k,
         SubtreeFor(es, n, used)[m].cont[b] = Sub(k)
  PROVE  /\ k \in DOMAIN SubtreeFor(es, n, used) /\ Leads(m, b, Path(k))
         /\ Path(k) = TopPath(Below(Path(m), b, es))
         /\ Len(Path(k)) = Len(Path(m)) + 1 + SubtreeFor(es, n, used)[k].prefix
         /\ SubtreeFor(es, n, used)[k].prefix = Len(Path(k)) - Len(Path(m)) - 1
<1> DEFINE p == Path(m)
           S == Below(p, b, es)
           q == TopPath(S)
<1>1. /\ p \in BranchPaths(es) /\ p \in Seq(HCAddresses) /\ Len(p) \in Nat /\ Len(p) < WIDTH
      /\ Way(Path(n), a, p)
  BY SubtreeIds, BranchBehind
<1>2. SubtreeContent(p, b, es, used) = Sub(k)
  BY SubtreeNode
<1>3. (\E e, f \in S : e # f) /\ Sub(k) = Sub(NewId(q, used))
  <2>1. \/ S = {} /\ SubtreeContent(p, b, es, used) = Empty
        \/ \E e \in es : S = {e} /\ SubtreeContent(p, b, es, used) = Suffix(e)
        \/ /\ \E e, f \in S : e # f
           /\ SubtreeContent(p, b, es, used) = Sub(NewId(q, used))
    <3>1. es \in SUBSET Entries
      BY TogetherFacts
    <3> HIDE DEF p
    <3> QED BY <3>1, ContentIs, Zenon
  <2> HIDE DEF S, p, q
  <2> QED BY <1>2, <2>1, Kinds
<1>4. k = NewId(q, used)
  BY <1>3, Kinds
<1>5. /\ q \in BranchPaths(es) /\ Way(p, b, q)
      /\ \A r \in BranchPaths(es) : Way(p, b, r) => IsPrefix(q, r)
  BY <1>1, <1>3, NextPath
<1> HIDE DEF q
<1>6. k \in DOMAIN SubtreeFor(es, n, used) /\ Path(k) = q
  BY <1>4, <1>5, SubtreeIds
<1>7. PathAbove(q, es, n) = p
  <2>1. IsPrefix(p, q) /\ p # q /\ q \in Seq(HCAddresses)
    BY <1>5, BranchBehind DEF Way
  <2>2. ASSUME NEW r \in BranchPaths(es) \cup {Path(n)}, IsPrefix(r, q), r # q
        PROVE  Len(r) <= Len(p)
    <3>1. CASE r = Path(n)
      BY <1>1, <3>1, AllBelow DEF Way
    <3>2. CASE r \in BranchPaths(es)
      <4>1. r \in Seq(HCAddresses) /\ Len(r) \in Nat
        BY <3>2, BranchBehind
      <4>2. SUFFICES ASSUME Len(p) < Len(r) PROVE FALSE
        BY <1>1, <4>1
      <4>3. Way(p, b, r)
        BY <1>1, <1>5, <2>1, <2>2, <4>1, <4>2, WayThrough
      <4>4. IsPrefix(q, r)
        BY <1>5, <3>2, <4>3
      <4>5. Len(r) = Len(q)
        BY <2>1, <2>2, <4>1, <4>4, PrefixIff
      <4> QED BY <2>1, <2>2, <4>1, <4>5, PrefixSame
    <3> QED BY <3>1, <3>2
  <2> HIDE DEF p
  <2> QED BY <1>1, <1>5, <2>1, <2>2, AboveIs
<1>8. SubtreeFor(es, n, used)[k].prefix = Len(q) - Len(p) - 1
  <2>1. SubtreeFor(es, n, used)[k].prefix = Len(Path(k)) - Len(PathAbove(Path(k), es, n)) - 1
    BY <1>6, SubtreePrefix
  <2> HIDE DEF p
  <2> QED BY <1>6, <1>7, <2>1
<1>9. Len(q) \in Nat
  BY <1>5, BranchBehind
<1> HIDE DEF p
<1>10. Len(q) = Len(p) + 1 + SubtreeFor(es, n, used)[k].prefix
  BY <1>1, <1>8, <1>9
<1> QED BY <1>5, <1>6, <1>8, <1>10 DEF Leads, p, q

(* Where the way to a branch path r leads on from a node of the subtree    *)
(* above it, there is a subnode on the way to r.                           *)
LEMMA SubtreeToward ==
  ASSUME NEW es, NEW n, NEW a, Together(es, n, a), NEW used, IsFiniteSet(used),
         NEW m \in DOMAIN SubtreeFor(es, n, used), NEW r \in BranchPaths(es),
         IsPrefix(Path(m), r), Path(m) # r
  PROVE  /\ Len(Path(m)) < Len(r)
         /\ \E k \in DOMAIN SubtreeFor(es, n, used) :
              /\ SubtreeFor(es, n, used)[m].cont[r[Len(Path(m)) + 1]] = Sub(k)
              /\ IsPrefix(Path(k), r) /\ Len(Path(m)) < Len(Path(k))
<1> DEFINE p == Path(m)
           b == r[Len(p) + 1]
           S == Below(p, b, es)
           q == TopPath(S)
           k == NewId(q, used)
<1>1. /\ p \in BranchPaths(es) /\ p \in Seq(HCAddresses) /\ Len(p) \in Nat /\ Len(p) < WIDTH
      /\ r \in Seq(HCAddresses) /\ Len(r) \in Nat /\ Len(r) < WIDTH
  BY SubtreeIds, BranchBehind
<1> HIDE DEF p
<1>2. Len(p) < Len(r) /\ b \in HCAddresses
  <2>1. Len(p) <= Len(r) /\ Len(p) # Len(r)
    BY <1>1, PrefixIff, PrefixSame DEF p
  <2> QED BY <1>1, <2>1
<1> HIDE DEF b
<1>3. Way(p, b, r)
  BY <1>2 DEF Way, p, b
<1>4. PICK e \in es, f \in es : Part(r, e, f)
  BY TogetherFacts, BranchPart
<1>5. e \in S /\ f \in S /\ e # f
  <2>1. S = {g \in es : Way(p, b, Key[g])}
    BY <1>1, <1>2, TogetherFacts, BelowIs
  <2>2. Key[e] \in Seq(HCAddresses) /\ Key[f] \in Seq(HCAddresses)
    BY TogetherFacts
  <2>3. Way(p, b, Key[e]) /\ Way(p, b, Key[f])
    BY <1>1, <1>3, <1>4, <2>2, WayThrough DEF Part
  <2> QED BY <1>4, <2>1, <2>3 DEF Part
<1>6. q \in BranchPaths(es) /\ Way(p, b, q) /\ IsPrefix(q, r)
  BY <1>1, <1>2, <1>3, <1>5, NextPath
<1> HIDE DEF S, q
<1>7. k \in DOMAIN SubtreeFor(es, n, used) /\ Path(k) = q
  BY <1>6, SubtreeIds
<1>8. SubtreeContent(p, b, es, used) = Sub(k)
  <2>1. \/ S = {} /\ SubtreeContent(p, b, es, used) = Empty
        \/ \E g \in es : S = {g} /\ SubtreeContent(p, b, es, used) = Suffix(g)
        \/ /\ \E g, h \in S : g # h
           /\ SubtreeContent(p, b, es, used) = Sub(NewId(TopPath(S), used))
    <3>1. es \in SUBSET Entries
      BY TogetherFacts
    <3> QED BY <3>1, ContentIs, Zenon DEF S
  <2> QED BY <1>5, <2>1 DEF q
<1> HIDE DEF k
<1>9. SubtreeFor(es, n, used)[m].cont[b] = Sub(k)
  BY <1>2, <1>8, SubtreeNode DEF p
<1>10. Len(p) < Len(Path(k)) /\ IsPrefix(Path(k), r)
  BY <1>6, <1>7 DEF Way
<1> QED BY <1>2, <1>7, <1>9, <1>10 DEF p, b

(* Every node of the subtree but the top has a parent in it. *)
LEMMA SubtreeParents ==
  ASSUME NEW es, NEW n, NEW a, Together(es, n, a), NEW used, IsFiniteSet(used),
         NEW k \in DOMAIN SubtreeFor(es, n, used), k # NewId(TopPath(es), used)
  PROVE  \E m \in DOMAIN SubtreeFor(es, n, used), b \in HCAddresses :
           SubtreeFor(es, n, used)[m].cont[b] = Sub(k)
<1> DEFINE r == Path(k)
           T == SubtreeFor(es, n, used)
           C == {m \in DOMAIN T : IsPrefix(Path(m), r) /\ Path(m) # r}
           len == [m \in C |-> Len(Path(m))]
           top == NewId(TopPath(es), used)
<1>1. \A m \in DOMAIN T : /\ Path(m) \in BranchPaths(es) /\ m = NewId(Path(m), used)
                          /\ Path(m) \in Seq(HCAddresses) /\ Len(Path(m)) \in 0 .. WIDTH
  <2> TAKE m \in DOMAIN T
  <2>1. Path(m) \in BranchPaths(es) /\ m = NewId(Path(m), used)
    BY SubtreeIds
  <2>2. Path(m) \in Seq(HCAddresses) /\ Len(Path(m)) < WIDTH
    BY <2>1, BranchBehind
  <2> QED BY <2>1, <2>2, DimAssumption
<1>2. top \in DOMAIN T /\ IsPrefix(Path(top), r)
  BY SubtreeTop
<1>3. Path(top) # r
  <2>1. top = NewId(Path(top), used)
    BY <1>1, <1>2
  <2>2. k = NewId(r, used)
    BY <1>1
  <2> QED BY <2>1, <2>2
<1> HIDE DEF T, top, r
<1>4. top \in C
  BY <1>2, <1>3
<1>5. len \in [C -> 0 .. WIDTH]
  BY <1>1
<1>6. PICK m \in C : \A x \in C : len[x] <= len[m]
  <2> HIDE DEF C, len
  <2> QED BY <1>4, <1>5, LongestExists, DimAssumption
<1>7. \A x \in C : Len(Path(x)) <= Len(Path(m))
  BY <1>6
<1>8. r \in BranchPaths(es) /\ r \in Seq(HCAddresses)
  BY <1>1 DEF r, T
<1>9. /\ Len(Path(m)) < Len(r)
      /\ \E x \in DOMAIN T : /\ T[m].cont[r[Len(Path(m)) + 1]] = Sub(x)
                             /\ IsPrefix(Path(x), r) /\ Len(Path(m)) < Len(Path(x))
  BY <1>6, <1>8, SubtreeToward DEF T
<1>10. PICK x \in DOMAIN T : /\ T[m].cont[r[Len(Path(m)) + 1]] = Sub(x)
                             /\ IsPrefix(Path(x), r) /\ Len(Path(m)) < Len(Path(x))
  BY <1>9
<1>11. x \notin C
  <2>1. Len(Path(x)) \in 0 .. WIDTH /\ Len(Path(m)) \in 0 .. WIDTH
    BY <1>1, <1>6, <1>10
  <2> QED BY <1>7, <1>10, <2>1
<1>12. Path(x) = r
  BY <1>10, <1>11
<1>13. x = k
  <2>1. x = NewId(Path(x), used) /\ k = NewId(r, used)
    BY <1>1, <1>10 DEF T, r
  <2> QED BY <1>12, <2>1
<1>14. r[Len(Path(m)) + 1] \in HCAddresses
  <2>1. Len(Path(m)) \in Nat /\ Len(Path(m)) + 1 <= Len(r)
    BY <1>1, <1>6, <1>8, <1>9
  <2>2. Len(Path(m)) + 1 \in 1 .. Len(r)
    BY <1>8, <2>1
  <2> QED BY <1>8, <2>2
<1>15. m \in DOMAIN T
  BY <1>6
<1> QED BY <1>10, <1>13, <1>14, <1>15 DEF T

(* An entry in the subtree is one of the buffer's, on its lookup path.     *)
LEMMA SubtreePlaced ==
  ASSUME NEW es, NEW n, NEW a, Together(es, n, a), NEW used, IsFiniteSet(used),
         NEW m \in DOMAIN SubtreeFor(es, n, used), NEW b \in HCAddresses, NEW e,
         SubtreeFor(es, n, used)[m].cont[b] = Suffix(e)
  PROVE  e \in es /\ Leads(m, b, Key[e])
<1> DEFINE p == Path(m)
           S == Below(p, b, es)
<1>1. SubtreeContent(p, b, es, used) = Suffix(e)
  BY SubtreeNode
<1>2. p \in Seq(HCAddresses)
  BY SubtreeIds, BranchBehind
<1>3. \/ S = {} /\ SubtreeContent(p, b, es, used) = Empty
      \/ \E g \in es : S = {g} /\ SubtreeContent(p, b, es, used) = Suffix(g)
      \/ /\ \E g, h \in S : g # h
         /\ SubtreeContent(p, b, es, used) = Sub(NewId(TopPath(S), used))
  <2>1. es \in SUBSET Entries
    BY TogetherFacts
  <2> HIDE DEF p
  <2> QED BY <2>1, ContentIs, Zenon
<1> HIDE DEF S
<1>4. PICK g \in es : S = {g} /\ Suffix(e) = Suffix(g)
  BY <1>1, <1>3, Kinds
<1>5. e \in es /\ e \in S
  BY <1>4, Kinds
<1>6. S = {h \in es : Way(p, b, Key[h])}
  BY <1>2, TogetherFacts, BelowIs DEF S
<1> QED BY <1>5, <1>6 DEF Leads

(* Every entry of the buffer is in the subtree. *)
LEMMA SubtreeHolds ==
  ASSUME NEW es, NEW n, NEW a, Together(es, n, a), NEW used, IsFiniteSet(used), NEW e \in es
  PROVE  \E m \in DOMAIN SubtreeFor(es, n, used), b \in HCAddresses :
           SubtreeFor(es, n, used)[m].cont[b] = Suffix(e)
<1> DEFINE k == Key[e]
           T == SubtreeFor(es, n, used)
           C == {m \in DOMAIN T : IsPrefix(Path(m), k)}
           len == [m \in C |-> Len(Path(m))]
           top == NewId(TopPath(es), used)
<1>1. \A m \in DOMAIN T : /\ Path(m) \in BranchPaths(es)
                          /\ Path(m) \in Seq(HCAddresses) /\ Len(Path(m)) \in Nat /\ Len(Path(m)) < WIDTH
  <2> TAKE m \in DOMAIN T
  <2>1. Path(m) \in BranchPaths(es)
    BY SubtreeIds
  <2> QED BY <2>1, BranchBehind
<1>2. /\ es \in SUBSET Entries /\ (\A f, g \in es : Key[f] = Key[g] => f = g)
      /\ \E f, g \in es : f # g
  BY TogetherFacts
<1>3. k \in Seq(HCAddresses) /\ Len(k) = WIDTH /\ WIDTH \in Nat
  BY <1>2, KeyType
<1>4. top \in C
  <2>1. top \in DOMAIN T /\ Path(top) = TopPath(es)
    <3>1. TopPath(es) \in BranchPaths(es)
      BY <1>2, Top
    <3> QED BY <3>1, SubtreeIds
  <2>2. IsPrefix(TopPath(es), k)
    BY <1>2, Top
  <2> QED BY <2>1, <2>2
<1> HIDE DEF T, top
<1>5. len \in [C -> 0 .. WIDTH]
  BY <1>1, <1>3
<1>6. PICK m \in C : \A x \in C : len[x] <= len[m]
  <2> HIDE DEF C, len
  <2> QED BY <1>3, <1>4, <1>5, LongestExists
<1>7. \A x \in C : Len(Path(x)) <= Len(Path(m))
  BY <1>6
<1> DEFINE p == Path(m)
           b == k[Len(p) + 1]
           S == Below(p, b, es)
<1>8. m \in DOMAIN T /\ IsPrefix(p, k) /\ p \in Seq(HCAddresses) /\ Len(p) \in Nat /\ Len(p) < WIDTH
  BY <1>1, <1>6
<1> HIDE DEF C, len
<1>9. b \in HCAddresses
  BY <1>3, <1>8
<1>10. Way(p, b, k)
  BY <1>3, <1>8 DEF Way
<1> HIDE DEF p, b
<1>11. S = {f \in es : Way(p, b, Key[f])}
  BY <1>2, <1>8, <1>9, BelowIs
<1>12. ASSUME NEW f \in S PROVE f = e
  <2>1. SUFFICES ASSUME f # e PROVE FALSE
    OBVIOUS
  <2>2. f \in es /\ e \in S
    BY <1>10, <1>11
  <2> DEFINE q == TopPath(S)
  <2>3. q \in BranchPaths(es) /\ Way(p, b, q)
    BY <1>8, <1>9, <2>1, <2>2, NextPath
  <2>4. IsPrefix(q, k)
    <3>1. S \in SUBSET es
      BY <1>11
    <3>2. \A g \in S : IsPrefix(TopPath(S), Key[g])
      BY <1>2, <2>1, <2>2, <3>1, Top
    <3> QED BY <2>2, <3>2
  <2> HIDE DEF q
  <2> DEFINE x == NewId(q, used)
  <2>5. x \in DOMAIN T /\ Path(x) = q
    BY <2>3, SubtreeIds DEF T
  <2> HIDE DEF x
  <2>6. x \in C
    BY <2>4, <2>5 DEF C
  <2>7. Len(q) <= Len(p)
    BY <1>7, <2>5, <2>6 DEF p
  <2>8. q \in Seq(HCAddresses) /\ Len(p) < Len(q)
    BY <2>3, BranchBehind DEF Way
  <2> QED BY <1>8, <2>7, <2>8
<1>13. S = {e}
  BY <1>10, <1>11, <1>12
<1>14. SubtreeContent(p, b, es, used) = Suffix(e)
  <2>1. \/ S = {} /\ SubtreeContent(p, b, es, used) = Empty
        \/ \E g \in es : S = {g} /\ SubtreeContent(p, b, es, used) = Suffix(g)
        \/ /\ \E g, h \in S : g # h
           /\ SubtreeContent(p, b, es, used) = Sub(NewId(TopPath(S), used))
    BY <1>2, ContentIs, Zenon
  <2> HIDE DEF S
  <2> QED BY <1>13, <2>1
<1>15. T[m].cont[b] = Suffix(e)
  BY <1>8, <1>9, <1>14, SubtreeNode DEF T, p
<1> QED BY <1>8, <1>9, <1>15 DEF T

(* A node built for c contents has room for them. *)
LEMMA CapacitySuffices ==
  ASSUME NEW c \in Nat, c <= 2^DIM
  PROVE  NodeCapacity(c) \in Nat /\ c <= NodeCapacity(c)
<1> DEFINE z == 2^DIM
<1>1. z \in Nat
  BY PowerAssumption
<1> HIDE DEF z
<1>2. NodeCapacity(c) = IF 4 * c >= 3 * z THEN z
          ELSE IF c < 3 THEN 2
          ELSE IF 10 * c < z THEN 1 + (10 * z) \div 100
          ELSE IF 5 * c < z THEN 1 + (20 * z) \div 100
          ELSE IF 20 * c < 7 * z THEN 1 + (35 * z) \div 100
          ELSE IF 2 * c < z THEN 1 + (50 * z) \div 100
          ELSE 1 + (75 * z) \div 100
  BY DEF NodeCapacity, z
<1>3. c <= z
  BY DEF z
<1> QED BY <1>1, <1>2, <1>3

(* A node has no more contents than hypercube addresses.                   *)
LEMMA CountBound ==
  ASSUME NEW S \in SUBSET HCAddresses
  PROVE  IsFiniteSet(S) /\ Cardinality(S) \in Nat /\ Cardinality(S) <= 2^DIM
<1> DEFINE z == 2^DIM
<1>1. z \in Nat \ {0}
  BY PowerAssumption
<1> HIDE DEF z
<1>2. HCAddresses = 0 .. z - 1
  BY DEF HCAddresses, z
<1>3. IsFiniteSet(0 .. z - 1) /\ Cardinality(0 .. z - 1) = z
  BY <1>1, FS_Interval
<1>4. IsFiniteSet(S) /\ Cardinality(S) <= z
  BY <1>2, <1>3, FS_Subset
<1>5. Cardinality(S) \in Nat
  BY <1>4, FS_CardinalityType
<1> QED BY <1>4, <1>5 DEF z

(* A node holds what it is built for. *)
LEMMA BuiltRoom ==
  ASSUME NEW p, NEW c, DOMAIN c = HCAddresses
  PROVE  /\ NContents(BuildNode(p, c)) <= BuildNode(p, c).max
         /\ BuildNode(p, c).max \in Nat
         /\ BuildNode(p, c).prefix = p /\ BuildNode(p, c).cont = c
         /\ BuildNode(p, c).removed = FALSE /\ BuildNode(p, c).updates = 0
<1> DEFINE N == Cardinality({a \in HCAddresses : c[a] # Empty})
<1>1. N \in Nat /\ N <= 2^DIM
  BY CountBound
<1>2. /\ BuildNode(p, c).prefix = p /\ BuildNode(p, c).cont = c
      /\ BuildNode(p, c).removed = FALSE /\ BuildNode(p, c).updates = 0
      /\ BuildNode(p, c).max = NodeCapacity(N)
  BY DEF BuildNode
<1>3. NContents(BuildNode(p, c)) = N
  BY <1>2 DEF NContents
<1>4. NodeCapacity(N) \in Nat /\ N <= NodeCapacity(N)
  BY <1>1, CapacitySuffices
<1> QED BY <1>2, <1>3, <1>4

(* Two places of the node are taken. *)
TwoContents(node) ==
  \E a, b \in HCAddresses : a # b /\ node.cont[a] # Empty /\ node.cont[b] # Empty

(* The nodes of the subtree: their fields, their room, and at least two    *)
(* contents in each.                                                       *)
LEMMA SubtreeShape ==
  ASSUME NEW es, NEW n, NEW a, Together(es, n, a), NEW used, IsFiniteSet(used),
         NEW m \in DOMAIN SubtreeFor(es, n, used)
  PROVE  LET T == SubtreeFor(es, n, used) IN
           /\ T[m] \in [prefix : 0 .. Len(Path(m)), max : Nat, removed : {FALSE}, updates : {0},
                        cont : [HCAddresses -> {Empty} \cup {Suffix(e) : e \in es}
                                                 \cup {Sub(k) : k \in DOMAIN T}]]
           /\ NContents(T[m]) <= T[m].max
           /\ TwoContents(T[m])
<1> DEFINE T == SubtreeFor(es, n, used)
           p == Path(m)
           c == [b \in HCAddresses |-> SubtreeContent(p, b, es, used)]
           l == Len(p) - Len(PathAbove(p, es, n)) - 1
<1>1. T[m] = BuildNode(l, c)
  BY DEF SubtreeFor
<1>2. /\ p \in BranchPaths(es) /\ p \in Seq(HCAddresses) /\ Len(p) \in Nat /\ Len(p) < WIDTH
      /\ Way(Path(n), a, p) /\ Path(n) \in Seq(HCAddresses)
  BY SubtreeIds, BranchBehind, TogetherFacts
<1>3. T[m].cont = c /\ T[m].prefix = l
  BY <1>1 DEF BuildNode
<1> HIDE DEF l
<1>4. l \in 0 .. Len(p)
  <2>1. CASE m = NewId(TopPath(es), used)
    <3>1. l = Len(p) - Len(Path(n)) - 1
      BY <1>3, <2>1, SubtreeTop
    <3>2. Len(Path(n)) \in Nat /\ Len(Path(n)) < Len(p)
      BY <1>2 DEF Way
    <3> HIDE DEF p
    <3> QED BY <1>2, <3>1, <3>2
  <2>2. CASE m # NewId(TopPath(es), used)
    <3>1. PICK k \in DOMAIN T, b \in HCAddresses : T[k].cont[b] = Sub(m)
      BY <2>2, SubtreeParents
    <3>2. l = Len(p) - Len(Path(k)) - 1
      BY <1>3, <3>1, SubtreeSubs
    <3>3. Way(Path(k), b, p)
      BY <3>1, SubtreeSubs DEF Leads
    <3>4. Len(Path(k)) \in Nat /\ Len(Path(k)) < Len(p)
      <4>1. Path(k) \in Seq(HCAddresses)
        BY SubtreeIds, BranchBehind
      <4> QED BY <3>3, <4>1 DEF Way
    <3> HIDE DEF p
    <3> QED BY <1>2, <3>2, <3>4
  <2> QED BY <2>1, <2>2
<1>5. ASSUME NEW b \in HCAddresses
      PROVE  /\ c[b] \in {Empty} \cup {Suffix(e) : e \in es} \cup {Sub(k) : k \in DOMAIN T}
             /\ c[b] = Empty => Below(p, b, es) = {}
  <2> DEFINE S == Below(p, b, es)
  <2>1. \/ S = {} /\ SubtreeContent(p, b, es, used) = Empty
        \/ \E g \in es : S = {g} /\ SubtreeContent(p, b, es, used) = Suffix(g)
        \/ /\ \E g, h \in S : g # h
           /\ SubtreeContent(p, b, es, used) = Sub(NewId(TopPath(S), used))
    <3>1. es \in SUBSET Entries
      BY TogetherFacts
    <3> HIDE DEF p
    <3> QED BY <3>1, ContentIs, Zenon
  <2>2. (\E g, h \in S : g # h) => NewId(TopPath(S), used) \in DOMAIN T
    <3> SUFFICES ASSUME \E g, h \in S : g # h PROVE NewId(TopPath(S), used) \in DOMAIN T
      OBVIOUS
    <3>1. TopPath(S) \in BranchPaths(es)
      BY <1>2, NextPath
    <3> QED BY <3>1, SubtreeIds
  <2> HIDE DEF S, T
  <2> QED BY <2>1, <2>2, Kinds DEF S
<1>6. c \in [HCAddresses -> {Empty} \cup {Suffix(e) : e \in es} \cup {Sub(k) : k \in DOMAIN T}]
  <2> HIDE DEF T
  <2> QED BY <1>5
<1>7. /\ NContents(T[m]) <= T[m].max /\ T[m].max \in Nat
      /\ T[m].removed = FALSE /\ T[m].updates = 0
  <2>1. DOMAIN c = HCAddresses
    OBVIOUS
  <2> HIDE DEF c, l
  <2>2. /\ NContents(BuildNode(l, c)) <= BuildNode(l, c).max /\ BuildNode(l, c).max \in Nat
        /\ BuildNode(l, c).removed = FALSE /\ BuildNode(l, c).updates = 0
    <3>1. NContents(BuildNode(l, c)) <= BuildNode(l, c).max
      BY <2>1, BuiltRoom, Zenon
    <3>2. BuildNode(l, c).max \in Nat
      BY <2>1, BuiltRoom, Zenon
    <3>3. BuildNode(l, c).removed = FALSE /\ BuildNode(l, c).updates = 0
      BY DEF BuildNode
    <3> QED BY <3>1, <3>2, <3>3, Zenon
  <2> HIDE DEF T
  <2> QED BY <1>1, <2>2
<1>8. \E b, d \in HCAddresses : b # d /\ c[b] # Empty /\ c[d] # Empty
  <2>1. PICK e \in es, f \in es : Part(p, e, f)
    BY <1>2, TogetherFacts, BranchPart
  <2> DEFINE b == Key[e][Len(p) + 1]
             d == Key[f][Len(p) + 1]
  <2>2. /\ Key[e] \in Seq(HCAddresses) /\ Len(Key[e]) = WIDTH
        /\ Key[f] \in Seq(HCAddresses) /\ Len(Key[f]) = WIDTH
    BY TogetherFacts
  <2>3. b \in HCAddresses /\ d \in HCAddresses /\ b # d
    <3>1. Len(p) + 1 \in 1 .. WIDTH
      BY <1>2, DimAssumption
    <3> QED BY <2>1, <2>2, <3>1 DEF Part
  <2>4. Way(p, b, Key[e]) /\ Way(p, d, Key[f])
    BY <1>2, <2>1, <2>2 DEF Way, Part
  <2> HIDE DEF b, d
  <2>5. e \in Below(p, b, es) /\ f \in Below(p, d, es)
    BY <1>2, <2>3, <2>4, TogetherFacts, BelowIs
  <2>6. c[b] # Empty /\ c[d] # Empty
    <3> HIDE DEF c
    <3> QED BY <1>5, <2>3, <2>5
  <2> HIDE DEF c
  <2> QED BY <2>3, <2>6
<1>9. TwoContents(T[m])
  <2> HIDE DEF c, T
  <2> QED BY <1>3, <1>8 DEF TwoContents
<1>10. T[m] \in [prefix : 0 .. Len(p), max : Nat, removed : {FALSE}, updates : {0},
                  cont : [HCAddresses -> {Empty} \cup {Suffix(e) : e \in es}
                                           \cup {Sub(k) : k \in DOMAIN T}]]
  <2>1. \A x, y : BuildNode(x, y) =
           [prefix |-> BuildNode(x, y).prefix, cont |-> BuildNode(x, y).cont,
            max |-> BuildNode(x, y).max, removed |-> BuildNode(x, y).removed,
            updates |-> BuildNode(x, y).updates]
    BY DEF BuildNode
  <2> HIDE DEF T, c, l, p
  <2>2. T[m] = [prefix |-> l, cont |-> c, max |-> T[m].max, removed |-> FALSE, updates |-> 0]
    BY <1>1, <1>3, <1>7, <2>1
  <2> DEFINE C == [HCAddresses -> {Empty} \cup {Suffix(e) : e \in es} \cup {Sub(k) : k \in DOMAIN T}]
             x == T[m].max
  <2>3. c \in C /\ x \in Nat /\ l \in 0 .. Len(p)
    BY <1>4, <1>6, <1>7
  <2> HIDE DEF C, x
  <2>4. [prefix |-> l, cont |-> c, max |-> x, removed |-> FALSE, updates |-> 0] \in
          [prefix : 0 .. Len(p), max : Nat, removed : {FALSE}, updates : {0}, cont : C]
    BY <2>3
  <2> QED BY <2>2, <2>4 DEF C, x
<1> QED BY <1>7, <1>9, <1>10

-----------------------------------------------------------------------------
(* The tree *)

(* Node n leads to its subnode m at address a. *)
Linked(ns, n, a, m) == ns[n].cont[a] = Sub(m)

(* The root is the node with the empty path. *)
AtTop(n) == Len(Path(n)) = 0

RootTop(ns) == \E r \in LiveNodes(ns) : AtTop(r) /\ ns[r].prefix = 0

(* A subnode is not removed and lies behind its address with just its      *)
(* prefix in between.                                                      *)
LinksRight(ns) ==
  \A n \in LiveNodes(ns), a \in HCAddresses : \A m : Linked(ns, n, a, m) =>
    /\ m \in LiveNodes(ns) /\ Leads(n, a, Path(m))
    /\ Len(Path(m)) = Len(Path(n)) + 1 + ns[m].prefix

AllLinked(ns) ==
  \A m \in LiveNodes(ns) :
    ~AtTop(m) => \E n \in LiveNodes(ns), a \in HCAddresses : Linked(ns, n, a, m)

(* A node whose path leads to another node links to a node on the way.     *)
NoShortcut(ns) ==
  \A n, m \in LiveNodes(ns) : n # m /\ On(n, Path(m)) =>
    /\ Len(Path(n)) < Len(Path(m))
    /\ \E c : Linked(ns, n, Path(m)[Len(Path(n)) + 1], c) /\ On(c, Path(m))

Tree(ns) == RootTop(ns) /\ LinksRight(ns) /\ AllLinked(ns) /\ NoShortcut(ns)

IdsTyped(ns) == DOMAIN ns \subseteq NodeIds

(* An address holds one link.                                              *)
LEMMA OneLink ==
  ASSUME NEW ns, NEW n, NEW a, NEW k, NEW m, Linked(ns, n, a, k), Linked(ns, n, a, m)
  PROVE  k = m
<1>1. Sub(k) = Sub(m)
  BY DEF Linked
<1> QED BY <1>1, Kinds

(* The path of a node id is a sequence of addresses.                       *)
LEMMA PathType ==
  ASSUME NEW n \in NodeIds
  PROVE  Path(n) \in Seq(HCAddresses) /\ Len(Path(n)) \in Nat
  BY DEF NodeIds, Path

(* A node has one parent. *)
LEMMA UniqueParent ==
  ASSUME NEW ns, IdsTyped(ns), Tree(ns),
         NEW n \in LiveNodes(ns), NEW a \in HCAddresses,
         NEW k \in LiveNodes(ns), NEW b \in HCAddresses,
         NEW m, Linked(ns, n, a, m), Linked(ns, k, b, m),
         Len(Path(n)) <= Len(Path(k))
  PROVE  n = k /\ a = b
<1>1. /\ m \in LiveNodes(ns) /\ Leads(n, a, Path(m)) /\ Leads(k, b, Path(m))
  BY DEF Tree, LinksRight
<1>2. n \in NodeIds /\ k \in NodeIds /\ m \in NodeIds
  BY <1>1 DEF LiveNodes, IdsTyped
<1>3. /\ Path(n) \in Seq(HCAddresses) /\ Len(Path(n)) \in Nat
      /\ Path(k) \in Seq(HCAddresses) /\ Len(Path(k)) \in Nat
      /\ Path(m) \in Seq(HCAddresses) /\ Len(Path(m)) \in Nat
  BY <1>2, PathType
<1>4. On(n, Path(k))
  BY <1>1, <1>3, PrefixOrder DEF On, Leads, Way
<1>5. n = k
  <2>1. SUFFICES ASSUME n # k PROVE FALSE
    OBVIOUS
  <2>2. PICK c : /\ Linked(ns, n, Path(k)[Len(Path(n)) + 1], c) /\ On(c, Path(k))
                 /\ Len(Path(n)) < Len(Path(k))
    BY <1>4, <2>1 DEF Tree, NoShortcut
  <2>3. Path(k)[Len(Path(n)) + 1] = a
    <3>1. Len(Path(n)) + 1 \in 1 .. Len(Path(k))
      BY <1>3, <2>2
    <3>2. Path(k)[Len(Path(n)) + 1] = Path(m)[Len(Path(n)) + 1]
      BY <1>1, <1>3, <3>1, PrefixIff DEF Leads, Way
    <3> QED BY <1>1, <3>2 DEF Leads, Way
  <2>4. c = m
    BY <2>2, <2>3, Kinds DEF Linked
  <2>5. Len(Path(m)) <= Len(Path(k))
    BY <1>3, <2>2, <2>4, PrefixIff DEF On
  <2>6. Len(Path(k)) < Len(Path(m))
    BY <1>1 DEF Leads, Way
  <2> QED BY <1>3, <2>5, <2>6
<1> QED BY <1>1, <1>5 DEF Leads, Way

(* A node hangs at one place of the tree only.                             *)
LEMMA OneParent ==
  ASSUME NEW ns, IdsTyped(ns), Tree(ns),
         NEW n \in LiveNodes(ns), NEW a \in HCAddresses,
         NEW k \in LiveNodes(ns), NEW b \in HCAddresses,
         NEW m, Linked(ns, n, a, m), Linked(ns, k, b, m)
  PROVE  n = k /\ a = b
<1>1. Len(Path(n)) \in Nat /\ Len(Path(k)) \in Nat
  BY PathType DEF IdsTyped, LiveNodes
<1> QED BY <1>1, UniqueParent

(* The tree depends on its links only. *)
LEMMA SameTree ==
  ASSUME NEW ns, NEW new, Tree(ns), LiveNodes(new) = LiveNodes(ns),
         \A k \in LiveNodes(ns) :
           /\ new[k].prefix = ns[k].prefix
           /\ \A b \in HCAddresses : \A m : Linked(new, k, b, m) <=> Linked(ns, k, b, m),
         IdsTyped(ns)
  PROVE  Tree(new)
<1>1. RootTop(new)
  BY DEF Tree, RootTop
<1>2. LinksRight(new)
  BY DEF Tree, LinksRight
<1>3. AllLinked(new)
  BY DEF Tree, AllLinked
<1>4. NoShortcut(new)
  <2> SUFFICES ASSUME NEW n \in LiveNodes(ns), NEW m \in LiveNodes(ns), n # m, On(n, Path(m))
               PROVE  /\ Len(Path(n)) < Len(Path(m))
                      /\ \E c : Linked(new, n, Path(m)[Len(Path(n)) + 1], c) /\ On(c, Path(m))
    BY DEF NoShortcut
  <2>1. PICK c : /\ Linked(ns, n, Path(m)[Len(Path(n)) + 1], c) /\ On(c, Path(m))
                 /\ Len(Path(n)) < Len(Path(m))
    BY DEF Tree, NoShortcut
  <2>2. Path(m)[Len(Path(n)) + 1] \in HCAddresses
    <3>1. /\ Path(m) \in Seq(HCAddresses) /\ Len(Path(m)) \in Nat /\ Len(Path(n)) \in Nat
      BY PathType DEF IdsTyped, LiveNodes
    <3>2. Len(Path(n)) + 1 \in 1 .. Len(Path(m))
      BY <2>1, <3>1
    <3> QED BY <3>1, <3>2
  <2> QED BY <2>1, <2>2
<1> QED BY <1>1, <1>2, <1>3, <1>4 DEF Tree

(* The address that leads from a node to a deeper one.                     *)
LEMMA TowardType ==
  ASSUME NEW n \in NodeIds, NEW m \in NodeIds, Len(Path(n)) < Len(Path(m))
  PROVE  Path(m)[Len(Path(n)) + 1] \in HCAddresses
<1>1. /\ Path(m) \in Seq(HCAddresses) /\ Len(Path(m)) \in Nat /\ Len(Path(n)) \in Nat
  BY PathType
<1>2. Len(Path(n)) + 1 \in 1 .. Len(Path(m))
  BY <1>1
<1> QED BY <1>1, <1>2

(* The nodes of ns2 are those of ns with other ids: old[k] is what k was.  *)
RenamedNodes(ns, ns2, old) ==
  /\ \A k \in LiveNodes(ns2) :
       old[k] \in LiveNodes(ns) /\ Path(old[k]) = Path(k) /\ ns2[k].prefix = ns[old[k]].prefix
  /\ \A k, m \in LiveNodes(ns2) : old[k] = old[m] => k = m
  /\ \A k \in LiveNodes(ns) : \E m \in LiveNodes(ns2) : old[m] = k
  /\ \A k \in LiveNodes(ns2), b \in HCAddresses : \A m : Linked(ns2, k, b, m) =>
       m \in LiveNodes(ns2) /\ Linked(ns, old[k], b, old[m])
  /\ \A k \in LiveNodes(ns2), m \in LiveNodes(ns2), b \in HCAddresses :
       Linked(ns, old[k], b, old[m]) => Linked(ns2, k, b, m)

(* The ids of the nodes make no difference beside their paths.             *)
LEMMA RenamedTree ==
  ASSUME NEW ns, IdsTyped(ns), Tree(ns), NEW ns2, NEW old, RenamedNodes(ns, ns2, old)
  PROVE  Tree(ns2)
<1>2. LiveNodes(ns) \subseteq NodeIds
  BY DEF IdsTyped, LiveNodes
<1>5. \A k \in LiveNodes(ns2) :
        old[k] \in LiveNodes(ns) /\ Path(old[k]) = Path(k) /\ ns2[k].prefix = ns[old[k]].prefix
  BY DEF RenamedNodes
<1>6. \A k, m \in LiveNodes(ns2) : old[k] = old[m] => k = m
  BY DEF RenamedNodes
<1>7. \A k \in LiveNodes(ns) : \E m \in LiveNodes(ns2) : old[m] = k
  BY DEF RenamedNodes
<1>10. \A k \in LiveNodes(ns), b \in HCAddresses : \A m : Linked(ns, k, b, m) => m \in LiveNodes(ns)
  BY DEF Tree, LinksRight
<1>12. \A k \in LiveNodes(ns2), b \in HCAddresses : \A m : Linked(ns2, k, b, m) =>
         m \in LiveNodes(ns2) /\ Linked(ns, old[k], b, old[m])
  BY DEF RenamedNodes
<1>13. \A k \in LiveNodes(ns2), m \in LiveNodes(ns2), b \in HCAddresses :
         Linked(ns, old[k], b, old[m]) => Linked(ns2, k, b, m)
  BY DEF RenamedNodes
<1>15. RootTop(ns2)
  <2>1. PICK r \in LiveNodes(ns) : AtTop(r) /\ ns[r].prefix = 0
    BY DEF Tree, RootTop
  <2>2. PICK k \in LiveNodes(ns2) : old[k] = r
    BY <1>7
  <2> QED BY <1>5, <2>1, <2>2 DEF RootTop, AtTop
<1>16. LinksRight(ns2)
  <2> SUFFICES ASSUME NEW k \in LiveNodes(ns2), NEW b \in HCAddresses, NEW m, Linked(ns2, k, b, m)
               PROVE  /\ m \in LiveNodes(ns2) /\ Leads(k, b, Path(m))
                      /\ Len(Path(m)) = Len(Path(k)) + 1 + ns2[m].prefix
    BY DEF LinksRight
  <2>1. m \in LiveNodes(ns2) /\ Linked(ns, old[k], b, old[m])
    BY <1>12
  <2>2. /\ Leads(old[k], b, Path(old[m]))
        /\ Len(Path(old[m])) = Len(Path(old[k])) + 1 + ns[old[m]].prefix
    BY <1>5, <2>1 DEF Tree, LinksRight
  <2> QED BY <1>5, <2>1, <2>2 DEF Leads
<1>17. AllLinked(ns2)
  <2> SUFFICES ASSUME NEW m \in LiveNodes(ns2), ~AtTop(m)
               PROVE  \E k \in LiveNodes(ns2), b \in HCAddresses : Linked(ns2, k, b, m)
    BY DEF AllLinked
  <2>1. old[m] \in LiveNodes(ns) /\ ~AtTop(old[m])
    BY <1>5 DEF AtTop
  <2>2. PICK k \in LiveNodes(ns), b \in HCAddresses : Linked(ns, k, b, old[m])
    BY <2>1 DEF Tree, AllLinked
  <2>3. PICK l \in LiveNodes(ns2) : old[l] = k
    BY <1>7
  <2> QED BY <1>13, <2>2, <2>3
<1>18. NoShortcut(ns2)
  <2> SUFFICES ASSUME NEW k \in LiveNodes(ns2), NEW m \in LiveNodes(ns2), k # m, On(k, Path(m))
               PROVE  /\ Len(Path(k)) < Len(Path(m))
                      /\ \E c : Linked(ns2, k, Path(m)[Len(Path(k)) + 1], c) /\ On(c, Path(m))
    BY DEF NoShortcut
  <2>1. old[k] # old[m] /\ On(old[k], Path(old[m]))
    BY <1>5, <1>6 DEF On
  <2>2. PICK c : /\ Linked(ns, old[k], Path(old[m])[Len(Path(old[k])) + 1], c)
                 /\ On(c, Path(old[m])) /\ Len(Path(old[k])) < Len(Path(old[m]))
    BY <1>5, <2>1 DEF Tree, NoShortcut
  <2>3. Path(old[m])[Len(Path(old[k])) + 1] \in HCAddresses
    BY <1>2, <1>5, <2>2, TowardType
  <2>4. PICK d \in LiveNodes(ns2) : old[d] = c
    BY <1>5, <1>7, <1>10, <2>2, <2>3
  <2>5. Linked(ns2, k, Path(m)[Len(Path(k)) + 1], d)
    BY <1>5, <1>13, <2>2, <2>3, <2>4
  <2>6. On(d, Path(m)) /\ Len(Path(k)) < Len(Path(m))
    BY <1>5, <2>2, <2>4 DEF On
  <2> QED BY <2>5, <2>6
<1> QED BY <1>15, <1>16, <1>17, <1>18 DEF Tree

(* A node is replaced by a copy at the same path. *)
LEMMA CopyTree ==
  ASSUME NEW ns, IdsTyped(ns), Tree(ns), NEW parent \in LiveNodes(ns), NEW pa \in HCAddresses,
         NEW n, Linked(ns, parent, pa, n),
         NEW new, new \notin DOMAIN ns, Path(new) = Path(n),
         NEW ns2, LiveNodes(ns2) = (LiveNodes(ns) \ {n}) \cup {new},
         ns2[new].prefix = ns[n].prefix,
         \A b \in HCAddresses : \A m : Linked(ns2, new, b, m) <=> Linked(ns, n, b, m),
         \A k \in LiveNodes(ns) \ {n} :
           /\ ns2[k].prefix = ns[k].prefix
           /\ \A b \in HCAddresses : \A m :
                Linked(ns2, k, b, m) <=> IF k = parent /\ b = pa THEN m = new ELSE Linked(ns, k, b, m)
  PROVE  Tree(ns2)
<1> DEFINE old == [k \in LiveNodes(ns2) |-> IF k = new THEN n ELSE k]
<1>1. n \in LiveNodes(ns) /\ Leads(parent, pa, Path(n))
  BY DEF Tree, LinksRight
<1>2. LiveNodes(ns) \subseteq NodeIds /\ new \notin LiveNodes(ns)
  BY DEF IdsTyped, LiveNodes
<1>3. /\ Len(Path(n)) \in Nat /\ Len(Path(parent)) \in Nat /\ Len(Path(parent)) < Len(Path(n))
  BY <1>1, <1>2, PathType DEF Leads, Way
<1>4. n # parent
  BY <1>3
<1>5. \A k \in LiveNodes(ns2) :
        old[k] \in LiveNodes(ns) /\ Path(old[k]) = Path(k) /\ ns2[k].prefix = ns[old[k]].prefix
  BY <1>1
<1>6. \A k, m \in LiveNodes(ns2) : old[k] = old[m] => k = m
  BY <1>2
<1>7. \A k \in LiveNodes(ns) : \E m \in LiveNodes(ns2) : old[m] = k
  BY <1>1, <1>2
<1>8. \A b \in HCAddresses : ~Linked(ns, n, b, n)
  <2> SUFFICES ASSUME NEW b \in HCAddresses, Linked(ns, n, b, n) PROVE FALSE
    OBVIOUS
  <2>1. Leads(n, b, Path(n))
    BY <1>1 DEF Tree, LinksRight
  <2> QED BY <1>3, <2>1 DEF Leads, Way
<1>9. \A k \in LiveNodes(ns), b \in HCAddresses : Linked(ns, k, b, n) => k = parent /\ b = pa
  BY OneParent
<1>10. \A k \in LiveNodes(ns), b \in HCAddresses : \A m : Linked(ns, k, b, m) => m \in LiveNodes(ns)
  BY DEF Tree, LinksRight
<1>11. \A k : ~Linked(ns, parent, pa, k) \/ k = n
  BY Kinds DEF Linked
<1>12. ASSUME NEW k \in LiveNodes(ns2), NEW b \in HCAddresses, NEW m, Linked(ns2, k, b, m)
       PROVE  m \in LiveNodes(ns2) /\ Linked(ns, old[k], b, old[m])
  <2>1. CASE k = new
    <3>1. Linked(ns, n, b, m) /\ m # n
      BY <1>8, <1>12, <2>1
    <3>2. m \in LiveNodes(ns) /\ m # new
      BY <1>1, <1>2, <1>10, <3>1
    <3> QED BY <2>1, <3>1, <3>2
  <2>2. CASE k # new /\ k = parent /\ b = pa
    <3>1. m = new
      BY <1>12, <2>2, <1>4
    <3> QED BY <2>2, <3>1
  <2>3. CASE k # new /\ ~(k = parent /\ b = pa)
    <3>1. k \in LiveNodes(ns) \ {n}
      BY <2>3
    <3>2. Linked(ns, k, b, m)
      BY <1>12, <2>3, <3>1
    <3>3. m # n /\ m \in LiveNodes(ns)
      BY <1>9, <1>10, <2>3, <3>1, <3>2
    <3>4. m # new
      BY <1>2, <3>3
    <3> QED BY <2>3, <3>2, <3>3, <3>4
  <2> QED BY <2>1, <2>2, <2>3
<1>13. ASSUME NEW k \in LiveNodes(ns2), NEW b \in HCAddresses, NEW m \in LiveNodes(ns2),
              Linked(ns, old[k], b, old[m])
       PROVE  Linked(ns2, k, b, m)
  <2>1. CASE k = new
    <3>1. Linked(ns, n, b, old[m]) /\ old[m] # n
      BY <1>8, <1>13, <2>1
    <3>2. old[m] = m
      BY <3>1
    <3> QED BY <2>1, <3>1, <3>2
  <2>2. CASE k # new /\ k = parent /\ b = pa
    <3>1. old[m] = n
      BY <1>11, <1>13, <2>2
    <3>2. m = new
      BY <3>1
    <3> QED BY <1>4, <2>2, <3>2
  <2>3. CASE k # new /\ ~(k = parent /\ b = pa)
    <3>1. k \in LiveNodes(ns) \ {n} /\ old[k] = k
      BY <2>3
    <3>2. old[m] # n
      BY <1>9, <1>13, <2>3, <3>1
    <3>3. old[m] = m
      BY <3>2
    <3> QED BY <1>13, <2>3, <3>1, <3>3
  <2> QED BY <2>1, <2>2, <2>3
<1> HIDE DEF old
<1>14. RenamedNodes(ns, ns2, old)
  BY <1>5, <1>6, <1>7, <1>12, <1>13 DEF RenamedNodes
<1> QED BY <1>14, RenamedTree

(* A prefix and the sequence have the same addresses.                      *)
LEMMA SameAddress ==
  ASSUME NEW A, NEW p \in Seq(A), NEW q \in Seq(A), IsPrefix(p, q), NEW i \in Nat, i < Len(p)
  PROVE  q[i + 1] = p[i + 1]
<1>1. i + 1 \in 1 .. Len(p)
  OBVIOUS
<1> QED BY <1>1, PrefixIff

(* ns2 is ns with the node upper on the edge from the address pa of parent *)
(* to n.                                                                   *)
OnEdge(ns, ns2, parent, pa, n, upper) ==
  /\ LiveNodes(ns2) = LiveNodes(ns) \cup {upper}
  /\ ns2[upper].prefix \in Nat /\ ns2[n].prefix \in Nat
  /\ Len(Path(upper)) = Len(Path(parent)) + 1 + ns2[upper].prefix
  /\ Len(Path(n)) = Len(Path(upper)) + 1 + ns2[n].prefix
  /\ \A k \in LiveNodes(ns) \ {n} : ns2[k].prefix = ns[k].prefix
  /\ \A k \in LiveNodes(ns), b \in HCAddresses : \A m :
       Linked(ns2, k, b, m) <=> IF k = parent /\ b = pa THEN m = upper ELSE Linked(ns, k, b, m)
  /\ \A b \in HCAddresses : \A m :
       Linked(ns2, upper, b, m) <=> b = Path(n)[Len(Path(upper)) + 1] /\ m = n

(* A node is put between a node and its parent. *)
LEMMA EdgeTree ==
  ASSUME NEW ns, IdsTyped(ns), Tree(ns), NEW parent \in LiveNodes(ns), NEW pa \in HCAddresses,
         NEW n, Linked(ns, parent, pa, n),
         NEW upper \in NodeIds, upper \notin LiveNodes(ns),
         IsPrefix(Path(upper), Path(n)),
         NEW ns2, OnEdge(ns, ns2, parent, pa, n, upper)
  PROVE  Tree(ns2)
<1> USE DEF OnEdge
<1> DEFINE u == Path(upper)
<1>1. n \in LiveNodes(ns) /\ Leads(parent, pa, Path(n))
  BY DEF Tree, LinksRight
<1>2. \A k \in LiveNodes(ns) : k \in NodeIds /\ Path(k) \in Seq(HCAddresses) /\ Len(Path(k)) \in Nat
  BY PathType DEF IdsTyped, LiveNodes
<1>3. u \in Seq(HCAddresses) /\ Len(u) \in Nat
  BY PathType
<1>4. Len(Path(parent)) < Len(u) /\ Len(u) < Len(Path(n))
  BY <1>1, <1>2, <1>3
<1>5. IsPrefix(u, Path(n))
  OBVIOUS
<1>6. Way(Path(parent), pa, u)
  BY <1>1, <1>2, <1>3, <1>4, <1>5, WayThrough DEF Leads
<1>7. ~AtTop(n) /\ n # parent
  BY <1>1, <1>2, <1>3, <1>4 DEF AtTop
<1>8. \A k \in LiveNodes(ns), b \in HCAddresses : Linked(ns, k, b, n) => k = parent /\ b = pa
  BY OneParent
<1>9. \A k : Linked(ns, parent, pa, k) => k = n
  BY OneLink
<1>10. \A k \in LiveNodes(ns), b \in HCAddresses : \A m : Linked(ns, k, b, m) =>
         /\ m \in LiveNodes(ns) /\ Leads(k, b, Path(m))
         /\ Len(Path(m)) = Len(Path(k)) + 1 + ns[m].prefix
  BY DEF Tree, LinksRight
<1>11. Path(n)[Len(u) + 1] \in HCAddresses
  BY <1>1, <1>2, <1>4, TowardType
<1>12. \A k \in LiveNodes(ns), m \in LiveNodes(ns) : k # m /\ On(k, Path(m)) =>
          /\ Len(Path(k)) < Len(Path(m))
          /\ \E c \in LiveNodes(ns) : Linked(ns, k, Path(m)[Len(Path(k)) + 1], c) /\ On(c, Path(m))
          /\ Path(m)[Len(Path(k)) + 1] \in HCAddresses
  <2> TAKE k \in LiveNodes(ns), m \in LiveNodes(ns)
  <2> HAVE k # m /\ On(k, Path(m))
  <2>1. PICK c : /\ Linked(ns, k, Path(m)[Len(Path(k)) + 1], c) /\ On(c, Path(m))
                 /\ Len(Path(k)) < Len(Path(m))
    BY DEF Tree, NoShortcut
  <2>2. Path(m)[Len(Path(k)) + 1] \in HCAddresses
    BY <1>2, <2>1, TowardType
  <2> QED BY <1>10, <2>1, <2>2
<1> HIDE DEF u
<1>13. RootTop(ns2)
  <2>1. PICK r \in LiveNodes(ns) : AtTop(r) /\ ns[r].prefix = 0
    BY DEF Tree, RootTop
  <2> QED BY <1>7, <2>1 DEF RootTop
<1>14. LinksRight(ns2)
  <2> SUFFICES ASSUME NEW k \in LiveNodes(ns2), NEW b \in HCAddresses, NEW m, Linked(ns2, k, b, m)
               PROVE  /\ m \in LiveNodes(ns2) /\ Leads(k, b, Path(m))
                      /\ Len(Path(m)) = Len(Path(k)) + 1 + ns2[m].prefix
    BY DEF LinksRight
  <2>1. CASE k = upper
    <3>1. b = Path(n)[Len(u) + 1] /\ m = n
      BY <2>1 DEF u
    <3>2. Way(u, b, Path(n))
      BY <1>4, <1>5, <3>1 DEF Way
    <3> QED BY <1>1, <2>1, <3>1, <3>2 DEF Leads, u
  <2>2. CASE k # upper /\ k = parent /\ b = pa
    <3>1. m = upper
      BY <2>2
    <3> QED BY <1>6, <2>2, <3>1 DEF Leads, u
  <2>3. CASE k # upper /\ ~(k = parent /\ b = pa)
    <3>1. k \in LiveNodes(ns) /\ Linked(ns, k, b, m)
      BY <2>3
    <3>2. m # n /\ m \in LiveNodes(ns)
      BY <1>8, <1>10, <2>3, <3>1
    <3> QED BY <1>10, <3>1, <3>2
  <2> QED BY <2>1, <2>2, <2>3
<1>15. AllLinked(ns2)
  <2> SUFFICES ASSUME NEW m \in LiveNodes(ns2), ~AtTop(m)
               PROVE  \E k \in LiveNodes(ns2), b \in HCAddresses : Linked(ns2, k, b, m)
    BY DEF AllLinked
  <2>1. CASE m = upper
    BY <2>1
  <2>2. CASE m = n
    BY <1>11, <2>2 DEF u
  <2>3. CASE m # upper /\ m # n
    <3>1. PICK k \in LiveNodes(ns), b \in HCAddresses : Linked(ns, k, b, m)
      BY <2>3 DEF Tree, AllLinked
    <3>2. ~(k = parent /\ b = pa)
      BY <1>9, <2>3, <3>1
    <3> QED BY <3>1, <3>2
  <2> QED BY <2>1, <2>2, <2>3
<1>16. NoShortcut(ns2)
  <2> SUFFICES ASSUME NEW k \in LiveNodes(ns2), NEW m \in LiveNodes(ns2), k # m, On(k, Path(m))
               PROVE  /\ Len(Path(k)) < Len(Path(m))
                      /\ \E c : Linked(ns2, k, Path(m)[Len(Path(k)) + 1], c) /\ On(c, Path(m))
    BY DEF NoShortcut
  <2>1. CASE k # upper /\ m # upper
    <3>1. k \in LiveNodes(ns) /\ m \in LiveNodes(ns)
      BY <2>1
    <3>2. PICK c \in LiveNodes(ns) : /\ Linked(ns, k, Path(m)[Len(Path(k)) + 1], c) /\ On(c, Path(m))
                   /\ Len(Path(k)) < Len(Path(m)) /\ Path(m)[Len(Path(k)) + 1] \in HCAddresses
      BY <1>12, <3>1
    <3>3. CASE k = parent /\ Path(m)[Len(Path(k)) + 1] = pa
      <4>1. c = n
        BY <1>9, <3>2, <3>3
      <4>2. On(upper, Path(m))
        BY <1>1, <1>2, <1>3, <1>5, <3>1, <3>2, <4>1, PrefixTrans DEF On, u
      <4>3. Linked(ns2, k, Path(m)[Len(Path(k)) + 1], upper)
        BY <3>3
      <4> QED BY <3>2, <4>2, <4>3
    <3>4. CASE ~(k = parent /\ Path(m)[Len(Path(k)) + 1] = pa)
      BY <3>1, <3>2, <3>4
    <3> QED BY <3>3, <3>4
  <2>2. CASE k = upper
    <3>1. m \in LiveNodes(ns) /\ IsPrefix(u, Path(m)) /\ Len(u) <= Len(Path(m))
      <4>1. m \in LiveNodes(ns) /\ IsPrefix(u, Path(m))
        BY <2>2 DEF On, u
      <4> QED BY <1>2, <1>3, <4>1, PrefixIff
    <3>2. Way(Path(parent), pa, Path(m))
      BY <1>2, <1>3, <1>6, <3>1, WayThrough
    <3>3. parent # m /\ On(parent, Path(m)) /\ Path(m)[Len(Path(parent)) + 1] = pa
      BY <1>2, <3>2 DEF Way, On
    <3>4. On(n, Path(m))
      <4>1. PICK c \in LiveNodes(ns) :
               /\ Linked(ns, parent, Path(m)[Len(Path(parent)) + 1], c) /\ On(c, Path(m))
        BY <1>12, <3>1, <3>3
      <4> QED BY <1>9, <3>3, <4>1
    <3>5. Len(u) < Len(Path(m))
      <4>1. Len(Path(n)) <= Len(Path(m))
        BY <1>1, <1>2, <3>1, <3>4, PrefixIff DEF On
      <4> QED BY <1>1, <1>2, <1>3, <1>4, <3>1, <4>1
    <3>6. Path(m)[Len(u) + 1] = Path(n)[Len(u) + 1]
      BY <1>1, <1>2, <1>3, <1>4, <3>1, <3>4, SameAddress DEF On
    <3>7. Linked(ns2, upper, Path(m)[Len(u) + 1], n)
      BY <1>11, <3>6 DEF u
    <3> QED BY <2>2, <3>4, <3>5, <3>7 DEF u
  <2>3. CASE m = upper
    <3>1. k \in LiveNodes(ns) /\ IsPrefix(Path(k), u) /\ Len(Path(k)) <= Len(u)
      <4>1. k \in LiveNodes(ns) /\ IsPrefix(Path(k), u)
        BY <2>3 DEF On, u
      <4> QED BY <1>2, <1>3, <4>1, PrefixIff
    <3>2. k # n /\ On(k, Path(n))
      BY <1>1, <1>2, <1>3, <1>4, <1>5, <3>1, PrefixTrans DEF On
    <3>3. PICK c \in LiveNodes(ns) : /\ Linked(ns, k, Path(n)[Len(Path(k)) + 1], c) /\ On(c, Path(n))
                   /\ Len(Path(k)) < Len(Path(n)) /\ Path(n)[Len(Path(k)) + 1] \in HCAddresses
      BY <1>1, <1>12, <3>1, <3>2
    <3>4. CASE k = parent
      <4>1. u[Len(Path(parent)) + 1] = pa
        BY <1>6 DEF Way
      <4>2. IsPrefix(u, u)
        BY <1>3, PrefixIff
      <4> QED BY <1>4, <2>3, <3>4, <4>1, <4>2 DEF On, u
    <3>5. CASE k # parent
      <4>1. c # n
        BY <1>8, <3>1, <3>3, <3>5
      <4>2. Len(Path(c)) <= Len(Path(parent))
        <5>1. SUFFICES ASSUME Len(Path(parent)) < Len(Path(c)) PROVE FALSE
          BY <1>2, <3>3
        <5>2. On(parent, Path(n)) /\ Path(n)[Len(Path(parent)) + 1] = pa
          BY <1>1 DEF Leads, Way, On
        <5>3. Way(Path(parent), pa, Path(c))
          BY <1>1, <1>2, <3>3, <5>1, WayThrough DEF Leads, On
        <5>4. parent # c /\ On(parent, Path(c)) /\ Path(c)[Len(Path(parent)) + 1] = pa
          BY <1>2, <5>1, <5>3 DEF Way, On
        <5>5. PICK d \in LiveNodes(ns) :
                 Linked(ns, parent, Path(c)[Len(Path(parent)) + 1], d) /\ On(d, Path(c))
          BY <1>12, <3>3, <5>4
        <5>6. On(n, Path(c))
          BY <1>9, <5>4, <5>5
        <5>7. On(c, Path(n)) /\ Len(Path(c)) < Len(Path(n))
          BY <1>1, <1>12, <3>3, <4>1
        <5>8. Len(Path(n)) <= Len(Path(c))
          BY <1>1, <1>2, <3>3, <5>6, PrefixIff DEF On
        <5> QED BY <1>1, <1>2, <3>3, <5>7, <5>8
      <4>3. IsPrefix(Path(c), u)
        <5>1. Len(Path(c)) <= Len(u)
          BY <1>2, <1>3, <1>4, <3>3, <4>2
        <5> QED BY <1>1, <1>2, <1>3, <1>5, <3>3, <5>1, PrefixOrder DEF On
      <4>4. Len(Path(k)) < Len(Path(c))
        BY <1>10, <3>1, <3>3 DEF Leads, Way
      <4>5. Len(Path(k)) < Len(u)
        BY <1>2, <1>3, <1>4, <3>1, <3>3, <4>2, <4>4
      <4>6. u[Len(Path(k)) + 1] = Path(n)[Len(Path(k)) + 1]
        BY <1>1, <1>2, <1>3, <1>5, <3>1, <4>5, SameAddress
      <4>7. Linked(ns2, k, u[Len(Path(k)) + 1], c)
        BY <3>1, <3>3, <3>5, <4>6
      <4> QED BY <2>3, <4>3, <4>5, <4>7 DEF On, u
    <3> QED BY <3>4, <3>5
  <2> QED BY <2>1, <2>2, <2>3
<1> QED BY <1>13, <1>14, <1>15, <1>16 DEF Tree

(* Node n is replaced by upper, with a copy of n below it. *)
SplitUp(ns, ns2, n, parent, pa, upper, copy) ==
  /\ LiveNodes(ns2) = (LiveNodes(ns) \ {n}) \cup {upper, copy}
  /\ ns2[upper].prefix \in Nat /\ ns2[copy].prefix \in Nat
  /\ Len(Path(upper)) = Len(Path(parent)) + 1 + ns2[upper].prefix
  /\ Len(Path(n)) = Len(Path(upper)) + 1 + ns2[copy].prefix
  /\ \A b \in HCAddresses : \A m : Linked(ns2, copy, b, m) <=> Linked(ns, n, b, m)
  /\ \A b \in HCAddresses : \A m :
       Linked(ns2, upper, b, m) <=> b = Path(n)[Len(Path(upper)) + 1] /\ m = copy
  /\ \A k \in LiveNodes(ns) \ {n} :
       /\ ns2[k].prefix = ns[k].prefix
       /\ \A b \in HCAddresses : \A m :
            Linked(ns2, k, b, m) <=> IF k = parent /\ b = pa THEN m = upper ELSE Linked(ns, k, b, m)

(* A node is replaced by a copy with a new node above it. *)
LEMMA SplitTree ==
  ASSUME NEW ns, IdsTyped(ns), Tree(ns), NEW parent \in LiveNodes(ns), NEW pa \in HCAddresses,
         NEW n, Linked(ns, parent, pa, n),
         NEW copy \in NodeIds, copy \notin DOMAIN ns, Path(copy) = Path(n),
         NEW upper \in NodeIds, upper \notin DOMAIN ns, IsPrefix(Path(upper), Path(n)),
         NEW ns2, SplitUp(ns, ns2, n, parent, pa, upper, copy)
  PROVE  Tree(ns2)
<1> SUFFICES ASSUME
         LiveNodes(ns2) = (LiveNodes(ns) \ {n}) \cup {upper, copy},
         ns2[upper].prefix \in Nat, ns2[copy].prefix \in Nat,
         Len(Path(upper)) = Len(Path(parent)) + 1 + ns2[upper].prefix,
         Len(Path(n)) = Len(Path(upper)) + 1 + ns2[copy].prefix,
         \A b \in HCAddresses : \A m : Linked(ns2, copy, b, m) <=> Linked(ns, n, b, m),
         \A b \in HCAddresses : \A m :
           Linked(ns2, upper, b, m) <=> b = Path(n)[Len(Path(upper)) + 1] /\ m = copy,
         \A k \in LiveNodes(ns) \ {n} :
           /\ ns2[k].prefix = ns[k].prefix
           /\ \A b \in HCAddresses : \A m :
                Linked(ns2, k, b, m) <=> IF k = parent /\ b = pa THEN m = upper ELSE Linked(ns, k, b, m)
       PROVE Tree(ns2)
  BY DEF SplitUp
<1> DEFINE L == (LiveNodes(ns) \ {n}) \cup {copy}
           mid == [k \in L |->
                     [prefix |-> IF k = copy THEN ns[n].prefix ELSE ns[k].prefix,
                      cont |-> [b \in HCAddresses |->
                                  IF k = parent /\ b = pa THEN Sub(copy) ELSE ns2[k].cont[b]],
                      removed |-> FALSE]]
<1>1. /\ Len(Path(n)) \in Nat /\ Len(Path(upper)) \in Nat /\ Len(Path(upper)) < Len(Path(n))
      /\ n \in LiveNodes(ns) /\ parent # n
  <2>1. n \in LiveNodes(ns) /\ Leads(parent, pa, Path(n))
    BY DEF Tree, LinksRight
  <2>2. /\ Len(Path(n)) \in Nat /\ Len(Path(upper)) \in Nat /\ Len(Path(parent)) \in Nat
    BY <2>1, PathType DEF IdsTyped, LiveNodes
  <2> QED BY <2>1, <2>2 DEF Leads, Way
<1>2. upper # copy /\ upper \notin LiveNodes(ns) /\ copy \notin LiveNodes(ns)
  BY <1>1 DEF LiveNodes
<1>3. LiveNodes(mid) = L
  BY DEF LiveNodes
<1>4. \A k \in L : mid[k].prefix = IF k = copy THEN ns[n].prefix ELSE ns[k].prefix
  OBVIOUS
<1>5. \A k \in L, b \in HCAddresses :
        mid[k].cont[b] = IF k = parent /\ b = pa THEN Sub(copy) ELSE ns2[k].cont[b]
  OBVIOUS
<1>6. IdsTyped(mid)
  BY DEF IdsTyped, LiveNodes
<1> HIDE DEF mid
<1>7. Linked(mid, parent, pa, copy)
  BY <1>1, <1>5 DEF Linked
<1>8. \A k \in L, b \in HCAddresses : \A m : ~(k = parent /\ b = pa) =>
        (Linked(mid, k, b, m) <=> Linked(ns2, k, b, m))
  BY <1>5 DEF Linked
<1>9. \A m : Linked(mid, parent, pa, m) <=> m = copy
  BY <1>7, OneLink
<1>10. parent \in L /\ parent # copy
  BY <1>1, <1>2
<1>11. \A b \in HCAddresses : \A m : Linked(mid, copy, b, m) <=> Linked(ns, n, b, m)
  BY <1>8, <1>10
<1>12. \A k \in LiveNodes(ns) \ {n} :
         /\ mid[k].prefix = ns[k].prefix
         /\ \A b \in HCAddresses : \A m :
              Linked(mid, k, b, m) <=> IF k = parent /\ b = pa THEN m = copy ELSE Linked(ns, k, b, m)
  <2> TAKE k \in LiveNodes(ns) \ {n}
  <2>1. k \in L /\ k # copy
    BY <1>2
  <2>2. ASSUME NEW b \in HCAddresses, NEW m
        PROVE  Linked(mid, k, b, m) <=> IF k = parent /\ b = pa THEN m = copy ELSE Linked(ns, k, b, m)
    <3>1. CASE k = parent /\ b = pa
      BY <1>9, <3>1
    <3>2. CASE ~(k = parent /\ b = pa)
      <4>1. Linked(mid, k, b, m) <=> Linked(ns2, k, b, m)
        BY <1>8, <2>1, <3>2
      <4>2. Linked(ns2, k, b, m) <=> Linked(ns, k, b, m)
        BY <3>2
      <4> QED BY <3>2, <4>1, <4>2
    <3> QED BY <3>1, <3>2
  <2> QED BY <1>4, <2>1, <2>2
<1>13. mid[copy].prefix = ns[n].prefix
  BY <1>4
<1>14. Tree(mid)
  BY <1>3, <1>11, <1>12, <1>13, CopyTree
<1>15. LiveNodes(ns2) = LiveNodes(mid) \cup {upper} /\ upper \notin LiveNodes(mid)
  BY <1>2, <1>3
<1>16. \A k \in LiveNodes(mid) \ {copy} : ns2[k].prefix = mid[k].prefix
  BY <1>3, <1>12
<1>17. \A k \in LiveNodes(mid), b \in HCAddresses : \A m :
         Linked(ns2, k, b, m) <=> IF k = parent /\ b = pa THEN m = upper ELSE Linked(mid, k, b, m)
  BY <1>1, <1>3, <1>8
<1>18. parent \in LiveNodes(mid)
  BY <1>3, <1>10
<1>19. /\ IsPrefix(Path(upper), Path(copy))
       /\ Len(Path(copy)) = Len(Path(upper)) + 1 + ns2[copy].prefix
       /\ \A b \in HCAddresses : \A m :
            Linked(ns2, upper, b, m) <=> b = Path(copy)[Len(Path(upper)) + 1] /\ m = copy
  OBVIOUS
<1> HIDE DEF L
<1> QED
  <2>1. OnEdge(mid, ns2, parent, pa, copy, upper)
    <3>1. /\ ns2[upper].prefix \in Nat /\ ns2[copy].prefix \in Nat
          /\ Len(Path(upper)) = Len(Path(parent)) + 1 + ns2[upper].prefix
          /\ Len(Path(copy)) = Len(Path(upper)) + 1 + ns2[copy].prefix
      BY <1>19
    <3> QED BY <1>15, <1>16, <1>17, <1>19, <3>1, Zenon DEF OnEdge
  <2>2. upper \in NodeIds /\ pa \in HCAddresses /\ IsPrefix(Path(upper), Path(copy))
    BY <1>19
  <2> QED BY <1>6, <1>7, <1>14, <1>15, <1>18, <2>1, <2>2, EdgeTree

(* Subtrees are hung up at the places P, which hold no subnode yet.  New   *)
(* node m belongs to the subtree of place at[m], top[p] is at its top.     *)
HungUp(ns, ns2, P, N, at, top) ==
  /\ \A p \in P : \A m : ~Linked(ns, p[1], p[2], m)
  /\ N \cap LiveNodes(ns) = {} /\ LiveNodes(ns2) = LiveNodes(ns) \cup N
  /\ \A k \in LiveNodes(ns) :
       /\ ns2[k].prefix = ns[k].prefix
       /\ \A b \in HCAddresses : \A m :
            Linked(ns2, k, b, m) <=> IF <<k, b>> \in P THEN m = top[<<k, b>>] ELSE Linked(ns, k, b, m)
  /\ \A p \in P : /\ at[top[p]] = p
                  /\ Len(Path(top[p])) = Len(Path(p[1])) + 1 + ns2[top[p]].prefix

SubtreesRight(ns2, N, at, top) ==
  /\ \A m \in N : Leads(at[m][1], at[m][2], Path(m)) /\ On(top[at[m]], Path(m))
  /\ \A m \in N, b \in HCAddresses : \A k : Linked(ns2, m, b, k) =>
       k \in N /\ Leads(m, b, Path(k)) /\ Len(Path(k)) = Len(Path(m)) + 1 + ns2[k].prefix
  /\ \A k \in N : k = top[at[k]] \/ \E m \in N, b \in HCAddresses : Linked(ns2, m, b, k)
  /\ \A k, m \in N : at[k] = at[m] /\ k # m /\ On(k, Path(m)) =>
       /\ Len(Path(k)) < Len(Path(m))
       /\ \E c \in N : Linked(ns2, k, Path(m)[Len(Path(k)) + 1], c) /\ On(c, Path(m))

(* Subtrees put in the places P of a tree leave it a tree.                 *)
LEMMA FlushTree ==
  ASSUME NEW ns, IdsTyped(ns), Tree(ns),
         NEW P \in SUBSET (LiveNodes(ns) \X HCAddresses), NEW N \in SUBSET NodeIds,
         NEW at \in [N -> P], NEW top \in [P -> N],
         NEW ns2, HungUp(ns, ns2, P, N, at, top), SubtreesRight(ns2, N, at, top)
  PROVE  Tree(ns2)
<1> SUFFICES ASSUME
         \A p \in P : \A m : ~Linked(ns, p[1], p[2], m),
         N \cap LiveNodes(ns) = {}, LiveNodes(ns2) = LiveNodes(ns) \cup N,
         \A k \in LiveNodes(ns) :
           /\ ns2[k].prefix = ns[k].prefix
           /\ \A b \in HCAddresses : \A m :
                Linked(ns2, k, b, m) <=> IF <<k, b>> \in P THEN m = top[<<k, b>>] ELSE Linked(ns, k, b, m),
         \A p \in P : /\ at[top[p]] = p
                      /\ Len(Path(top[p])) = Len(Path(p[1])) + 1 + ns2[top[p]].prefix,
         \A m \in N : Leads(at[m][1], at[m][2], Path(m)) /\ On(top[at[m]], Path(m)),
         \A m \in N, b \in HCAddresses : \A k : Linked(ns2, m, b, k) =>
           /\ k \in N /\ Leads(m, b, Path(k)) /\ Len(Path(k)) = Len(Path(m)) + 1 + ns2[k].prefix,
         \A k \in N : k = top[at[k]] \/ \E m \in N, b \in HCAddresses : Linked(ns2, m, b, k),
         \A k, m \in N : at[k] = at[m] /\ k # m /\ On(k, Path(m)) =>
           /\ Len(Path(k)) < Len(Path(m))
           /\ \E c \in N : Linked(ns2, k, Path(m)[Len(Path(k)) + 1], c) /\ On(c, Path(m))
         PROVE Tree(ns2)
  BY DEF HungUp, SubtreesRight
<1>1. \A k \in LiveNodes(ns) \cup N :
        k \in NodeIds /\ Path(k) \in Seq(HCAddresses) /\ Len(Path(k)) \in Nat
  BY PathType DEF IdsTyped, LiveNodes
<1>2. \A k \in LiveNodes(ns), b \in HCAddresses : \A m : Linked(ns, k, b, m) =>
         /\ m \in LiveNodes(ns) /\ Leads(k, b, Path(m))
         /\ Len(Path(m)) = Len(Path(k)) + 1 + ns[m].prefix
  BY DEF Tree, LinksRight
<1>3. \A k \in LiveNodes(ns), m \in LiveNodes(ns) : k # m /\ On(k, Path(m)) =>
          /\ Len(Path(k)) < Len(Path(m))
          /\ \E c \in LiveNodes(ns) : Linked(ns, k, Path(m)[Len(Path(k)) + 1], c) /\ On(c, Path(m))
          /\ Path(m)[Len(Path(k)) + 1] \in HCAddresses
  <2> TAKE k \in LiveNodes(ns), m \in LiveNodes(ns)
  <2> HAVE k # m /\ On(k, Path(m))
  <2>1. PICK c : /\ Linked(ns, k, Path(m)[Len(Path(k)) + 1], c) /\ On(c, Path(m))
                 /\ Len(Path(k)) < Len(Path(m))
    BY DEF Tree, NoShortcut
  <2>2. Path(m)[Len(Path(k)) + 1] \in HCAddresses
    BY <1>1, <2>1, TowardType
  <2> QED BY <1>2, <2>1, <2>2
<1>4. RootTop(ns2)
  BY DEF Tree, RootTop
<1>5. \A p \in P : p[1] \in LiveNodes(ns) /\ p[2] \in HCAddresses /\ p = <<p[1], p[2]>> /\ top[p] \in N
  OBVIOUS
<1>6. ASSUME NEW m \in N
      PROVE  at[m][1] \in LiveNodes(ns) /\ at[m][2] \in HCAddresses /\ <<at[m][1], at[m][2]>> \in P
             /\ at[m] = <<at[m][1], at[m][2]>>
  <2>1. at[m] \in P
    OBVIOUS
  <2>2. at[m][1] \in LiveNodes(ns) /\ at[m][2] \in HCAddresses /\ at[m] = <<at[m][1], at[m][2]>>
    BY <1>5, <2>1, Zenon
  <2> QED BY <2>1, <2>2, Zenon
<1>7. LinksRight(ns2)
  <2> SUFFICES ASSUME NEW k \in LiveNodes(ns2), NEW b \in HCAddresses, NEW m, Linked(ns2, k, b, m)
               PROVE  /\ m \in LiveNodes(ns2) /\ Leads(k, b, Path(m))
                      /\ Len(Path(m)) = Len(Path(k)) + 1 + ns2[m].prefix
    BY DEF LinksRight
  <2>1. CASE k \in N
    BY <2>1
  <2>2. CASE k \in LiveNodes(ns) /\ <<k, b>> \in P
    <3>1. m = top[<<k, b>>] /\ m \in N /\ at[m] = <<k, b>>
      BY <2>2
    <3>2. Leads(k, b, Path(m))
      <4>1. at[m][1] = k /\ at[m][2] = b
        BY <3>1
      <4>2. Leads(at[m][1], at[m][2], Path(m))
        BY <3>1, Zenon
      <4> QED BY <4>1, <4>2
    <3>3. Len(Path(m)) = Len(Path(k)) + 1 + ns2[m].prefix
      <4> DEFINE p == <<k, b>>
      <4>1. p \in P /\ m = top[p] /\ p[1] = k
        BY <2>2, <3>1
      <4> HIDE DEF p
      <4>2. Len(Path(top[p])) = Len(Path(p[1])) + 1 + ns2[top[p]].prefix
        BY <4>1
      <4> QED BY <4>1, <4>2
    <3> QED BY <3>1, <3>2, <3>3
  <2>3. CASE k \in LiveNodes(ns) /\ <<k, b>> \notin P
    <3>1. Linked(ns, k, b, m)
      BY <2>3
    <3> QED BY <1>2, <2>3, <3>1
  <2> QED BY <2>1, <2>2, <2>3
<1>8. AllLinked(ns2)
  <2> SUFFICES ASSUME NEW m \in LiveNodes(ns2), ~AtTop(m)
               PROVE  \E k \in LiveNodes(ns2), b \in HCAddresses : Linked(ns2, k, b, m)
    BY DEF AllLinked
  <2>1. CASE m \in N /\ m = top[at[m]]
    <3>1. Linked(ns2, at[m][1], at[m][2], m)
      BY <1>6, <2>1
    <3> QED BY <1>6, <2>1, <3>1
  <2>2. CASE m \in N /\ m # top[at[m]]
    BY <2>2
  <2>3. CASE m \notin N
    <3>1. PICK k \in LiveNodes(ns), b \in HCAddresses : Linked(ns, k, b, m)
      BY <2>3 DEF Tree, AllLinked
    <3>2. <<k, b>> \notin P
      BY <3>1
    <3> QED BY <3>1, <3>2
  <2> QED BY <2>1, <2>2, <2>3
<1>9. ASSUME NEW k \in LiveNodes(ns), NEW m \in LiveNodes(ns), NEW a \in HCAddresses,
             <<k, a>> \in P, Leads(k, a, Path(m))
      PROVE  FALSE
  <2>1. k # m /\ On(k, Path(m)) /\ Path(m)[Len(Path(k)) + 1] = a
    BY <1>1, <1>9 DEF Leads, Way, On
  <2>2. \E c : Linked(ns, k, a, c)
    BY <1>3, <2>1
  <2> QED BY <1>9, <2>2
<1>10. ASSUME NEW k \in LiveNodes(ns), NEW m \in N, On(k, Path(m))
       PROVE  /\ On(k, Path(at[m][1]))
              /\ Len(Path(k)) < Len(Path(m))
              /\ k # at[m][1] => Path(m)[Len(Path(k)) + 1] = Path(at[m][1])[Len(Path(k)) + 1]
  <2> DEFINE n == at[m][1]
             a == at[m][2]
  <2>1. n \in LiveNodes(ns) /\ a \in HCAddresses /\ <<n, a>> \in P /\ Leads(n, a, Path(m))
    BY <1>6
  <2> HIDE DEF n, a
  <2>2. /\ Path(k) \in Seq(HCAddresses) /\ Path(m) \in Seq(HCAddresses) /\ Path(n) \in Seq(HCAddresses)
        /\ Len(Path(k)) \in Nat /\ Len(Path(m)) \in Nat /\ Len(Path(n)) \in Nat
    BY <1>1, <2>1
  <2>3. Len(Path(k)) <= Len(Path(n))
    <3>1. SUFFICES ASSUME Len(Path(n)) < Len(Path(k)) PROVE FALSE
      BY <2>2
    <3>2. Leads(n, a, Path(k))
      BY <1>10, <2>1, <2>2, <3>1, WayThrough DEF Leads, On
    <3> QED BY <1>9, <2>1, <3>2
  <2>4. On(k, Path(n))
    BY <1>10, <2>1, <2>2, <2>3, PrefixOrder DEF On, Leads, Way
  <2>5. k # n => Len(Path(k)) < Len(Path(n))
    BY <1>3, <2>1, <2>4
  <2>6. k # n => Path(m)[Len(Path(k)) + 1] = Path(n)[Len(Path(k)) + 1]
    BY <2>1, <2>2, <2>5, SameAddress DEF Leads, Way
  <2>7. Len(Path(k)) < Len(Path(m))
    BY <2>1, <2>2, <2>3 DEF Leads, Way
  <2> QED BY <2>4, <2>6, <2>7 DEF n
<1>11. NoShortcut(ns2)
  <2> SUFFICES ASSUME NEW k \in LiveNodes(ns2), NEW m \in LiveNodes(ns2), k # m, On(k, Path(m))
               PROVE  /\ Len(Path(k)) < Len(Path(m))
                      /\ \E c : Linked(ns2, k, Path(m)[Len(Path(k)) + 1], c) /\ On(c, Path(m))
    BY DEF NoShortcut
  <2>1. CASE k \in LiveNodes(ns) /\ m \in LiveNodes(ns)
    <3>1. PICK c \in LiveNodes(ns) : /\ Linked(ns, k, Path(m)[Len(Path(k)) + 1], c) /\ On(c, Path(m))
                   /\ Len(Path(k)) < Len(Path(m)) /\ Path(m)[Len(Path(k)) + 1] \in HCAddresses
      BY <1>3, <2>1
    <3>2. <<k, Path(m)[Len(Path(k)) + 1]>> \notin P
      BY <3>1
    <3> QED BY <2>1, <3>1, <3>2
  <2>2. CASE k \in LiveNodes(ns) /\ m \in N
    <3> DEFINE n == at[m][1]
    <3>1. /\ On(k, Path(n)) /\ Len(Path(k)) < Len(Path(m)) /\ n \in LiveNodes(ns)
          /\ k # n => Path(m)[Len(Path(k)) + 1] = Path(n)[Len(Path(k)) + 1]
      BY <1>6, <1>10, <2>2
    <3>2. Leads(n, at[m][2], Path(m)) /\ <<n, at[m][2]>> \in P /\ at[m][2] \in HCAddresses
          /\ Linked(ns2, n, at[m][2], top[at[m]]) /\ On(top[at[m]], Path(m))
      BY <1>6, <2>2
    <3>3. CASE k = n
      BY <3>1, <3>2, <3>3 DEF Leads, Way
    <3>4. CASE k # n
      <4>1. PICK c \in LiveNodes(ns) : /\ Linked(ns, k, Path(n)[Len(Path(k)) + 1], c) /\ On(c, Path(n))
                     /\ Path(n)[Len(Path(k)) + 1] \in HCAddresses
        BY <1>3, <2>2, <3>1, <3>4
      <4>2. <<k, Path(n)[Len(Path(k)) + 1]>> \notin P
        BY <4>1
      <4>3. Linked(ns2, k, Path(m)[Len(Path(k)) + 1], c)
        BY <2>2, <3>1, <3>4, <4>1, <4>2
      <4>4. On(c, Path(m))
        BY <1>1, <2>2, <3>1, <3>2, <4>1, PrefixTrans DEF On, Leads, Way
      <4> QED BY <3>1, <4>3, <4>4
    <3> QED BY <3>3, <3>4
  <2>3. CASE k \in N /\ m \in LiveNodes(ns)
    <3>1. Leads(at[k][1], at[k][2], Path(m))
      BY <1>1, <1>6, <2>3, WayThrough DEF Leads, On
    <3> QED BY <1>6, <1>9, <2>3, <3>1
  <2>4. CASE k \in N /\ m \in N
    <3> DEFINE n == at[k][1]
               a == at[k][2]
               l == at[m][1]
    <3>1. /\ n \in LiveNodes(ns) /\ a \in HCAddresses /\ <<n, a>> \in P /\ Leads(n, a, Path(k))
          /\ l \in LiveNodes(ns) /\ at[m][2] \in HCAddresses /\ Leads(l, at[m][2], Path(m))
          /\ at[m] = <<l, at[m][2]>> /\ at[k] = <<n, a>>
      BY <1>6, <2>4
    <3>2. Leads(n, a, Path(m))
      BY <1>1, <2>4, <3>1, WayThrough DEF Leads, On
    <3>3. n = l
      <4>1. SUFFICES ASSUME n # l PROVE FALSE
        OBVIOUS
      <4>2. On(n, Path(m))
        BY <3>2 DEF Leads, Way, On
      <4>3. On(n, Path(l)) /\ Path(m)[Len(Path(n)) + 1] = Path(l)[Len(Path(n)) + 1]
        BY <1>10, <2>4, <3>1, <4>1, <4>2
      <4>4. Len(Path(n)) < Len(Path(l))
        BY <1>3, <3>1, <4>1, <4>3
      <4>5. Leads(n, a, Path(l))
        BY <3>2, <4>3, <4>4 DEF Leads, Way, On
      <4> QED BY <1>9, <3>1, <4>5
    <3>4. at[k] = at[m]
      <4>1. Path(m)[Len(Path(n)) + 1] = a /\ Path(m)[Len(Path(l)) + 1] = at[m][2]
        BY <3>1, <3>2 DEF Leads, Way
      <4>2. at[m][2] = a
        BY <3>3, <4>1
      <4> HIDE DEF n, a, l
      <4> QED BY <3>1, <3>3, <4>2
    <3> QED BY <2>4, <3>4
  <2> QED BY <2>1, <2>2, <2>3, <2>4
<1> QED BY <1>4, <1>7, <1>8, <1>11 DEF Tree

(* What a node may hold, and its fields. *)
Holds(ids, slots) ==
  {Empty} \cup {Suffix(e) : e \in Entries} \cup {Sub(m) : m \in ids} \cup {Buf(s) : s \in slots}

NodeFields(n, ids, slots) ==
  [prefix : 0 .. Len(Path(n)), cont : [HCAddresses -> Holds(ids, slots)],
   max : Nat, removed : BOOLEAN, updates : Nat]

NodesTyped(ns, slots) ==
  /\ IsFiniteSet(DOMAIN ns) /\ IdsTyped(ns)
  /\ \A n \in DOMAIN ns : Len(Path(n)) < WIDTH /\ ns[n] \in NodeFields(n, DOMAIN ns, slots)

(* What a node may hold with few nodes and slots it may hold with more.    *)
LEMMA FieldsGrow ==
  ASSUME NEW n, NEW ids, NEW slots, NEW ids2, NEW slots2, ids \subseteq ids2, slots \subseteq slots2
  PROVE  Holds(ids, slots) \subseteq Holds(ids2, slots2)
         /\ NodeFields(n, ids, slots) \subseteq NodeFields(n, ids2, slots2)
<1>1. Holds(ids, slots) \subseteq Holds(ids2, slots2)
  BY DEF Holds
<1> QED BY <1>1 DEF NodeFields

(* The entries a buffer is flushed with. *)
LEMMA RowsTogether ==
  ASSUME NEW rows \in Seq(Entries), Len(rows) >= 2, Key[rows[1]] # Key[rows[2]],
         NEW n \in NodeIds, NEW a, \A i \in DOMAIN rows : Leads(n, a, Key[rows[i]])
  PROVE  Together(DistinctRows(rows), n, a)
<1> DEFINE I == {j \in DOMAIN rows : \A k \in 1 .. j - 1 : Key[rows[k]] # Key[rows[j]]}
<1>1. DOMAIN rows = 1 .. Len(rows) /\ Len(rows) \in Nat /\ \A i \in DOMAIN rows : rows[i] \in Entries
  OBVIOUS
<1>2. 1 \in I /\ 2 \in I
  BY <1>1
<1>3. DistinctRows(rows) = {rows[i] : i \in I}
  BY DEF DistinctRows
<1>4. ASSUME NEW i \in I, NEW j \in I, Key[rows[i]] = Key[rows[j]] PROVE i = j
  <2>1. i \in Nat /\ j \in Nat /\ i >= 1 /\ j >= 1
    BY <1>1
  <2>2. ~(i < j)
    <3>1. SUFFICES ASSUME i < j PROVE FALSE
      OBVIOUS
    <3>2. i \in 1 .. j - 1
      BY <2>1, <3>1
    <3> QED BY <1>4, <3>2
  <2>3. ~(j < i)
    <3>1. SUFFICES ASSUME j < i PROVE FALSE
      OBVIOUS
    <3>2. j \in 1 .. i - 1
      BY <2>1, <3>1
    <3> QED BY <1>4, <3>2
  <2> QED BY <2>1, <2>2, <2>3
<1> HIDE DEF I
<1>5. \A e, f \in DistinctRows(rows) : Key[e] = Key[f] => e = f
  BY <1>3, <1>4
<1>6. \E e, f \in DistinctRows(rows) : e # f
  BY <1>2, <1>3
<1>7. DistinctRows(rows) \subseteq Entries /\ \A e \in DistinctRows(rows) : Leads(n, a, Key[e])
  <2>1. I \subseteq DOMAIN rows
    BY DEF I
  <2> QED BY <1>1, <1>3, <2>1
<1> QED BY <1>5, <1>6, <1>7 DEF Together

(* Every row's key is among them. *)
LEMMA RowsKept ==
  ASSUME NEW rows \in Seq(Entries), NEW i \in DOMAIN rows
  PROVE  \E e \in DistinctRows(rows) : Key[e] = Key[rows[i]]
<1> DEFINE T == {j \in DOMAIN rows : Key[rows[j]] = Key[rows[i]]}
<1>1. T \in SUBSET Nat /\ T # {} /\ \A j \in T : j >= 1 /\ j <= Len(rows)
  OBVIOUS
<1>2. PICK j \in T : \A k \in T : j <= k
  <2> HIDE DEF T
  <2> QED BY <1>1, LeastNatural
<1>3. \A k \in 1 .. j - 1 : Key[rows[k]] # Key[rows[j]]
  <2> SUFFICES ASSUME NEW k \in 1 .. j - 1, Key[rows[k]] = Key[rows[j]] PROVE FALSE
    OBVIOUS
  <2>1. k \in DOMAIN rows /\ k < j
    BY <1>1
  <2>2. k \in T
    BY <2>1
  <2> QED BY <1>1, <1>2, <2>1, <2>2
<1>4. rows[j] \in DistinctRows(rows)
  BY <1>3 DEF DistinctRows
<1> QED BY <1>4

-----------------------------------------------------------------------------
(* The flush of several buffers *)

Hanging(ns, b) ==
  /\ b.node \in LiveNodes(ns) /\ b.addr \in HCAddresses
  /\ \A m : ~Linked(ns, b.node, b.addr, m)
  /\ Together(DistinctRows(b.rows), b.node, b.addr)

HangingOnce(ns, bs) ==
  /\ \A b \in bs : Hanging(ns, b)
  /\ \A b, c \in bs : b.node = c.node /\ b.addr = c.addr => b = c

SubtreeOf(b, used) == SubtreeFor(DistinctRows(b.rows), b.node, used)
NewNodes(bs, used) == UNION {DOMAIN SubtreeOf(b, used) : b \in bs}

(* One place without a subnode leads to a path. *)
LEMMA OnePlaceBelow ==
  ASSUME NEW ns, IdsTyped(ns), Tree(ns), NEW n \in LiveNodes(ns), NEW k \in LiveNodes(ns),
         NEW a \in HCAddresses, NEW b \in HCAddresses,
         \A m : ~Linked(ns, n, a, m),
         NEW q \in Seq(HCAddresses), Leads(n, a, q), Leads(k, b, q), Len(Path(n)) <= Len(Path(k))
  PROVE  n = k /\ a = b
<1>1. /\ Path(n) \in Seq(HCAddresses) /\ Len(Path(n)) \in Nat
      /\ Path(k) \in Seq(HCAddresses) /\ Len(Path(k)) \in Nat
  BY PathType DEF IdsTyped, LiveNodes
<1>2. On(n, Path(k))
  BY <1>1, PrefixOrder DEF Leads, Way, On
<1>3. n = k
  <2>1. SUFFICES ASSUME n # k PROVE FALSE
    OBVIOUS
  <2>2. Len(Path(n)) < Len(Path(k)) /\ \E c : Linked(ns, n, Path(k)[Len(Path(n)) + 1], c)
    BY <1>2, <2>1 DEF Tree, NoShortcut
  <2>3. Leads(n, a, Path(k))
    BY <1>1, <2>2, WayThrough DEF Leads, Way
  <2> QED BY <2>2, <2>3 DEF Leads, Way
<1> QED BY <1>3 DEF Leads, Way

(* The subtrees of two buffers have no node in common.                     *)
LEMMA SubtreesApart ==
  ASSUME NEW ns, IdsTyped(ns), IsFiniteSet(DOMAIN ns), Tree(ns), NEW bs, HangingOnce(ns, bs),
         NEW b \in bs, NEW c \in bs,
         NEW m, m \in DOMAIN SubtreeOf(b, DOMAIN ns), m \in DOMAIN SubtreeOf(c, DOMAIN ns)
  PROVE  b = c
<1>1. /\ b.node \in LiveNodes(ns) /\ b.addr \in HCAddresses
      /\ \A k : ~Linked(ns, b.node, b.addr, k)
      /\ Together(DistinctRows(b.rows), b.node, b.addr)
  BY DEF HangingOnce, Hanging
<1>2. /\ c.node \in LiveNodes(ns) /\ c.addr \in HCAddresses
      /\ \A k : ~Linked(ns, c.node, c.addr, k)
      /\ Together(DistinctRows(c.rows), c.node, c.addr)
  BY DEF HangingOnce, Hanging
<1>3. Leads(b.node, b.addr, Path(m)) /\ m \in NodeIds
  BY <1>1, SubtreeTop, SubtreeIds DEF SubtreeOf
<1>4. Leads(c.node, c.addr, Path(m))
  BY <1>2, SubtreeTop DEF SubtreeOf
<1>5. Len(Path(b.node)) \in Nat /\ Len(Path(c.node)) \in Nat /\ Path(m) \in Seq(HCAddresses)
  BY <1>1, <1>2, <1>3, PathType DEF IdsTyped, LiveNodes
<1>6. b.node = c.node /\ b.addr = c.addr
  <2>1. CASE Len(Path(b.node)) <= Len(Path(c.node))
    BY <1>1, <1>2, <1>3, <1>4, <1>5, <2>1, OnePlaceBelow
  <2>2. CASE Len(Path(c.node)) <= Len(Path(b.node))
    BY <1>1, <1>2, <1>3, <1>4, <1>5, <2>2, OnePlaceBelow
  <2> QED BY <1>5, <2>1, <2>2
<1> QED BY <1>6 DEF HangingOnce

(* The nodes after a flush: fresh ids are added. *)
LEMMA FlushedNew ==
  ASSUME NEW ns, IdsTyped(ns), IsFiniteSet(DOMAIN ns), Tree(ns), NEW bs, HangingOnce(ns, bs)
  PROVE  /\ DOMAIN Flushed(ns, bs) = DOMAIN ns \cup NewNodes(bs, DOMAIN ns)
         /\ \A m \in NewNodes(bs, DOMAIN ns) : m \in NodeIds /\ m \notin DOMAIN ns
<1> DEFINE used == DOMAIN ns
           F == {SubtreeFor(DistinctRows(b.rows), b.node, used) : b \in bs}
           N == UNION {DOMAIN f : f \in F}
           G == Flushed(ns, bs)
<1>1. N = NewNodes(bs, used)
  BY DEF NewNodes, SubtreeOf
<1>2. DOMAIN G = used \cup N
  BY DEF Flushed
<1>3. \A m \in N : m \in NodeIds /\ m \notin used
  <2> HIDE DEF F, N
  <2> TAKE m \in N
  <2>1. PICK b \in bs : m \in DOMAIN SubtreeOf(b, used)
    BY <1>1 DEF NewNodes
  <2>2. Together(DistinctRows(b.rows), b.node, b.addr)
    BY DEF HangingOnce, Hanging
  <2> QED BY <2>1, <2>2, SubtreeIds DEF SubtreeOf
<1> HIDE DEF F, N
<1> QED BY <1>1, <1>2, <1>3

(* A new node is one of its buffer's subtree. *)
LEMMA FlushedNewNode ==
  ASSUME NEW ns, IdsTyped(ns), IsFiniteSet(DOMAIN ns), Tree(ns), NEW bs, HangingOnce(ns, bs),
         NEW b \in bs, NEW m, m \in DOMAIN SubtreeOf(b, DOMAIN ns)
  PROVE  Flushed(ns, bs)[m] = SubtreeOf(b, DOMAIN ns)[m]
<1> DEFINE used == DOMAIN ns
           F == {SubtreeFor(DistinctRows(c.rows), c.node, used) : c \in bs}
           f == CHOOSE g \in F : m \in DOMAIN g
<1>1. SubtreeOf(b, used) \in F
  BY DEF SubtreeOf
<1>2. f \in F /\ m \in DOMAIN f
  BY <1>1
<1>3. m \in NewNodes(bs, used)
  BY DEF NewNodes
<1>4. m \notin used /\ m \in DOMAIN Flushed(ns, bs)
  BY <1>3, FlushedNew
<1>5. Flushed(ns, bs)[m] = f[m]
  BY <1>1, <1>4 DEF Flushed
<1>6. PICK c \in bs : f = SubtreeOf(c, used)
  BY <1>2 DEF SubtreeOf
<1> HIDE DEF f, F
<1>7. b = c
  BY <1>2, <1>6, SubtreesApart
<1> QED BY <1>5, <1>6, <1>7

(* A node with other contents. *)
WithCont(node, c) == [node EXCEPT !.cont = c]

(* The old ones: only places of buffers change. *)
LEMMA FlushedOld ==
  ASSUME NEW ns, NEW slots, NodesTyped(ns, slots), NEW bs, HangingOnce(ns, bs),
         NEW n \in DOMAIN ns,
         NEW ids, DOMAIN ns \subseteq ids, \A b \in bs : TopNode(b, DOMAIN ns) \in ids
  PROVE  \E c \in [HCAddresses -> Holds(ids, slots)] :
           /\ Flushed(ns, bs)[n] = WithCont(ns[n], c)
           /\ \A a \in HCAddresses :
                \/ c[a] = ns[n].cont[a] /\ \A b \in bs : ~(b.node = n /\ b.addr = a)
                \/ \E b \in bs : b.node = n /\ b.addr = a /\ c[a] = Sub(TopNode(b, DOMAIN ns))
<1> DEFINE used == DOMAIN ns
           stored(k, a) == {b \in bs : b.node = k /\ b.addr = a}
           content(k, a) == IF stored(k, a) = {} THEN ns[k].cont[a]
                            ELSE Sub(TopNode(CHOOSE b \in stored(k, a) : TRUE, used))
           c == [a \in HCAddresses |-> content(n, a)]
           F == Flushed(ns, bs)
<1>1. F[n] = WithCont(ns[n], c)
  BY DEF Flushed, WithCont
<1> HIDE DEF F
<1>2. c = [a \in HCAddresses |-> c[a]] /\ \A a \in HCAddresses : c[a] = content(n, a)
  OBVIOUS
<1> HIDE DEF c
<1>3. ASSUME NEW a \in HCAddresses
      PROVE  \/ c[a] = ns[n].cont[a] /\ \A b \in bs : ~(b.node = n /\ b.addr = a)
             \/ \E b \in bs : b.node = n /\ b.addr = a /\ c[a] = Sub(TopNode(b, used))
  <2>1. CASE stored(n, a) = {}
    BY <1>2, <2>1
  <2>2. CASE stored(n, a) # {}
    <3>1. PICK b \in bs : b.node = n /\ b.addr = a
      BY <2>2
    <3>2. stored(n, a) = {b}
      BY <3>1 DEF HangingOnce
    <3>3. (CHOOSE d \in stored(n, a) : TRUE) = b
      BY <3>2
    <3> HIDE DEF stored
    <3>4. c[a] = Sub(TopNode(b, used))
      BY <1>2, <2>2, <3>3
    <3> QED BY <3>1, <3>4
  <2> QED BY <2>1, <2>2
<1>4. ASSUME NEW a \in HCAddresses PROVE c[a] \in Holds(ids, slots)
  <2>1. ns[n].cont[a] \in Holds(ids, slots)
    <3>1. ns[n] \in NodeFields(n, used, slots)
      BY DEF NodesTyped
    <3> QED BY <3>1, FieldsGrow DEF NodeFields
  <2> QED BY <1>3, <2>1 DEF Holds
<1>5. c \in [HCAddresses -> Holds(ids, slots)]
  BY <1>2, <1>4
<1> QED BY <1>1, <1>3, <1>5 DEF F

(* No node holds more than it has room for; beside the root every node     *)
(* holds two contents; suffixes lie on their lookup paths.                 *)
Room(ns) == \A n \in DOMAIN ns : NContents(ns[n]) <= ns[n].max
Spread(ns) == \A n \in DOMAIN ns : ~AtTop(n) => TwoContents(ns[n])
Placed(ns) ==
  \A n \in LiveNodes(ns), a \in HCAddresses : \A e :
    ns[n].cont[a] = Suffix(e) => Leads(n, a, Key[e])

Sound(ns, slots) ==
  NodesTyped(ns, slots) /\ Tree(ns) /\ Room(ns) /\ Spread(ns) /\ Placed(ns)

(* What the flush leaves of an old node. *)
LEMMA FlushedPlace ==
  ASSUME NEW ns, NEW slots, NodesTyped(ns, slots), NEW bs, HangingOnce(ns, bs),
         NEW n \in DOMAIN ns, NEW a \in HCAddresses
  PROVE  \/ /\ Flushed(ns, bs)[n].cont[a] = ns[n].cont[a]
            /\ \A b \in bs : ~(b.node = n /\ b.addr = a)
         \/ \E b \in bs : /\ b.node = n /\ b.addr = a
                          /\ Flushed(ns, bs)[n].cont[a] = Sub(TopNode(b, DOMAIN ns))
<1> DEFINE ids == DOMAIN ns \cup {TopNode(b, DOMAIN ns) : b \in bs}
<1>1. DOMAIN ns \subseteq ids /\ \A b \in bs : TopNode(b, DOMAIN ns) \in ids
  OBVIOUS
<1> HIDE DEF ids
<1>2. PICK c \in [HCAddresses -> Holds(ids, slots)] :
        /\ Flushed(ns, bs)[n] = WithCont(ns[n], c)
        /\ \A b_1 \in HCAddresses :
                \/ c[b_1] = ns[n].cont[b_1] /\ \A b \in bs : ~(b.node = n /\ b.addr = b_1)
                \/ \E b \in bs : b.node = n /\ b.addr = b_1 /\ c[b_1] = Sub(TopNode(b, DOMAIN ns))
  BY <1>1, FlushedOld
<1>3. ns[n] \in NodeFields(n, DOMAIN ns, slots)
  BY DEF NodesTyped
<1>4. Flushed(ns, bs)[n].cont = c
  BY <1>2, <1>3 DEF NodeFields, WithCont
<1> QED BY <1>2, <1>4

(* A flush changes no field of an old node but its contents.               *)
LEMMA FlushedFields ==
  ASSUME NEW ns, NEW slots, NodesTyped(ns, slots), NEW bs, HangingOnce(ns, bs),
         NEW n \in DOMAIN ns
  PROVE  /\ Flushed(ns, bs)[n].prefix = ns[n].prefix
         /\ Flushed(ns, bs)[n].max = ns[n].max
         /\ Flushed(ns, bs)[n].removed = ns[n].removed
         /\ Flushed(ns, bs)[n].updates = ns[n].updates
<1> DEFINE ids == DOMAIN ns \cup {TopNode(b, DOMAIN ns) : b \in bs}
<1>1. DOMAIN ns \subseteq ids /\ \A b \in bs : TopNode(b, DOMAIN ns) \in ids
  OBVIOUS
<1> HIDE DEF ids
<1>2. PICK c \in [HCAddresses -> Holds(ids, slots)] :
        Flushed(ns, bs)[n] = WithCont(ns[n], c)
  BY <1>1, FlushedOld
<1>3. ns[n] \in NodeFields(n, DOMAIN ns, slots)
  BY DEF NodesTyped
<1> QED BY <1>2, <1>3 DEF NodeFields, WithCont

(* An old node keeps its type when subtrees are put in it.                 *)
LEMMA FlushedField ==
  ASSUME NEW ns, NEW slots, NodesTyped(ns, slots), NEW bs, HangingOnce(ns, bs),
         NEW n \in DOMAIN ns,
         NEW ids, DOMAIN ns \subseteq ids, \A b \in bs : TopNode(b, DOMAIN ns) \in ids
  PROVE  Flushed(ns, bs)[n] \in NodeFields(n, ids, slots)
<1>2. PICK c \in [HCAddresses -> Holds(ids, slots)] :
        Flushed(ns, bs)[n] = WithCont(ns[n], c)
  BY FlushedOld
<1>3. ns[n] \in NodeFields(n, DOMAIN ns, slots)
  BY DEF NodesTyped
<1> QED BY <1>2, <1>3 DEF NodeFields, WithCont

(* A new node is one of the subtree of a buffer. *)
LEMMA FlushedSubtree ==
  ASSUME NEW ns, NEW slots, NodesTyped(ns, slots), Tree(ns), NEW bs, HangingOnce(ns, bs),
         NEW m \in DOMAIN Flushed(ns, bs), m \notin DOMAIN ns
  PROVE  \E b \in bs :
           /\ m \in DOMAIN SubtreeOf(b, DOMAIN ns)
           /\ Flushed(ns, bs)[m] = SubtreeOf(b, DOMAIN ns)[m]
           /\ Together(DistinctRows(b.rows), b.node, b.addr)
<1>1. m \in NewNodes(bs, DOMAIN ns)
  BY FlushedNew DEF NodesTyped
<1>2. PICK b \in bs : m \in DOMAIN SubtreeOf(b, DOMAIN ns)
  BY <1>1 DEF NewNodes
<1>3. Flushed(ns, bs)[m] = SubtreeOf(b, DOMAIN ns)[m]
  <2>1. IdsTyped(ns) /\ IsFiniteSet(DOMAIN ns)
    BY DEF NodesTyped
  <2> QED BY <1>2, <2>1, FlushedNewNode
<1> QED BY <1>2, <1>3 DEF HangingOnce, Hanging

(* Its fields. *)
LEMMA FlushedShape ==
  ASSUME NEW ns, NEW slots, NodesTyped(ns, slots), Tree(ns), NEW bs, HangingOnce(ns, bs),
         NEW m \in DOMAIN Flushed(ns, bs), m \notin DOMAIN ns
  PROVE  /\ m \in NodeIds /\ Len(Path(m)) < WIDTH
         /\ Flushed(ns, bs)[m] \in NodeFields(m, DOMAIN Flushed(ns, bs), slots)
         /\ Flushed(ns, bs)[m].removed = FALSE
         /\ NContents(Flushed(ns, bs)[m]) <= Flushed(ns, bs)[m].max
         /\ TwoContents(Flushed(ns, bs)[m])
<1> DEFINE F == Flushed(ns, bs)
<1>1. PICK b \in bs :
           /\ m \in DOMAIN SubtreeOf(b, DOMAIN ns)
           /\ F[m] = SubtreeOf(b, DOMAIN ns)[m]
           /\ Together(DistinctRows(b.rows), b.node, b.addr)
  BY FlushedSubtree
<1> DEFINE es == DistinctRows(b.rows)
           T == SubtreeFor(es, b.node, DOMAIN ns)
<1>2. IsFiniteSet(DOMAIN ns)
  BY DEF NodesTyped
<1>3. DOMAIN T \subseteq DOMAIN F
  <2>1. DOMAIN F = DOMAIN ns \cup NewNodes(bs, DOMAIN ns)
    BY FlushedNew DEF NodesTyped
  <2> QED BY <2>1 DEF NewNodes, SubtreeOf
<1>4. m \in DOMAIN T /\ F[m] = T[m]
  BY <1>1 DEF SubtreeOf
<1>5. es \subseteq Entries
  BY <1>1 DEF Together
<1> HIDE DEF F, es
<1>6. /\ T[m] \in [prefix : 0 .. Len(Path(m)), max : Nat, removed : {FALSE}, updates : {0},
                   cont : [HCAddresses -> {Empty} \cup {Suffix(e) : e \in es}
                                             \cup {Sub(k) : k \in DOMAIN T}]]
      /\ NContents(T[m]) <= T[m].max
      /\ TwoContents(T[m])
  BY <1>1, <1>2, <1>4, SubtreeShape DEF es
<1>7. m \in NodeIds /\ Path(m) \in BranchPaths(es)
  BY <1>1, <1>2, <1>4, SubtreeIds DEF es
<1>8. Len(Path(m)) < WIDTH
  BY <1>1, <1>7, BranchBehind DEF es
<1> HIDE DEF T
<1> DEFINE C == {Empty} \cup {Suffix(e) : e \in es} \cup {Sub(k) : k \in DOMAIN T}
<1>9. C \subseteq Holds(DOMAIN F, slots)
  BY <1>3, <1>5 DEF Holds
<1>10. F[m] \in NodeFields(m, DOMAIN F, slots) /\ F[m].removed = FALSE
  <2>1. T[m] \in [prefix : 0 .. Len(Path(m)), max : Nat, removed : {FALSE}, updates : {0},
                  cont : [HCAddresses -> C]]
    BY <1>6
  <2> DEFINE H == Holds(DOMAIN F, slots)
             CC == [HCAddresses -> C]
             CH == [HCAddresses -> H]
  <2>2. CC \subseteq CH
    BY <1>9
  <2> HIDE DEF C, H, CC, CH
  <2>3. T[m] \in [prefix : 0 .. Len(Path(m)), max : Nat, removed : {FALSE}, updates : {0},
                  cont : CC]
    BY <2>1 DEF CC
  <2> DEFINE t == T[m]
             P == 0 .. Len(Path(m))
  <2>5. t \in [prefix : P, max : Nat, removed : {FALSE}, updates : {0}, cont : CC]
    BY <2>3
  <2> HIDE DEF t, P
  <2>6. t.removed = FALSE
    BY <2>5
  <2>7. t \in [prefix : P, max : Nat, removed : BOOLEAN, updates : Nat, cont : CH]
    <3> DEFINE R == {FALSE}
               U == {0}
               B == BOOLEAN
    <3>1. R \subseteq B
      OBVIOUS
    <3>3. t \in [prefix : P, max : Nat, removed : R, updates : U, cont : CC]
      BY <2>5
    <3>4. U \subseteq Nat
      OBVIOUS
    <3> HIDE DEF R, B, U
    <3>5. t \in [prefix : P, max : Nat, removed : B, updates : Nat, cont : CH]
      BY <2>2, <3>1, <3>3, <3>4
    <3> QED BY <3>5 DEF B
  <2>4. T[m] \in [prefix : 0 .. Len(Path(m)), cont : CH, max : Nat, removed : BOOLEAN,
                  updates : Nat] /\ T[m].removed = FALSE
    BY <2>6, <2>7 DEF t, P
  <2> QED BY <1>4, <2>4 DEF NodeFields, H, CH
<1> QED BY <1>4, <1>6, <1>7, <1>8, <1>10 DEF F

(* A flush keeps all nodes and adds the top of every subtree.              *)
LEMMA FlushedDomain ==
  ASSUME NEW ns, NEW slots, NodesTyped(ns, slots), Tree(ns), NEW bs, HangingOnce(ns, bs),
         IsFiniteSet(bs)
  PROVE  /\ DOMAIN ns \subseteq DOMAIN Flushed(ns, bs)
         /\ IsFiniteSet(DOMAIN Flushed(ns, bs))
         /\ \A b \in bs : TopNode(b, DOMAIN ns) \in DOMAIN Flushed(ns, bs) \ DOMAIN ns
<1>1. /\ DOMAIN Flushed(ns, bs) = DOMAIN ns \cup NewNodes(bs, DOMAIN ns)
      /\ \A m \in NewNodes(bs, DOMAIN ns) : m \in NodeIds /\ m \notin DOMAIN ns
  BY FlushedNew DEF NodesTyped
<1> DEFINE f == [b \in bs |-> DOMAIN SubtreeOf(b, DOMAIN ns)]
           D == {f[b] : b \in bs}
<1>2. \A d \in D : IsFiniteSet(d)
  <2> SUFFICES ASSUME NEW b \in bs PROVE IsFiniteSet(DOMAIN SubtreeOf(b, DOMAIN ns))
    BY Zenon
  <2>1. Together(DistinctRows(b.rows), b.node, b.addr)
    BY DEF HangingOnce, Hanging
  <2> QED BY <2>1, SubtreeIds DEF SubtreeOf, NodesTyped
<1>3. IsFiniteSet(D)
  <2>1. f \in Surjection(bs, D)
    BY DEF Surjection
  <2> HIDE DEF f
  <2> QED BY <2>1, FS_Surjection
<1>4. NewNodes(bs, DOMAIN ns) = UNION D
  BY DEF NewNodes
<1> HIDE DEF D
<1>5. IsFiniteSet(UNION D)
  BY <1>2, <1>3, FS_UNION
<1>6. IsFiniteSet(DOMAIN Flushed(ns, bs))
  <2>1. IsFiniteSet(DOMAIN ns)
    BY DEF NodesTyped
  <2>2. IsFiniteSet(NewNodes(bs, DOMAIN ns))
    BY <1>4, <1>5, Zenon
  <2>3. IsFiniteSet(DOMAIN ns \cup NewNodes(bs, DOMAIN ns))
    BY <2>1, <2>2, FS_Union, Zenon
  <2> QED BY <1>1, <2>3, Zenon
<1>7. ASSUME NEW b \in bs PROVE TopNode(b, DOMAIN ns) \in NewNodes(bs, DOMAIN ns)
  <2>1. Together(DistinctRows(b.rows), b.node, b.addr)
    BY DEF HangingOnce, Hanging
  <2>2. TopNode(b, DOMAIN ns) \in DOMAIN SubtreeOf(b, DOMAIN ns)
    BY <2>1, SubtreeTop DEF SubtreeOf, NodesTyped, TopNode
  <2> QED BY <2>2 DEF NewNodes
<1> QED BY <1>1, <1>6, <1>7

(* All nodes have their types after a flush.                               *)
LEMMA FlushedTyped ==
  ASSUME NEW ns, NEW slots, NodesTyped(ns, slots), Tree(ns), NEW bs, HangingOnce(ns, bs),
         IsFiniteSet(bs)
  PROVE  NodesTyped(Flushed(ns, bs), slots)
<1> DEFINE F == Flushed(ns, bs)
<1>1. /\ DOMAIN ns \subseteq DOMAIN F /\ IsFiniteSet(DOMAIN F)
      /\ \A b \in bs : TopNode(b, DOMAIN ns) \in DOMAIN F
  BY FlushedDomain
<1>2. ASSUME NEW n \in DOMAIN F
      PROVE  n \in NodeIds /\ Len(Path(n)) < WIDTH /\ F[n] \in NodeFields(n, DOMAIN F, slots)
  <2>1. CASE n \notin DOMAIN ns
    BY <2>1, <1>2, FlushedShape
  <2>2. CASE n \in DOMAIN ns
    <3>1. n \in NodeIds /\ Len(Path(n)) < WIDTH
      BY <2>2 DEF NodesTyped, IdsTyped
    <3>2. F[n] \in NodeFields(n, DOMAIN F, slots)
      <4> DEFINE ids == DOMAIN F
      <4> HIDE DEF ids
      <4>1. DOMAIN ns \subseteq ids /\ \A b \in bs : TopNode(b, DOMAIN ns) \in ids
        BY <1>1 DEF ids
      <4>2. F[n] \in NodeFields(n, ids, slots)
        BY <2>2, <4>1, FlushedField
      <4> QED BY <4>2 DEF ids
    <3> QED BY <3>1, <3>2
  <2> QED BY <2>1, <2>2
<1> QED BY <1>1, <1>2 DEF NodesTyped, IdsTyped

(* What a new node of the flush is, with the place of its subtree. *)
LEMMA FlushedMember ==
  ASSUME NEW ns, NEW slots, NodesTyped(ns, slots), Tree(ns), NEW bs, HangingOnce(ns, bs),
         NEW b \in bs, NEW m, m \in DOMAIN SubtreeOf(b, DOMAIN ns)
  PROVE  /\ m \in NewNodes(bs, DOMAIN ns) /\ m \in NodeIds /\ m \notin DOMAIN ns
         /\ Leads(b.node, b.addr, Path(m)) /\ On(TopNode(b, DOMAIN ns), Path(m))
<1>1. Together(DistinctRows(b.rows), b.node, b.addr)
  BY DEF HangingOnce, Hanging
<1>2. IsFiniteSet(DOMAIN ns)
  BY DEF NodesTyped
<1>3. m \in NodeIds /\ m \notin DOMAIN ns
  BY <1>1, <1>2, SubtreeIds DEF SubtreeOf
<1>4. Leads(b.node, b.addr, Path(m)) /\ On(TopNode(b, DOMAIN ns), Path(m))
  BY <1>1, <1>2, SubtreeTop DEF SubtreeOf, TopNode, On
<1>5. m \in NewNodes(bs, DOMAIN ns)
  BY DEF NewNodes
<1> QED BY <1>3, <1>4, <1>5

(* The top of a subtree lies right below the node of its buffer.           *)
LEMMA FlushedTop ==
  ASSUME NEW ns, NEW slots, NodesTyped(ns, slots), Tree(ns), NEW bs, HangingOnce(ns, bs),
         NEW b \in bs
  PROVE  /\ TopNode(b, DOMAIN ns) \in DOMAIN SubtreeOf(b, DOMAIN ns)
         /\ Len(Path(TopNode(b, DOMAIN ns)))
              = Len(Path(b.node)) + 1 + Flushed(ns, bs)[TopNode(b, DOMAIN ns)].prefix
<1> DEFINE top == TopNode(b, DOMAIN ns)
           T == SubtreeFor(DistinctRows(b.rows), b.node, DOMAIN ns)
<1>1. Together(DistinctRows(b.rows), b.node, b.addr)
  BY DEF HangingOnce, Hanging
<1>2. IsFiniteSet(DOMAIN ns) /\ IdsTyped(ns)
  BY DEF NodesTyped
<1>3. top \in DOMAIN T /\ T[top].prefix = Len(Path(top)) - Len(Path(b.node)) - 1
  BY <1>1, <1>2, SubtreeTop DEF TopNode
<1>4. top \in NodeIds
  BY <1>1, <1>2, <1>3, SubtreeIds
<1>5. b.node \in NodeIds
  BY <1>1 DEF Together
<1>6. Len(Path(top)) \in Nat /\ Len(Path(b.node)) \in Nat
  BY <1>4, <1>5, PathType
<1>7. Flushed(ns, bs)[top] = T[top]
  BY <1>2, <1>3, FlushedNewNode DEF SubtreeOf
<1> HIDE DEF top, T
<1>8. Len(Path(top)) = Len(Path(b.node)) + 1 + Flushed(ns, bs)[top].prefix
  BY <1>3, <1>6, <1>7
<1> QED BY <1>3, <1>8 DEF top, T, SubtreeOf

(* A flush removes no node; those of the subtrees join the tree.           *)
LEMMA FlushedLive ==
  ASSUME NEW ns, NEW slots, NodesTyped(ns, slots), Tree(ns), NEW bs, HangingOnce(ns, bs)
  PROVE  LiveNodes(Flushed(ns, bs)) = LiveNodes(ns) \cup NewNodes(bs, DOMAIN ns)
<1> DEFINE F == Flushed(ns, bs)
           N == NewNodes(bs, DOMAIN ns)
<1>1. DOMAIN F = DOMAIN ns \cup N /\ \A m \in N : m \notin DOMAIN ns
  BY FlushedNew DEF NodesTyped
<1>2. ASSUME NEW n \in DOMAIN ns PROVE F[n].removed = ns[n].removed
  BY FlushedFields
<1>3. ASSUME NEW n \in N PROVE F[n].removed = FALSE
  BY <1>1, FlushedShape
<1> HIDE DEF F, N
<1>4. LiveNodes(F) = LiveNodes(ns) \cup N
  BY <1>1, <1>2, <1>3 DEF LiveNodes
<1> QED BY <1>4 DEF F, N

(* The links of the old nodes. *)
LEMMA FlushedLinks ==
  ASSUME NEW ns, NEW slots, NodesTyped(ns, slots), Tree(ns), NEW bs, HangingOnce(ns, bs),
         NEW k \in LiveNodes(ns), NEW a \in HCAddresses, NEW m
  PROVE  \/ /\ \A b \in bs : ~(b.node = k /\ b.addr = a)
            /\ Linked(Flushed(ns, bs), k, a, m) <=> Linked(ns, k, a, m)
         \/ \E b \in bs : /\ b.node = k /\ b.addr = a
                          /\ Linked(Flushed(ns, bs), k, a, m) <=> m = TopNode(b, DOMAIN ns)
<1>1. \/ /\ Flushed(ns, bs)[k].cont[a] = ns[k].cont[a]
         /\ \A b \in bs : ~(b.node = k /\ b.addr = a)
      \/ \E b \in bs : /\ b.node = k /\ b.addr = a
                       /\ Flushed(ns, bs)[k].cont[a] = Sub(TopNode(b, DOMAIN ns))
  <2>1. k \in DOMAIN ns
    BY DEF LiveNodes
  <2> QED BY <2>1, FlushedPlace
<1>2. \A n : Sub(n) = Sub(m) => n = m
  BY Kinds
<1> QED BY <1>1, <1>2 DEF Linked

(* The links of the new nodes. *)
LEMMA FlushedNewLinks ==
  ASSUME NEW ns, NEW slots, NodesTyped(ns, slots), Tree(ns), NEW bs, HangingOnce(ns, bs),
         NEW b \in bs, NEW m, m \in DOMAIN SubtreeOf(b, DOMAIN ns), NEW a \in HCAddresses,
         NEW k, Linked(Flushed(ns, bs), m, a, k)
  PROVE  /\ k \in DOMAIN SubtreeOf(b, DOMAIN ns) /\ Leads(m, a, Path(k))
         /\ Len(Path(k)) = Len(Path(m)) + 1 + Flushed(ns, bs)[k].prefix
<1> DEFINE T == SubtreeFor(DistinctRows(b.rows), b.node, DOMAIN ns)
<1>1. Together(DistinctRows(b.rows), b.node, b.addr)
  BY DEF HangingOnce, Hanging
<1>2. IsFiniteSet(DOMAIN ns) /\ IdsTyped(ns)
  BY DEF NodesTyped
<1>3. m \in DOMAIN T
  BY DEF SubtreeOf
<1>4. T[m].cont[a] = Sub(k)
  BY <1>2, FlushedNewNode DEF SubtreeOf, Linked
<1>5. k \in DOMAIN T /\ Leads(m, a, Path(k)) /\ Len(Path(k)) = Len(Path(m)) + 1 + T[k].prefix
  BY <1>1, <1>2, <1>3, <1>4, SubtreeSubs
<1>6. Flushed(ns, bs)[k] = T[k]
  BY <1>2, <1>5, FlushedNewNode DEF SubtreeOf
<1> QED BY <1>5, <1>6 DEF SubtreeOf

(* Below its top a subtree's node has its parent in the subtree.           *)
LEMMA FlushedParents ==
  ASSUME NEW ns, NEW slots, NodesTyped(ns, slots), Tree(ns), NEW bs, HangingOnce(ns, bs),
         NEW b \in bs, NEW k, k \in DOMAIN SubtreeOf(b, DOMAIN ns), k # TopNode(b, DOMAIN ns)
  PROVE  \E m \in DOMAIN SubtreeOf(b, DOMAIN ns), a \in HCAddresses : Linked(Flushed(ns, bs), m, a, k)
<1> DEFINE T == SubtreeFor(DistinctRows(b.rows), b.node, DOMAIN ns)
<1>1. Together(DistinctRows(b.rows), b.node, b.addr)
  BY DEF HangingOnce, Hanging
<1>2. IsFiniteSet(DOMAIN ns) /\ IdsTyped(ns)
  BY DEF NodesTyped
<1>3. PICK m \in DOMAIN T, a \in HCAddresses : T[m].cont[a] = Sub(k)
  BY <1>1, <1>2, SubtreeParents DEF SubtreeOf, TopNode
<1>4. Flushed(ns, bs)[m] = T[m]
  BY <1>2, FlushedNewNode DEF SubtreeOf
<1> QED BY <1>3, <1>4 DEF SubtreeOf, Linked

(* Within a subtree the way to a deeper node goes through links.           *)
LEMMA FlushedToward ==
  ASSUME NEW ns, NEW slots, NodesTyped(ns, slots), Tree(ns), NEW bs, HangingOnce(ns, bs),
         NEW b \in bs, NEW k, k \in DOMAIN SubtreeOf(b, DOMAIN ns),
         NEW m, m \in DOMAIN SubtreeOf(b, DOMAIN ns), k # m, On(k, Path(m))
  PROVE  /\ Len(Path(k)) < Len(Path(m))
         /\ \E c \in DOMAIN SubtreeOf(b, DOMAIN ns) :
              Linked(Flushed(ns, bs), k, Path(m)[Len(Path(k)) + 1], c) /\ On(c, Path(m))
<1> DEFINE es == DistinctRows(b.rows)
           T == SubtreeFor(es, b.node, DOMAIN ns)
<1>1. Together(es, b.node, b.addr)
  BY DEF HangingOnce, Hanging
<1>2. IsFiniteSet(DOMAIN ns) /\ IdsTyped(ns)
  BY DEF NodesTyped
<1>3. k \in DOMAIN T /\ m \in DOMAIN T
  BY DEF SubtreeOf
<1>4. Path(m) \in BranchPaths(es) /\ m = NewId(Path(m), DOMAIN ns) /\ k = NewId(Path(k), DOMAIN ns)
  BY <1>1, <1>2, <1>3, SubtreeIds
<1>5. /\ Len(Path(k)) < Len(Path(m))
      /\ \E c \in DOMAIN T : /\ T[k].cont[Path(m)[Len(Path(k)) + 1]] = Sub(c)
                             /\ IsPrefix(Path(c), Path(m)) /\ Len(Path(k)) < Len(Path(c))
  <2>1. Path(k) # Path(m) /\ IsPrefix(Path(k), Path(m))
    BY <1>4 DEF On
  <2> HIDE DEF es
  <2> QED BY <1>1, <1>2, <1>3, <1>4, <2>1, SubtreeToward
<1>6. Flushed(ns, bs)[k] = T[k]
  BY <1>2, FlushedNewNode DEF SubtreeOf
<1> QED BY <1>5, <1>6 DEF SubtreeOf, Linked, On

(* After a flush there is still one tree. *)
LEMMA FlushedTree ==
  ASSUME NEW ns, NEW slots, NodesTyped(ns, slots), Tree(ns), NEW bs, HangingOnce(ns, bs)
  PROVE  Tree(Flushed(ns, bs))
<1> DEFINE used == DOMAIN ns
           F == Flushed(ns, bs)
           N == NewNodes(bs, used)
           P == {<<b.node, b.addr>> : b \in bs}
           of(m) == CHOOSE b \in bs : m \in DOMAIN SubtreeOf(b, used)
           with(p) == CHOOSE b \in bs : <<b.node, b.addr>> = p
           at == [m \in N |-> <<of(m).node, of(m).addr>>]
           top == [p \in P |-> TopNode(with(p), used)]
<1>1. IdsTyped(ns) /\ IsFiniteSet(used)
  BY DEF NodesTyped
<1>2. ASSUME NEW b \in bs
      PROVE  /\ <<b.node, b.addr>> \in P /\ with(<<b.node, b.addr>>) = b
             /\ top[<<b.node, b.addr>>] = TopNode(b, used)
             /\ b.node \in LiveNodes(ns) /\ b.addr \in HCAddresses
             /\ \A m : ~Linked(ns, b.node, b.addr, m)
  <2>1. /\ b.node \in LiveNodes(ns) /\ b.addr \in HCAddresses
        /\ \A m : ~Linked(ns, b.node, b.addr, m)
    BY DEF HangingOnce, Hanging
  <2>2. <<b.node, b.addr>> \in P
    OBVIOUS
  <2> DEFINE w == with(<<b.node, b.addr>>)
  <2>3. w \in bs /\ <<w.node, w.addr>> = <<b.node, b.addr>>
    OBVIOUS
  <2> HIDE DEF w
  <2>4. w = b
    BY <2>3 DEF HangingOnce
  <2>5. with(<<b.node, b.addr>>) = b
    BY <2>4 DEF w
  <2> HIDE DEF with, P
  <2>6. top[<<b.node, b.addr>>] = TopNode(b, used)
    BY <2>2, <2>5
  <2> QED BY <2>1, <2>2, <2>5, <2>6
<1>3. ASSUME NEW b \in bs, NEW m, m \in DOMAIN SubtreeOf(b, used)
      PROVE  m \in N /\ at[m] = <<b.node, b.addr>>
  <2>1. m \in N
    BY <1>3, FlushedMember
  <2> DEFINE w == of(m)
  <2>2. w \in bs /\ m \in DOMAIN SubtreeOf(w, used)
    BY <1>3
  <2>3. at[m] = <<w.node, w.addr>>
    BY <2>1
  <2> HIDE DEF w, at
  <2>4. w = b
    BY <1>1, <1>3, <2>2, SubtreesApart
  <2> QED BY <2>1, <2>3, <2>4
<1>4. ASSUME NEW m \in N PROVE \E b \in bs : m \in DOMAIN SubtreeOf(b, used)
  BY DEF NewNodes
<1>5. ASSUME NEW p \in P PROVE \E b \in bs : p = <<b.node, b.addr>>
  OBVIOUS
<1>6. at \in [N -> P]
  <2>1. ASSUME NEW m \in N PROVE <<of(m).node, of(m).addr>> \in P
    <3>1. of(m) \in bs
      BY <1>4
    <3> HIDE DEF of
    <3> QED BY <3>1
  <2> HIDE DEF of, P, N
  <2> QED BY <2>1
<1>7. ASSUME NEW b \in bs PROVE TopNode(b, used) \in N
  BY <1>3, FlushedTop
<1>8. top \in [P -> N]
  <2>1. ASSUME NEW p \in P PROVE TopNode(with(p), used) \in N
    <3>1. with(p) \in bs
      BY <1>5
    <3> HIDE DEF with, N
    <3> QED BY <1>7, <3>1
  <2> HIDE DEF with, P, N
  <2> QED BY <2>1
<1> HIDE DEF at, top, P, N, F, with, of
<1>9. P \in SUBSET (LiveNodes(ns) \X HCAddresses)
  BY <1>2, <1>5
<1>10. \A p \in P : \A m : ~Linked(ns, p[1], p[2], m)
  BY <1>2, <1>5
<1>11. N \in SUBSET NodeIds /\ N \cap LiveNodes(ns) = {} /\ N \cap used = {}
  BY <1>4, FlushedMember DEF LiveNodes
<1>12. LiveNodes(F) = LiveNodes(ns) \cup N
  BY FlushedLive DEF F, N
<1>13. ASSUME NEW k \in LiveNodes(ns)
       PROVE  /\ F[k].prefix = ns[k].prefix
              /\ \A b \in HCAddresses : \A m :
                   Linked(F, k, b, m) <=> IF <<k, b>> \in P THEN m = top[<<k, b>>] ELSE Linked(ns, k, b, m)
  <2>1. F[k].prefix = ns[k].prefix
    BY FlushedFields DEF F, LiveNodes
  <2>2. ASSUME NEW a \in HCAddresses, NEW m
        PROVE  Linked(F, k, a, m) <=> IF <<k, a>> \in P THEN m = top[<<k, a>>] ELSE Linked(ns, k, a, m)
    <3>1. \/ /\ \A b \in bs : ~(b.node = k /\ b.addr = a)
             /\ Linked(F, k, a, m) <=> Linked(ns, k, a, m)
          \/ \E b \in bs : /\ b.node = k /\ b.addr = a
                           /\ Linked(F, k, a, m) <=> m = TopNode(b, used)
      BY FlushedLinks DEF F
    <3>2. <<k, a>> \in P <=> \E b \in bs : b.node = k /\ b.addr = a
      BY DEF P
    <3>3. \A b \in bs : b.node = k /\ b.addr = a => top[<<k, a>>] = TopNode(b, used)
      BY <1>2
    <3> QED BY <3>1, <3>2, <3>3
  <2> QED BY <2>1, <2>2
<1>14. ASSUME NEW p \in P
       PROVE  /\ at[top[p]] = p
              /\ Len(Path(top[p])) = Len(Path(p[1])) + 1 + F[top[p]].prefix
  <2>1. PICK b \in bs : p = <<b.node, b.addr>>
    BY <1>5
  <2>2. TopNode(b, used) \in DOMAIN SubtreeOf(b, used)
        /\ Len(Path(TopNode(b, used))) = Len(Path(b.node)) + 1 + F[TopNode(b, used)].prefix
    BY FlushedTop DEF F
  <2>3. top[p] = TopNode(b, used)
    BY <1>2, <2>1
  <2>4. at[TopNode(b, used)] = <<b.node, b.addr>>
    BY <1>3, <2>2
  <2> QED BY <2>1, <2>2, <2>3, <2>4
<1>15. ASSUME NEW m \in N
       PROVE  Leads(at[m][1], at[m][2], Path(m)) /\ On(top[at[m]], Path(m))
  <2>1. PICK b \in bs : m \in DOMAIN SubtreeOf(b, used)
    BY <1>4
  <2>2. at[m] = <<b.node, b.addr>> /\ top[<<b.node, b.addr>>] = TopNode(b, used)
    BY <1>2, <1>3, <2>1
  <2>3. Leads(b.node, b.addr, Path(m)) /\ On(TopNode(b, used), Path(m))
    BY <2>1, FlushedMember
  <2> QED BY <2>2, <2>3
<1>16. ASSUME NEW m \in N, NEW b \in HCAddresses, NEW k, Linked(F, m, b, k)
       PROVE  k \in N /\ Leads(m, b, Path(k)) /\ Len(Path(k)) = Len(Path(m)) + 1 + F[k].prefix
  <2>1. PICK c \in bs : m \in DOMAIN SubtreeOf(c, used)
    BY <1>4
  <2>2. /\ k \in DOMAIN SubtreeOf(c, used) /\ Leads(m, b, Path(k))
        /\ Len(Path(k)) = Len(Path(m)) + 1 + F[k].prefix
    BY <1>16, <2>1, FlushedNewLinks DEF F
  <2> QED BY <1>3, <2>2
<1>17. ASSUME NEW k \in N
       PROVE  k = top[at[k]] \/ \E m \in N, b \in HCAddresses : Linked(F, m, b, k)
  <2>1. PICK c \in bs : k \in DOMAIN SubtreeOf(c, used)
    BY <1>4
  <2>2. top[at[k]] = TopNode(c, used)
    BY <1>2, <1>3, <2>1
  <2>3. CASE k # TopNode(c, used)
    <3>1. PICK m \in DOMAIN SubtreeOf(c, used), a \in HCAddresses : Linked(F, m, a, k)
      BY <2>1, <2>3, FlushedParents DEF F
    <3> QED BY <1>3, <3>1
  <2> QED BY <2>2, <2>3
<1>18. ASSUME NEW k \in N, NEW m \in N, at[k] = at[m], k # m, On(k, Path(m))
       PROVE  /\ Len(Path(k)) < Len(Path(m))
              /\ \E c \in N : Linked(F, k, Path(m)[Len(Path(k)) + 1], c) /\ On(c, Path(m))
  <2>1. PICK b \in bs : k \in DOMAIN SubtreeOf(b, used)
    BY <1>4
  <2>2. PICK c \in bs : m \in DOMAIN SubtreeOf(c, used)
    BY <1>4
  <2>3. b = c
    <3>1. b.node = c.node /\ b.addr = c.addr
      BY <1>3, <1>18, <2>1, <2>2
    <3> QED BY <3>1 DEF HangingOnce
  <2>4. /\ Len(Path(k)) < Len(Path(m))
        /\ \E d \in DOMAIN SubtreeOf(b, used) :
              Linked(F, k, Path(m)[Len(Path(k)) + 1], d) /\ On(d, Path(m))
    BY <1>18, <2>1, <2>2, <2>3, FlushedToward DEF F
  <2> QED BY <1>3, <2>4
<1> HIDE DEF used
<1>19. \A p \in P : /\ at[top[p]] = p
                    /\ Len(Path(top[p])) = Len(Path(p[1])) + 1 + F[top[p]].prefix
  BY <1>14
<1>20. \A m \in N : Leads(at[m][1], at[m][2], Path(m)) /\ On(top[at[m]], Path(m))
  BY <1>15
<1>21. \A m \in N, b \in HCAddresses : \A k : Linked(F, m, b, k) =>
         /\ k \in N /\ Leads(m, b, Path(k)) /\ Len(Path(k)) = Len(Path(m)) + 1 + F[k].prefix
  BY <1>16
<1>22. \A k \in N : k = top[at[k]] \/ \E m \in N, b \in HCAddresses : Linked(F, m, b, k)
  BY <1>17
<1>23. \A k, m \in N : at[k] = at[m] /\ k # m /\ On(k, Path(m)) =>
         /\ Len(Path(k)) < Len(Path(m))
         /\ \E c \in N : Linked(F, k, Path(m)[Len(Path(k)) + 1], c) /\ On(c, Path(m))
  BY <1>18
<1>24. \A k \in LiveNodes(ns) :
         /\ F[k].prefix = ns[k].prefix
         /\ \A b \in HCAddresses : \A m :
              Linked(F, k, b, m) <=> IF <<k, b>> \in P THEN m = top[<<k, b>>] ELSE Linked(ns, k, b, m)
  BY <1>13
<1>25. SubtreesRight(F, N, at, top)
  BY <1>20, <1>21, <1>22, <1>23 DEF SubtreesRight
<1>26. HungUp(ns, F, P, N, at, top)
  BY <1>10, <1>11, <1>12, <1>19, <1>24 DEF HungUp
<1>27. N \in SUBSET NodeIds
  BY <1>11
<1>28. Tree(F)
  BY <1>1, <1>6, <1>8, <1>9, <1>25, <1>26, <1>27, FlushTree
<1> QED BY <1>28 DEF F

(* The places taken stay taken. *)
LEMMA SameCount ==
  ASSUME NEW x, NEW y, \A a \in HCAddresses : (x.cont[a] = Empty) <=> (y.cont[a] = Empty)
  PROVE  /\ NContents(x) = NContents(y)
         /\ TwoContents(x) => TwoContents(y)
<1>1. {a \in HCAddresses : x.cont[a] # Empty} = {a \in HCAddresses : y.cont[a] # Empty}
  OBVIOUS
<1> QED BY <1>1 DEF NContents, TwoContents

(* Subnodes, buffers, suffixes and nothing are different contents.         *)
LEMMA SubNotEmpty == \A m, s, e : Sub(m) # Empty /\ Buf(s) # Empty /\ Suffix(e) # Empty
                                  /\ Sub(m) # Suffix(e) /\ Buf(s) # Suffix(e) /\ Sub(m) # Buf(s)
BY Kinds

(* A flush leaves every old place as it is, or puts a subnode in the place *)
(* of a buffer.                                                            *)
LEMMA FlushedOr ==
  ASSUME NEW ns, NEW slots, NodesTyped(ns, slots), NEW bs, HangingOnce(ns, bs),
         \A b \in bs : \E s : ns[b.node].cont[b.addr] = Buf(s),
         NEW n \in DOMAIN ns, NEW a \in HCAddresses
  PROVE  \/ Flushed(ns, bs)[n].cont[a] = ns[n].cont[a]
         \/ \E s, m : ns[n].cont[a] = Buf(s) /\ Flushed(ns, bs)[n].cont[a] = Sub(m)
<1>1. \/ Flushed(ns, bs)[n].cont[a] = ns[n].cont[a]
      \/ \E b \in bs : /\ b.node = n /\ b.addr = a
                       /\ Flushed(ns, bs)[n].cont[a] = Sub(TopNode(b, DOMAIN ns))
  BY FlushedPlace
<1>2. CASE \E b \in bs : /\ b.node = n /\ b.addr = a
                         /\ Flushed(ns, bs)[n].cont[a] = Sub(TopNode(b, DOMAIN ns))
  <2>1. PICK b \in bs : /\ b.node = n /\ b.addr = a
                        /\ Flushed(ns, bs)[n].cont[a] = Sub(TopNode(b, DOMAIN ns))
    BY <1>2
  <2>2. PICK s : ns[b.node].cont[b.addr] = Buf(s)
    OBVIOUS
  <2> QED BY <2>1, <2>2
<1> QED BY <1>1, <1>2

(* Turning buffers into subtrees (flushToSubtree) leaves the tree sound.   *)
LEMMA FlushedSound ==
  ASSUME NEW ns, NEW slots, Sound(ns, slots), NEW bs, HangingOnce(ns, bs), IsFiniteSet(bs),
         \A b \in bs : \E s : ns[b.node].cont[b.addr] = Buf(s)
  PROVE  Sound(Flushed(ns, bs), slots)
<1> DEFINE F == Flushed(ns, bs)
<1>1. NodesTyped(ns, slots) /\ Tree(ns) /\ Room(ns) /\ Spread(ns) /\ Placed(ns)
  BY DEF Sound
<1>2. NodesTyped(F, slots) /\ Tree(F)
  BY <1>1, FlushedTyped, FlushedTree
<1>3. ASSUME NEW n \in DOMAIN ns
      PROVE  /\ NContents(F[n]) = NContents(ns[n]) /\ F[n].max = ns[n].max
             /\ TwoContents(ns[n]) => TwoContents(F[n])
  <2>1. \A a \in HCAddresses : (F[n].cont[a] = Empty) <=> (ns[n].cont[a] = Empty)
    BY <1>1, FlushedOr, SubNotEmpty
  <2>2. F[n].max = ns[n].max
    BY <1>1, FlushedFields
  <2> QED BY <2>1, <2>2, SameCount
<1>4. ASSUME NEW n \in DOMAIN F, n \notin DOMAIN ns
      PROVE  NContents(F[n]) <= F[n].max /\ TwoContents(F[n])
  BY <1>1, <1>4, FlushedShape
<1>5. Room(F)
  <2> SUFFICES ASSUME NEW n \in DOMAIN F PROVE NContents(F[n]) <= F[n].max
    BY DEF Room
  <2>1. CASE n \in DOMAIN ns
    BY <1>1, <1>3, <2>1 DEF Room
  <2> QED BY <1>4, <2>1
<1>6. Spread(F)
  <2> SUFFICES ASSUME NEW n \in DOMAIN F, ~AtTop(n) PROVE TwoContents(F[n])
    BY DEF Spread
  <2>1. CASE n \in DOMAIN ns
    BY <1>1, <1>3, <2>1 DEF Spread
  <2> QED BY <1>4, <2>1
<1>7. Placed(F)
  <2> SUFFICES ASSUME NEW n \in LiveNodes(F), NEW a \in HCAddresses, NEW e, F[n].cont[a] = Suffix(e)
               PROVE  Leads(n, a, Key[e])
    BY DEF Placed
  <2>1. LiveNodes(F) = LiveNodes(ns) \cup NewNodes(bs, DOMAIN ns)
    BY <1>1, FlushedLive
  <2>2. CASE n \in LiveNodes(ns)
    <3>1. n \in DOMAIN ns
      BY <2>2 DEF LiveNodes
    <3>2. ns[n].cont[a] = Suffix(e)
      BY <1>1, <3>1, FlushedOr, SubNotEmpty
    <3> QED BY <1>1, <2>2, <3>2 DEF Placed
  <2>3. CASE n \in NewNodes(bs, DOMAIN ns)
    <3>1. PICK b \in bs : n \in DOMAIN SubtreeOf(b, DOMAIN ns)
      BY <2>3 DEF NewNodes
    <3>2. Together(DistinctRows(b.rows), b.node, b.addr)
      BY DEF HangingOnce, Hanging
    <3>3. IsFiniteSet(DOMAIN ns) /\ IdsTyped(ns)
      BY <1>1 DEF NodesTyped
    <3>4. F[n] = SubtreeFor(DistinctRows(b.rows), b.node, DOMAIN ns)[n]
      BY <1>1, <3>1, <3>3, FlushedNewNode DEF SubtreeOf
    <3> HIDE DEF F
    <3> QED BY <3>1, <3>2, <3>3, <3>4, SubtreePlaced DEF SubtreeOf
  <2> QED BY <2>1, <2>2, <2>3
<1> HIDE DEF F
<1>8. Sound(F, slots)
  BY <1>2, <1>5, <1>6, <1>7 DEF Sound
<1> QED BY <1>8 DEF F

(* What a node holds is of one of the kinds. *)
LEMMA ContentType ==
  ASSUME NEW ns, NEW slots, NodesTyped(ns, slots), NEW n \in DOMAIN ns, NEW a \in HCAddresses
  PROVE  \/ ns[n].cont[a] = Empty
         \/ \E e \in Entries : ns[n].cont[a] = Suffix(e)
         \/ \E m \in DOMAIN ns : ns[n].cont[a] = Sub(m)
         \/ \E s \in slots : ns[n].cont[a] = Buf(s)
<1>1. ns[n].cont \in [HCAddresses -> Holds(DOMAIN ns, slots)]
  BY DEF NodesTyped, NodeFields
<1>2. ns[n].cont[a] \in Holds(DOMAIN ns, slots)
  BY <1>1
<1> QED BY <1>2 DEF Holds

(* The entries among the nodes' contents. *)
LEMMA SuffixEntriesAre ==
  ASSUME NEW ns, NEW slots, NodesTyped(ns, slots), NEW e
  PROVE  e \in SuffixEntries(ns)
           <=> \E n \in LiveNodes(ns), a \in HCAddresses : ns[n].cont[a] = Suffix(e)
<1>1. ASSUME NEW n \in LiveNodes(ns), NEW a \in HCAddresses, ns[n].cont[a] = Suffix(e)
      PROVE  e \in SuffixEntries(ns)
  <2>1. Suffix(e) \in Contents(ns)
    BY <1>1 DEF Contents
  <2>2. Suffix(e).kind = "suffix" /\ Suffix(e).entry = e
    BY Kinds
  <2> QED BY <2>1, <2>2 DEF SuffixEntries
<1>2. ASSUME e \in SuffixEntries(ns)
      PROVE  \E n \in LiveNodes(ns), a \in HCAddresses : ns[n].cont[a] = Suffix(e)
  <2>1. PICK c \in Contents(ns) : c.kind = "suffix" /\ c.entry = e
    BY <1>2 DEF SuffixEntries
  <2>2. PICK n \in LiveNodes(ns), a \in HCAddresses : c = ns[n].cont[a]
    BY <2>1 DEF Contents
  <2>3. n \in DOMAIN ns
    BY DEF LiveNodes
  <2>4. PICK f : c = Suffix(f)
    BY <2>1, <2>2, <2>3, ContentType, Kinds
  <2>5. f = e
    BY <2>1, <2>4, Kinds
  <2> QED BY <2>2, <2>4, <2>5
<1> QED BY <1>1, <1>2

(* A flush moves the first row of every key to the nodes and loses none.   *)
LEMMA FlushedEntries ==
  ASSUME NEW ns, NEW slots, NodesTyped(ns, slots), Tree(ns), NEW bs, HangingOnce(ns, bs),
         IsFiniteSet(bs), \A b \in bs : \E s : ns[b.node].cont[b.addr] = Buf(s)
  PROVE  SuffixEntries(Flushed(ns, bs)) = SuffixEntries(ns) \cup UNION {DistinctRows(b.rows) : b \in bs}
<1> DEFINE F == Flushed(ns, bs)
           N == NewNodes(bs, DOMAIN ns)
           rows == UNION {DistinctRows(b.rows) : b \in bs}
<1>1. NodesTyped(F, slots)
  BY FlushedTyped
<1>2. LiveNodes(F) = LiveNodes(ns) \cup N
  BY FlushedLive
<1>3. ASSUME NEW n \in LiveNodes(ns), NEW a \in HCAddresses, NEW e
      PROVE  F[n].cont[a] = Suffix(e) <=> ns[n].cont[a] = Suffix(e)
  <2>1. n \in DOMAIN ns
    BY DEF LiveNodes
  <2> QED BY <2>1, FlushedOr, SubNotEmpty
<1>4. ASSUME NEW b \in bs, NEW n \in DOMAIN SubtreeOf(b, DOMAIN ns)
      PROVE  /\ n \in N
             /\ \A a \in HCAddresses : \A e : F[n].cont[a] = Suffix(e) => e \in DistinctRows(b.rows)
  <2>1. Together(DistinctRows(b.rows), b.node, b.addr)
    BY DEF HangingOnce, Hanging
  <2>2. IsFiniteSet(DOMAIN ns) /\ IdsTyped(ns)
    BY DEF NodesTyped
  <2>3. F[n] = SubtreeFor(DistinctRows(b.rows), b.node, DOMAIN ns)[n]
    BY <2>2, FlushedNewNode DEF SubtreeOf
  <2>4. n \in N
    BY FlushedMember
  <2> HIDE DEF F, N
  <2> QED BY <2>1, <2>2, <2>3, <2>4, SubtreePlaced DEF SubtreeOf
<1>5. ASSUME NEW b \in bs, NEW e \in DistinctRows(b.rows)
      PROVE  \E n \in N, a \in HCAddresses : F[n].cont[a] = Suffix(e)
  <2>1. Together(DistinctRows(b.rows), b.node, b.addr)
    BY DEF HangingOnce, Hanging
  <2>2. IsFiniteSet(DOMAIN ns) /\ IdsTyped(ns)
    BY DEF NodesTyped
  <2>3. PICK n \in DOMAIN SubtreeOf(b, DOMAIN ns), a \in HCAddresses :
           SubtreeOf(b, DOMAIN ns)[n].cont[a] = Suffix(e)
    BY <2>1, <2>2, SubtreeHolds DEF SubtreeOf
  <2>4. F[n] = SubtreeOf(b, DOMAIN ns)[n]
    BY <2>2, FlushedNewNode
  <2>5. n \in N
    BY <1>4
  <2> QED BY <2>3, <2>4, <2>5
<1>6. ASSUME NEW n \in N PROVE \E b \in bs : n \in DOMAIN SubtreeOf(b, DOMAIN ns)
  BY DEF NewNodes
<1> HIDE DEF F, N
<1>7. ASSUME NEW e PROVE e \in SuffixEntries(F) <=> e \in SuffixEntries(ns) \cup rows
  <2>1. e \in SuffixEntries(F) <=> \E n \in LiveNodes(F), a \in HCAddresses : F[n].cont[a] = Suffix(e)
    BY <1>1, SuffixEntriesAre
  <2>2. e \in SuffixEntries(ns) <=> \E n \in LiveNodes(ns), a \in HCAddresses : ns[n].cont[a] = Suffix(e)
    BY SuffixEntriesAre
  <2>3. e \in rows <=> \E b \in bs : e \in DistinctRows(b.rows)
    OBVIOUS
  <2>4. e \in rows <=> \E n \in N, a \in HCAddresses : F[n].cont[a] = Suffix(e)
    BY <1>4, <1>5, <1>6, <2>3
  <2> HIDE DEF rows
  <2> QED BY <1>2, <1>3, <2>1, <2>2, <2>4
<1> HIDE DEF rows
<1>8. SuffixEntries(F) = SuffixEntries(ns) \cup rows
  BY <1>7
<1> QED BY <1>8 DEF F, rows

-----------------------------------------------------------------------------
(* A node gets another content, or only counts an update. *)
Put(ns, n, a, c) == [ns EXCEPT ![n].cont[a] = c, ![n].updates = @ + 1]
Touch(ns, n) == [ns EXCEPT ![n].updates = @ + 1]

(* What insertAtAddress changes: one content and the counter of the node.  *)
LEMMA PutIs ==
  ASSUME NEW ns, NEW slots, NodesTyped(ns, slots), NEW n \in DOMAIN ns, NEW a \in HCAddresses, NEW c
  PROVE  /\ DOMAIN Put(ns, n, a, c) = DOMAIN ns
         /\ \A k \in DOMAIN ns : k # n => Put(ns, n, a, c)[k] = ns[k]
         /\ Put(ns, n, a, c)[n].prefix = ns[n].prefix
         /\ Put(ns, n, a, c)[n].max = ns[n].max
         /\ Put(ns, n, a, c)[n].removed = ns[n].removed
         /\ Put(ns, n, a, c)[n].updates = ns[n].updates + 1
         /\ \A b \in HCAddresses : b # a => Put(ns, n, a, c)[n].cont[b] = ns[n].cont[b]
         /\ Put(ns, n, a, c)[n].cont[a] = c
<1> DEFINE H == Holds(DOMAIN ns, slots)
<1>1. ns[n] \in [prefix : 0 .. Len(Path(n)), cont : [HCAddresses -> H],
                  max : Nat, removed : BOOLEAN, updates : Nat]
  BY DEF NodesTyped, NodeFields
<1> HIDE DEF H
<1>2. DOMAIN ns[n].cont = HCAddresses
  BY <1>1
<1> QED BY <1>1, <1>2 DEF Put

(* A node that gets a content of the right type keeps its own.             *)
LEMMA PutTyped ==
  ASSUME NEW ns, NEW slots, NodesTyped(ns, slots), NEW n \in DOMAIN ns, NEW a \in HCAddresses,
         NEW c \in Holds(DOMAIN ns, slots)
  PROVE  NodesTyped(Put(ns, n, a, c), slots)
<1> DEFINE ns2 == Put(ns, n, a, c)
           H == Holds(DOMAIN ns, slots)
           HH == [HCAddresses -> H]
<1>1. ns[n] \in [prefix : 0 .. Len(Path(n)), cont : HH, max : Nat, removed : BOOLEAN, updates : Nat]
  BY DEF NodesTyped, NodeFields
<1>2. [ns[n].cont EXCEPT ![a] = c] \in HH
  <2>1. ns[n].cont \in HH
    <3> HIDE DEF HH
    <3> QED BY <1>1
  <2> HIDE DEF H
  <2>2. c \in H
    BY DEF H
  <2> QED BY <2>1, <2>2
<1>3. ns2[n] = [ns[n] EXCEPT !.cont = [ns[n].cont EXCEPT ![a] = c], !.updates = ns[n].updates + 1]
  <2> HIDE DEF HH
  <2> QED BY <1>1 DEF Put
<1>4. ns2[n] \in [prefix : 0 .. Len(Path(n)), cont : HH, max : Nat, removed : BOOLEAN, updates : Nat]
  <2> DEFINE x == ns[n]
             d == [ns[n].cont EXCEPT ![a] = c]
             P == 0 .. Len(Path(n))
  <2>1. x \in [prefix : P, cont : HH, max : Nat, removed : BOOLEAN, updates : Nat]
    BY <1>1
  <2>2. d \in HH
    BY <1>2
  <2>3. ns2[n] = [x EXCEPT !.cont = d, !.updates = x.updates + 1]
    BY <1>3
  <2>5. x.updates \in Nat
    BY <2>1
  <2> DEFINE u == x.updates + 1
  <2>6. u \in Nat
    BY <2>5
  <2> HIDE DEF HH, ns2, x, d, P, u
  <2>7. ns2[n] = [x EXCEPT !.cont = d, !.updates = u]
    BY <2>3 DEF u
  <2>4. ns2[n] \in [prefix : P, cont : HH, max : Nat, removed : BOOLEAN, updates : Nat]
    BY <2>1, <2>2, <2>6, <2>7
  <2> QED BY <2>4 DEF P
<1>5. DOMAIN ns2 = DOMAIN ns /\ \A k \in DOMAIN ns : k # n => ns2[k] = ns[k]
  BY PutIs
<1>6. ns2[n] \in NodeFields(n, DOMAIN ns, slots)
  BY <1>4 DEF NodeFields
<1> HIDE DEF ns2
<1>7. NodesTyped(ns2, slots)
  BY <1>5, <1>6 DEF NodesTyped, IdsTyped
<1> QED BY <1>7 DEF ns2

(* A place taken by a suffix or a buffer, free before or taken by another  *)
(* suffix.                                                                 *)
LEMMA PutSound ==
  ASSUME NEW ns, NEW slots, Sound(ns, slots), NEW n \in LiveNodes(ns), NEW a \in HCAddresses,
         NEW c, (\E s \in slots : c = Buf(s)) \/ (\E e \in Entries : c = Suffix(e) /\ Leads(n, a, Key[e])),
         (ns[n].cont[a] = Empty /\ ~IsFull(ns[n])) \/ (\E e : ns[n].cont[a] = Suffix(e))
  PROVE  Sound(Put(ns, n, a, c), slots)
<1> DEFINE ns2 == Put(ns, n, a, c)
<1>1. /\ NodesTyped(ns, slots) /\ Tree(ns) /\ Room(ns) /\ Spread(ns) /\ Placed(ns)
      /\ IdsTyped(ns) /\ n \in DOMAIN ns
  BY DEF Sound, NodesTyped, LiveNodes
<1>2. c \in Holds(DOMAIN ns, slots) /\ c # Empty /\ \A m : c # Sub(m)
  BY SubNotEmpty DEF Holds
<1>3. NodesTyped(ns2, slots)
  BY <1>1, <1>2, PutTyped
<1>4. /\ DOMAIN ns2 = DOMAIN ns
      /\ \A k \in DOMAIN ns : k # n => ns2[k] = ns[k]
      /\ ns2[n].prefix = ns[n].prefix /\ ns2[n].max = ns[n].max /\ ns2[n].removed = ns[n].removed
      /\ \A b \in HCAddresses : b # a => ns2[n].cont[b] = ns[n].cont[b]
      /\ ns2[n].cont[a] = c
  BY <1>1, PutIs
<1> HIDE DEF ns2
<1>5. LiveNodes(ns2) = LiveNodes(ns)
  BY <1>1, <1>4 DEF LiveNodes
<1>6. Tree(ns2)
  <2>1. ASSUME NEW k \in LiveNodes(ns)
        PROVE  /\ ns2[k].prefix = ns[k].prefix
               /\ \A b \in HCAddresses : \A m : Linked(ns2, k, b, m) <=> Linked(ns, k, b, m)
    <3>1. k \in DOMAIN ns
      BY DEF LiveNodes
    <3>2. \A m : ns[n].cont[a] # Sub(m)
      BY SubNotEmpty
    <3> QED BY <1>2, <1>4, <3>1, <3>2 DEF Linked
  <2> QED BY <1>1, <1>5, <2>1, SameTree
<1>7. ASSUME NEW k \in DOMAIN ns
      PROVE  NContents(ns2[k]) <= ns2[k].max /\ (TwoContents(ns[k]) => TwoContents(ns2[k]))
  <2>1. CASE k # n
    BY <1>1, <1>4, <2>1 DEF Room
  <2>2. CASE k = n
    <3> DEFINE S == {b \in HCAddresses : ns[n].cont[b] # Empty}
               S2 == {b \in HCAddresses : ns2[n].cont[b] # Empty}
    <3>1. TwoContents(ns[n]) => TwoContents(ns2[n])
      BY <1>2, <1>4 DEF TwoContents
    <3>2. S2 = S \cup {a}
      BY <1>2, <1>4
    <3>3. IsFiniteSet(S) /\ Cardinality(S) \in Nat
      BY CountBound
    <3>4. Cardinality(S) <= ns[n].max
      BY <1>1 DEF Room, NContents
    <3>5. ns[n].max \in Nat
      BY <1>1 DEF NodesTyped, NodeFields
    <3>6. Cardinality(S2) <= ns[n].max
      <4>1. CASE a \in S
        <5>1. S2 = S
          BY <3>2, <4>1
        <5> QED BY <3>4, <5>1
      <4>2. CASE a \notin S
        <5>1. Cardinality(S2) = Cardinality(S) + 1
          <6> HIDE DEF S, S2
          <6> QED BY <3>2, <3>3, <4>2, FS_AddElement
        <5>2. ns[n].cont[a] = Empty
          BY <4>2
        <5>3. Cardinality(S) # ns[n].max
          BY <5>2, SubNotEmpty DEF IsFull, NContents
        <5> QED BY <3>3, <3>4, <3>5, <5>1, <5>3
      <4> QED BY <4>1, <4>2
    <3> QED BY <1>4, <2>2, <3>1, <3>6 DEF NContents
  <2> QED BY <2>1, <2>2
<1>8. Room(ns2) /\ Spread(ns2)
  BY <1>1, <1>4, <1>7 DEF Room, Spread
<1>9. Placed(ns2)
  <2> SUFFICES ASSUME NEW k \in LiveNodes(ns), NEW b \in HCAddresses, NEW e, ns2[k].cont[b] = Suffix(e)
               PROVE  Leads(k, b, Key[e])
    BY <1>5 DEF Placed
  <2>1. CASE k = n /\ b = a
    <3>1. c = Suffix(e)
      BY <1>4, <2>1
    <3>2. \A f : Suffix(f) = Suffix(e) => f = e
      BY Kinds
    <3> QED BY <2>1, <3>1, <3>2, SubNotEmpty
  <2>2. CASE k # n \/ b # a
    <3>1. ns[k].cont[b] = Suffix(e)
      BY <1>4, <2>2 DEF LiveNodes
    <3> QED BY <1>1, <3>1 DEF Placed
  <2> QED BY <2>1, <2>2
<1>10. Sound(ns2, slots)
  BY <1>3, <1>6, <1>8, <1>9 DEF Sound
<1> QED BY <1>10 DEF ns2

(* What counting an update changes: the counter.                           *)
LEMMA TouchIs ==
  ASSUME NEW ns, NEW slots, NodesTyped(ns, slots), NEW n \in DOMAIN ns
  PROVE  /\ DOMAIN Touch(ns, n) = DOMAIN ns
         /\ \A k \in DOMAIN ns : k # n => Touch(ns, n)[k] = ns[k]
         /\ Touch(ns, n)[n].prefix = ns[n].prefix
         /\ Touch(ns, n)[n].max = ns[n].max
         /\ Touch(ns, n)[n].removed = ns[n].removed
         /\ Touch(ns, n)[n].updates = ns[n].updates + 1
         /\ Touch(ns, n)[n].cont = ns[n].cont
<1>1. ns[n] \in NodeFields(n, DOMAIN ns, slots)
  BY DEF NodesTyped
<1> QED BY <1>1 DEF Touch, NodeFields

(* Counting an update leaves the tree sound.                               *)
LEMMA TouchSound ==
  ASSUME NEW ns, NEW slots, Sound(ns, slots), NEW n \in DOMAIN ns
  PROVE  Sound(Touch(ns, n), slots)
<1> DEFINE ns2 == Touch(ns, n)
<1>1. /\ NodesTyped(ns, slots) /\ Tree(ns) /\ Room(ns) /\ Spread(ns) /\ Placed(ns) /\ IdsTyped(ns)
  BY DEF Sound, NodesTyped
<1>2. /\ DOMAIN ns2 = DOMAIN ns
      /\ \A k \in DOMAIN ns : k # n => ns2[k] = ns[k]
      /\ ns2[n].prefix = ns[n].prefix /\ ns2[n].max = ns[n].max /\ ns2[n].removed = ns[n].removed
      /\ ns2[n].cont = ns[n].cont
  BY <1>1, TouchIs
<1>3. ns2[n] \in NodeFields(n, DOMAIN ns, slots)
  <2>1. ns[n] \in NodeFields(n, DOMAIN ns, slots)
    BY <1>1 DEF NodesTyped
  <2> QED BY <2>1 DEF Touch, NodeFields
<1> HIDE DEF ns2
<1>4. NodesTyped(ns2, slots)
  BY <1>1, <1>2, <1>3 DEF NodesTyped, IdsTyped
<1>5. \A k \in DOMAIN ns : /\ ns2[k].prefix = ns[k].prefix /\ ns2[k].max = ns[k].max
                           /\ ns2[k].removed = ns[k].removed /\ ns2[k].cont = ns[k].cont
  BY <1>2
<1>6. LiveNodes(ns2) = LiveNodes(ns)
  BY <1>2, <1>5 DEF LiveNodes
<1>7. Tree(ns2)
  <2>1. \A k \in LiveNodes(ns) :
          /\ ns2[k].prefix = ns[k].prefix
          /\ \A b \in HCAddresses : \A m : Linked(ns2, k, b, m) <=> Linked(ns, k, b, m)
    BY <1>5 DEF LiveNodes, Linked
  <2> QED BY <1>1, <1>6, <2>1, SameTree
<1>8. Room(ns2) /\ Spread(ns2)
  BY <1>1, <1>2, <1>5 DEF Room, Spread, NContents, TwoContents
<1>9. Placed(ns2)
  BY <1>1, <1>5, <1>6 DEF Placed, LiveNodes
<1>10. Sound(ns2, slots)
  BY <1>4, <1>7, <1>8, <1>9 DEF Sound
<1> QED BY <1>10 DEF ns2

-----------------------------------------------------------------------------
(* A node is replaced. *)
Relinked(ns, parent, pa, m) == [ns EXCEPT ![parent].cont[pa] = Sub(m)]
Retired(ns, n, parent) ==
  [ns EXCEPT ![n].removed = TRUE, ![n].updates = @ + 1, ![parent].updates = @ + 1]

(* What a link to the new node changes: one content of the parent.         *)
LEMMA RelinkedIs ==
  ASSUME NEW ns, NEW parent \in DOMAIN ns, NEW pa \in HCAddresses, NEW m, NEW ids, NEW slots,
         ns[parent] \in NodeFields(parent, ids, slots), m \in ids
  PROVE  /\ DOMAIN Relinked(ns, parent, pa, m) = DOMAIN ns
         /\ \A k \in DOMAIN ns : k # parent => Relinked(ns, parent, pa, m)[k] = ns[k]
         /\ Relinked(ns, parent, pa, m)[parent].prefix = ns[parent].prefix
         /\ Relinked(ns, parent, pa, m)[parent].max = ns[parent].max
         /\ Relinked(ns, parent, pa, m)[parent].removed = ns[parent].removed
         /\ Relinked(ns, parent, pa, m)[parent].updates = ns[parent].updates
         /\ \A b \in HCAddresses : b # pa =>
              Relinked(ns, parent, pa, m)[parent].cont[b] = ns[parent].cont[b]
         /\ Relinked(ns, parent, pa, m)[parent].cont[pa] = Sub(m)
         /\ Relinked(ns, parent, pa, m)[parent] \in NodeFields(parent, ids, slots)
<1> DEFINE H == Holds(ids, slots)
           HH == [HCAddresses -> H]
           x == ns[parent]
           d == [x.cont EXCEPT ![pa] = Sub(m)]
           P == 0 .. Len(Path(parent))
           y == Relinked(ns, parent, pa, m)[parent]
<1>1. x \in [prefix : P, cont : HH, max : Nat, removed : BOOLEAN, updates : Nat]
  BY DEF NodeFields
<1>2. x.cont \in HH
  <2> HIDE DEF x, HH, P
  <2> QED BY <1>1
<1>3. Sub(m) \in H
  BY DEF Holds
<1>4. d \in HH /\ DOMAIN x.cont = HCAddresses
  <2> HIDE DEF H, x
  <2> QED BY <1>2, <1>3
<1>5. y = [x EXCEPT !.cont = d]
  <2> HIDE DEF HH, P
  <2> QED BY <1>1 DEF Relinked
<1>6. y \in [prefix : P, cont : HH, max : Nat, removed : BOOLEAN, updates : Nat]
  <2> HIDE DEF HH, P, y, x, d
  <2> QED BY <1>1, <1>4, <1>5
<1>7. y \in NodeFields(parent, ids, slots)
  BY <1>6 DEF NodeFields
<1>8. /\ y.prefix = x.prefix /\ y.max = x.max /\ y.removed = x.removed /\ y.updates = x.updates
      /\ y.cont = d
  <2> HIDE DEF HH, P, y, x, d
  <2> QED BY <1>1, <1>5
<1>9. /\ \A b \in HCAddresses : b # pa => d[b] = x.cont[b]
      /\ d[pa] = Sub(m)
  <2> HIDE DEF x, HH
  <2> QED BY <1>4
<1>10. /\ DOMAIN Relinked(ns, parent, pa, m) = DOMAIN ns
       /\ \A k \in DOMAIN ns : k # parent => Relinked(ns, parent, pa, m)[k] = ns[k]
  BY DEF Relinked
<1> HIDE DEF d
<1> QED BY <1>7, <1>8, <1>9, <1>10

(* What retiring a node changes: its flag and the two counters.            *)
LEMMA RetiredIs ==
  ASSUME NEW ns, NEW n \in DOMAIN ns, NEW parent \in DOMAIN ns, n # parent, NEW ids, NEW slots,
         ns[n] \in NodeFields(n, ids, slots), ns[parent] \in NodeFields(parent, ids, slots)
  PROVE  /\ DOMAIN Retired(ns, n, parent) = DOMAIN ns
         /\ \A k \in DOMAIN ns : k # n /\ k # parent => Retired(ns, n, parent)[k] = ns[k]
         /\ Retired(ns, n, parent)[n].prefix = ns[n].prefix
         /\ Retired(ns, n, parent)[n].max = ns[n].max
         /\ Retired(ns, n, parent)[n].removed
         /\ Retired(ns, n, parent)[n].updates = ns[n].updates + 1
         /\ Retired(ns, n, parent)[n].cont = ns[n].cont
         /\ Retired(ns, n, parent)[parent].prefix = ns[parent].prefix
         /\ Retired(ns, n, parent)[parent].max = ns[parent].max
         /\ Retired(ns, n, parent)[parent].removed = ns[parent].removed
         /\ Retired(ns, n, parent)[parent].updates = ns[parent].updates + 1
         /\ Retired(ns, n, parent)[parent].cont = ns[parent].cont
         /\ Retired(ns, n, parent)[n] \in NodeFields(n, ids, slots)
         /\ Retired(ns, n, parent)[parent] \in NodeFields(parent, ids, slots)
<1> DEFINE HH == [HCAddresses -> Holds(ids, slots)]
           P == 0 .. Len(Path(n))
           Q == 0 .. Len(Path(parent))
           R == Retired(ns, n, parent)
<1>1. /\ ns[n] \in [prefix : P, cont : HH, max : Nat, removed : BOOLEAN, updates : Nat]
      /\ ns[parent] \in [prefix : Q, cont : HH, max : Nat, removed : BOOLEAN, updates : Nat]
  BY DEF NodeFields
<1>2. R[n] = [ns[n] EXCEPT !.removed = TRUE, !.updates = @ + 1]
  BY DEF Retired
<1>3. R[parent] = [ns[parent] EXCEPT !.updates = @ + 1]
  BY DEF Retired
<1>4. DOMAIN R = DOMAIN ns /\ \A k \in DOMAIN ns : k # n /\ k # parent => R[k] = ns[k]
  BY DEF Retired
<1> DEFINE x == ns[n]
           y == ns[parent]
           Rn == R[n]
           Rp == R[parent]
<1>5. /\ x \in [prefix : P, cont : HH, max : Nat, removed : BOOLEAN, updates : Nat]
      /\ y \in [prefix : Q, cont : HH, max : Nat, removed : BOOLEAN, updates : Nat]
      /\ Rn = [x EXCEPT !.removed = TRUE, !.updates = @ + 1]
      /\ Rp = [y EXCEPT !.updates = @ + 1]
  BY <1>1, <1>2, <1>3
<1> HIDE DEF HH, P, Q, x, y, Rn, Rp, R
<1>6. /\ Rn.prefix = x.prefix /\ Rn.max = x.max /\ Rn.removed = TRUE
      /\ Rn.updates = x.updates + 1 /\ Rn.cont = x.cont
      /\ Rn \in [prefix : P, cont : HH, max : Nat, removed : BOOLEAN, updates : Nat]
  <2> DEFINE yes == TRUE
             B == BOOLEAN
             u == x.updates + 1
  <2>1. /\ x \in [prefix : P, cont : HH, max : Nat, removed : B, updates : Nat]
        /\ yes \in B /\ u \in Nat
    BY <1>5
  <2>2. Rn = [x EXCEPT !.removed = yes, !.updates = u]
    BY <1>5
  <2> HIDE DEF yes, B, u
  <2>3. /\ Rn.prefix = x.prefix /\ Rn.max = x.max /\ Rn.removed = yes
        /\ Rn.updates = u /\ Rn.cont = x.cont
        /\ Rn \in [prefix : P, cont : HH, max : Nat, removed : B, updates : Nat]
    BY <2>1, <2>2
  <2> QED BY <2>3 DEF yes, B, u
<1>7. /\ Rp.prefix = y.prefix /\ Rp.max = y.max /\ Rp.removed = y.removed
      /\ Rp.updates = y.updates + 1 /\ Rp.cont = y.cont
      /\ Rp \in [prefix : Q, cont : HH, max : Nat, removed : BOOLEAN, updates : Nat]
  BY <1>5
<1>8. Rn \in NodeFields(n, ids, slots) /\ Rp \in NodeFields(parent, ids, slots)
  BY <1>6, <1>7 DEF NodeFields, HH, P, Q
<1> QED BY <1>4, <1>6, <1>7, <1>8 DEF Rn, Rp, R, x, y

(* Node n is retired, its parent linked to m, one of the new nodes N.      *)
Replacement(ns, R, n, parent, pa, m, N, slots) ==
  /\ DOMAIN R = DOMAIN ns \cup N
  /\ \A k \in DOMAIN ns : R[k].prefix = ns[k].prefix /\ R[k].max = ns[k].max
  /\ \A k \in DOMAIN ns : R[k].removed <=> (ns[k].removed \/ k = n)
  /\ \A k \in DOMAIN ns, b \in HCAddresses :
       R[k].cont[b] = IF k = parent /\ b = pa THEN Sub(m) ELSE ns[k].cont[b]
  /\ \A k \in DOMAIN ns :
       R[k].updates = IF k \in {n, parent} THEN ns[k].updates + 1 ELSE ns[k].updates
  /\ \A k \in DOMAIN ns : k \notin {n, parent} => R[k] = ns[k]
  /\ \A k \in DOMAIN ns : R[k] \in NodeFields(k, DOMAIN R, slots)

(* A link to new nodes and the retirement of the old one are a             *)
(* replacement.                                                            *)
LEMMA RetiredReplaces ==
  ASSUME NEW ns, NEW slots, NodesTyped(ns, slots), NEW n \in DOMAIN ns, NEW parent \in DOMAIN ns,
         n # parent, NEW pa \in HCAddresses, NEW N, NEW m \in N, N \cap DOMAIN ns = {},
         NEW G, DOMAIN G = DOMAIN ns \cup N,
         \A k \in DOMAIN ns : G[k] = Relinked(ns, parent, pa, m)[k]
  PROVE  /\ Replacement(ns, Retired(G, n, parent), n, parent, pa, m, N, slots)
         /\ \A k \in N : Retired(G, n, parent)[k] = G[k]
<1> DEFINE ids == DOMAIN ns \cup N
           L == Relinked(ns, parent, pa, m)
           R == Retired(G, n, parent)
<1>1. \A k \in DOMAIN ns : ns[k] \in NodeFields(k, ids, slots)
  <2> SUFFICES ASSUME NEW k \in DOMAIN ns PROVE ns[k] \in NodeFields(k, ids, slots)
    OBVIOUS
  <2>1. ns[k] \in NodeFields(k, DOMAIN ns, slots)
    BY DEF NodesTyped
  <2>2. DOMAIN ns \subseteq ids
    OBVIOUS
  <2> HIDE DEF ids
  <2> QED BY <2>1, <2>2, FieldsGrow
<1>2. m \in ids /\ n \in ids /\ parent \in ids
  OBVIOUS
<1> HIDE DEF ids
<1>3. /\ DOMAIN L = DOMAIN ns
      /\ \A k \in DOMAIN ns : k # parent => L[k] = ns[k]
      /\ L[parent].prefix = ns[parent].prefix /\ L[parent].max = ns[parent].max
      /\ L[parent].removed = ns[parent].removed /\ L[parent].updates = ns[parent].updates
      /\ \A b \in HCAddresses : b # pa => L[parent].cont[b] = ns[parent].cont[b]
      /\ L[parent].cont[pa] = Sub(m) /\ L[parent] \in NodeFields(parent, ids, slots)
  BY <1>1, <1>2, RelinkedIs
<1> HIDE DEF L
<1>4. DOMAIN G = ids /\ G[n] = ns[n] /\ G[parent] = L[parent]
  BY <1>3 DEF L, ids
<1>5. G[n] \in NodeFields(n, ids, slots) /\ G[parent] \in NodeFields(parent, ids, slots)
  BY <1>1, <1>3, <1>4
<1>6. /\ DOMAIN R = DOMAIN G
      /\ \A k \in DOMAIN G : k # n /\ k # parent => R[k] = G[k]
      /\ R[n].prefix = G[n].prefix /\ R[n].max = G[n].max /\ R[n].removed
      /\ R[n].updates = G[n].updates + 1 /\ R[n].cont = G[n].cont
      /\ R[parent].prefix = G[parent].prefix /\ R[parent].max = G[parent].max
      /\ R[parent].removed = G[parent].removed /\ R[parent].updates = G[parent].updates + 1
      /\ R[parent].cont = G[parent].cont
      /\ R[n] \in NodeFields(n, ids, slots) /\ R[parent] \in NodeFields(parent, ids, slots)
  BY <1>2, <1>4, <1>5, RetiredIs
<1> HIDE DEF R
<1>7. \A k \in DOMAIN ns : k # n /\ k # parent => R[k] = ns[k]
  BY <1>3, <1>4, <1>6 DEF L, ids
<1>8. \A k \in N : R[k] = G[k]
  BY <1>4, <1>6 DEF ids
<1>9. DOMAIN R = DOMAIN ns \cup N
  BY <1>4, <1>6 DEF ids
<1>10. /\ \A k \in DOMAIN ns : R[k].prefix = ns[k].prefix /\ R[k].max = ns[k].max
       /\ \A k \in DOMAIN ns, b \in HCAddresses :
            R[k].cont[b] = IF k = parent /\ b = pa THEN Sub(m) ELSE ns[k].cont[b]
  BY <1>3, <1>4, <1>6, <1>7
<1>11. \A k \in DOMAIN ns : R[k].removed <=> (ns[k].removed \/ k = n)
  <2> SUFFICES ASSUME NEW k \in DOMAIN ns PROVE R[k].removed <=> (ns[k].removed \/ k = n)
    OBVIOUS
  <2>1. CASE k = n
    BY <1>6, <2>1
  <2>2. CASE k = parent
    BY <1>3, <1>4, <1>6, <2>2
  <2>3. CASE k # n /\ k # parent
    BY <1>7, <2>3
  <2> QED BY <2>1, <2>2, <2>3
<1>12. \A k \in DOMAIN ns :
         R[k].updates = IF k \in {n, parent} THEN ns[k].updates + 1 ELSE ns[k].updates
  BY <1>3, <1>4, <1>6, <1>7
<1>13. \A k \in DOMAIN ns : R[k] \in NodeFields(k, DOMAIN R, slots)
  BY <1>1, <1>4, <1>6, <1>7
<1>14. Replacement(ns, R, n, parent, pa, m, N, slots)
  BY <1>7, <1>9, <1>10, <1>11, <1>12, <1>13 DEF Replacement
<1> QED BY <1>8, <1>14 DEF R

(* Beside the tree's shape only the new nodes matter. *)
LEMMA ReplacementSound ==
  ASSUME NEW ns, NEW slots, Sound(ns, slots), NEW n \in LiveNodes(ns), NEW parent \in LiveNodes(ns),
         NEW pa \in HCAddresses, Linked(ns, parent, pa, n), NEW N \in SUBSET NodeIds, NEW m \in N,
         IsFiniteSet(N), NEW R, Replacement(ns, R, n, parent, pa, m, N, slots), Tree(R),
         \A k \in N : /\ Len(Path(k)) < WIDTH /\ R[k] \in NodeFields(k, DOMAIN R, slots)
                      /\ NContents(R[k]) <= R[k].max /\ TwoContents(R[k])
                      /\ \A b \in HCAddresses : \A e : R[k].cont[b] = Suffix(e) => Leads(k, b, Key[e])
  PROVE  Sound(R, slots)
<1>1. /\ NodesTyped(ns, slots) /\ Tree(ns) /\ Room(ns) /\ Spread(ns) /\ Placed(ns)
      /\ IsFiniteSet(DOMAIN ns)
  BY DEF Sound, NodesTyped
<1>2. DOMAIN R = DOMAIN ns \cup N
  BY DEF Replacement
<1>3. IsFiniteSet(DOMAIN R)
  BY <1>1, <1>2, FS_Union
<1>4. \A k \in DOMAIN ns : R[k] \in NodeFields(k, DOMAIN R, slots)
  BY DEF Replacement
<1>5. NodesTyped(R, slots)
  BY <1>1, <1>2, <1>3, <1>4 DEF NodesTyped, IdsTyped
<1>6. \A k \in DOMAIN ns, b \in HCAddresses :
        \/ R[k].cont[b] = ns[k].cont[b]
        \/ k = parent /\ b = pa /\ R[k].cont[b] = Sub(m)
  BY DEF Replacement
<1>7. ASSUME NEW k \in DOMAIN ns
      PROVE  /\ NContents(R[k]) <= R[k].max
             /\ TwoContents(ns[k]) => TwoContents(R[k])
  <2>1. \A b \in HCAddresses : R[k].cont[b] = Empty <=> ns[k].cont[b] = Empty
    BY <1>6, SubNotEmpty DEF Linked
  <2>2. NContents(R[k]) = NContents(ns[k]) /\ (TwoContents(ns[k]) => TwoContents(R[k]))
    BY <2>1, SameCount
  <2>3. R[k].max = ns[k].max
    BY DEF Replacement
  <2>4. NContents(ns[k]) <= ns[k].max
    BY <1>1 DEF Room
  <2> QED BY <2>2, <2>3, <2>4
<1>8. Room(R)
  BY <1>2, <1>7 DEF Room
<1>9. Spread(R)
  BY <1>1, <1>2, <1>7 DEF Spread
<1>10. Placed(R)
  <2> SUFFICES ASSUME NEW k \in LiveNodes(R), NEW b \in HCAddresses, NEW e, R[k].cont[b] = Suffix(e)
               PROVE  Leads(k, b, Key[e])
    BY DEF Placed
  <2>1. CASE k \in DOMAIN ns
    <3>1. k \in LiveNodes(ns)
      BY <2>1 DEF LiveNodes, Replacement
    <3>2. ns[k].cont[b] = Suffix(e)
      BY <1>6, <2>1, SubNotEmpty
    <3> QED BY <1>1, <3>1, <3>2 DEF Placed
  <2>2. CASE k \in N
    BY <2>2
  <2> QED BY <1>2, <2>1, <2>2 DEF LiveNodes
<1> QED BY <1>5, <1>8, <1>9, <1>10 DEF Sound

(* A linked node is not the root, is not removed and lies below its parent. *)
LEMMA LinkedFacts ==
  ASSUME NEW ns, NEW slots, NodesTyped(ns, slots), Tree(ns), NEW parent \in LiveNodes(ns),
         NEW pa \in HCAddresses, NEW n, Linked(ns, parent, pa, n)
  PROVE  /\ n \in LiveNodes(ns) /\ n # parent /\ ~AtTop(n) /\ Leads(parent, pa, Path(n))
         /\ Len(Path(n)) = Len(Path(parent)) + 1 + ns[n].prefix
         /\ Len(Path(parent)) \in Nat /\ Len(Path(n)) \in Nat /\ ns[n].prefix \in Nat
         /\ Path(n) \in Seq(HCAddresses) /\ Path(parent) \in Seq(HCAddresses)
         /\ n \in NodeIds /\ parent \in NodeIds
<1>1. /\ n \in LiveNodes(ns) /\ Leads(parent, pa, Path(n))
      /\ Len(Path(n)) = Len(Path(parent)) + 1 + ns[n].prefix
  BY DEF Tree, LinksRight
<1>2. n \in DOMAIN ns /\ parent \in DOMAIN ns /\ n \in NodeIds /\ parent \in NodeIds
  BY <1>1 DEF LiveNodes, NodesTyped, IdsTyped
<1>3. /\ Len(Path(parent)) \in Nat /\ Len(Path(n)) \in Nat
      /\ Path(n) \in Seq(HCAddresses) /\ Path(parent) \in Seq(HCAddresses)
  BY <1>2, PathType
<1>4. ns[n].prefix \in Nat
  <2>1. ns[n] \in NodeFields(n, DOMAIN ns, slots)
    BY <1>2 DEF NodesTyped
  <2> QED BY <1>3, <2>1 DEF NodeFields
<1>5. Len(Path(n)) > Len(Path(parent))
  BY <1>1, <1>3, <1>4
<1>7. n # parent /\ ~AtTop(n)
  BY <1>3, <1>5 DEF AtTop
<1> QED BY <1>1, <1>2, <1>3, <1>4, <1>7

(* A full node's larger copy has room for the entry. *)
LEMMA LargerCopyIs ==
  ASSUME NEW ns, NEW slots, NodesTyped(ns, slots), NEW n \in DOMAIN ns, NEW a \in HCAddresses,
         NEW e \in Entries, ns[n].cont[a] = Empty, IsFull(ns[n])
  PROVE  /\ LargerCopy(ns[n], a, e).prefix = ns[n].prefix
         /\ ~LargerCopy(ns[n], a, e).removed
         /\ LargerCopy(ns[n], a, e).updates = 0
         /\ \A b \in HCAddresses : LargerCopy(ns[n], a, e).cont[b]
                                     = IF b = a THEN Suffix(e) ELSE ns[n].cont[b]
         /\ LargerCopy(ns[n], a, e) \in NodeFields(n, DOMAIN ns, slots)
         /\ NContents(LargerCopy(ns[n], a, e)) <= LargerCopy(ns[n], a, e).max
         /\ TwoContents(ns[n]) => TwoContents(LargerCopy(ns[n], a, e))
<1> DEFINE x == ns[n]
           H == Holds(DOMAIN ns, slots)
           HH == [HCAddresses -> H]
           P == 0 .. Len(Path(n))
           c == x.cont
           d == [c EXCEPT ![a] = Suffix(e)]
           S == {b \in HCAddresses : c[b] # Empty}
           mx == NodeCapacity(x.max + 1)
           y == LargerCopy(x, a, e)
<1>1. x \in [prefix : P, cont : HH, max : Nat, removed : BOOLEAN, updates : Nat]
  BY DEF NodesTyped, NodeFields
<1>2. c \in HH
  <2> HIDE DEF x, HH, P
  <2> QED BY <1>1
<1>3. Suffix(e) \in H
  BY DEF Holds
<1>4. d \in HH /\ DOMAIN c = HCAddresses
      /\ \A b \in HCAddresses : d[b] = IF b = a THEN Suffix(e) ELSE c[b]
  <2> HIDE DEF H, c
  <2> QED BY <1>2, <1>3
<1>5. IsFiniteSet(S) /\ Cardinality(S) \in Nat
  BY CountBound
<1>6. Cardinality(S) = x.max
  BY DEF IsFull, NContents
<1>7. S \cup {a} \subseteq HCAddresses /\ a \notin S
  OBVIOUS
<1>8. /\ Cardinality(S \cup {a}) = x.max + 1 /\ Cardinality(S \cup {a}) \in Nat
      /\ Cardinality(S \cup {a}) <= 2^DIM
  <2> HIDE DEF S
  <2>1. Cardinality(S \cup {a}) = Cardinality(S) + 1
    BY <1>5, <1>7, FS_AddElement
  <2>2. Cardinality(S \cup {a}) \in Nat /\ Cardinality(S \cup {a}) <= 2^DIM
    BY <1>7, CountBound
  <2> QED BY <1>6, <2>1, <2>2
<1>9. mx \in Nat /\ x.max + 1 <= mx
  <2>1. x.max + 1 \in Nat /\ x.max + 1 <= 2^DIM
    BY <1>8
  <2> DEFINE z == x.max + 1
  <2> HIDE DEF z
  <2>2. NodeCapacity(z) \in Nat /\ z <= NodeCapacity(z)
    BY <2>1, CapacitySuffices DEF z
  <2> QED BY <2>2 DEF z
<1>10. {b \in HCAddresses : d[b] # Empty} = S \cup {a}
  BY <1>4, <1>7, SubNotEmpty
<1> DEFINE capacity == NodeCapacity(Cardinality({b \in DOMAIN c : c[b] # Empty}))
<1>11. y = [[prefix |-> x.prefix, cont |-> c, max |-> capacity, removed |-> FALSE, updates |-> 0]
              EXCEPT !.max = mx, !.cont[a] = Suffix(e)]
  BY DEF LargerCopy, BuildNode
<1> DEFINE pf == x.prefix
<1>12. pf \in P
  <2> HIDE DEF HH, P, x
  <2> QED BY <1>1
<1>13. y = [prefix |-> pf, cont |-> d, max |-> mx, removed |-> FALSE, updates |-> 0]
  <2> HIDE DEF capacity, mx, x, y, c
  <2> QED BY <1>4, <1>11 DEF d
<1> HIDE DEF y, d, pf, c, HH
<1>14. /\ y.prefix = pf /\ ~y.removed /\ y.updates = 0 /\ y.cont = d /\ y.max = mx
  BY <1>13
<1>15. y \in [prefix : P, cont : HH, max : Nat, removed : BOOLEAN, updates : Nat]
  <2> HIDE DEF P, mx
  <2> DEFINE no == FALSE
             B == BOOLEAN
             zero == 0
  <2>1. y = [prefix |-> pf, cont |-> d, max |-> mx, removed |-> no, updates |-> zero]
    BY <1>13
  <2>2. no \in B /\ zero \in Nat
    OBVIOUS
  <2> HIDE DEF no, B, zero
  <2>3. y \in [prefix : P, cont : HH, max : Nat, removed : B, updates : Nat]
    BY <1>4, <1>9, <1>12, <2>1, <2>2
  <2> QED BY <2>3 DEF B
<1>16. y \in NodeFields(n, DOMAIN ns, slots)
  BY <1>15 DEF NodeFields, HH
<1>17. NContents(y) <= y.max
  <2> HIDE DEF S, mx
  <2>1. NContents(y) = Cardinality(S \cup {a})
    BY <1>10, <1>14 DEF NContents
  <2> QED BY <1>8, <1>9, <1>14, <2>1
<1>18. TwoContents(x) => TwoContents(y)
  BY <1>4, <1>14, SubNotEmpty DEF TwoContents, c
<1>19. \A b \in HCAddresses : y.cont[b] = IF b = a THEN Suffix(e) ELSE x.cont[b]
  BY <1>4, <1>14 DEF c
<1> HIDE DEF P
<1> QED BY <1>14, <1>16, <1>17, <1>18, <1>19 DEF y, pf

(* Node n is replaced by a larger copy that holds entry e at address a. *)
Copied(ns, n, parent, pa, new, a, e) ==
  Retired(WithNode(Relinked(ns, parent, pa, new), new, LargerCopy(ns[n], a, e)), n, parent)

(* Copying into a larger node replaces the node by the copy.               *)
LEMMA CopiedReplaces ==
  ASSUME NEW ns, NEW slots, NodesTyped(ns, slots), NEW n \in DOMAIN ns, NEW parent \in DOMAIN ns,
         n # parent, NEW pa \in HCAddresses, NEW new, new \notin DOMAIN ns, NEW a, NEW e
  PROVE  /\ Replacement(ns, Copied(ns, n, parent, pa, new, a, e), n, parent, pa, new, {new}, slots)
         /\ Copied(ns, n, parent, pa, new, a, e)[new] = LargerCopy(ns[n], a, e)
<1> DEFINE L == Relinked(ns, parent, pa, new)
           G == WithNode(L, new, LargerCopy(ns[n], a, e))
           N == {new}
<1>1. DOMAIN L = DOMAIN ns
  BY DEF Relinked
<1>2. DOMAIN G = DOMAIN ns \cup N /\ (\A k \in DOMAIN ns : G[k] = L[k]) /\ G[new] = LargerCopy(ns[n], a, e)
  <2> HIDE DEF L
  <2> QED BY <1>1 DEF WithNode
<1>3. new \in N /\ N \cap DOMAIN ns = {}
  OBVIOUS
<1> HIDE DEF G, N
<1>4. /\ Replacement(ns, Retired(G, n, parent), n, parent, pa, new, N, slots)
      /\ \A k \in N : Retired(G, n, parent)[k] = G[k]
  BY <1>2, <1>3, RetiredReplaces
<1> QED BY <1>2, <1>3, <1>4 DEF Copied, G, N

(* Copying a full node into a larger one with the new entry                *)
(* (copyIntoLargerNode) leaves the tree sound.                             *)
LEMMA CopiedSound ==
  ASSUME NEW ns, NEW slots, Sound(ns, slots), NEW parent \in LiveNodes(ns), NEW pa \in HCAddresses,
         NEW n, Linked(ns, parent, pa, n), NEW a \in HCAddresses, NEW e \in Entries,
         ns[n].cont[a] = Empty, IsFull(ns[n]), Leads(n, a, Key[e]),
         NEW new \in NodeIds, new \notin DOMAIN ns, Path(new) = Path(n)
  PROVE  Sound(Copied(ns, n, parent, pa, new, a, e), slots)
<1> DEFINE R == Copied(ns, n, parent, pa, new, a, e)
           y == LargerCopy(ns[n], a, e)
           N == {new}
<1>1. /\ NodesTyped(ns, slots) /\ Tree(ns) /\ Room(ns) /\ Spread(ns) /\ Placed(ns) /\ IdsTyped(ns)
  BY DEF Sound, NodesTyped
<1>2. n \in LiveNodes(ns) /\ n # parent /\ ~AtTop(n) /\ n \in DOMAIN ns /\ parent \in DOMAIN ns
  BY <1>1, LinkedFacts DEF LiveNodes
<1>3. Replacement(ns, R, n, parent, pa, new, N, slots) /\ R[new] = y
  BY <1>1, <1>2, CopiedReplaces
<1>4. /\ y.prefix = ns[n].prefix /\ ~y.removed
      /\ \A b \in HCAddresses : y.cont[b] = IF b = a THEN Suffix(e) ELSE ns[n].cont[b]
      /\ y \in NodeFields(n, DOMAIN ns, slots)
      /\ NContents(y) <= y.max /\ (TwoContents(ns[n]) => TwoContents(y))
  BY <1>1, <1>2, LargerCopyIs
<1> HIDE DEF R, y
<1>5. DOMAIN R = DOMAIN ns \cup N
  BY <1>3 DEF Replacement
<1>6. LiveNodes(R) = (LiveNodes(ns) \ {n}) \cup {new}
  BY <1>2, <1>3, <1>4, <1>5 DEF Replacement, LiveNodes
<1>7. \A b \in HCAddresses : \A m : Linked(R, new, b, m) <=> Linked(ns, n, b, m)
  BY <1>3, <1>4, SubNotEmpty DEF Linked
<1>8. \A k \in LiveNodes(ns) \ {n} :
           /\ R[k].prefix = ns[k].prefix
           /\ \A b \in HCAddresses : \A m :
                Linked(R, k, b, m) <=> IF k = parent /\ b = pa THEN m = new ELSE Linked(ns, k, b, m)
  <2> SUFFICES ASSUME NEW k \in LiveNodes(ns) \ {n}
               PROVE  /\ R[k].prefix = ns[k].prefix
                      /\ \A b \in HCAddresses : \A m :
                           Linked(R, k, b, m) <=> IF k = parent /\ b = pa THEN m = new ELSE Linked(ns, k, b, m)
    OBVIOUS
  <2>1. k \in DOMAIN ns
    BY DEF LiveNodes
  <2>2. \A i, j : Sub(i) = Sub(j) => i = j
    BY Kinds
  <2> QED BY <1>3, <2>1, <2>2 DEF Replacement, Linked
<1>9. Tree(R)
  BY <1>1, <1>3, <1>4, <1>6, <1>7, <1>8, CopyTree
<1>10. y \in NodeFields(new, DOMAIN R, slots)
  <2>1. y \in NodeFields(n, DOMAIN R, slots)
    BY <1>4, <1>5, FieldsGrow
  <2> QED BY <2>1 DEF NodeFields
<1>11. TwoContents(y)
  BY <1>1, <1>2, <1>4 DEF Spread
<1>12. \A b \in HCAddresses : \A f : y.cont[b] = Suffix(f) => Leads(new, b, Key[f])
  <2> SUFFICES ASSUME NEW b \in HCAddresses, NEW f, y.cont[b] = Suffix(f) PROVE Leads(n, b, Key[f])
    BY DEF Leads
  <2>1. CASE b = a
    <3>1. f = e
      BY <1>4, <2>1, Kinds
    <3> QED BY <2>1, <3>1
  <2>2. CASE b # a
    BY <1>1, <1>2, <1>4, <2>2 DEF Placed
  <2> QED BY <2>1, <2>2
<1>13. Len(Path(new)) < WIDTH
  BY <1>1, <1>2 DEF NodesTyped
<1>14. \A k \in N : /\ Len(Path(k)) < WIDTH /\ R[k] \in NodeFields(k, DOMAIN R, slots)
                    /\ NContents(R[k]) <= R[k].max /\ TwoContents(R[k])
                    /\ \A b \in HCAddresses : \A f : R[k].cont[b] = Suffix(f) => Leads(k, b, Key[f])
  BY <1>3, <1>4, <1>10, <1>11, <1>12, <1>13
<1>15. N \in SUBSET NodeIds /\ new \in N
  OBVIOUS
<1>16. IsFiniteSet(N)
  BY FS_Singleton
<1> HIDE DEF N
<1>17. Sound(R, slots)
  BY <1>2, <1>3, <1>9, <1>14, <1>15, <1>16, ReplacementSound
<1> QED BY <1>17 DEF R

(* How much of its prefix a node shares with an entry. *)
LEMMA SharedPrefixIs ==
  ASSUME NEW n \in NodeIds, Len(Path(n)) < WIDTH, NEW prefix \in 0 .. Len(Path(n)), NEW e \in Entries
  PROVE  LET start == Len(Path(n)) - prefix
             shared == SharedPrefix(e, n, prefix)
         IN  /\ shared \in Nat /\ shared <= prefix
             /\ \A i \in 1 .. shared : Key[e][start + i] = Path(n)[start + i]
             /\ shared < prefix => Key[e][start + shared + 1] # Path(n)[start + shared + 1]
<1> DEFINE k == Key[e]
           p == Path(n)
           len == Len(p)
           start == len - prefix
           x == SubSeq(k, start + 1, len)
           y == SubSeq(p, start + 1, len)
           q == LongestCommonPrefix({x, y})
           shared == SharedPrefix(e, n, prefix)
<1>1. k \in Seq(HCAddresses) /\ Len(k) = WIDTH /\ p \in Seq(HCAddresses) /\ len \in Nat /\ WIDTH \in Nat
  BY KeyType, PathType
<1>2. start \in Nat /\ len < WIDTH /\ prefix \in Nat /\ start + prefix = len
  BY <1>1
<1> HIDE DEF k, p, len, start
<1>3. /\ x \in Seq(HCAddresses) /\ Len(x) = prefix
      /\ \A i \in 1 .. prefix : x[i] = k[start + i]
  BY <1>1, <1>2
<1>4. /\ y \in Seq(HCAddresses) /\ Len(y) = prefix
      /\ \A i \in 1 .. prefix : y[i] = p[start + i]
  BY <1>1, <1>2 DEF len
<1>5. shared = Len(q)
  BY DEF SharedPrefix, start, len, p, k
<1> HIDE DEF x, y, q, shared
<1>6. CASE x = y
  <2>1. q = x
    <3>1. q \in Seq(HCAddresses) /\ IsPrefix(q, x)
          /\ \A z \in Seq(HCAddresses) : (\A t \in {x, y} : IsPrefix(z, t)) => IsPrefix(z, q)
      BY <1>3, <1>6, CommonPrefix DEF q
    <3>2. IsPrefix(x, x)
      BY <1>3, PrefixIff
    <3>3. IsPrefix(x, q)
      BY <1>3, <1>6, <3>1, <3>2
    <3>4. Len(x) <= Len(q) /\ Len(q) <= Len(x)
      BY <1>3, <3>1, <3>3, PrefixIff
    <3>5. Len(q) = Len(x)
      BY <1>3, <3>1, <3>4
    <3> QED BY <1>3, <3>1, <3>5, PrefixSame
  <2> QED BY <1>2, <1>3, <1>4, <1>5, <1>6, <2>1 DEF k, p, len, start, shared
<1>7. CASE x # y
  <2>0. LET r == LongestCommonPrefix({x, y}) IN
           /\ r \in Seq(HCAddresses) /\ Len(r) < Len(x) /\ IsPrefix(r, x) /\ IsPrefix(r, y)
           /\ x[Len(r) + 1] # y[Len(r) + 1]
    <3>1. x \in Seq(HCAddresses) /\ y \in Seq(HCAddresses) /\ Len(x) = Len(y) /\ x # y
      BY <1>3, <1>4, <1>7
    <3> QED BY <3>1, CommonOfTwo
  <2>1. /\ q \in Seq(HCAddresses) /\ Len(q) < prefix /\ IsPrefix(q, x) /\ IsPrefix(q, y)
        /\ x[Len(q) + 1] # y[Len(q) + 1] /\ Len(q) \in Nat
    <3>1. /\ q \in Seq(HCAddresses) /\ Len(q) < Len(x) /\ IsPrefix(q, x) /\ IsPrefix(q, y)
          /\ x[Len(q) + 1] # y[Len(q) + 1]
      BY <2>0 DEF q
    <3> QED BY <1>3, <3>1
  <2>2. /\ \A i \in 1 .. Len(q) : q[i] = x[i]
        /\ \A i \in 1 .. Len(q) : q[i] = y[i]
    BY <1>3, <1>4, <2>1, PrefixIff
  <2>3. \A i \in 1 .. Len(q) : i \in 1 .. prefix
    BY <1>2, <2>1
  <2>4. \A i \in 1 .. Len(q) : k[start + i] = p[start + i]
    BY <1>3, <1>4, <2>2, <2>3
  <2>5. Len(q) + 1 \in 1 .. prefix
    BY <1>2, <2>1
  <2>6. k[start + (Len(q) + 1)] # p[start + (Len(q) + 1)]
    BY <1>3, <1>4, <2>1, <2>5
  <2>7. start + (Len(q) + 1) = start + Len(q) + 1
    BY <1>2, <2>1
  <2> QED BY <1>2, <1>5, <2>1, <2>4, <2>6, <2>7 DEF k, p, len, start, shared
<1> QED BY <1>6, <1>7

(* On the way to an entry the link to a subnode leads on, or the entry     *)
(* leaves the subnode's prefix behind the path it shares.                  *)
LEMMA WalkOn ==
  ASSUME NEW ns, NEW slots, NodesTyped(ns, slots), Tree(ns), NEW parent \in LiveNodes(ns),
         NEW e \in Entries, On(parent, Key[e]),
         NEW n, Linked(ns, parent, AddressIn(e, parent), n)
  PROVE  LET shared == SharedPrefix(e, n, ns[n].prefix)
             split == SplitPath(ns, n, e)
         IN  /\ shared \in Nat /\ shared <= ns[n].prefix
             /\ shared = ns[n].prefix => On(n, Key[e])
             /\ split \in Seq(HCAddresses) /\ Len(split) = Len(Path(parent)) + 1 + shared
             /\ IsPrefix(split, Path(n)) /\ IsPrefix(split, Key[e])
             /\ shared < ns[n].prefix => Key[e][Len(split) + 1] # Path(n)[Len(split) + 1]
<1> DEFINE k == Key[e]
           p == Path(n)
           up == Path(parent)
           prefix == ns[n].prefix
           shared == SharedPrefix(e, n, prefix)
           split == SplitPath(ns, n, e)
           start == Len(p) - prefix
           pa == AddressIn(e, parent)
<1>1. parent \in DOMAIN ns /\ parent \in NodeIds /\ Len(up) < WIDTH /\ Len(up) \in Nat /\ up \in Seq(HCAddresses)
  BY PathType DEF LiveNodes, NodesTyped, IdsTyped
<1>2. k \in Seq(HCAddresses) /\ Len(k) = WIDTH /\ WIDTH \in Nat
  BY KeyType
<1>3. pa \in HCAddresses
  BY <1>1, <1>2 DEF AddressIn
<1>4. /\ n \in LiveNodes(ns) /\ Leads(parent, pa, p) /\ n \in NodeIds
      /\ Len(p) = Len(up) + 1 + prefix /\ Len(p) \in Nat /\ prefix \in Nat /\ p \in Seq(HCAddresses)
  BY <1>3, LinkedFacts
<1>5. n \in DOMAIN ns /\ Len(p) < WIDTH
  BY <1>4 DEF LiveNodes, NodesTyped
<1>6. prefix \in 0 .. Len(p) /\ start = Len(up) + 1
  BY <1>1, <1>4
<1>7. /\ shared \in Nat /\ shared <= prefix
      /\ \A i \in 1 .. shared : k[start + i] = p[start + i]
      /\ shared < prefix => k[start + shared + 1] # p[start + shared + 1]
  <2> HIDE DEF prefix
  <2> QED BY <1>4, <1>5, <1>6, SharedPrefixIs
<1>8. split = SubSeq(p, 1, start + shared)
  BY DEF SplitPath
<1>9. /\ Len(up) < Len(p) /\ p[Len(up) + 1] = pa /\ k[Len(up) + 1] = pa
      /\ \A i \in 1 .. Len(up) : p[i] = up[i] /\ k[i] = up[i]
  <2>1. IsPrefix(up, p) /\ Len(up) < Len(p) /\ p[Len(up) + 1] = pa
    BY <1>4 DEF Leads, Way
  <2>2. IsPrefix(up, k)
    BY DEF On
  <2> HIDE DEF up, p, k
  <2>3. \A i \in 1 .. Len(up) : up[i] = p[i]
    BY <1>1, <1>4, <2>1, PrefixIff
  <2>4. \A i \in 1 .. Len(up) : up[i] = k[i]
    BY <1>1, <1>2, <2>2, PrefixIff
  <2> QED BY <2>1, <2>3, <2>4 DEF AddressIn, k, up
<1> HIDE DEF k, p, up, prefix, shared, split, pa
<1>10. \A i \in 1 .. start + shared : p[i] = k[i]
  <2> SUFFICES ASSUME NEW i \in 1 .. start + shared PROVE p[i] = k[i]
    OBVIOUS
  <2>1. CASE i <= Len(up)
    BY <1>1, <1>9, <2>1
  <2>2. CASE i = Len(up) + 1
    BY <1>9, <2>2
  <2>3. CASE i > Len(up) + 1
    <3>1. i - start \in 1 .. shared /\ start + (i - start) = i
      BY <1>1, <1>6, <1>7, <2>3
    <3> QED BY <1>7, <3>1
  <2> QED BY <1>1, <1>6, <1>7, <2>1, <2>2, <2>3
<1>11. start + shared \in 0 .. Len(p) /\ start + shared <= Len(k) /\ start \in Nat
  BY <1>1, <1>2, <1>4, <1>5, <1>6, <1>7
<1>12. /\ split \in Seq(HCAddresses) /\ Len(split) = start + shared /\ IsPrefix(split, p)
       /\ \A i \in 1 .. start + shared : split[i] = p[i]
  BY <1>4, <1>8, <1>11, SubSeqPrefix
<1>13. IsPrefix(split, k)
  BY <1>2, <1>10, <1>11, <1>12, PrefixIff
<1>14. shared = prefix => IsPrefix(p, k)
  <2> SUFFICES ASSUME shared = prefix PROVE IsPrefix(p, k)
    OBVIOUS
  <2>1. start + shared = Len(p)
    BY <1>1, <1>4, <1>6
  <2> QED BY <1>2, <1>4, <1>10, <1>11, <2>1, PrefixIff
<1> QED BY <1>6, <1>7, <1>12, <1>13, <1>14 DEF On, k, p, up, prefix, shared, split

(* BuildNode builds a node of the right type.                              *)
LEMMA BuiltTyped ==
  ASSUME NEW m, NEW p \in 0 .. Len(Path(m)), NEW ids, NEW slots,
         NEW c \in [HCAddresses -> Holds(ids, slots)]
  PROVE  BuildNode(p, c) \in NodeFields(m, ids, slots)
<1> DEFINE HH == [HCAddresses -> Holds(ids, slots)]
           P == 0 .. Len(Path(m))
           capacity == NodeCapacity(Cardinality({b \in DOMAIN c : c[b] # Empty}))
           no == FALSE
           B == BOOLEAN
           zero == 0
           y == BuildNode(p, c)
<1>1. DOMAIN c = HCAddresses
  OBVIOUS
<1>2. y = [prefix |-> p, cont |-> c, max |-> capacity, removed |-> no, updates |-> zero]
  BY DEF BuildNode
<1>3. y.max = capacity
  BY <1>2
<1>4. capacity \in Nat
  <2>1. BuildNode(p, c).max \in Nat
    <3> HIDE DEF capacity
    <3> QED BY <1>1, BuiltRoom
  <2> HIDE DEF capacity
  <2> QED BY <1>3, <2>1
<1>5. c \in HH /\ p \in P /\ no \in B /\ zero \in Nat
  OBVIOUS
<1> HIDE DEF HH, P, capacity, no, B, zero, y
<1>6. y \in [prefix : P, cont : HH, max : Nat, removed : B, updates : Nat]
  BY <1>2, <1>4, <1>5
<1> QED BY <1>6 DEF NodeFields, HH, P, B, y

(* Node n is replaced by upper, which holds entry e and the copy of n.     *)
Resplit(ns, n, parent, e, upper, copy) == Retired(Split(ns, n, parent, e, upper, copy), n, parent)

UpperCont(n, e, upper, copy) ==
  [a \in HCAddresses |->
     IF a = Key[e][Len(Path(upper)) + 1] THEN Suffix(e)
     ELSE IF a = Path(n)[Len(Path(upper)) + 1] THEN Sub(copy)
     ELSE Empty]

(* Splitting a prefix replaces the node by two.                            *)
LEMMA ResplitReplaces ==
  ASSUME NEW ns, NEW slots, NodesTyped(ns, slots), NEW n \in DOMAIN ns, NEW parent \in DOMAIN ns,
         n # parent, NEW e, AddressIn(e, parent) \in HCAddresses,
         NEW upper, NEW copy, upper \notin DOMAIN ns, copy \notin DOMAIN ns, upper # copy
  PROVE  /\ Replacement(ns, Resplit(ns, n, parent, e, upper, copy), n, parent,
                        AddressIn(e, parent), upper, {upper, copy}, slots)
         /\ Resplit(ns, n, parent, e, upper, copy)[upper]
              = BuildNode(SharedPrefix(e, n, ns[n].prefix), UpperCont(n, e, upper, copy))
         /\ Resplit(ns, n, parent, e, upper, copy)[copy]
              = BuildNode(ns[n].prefix - SharedPrefix(e, n, ns[n].prefix) - 1, ns[n].cont)
<1> DEFINE pa == AddressIn(e, parent)
           L == Relinked(ns, parent, pa, upper)
           U == BuildNode(SharedPrefix(e, n, ns[n].prefix), UpperCont(n, e, upper, copy))
           C == BuildNode(ns[n].prefix - SharedPrefix(e, n, ns[n].prefix) - 1, ns[n].cont)
           G1 == WithNode(L, copy, C)
           G == WithNode(G1, upper, U)
           N == {upper, copy}
<1>1. Split(ns, n, parent, e, upper, copy) = G
  BY DEF Split, Relinked, PrefixLeft, UpperCont
<1>2. DOMAIN L = DOMAIN ns
  BY DEF Relinked
<1> HIDE DEF L, U, C
<1>3. DOMAIN G1 = DOMAIN ns \cup {copy} /\ (\A k \in DOMAIN ns : G1[k] = L[k]) /\ G1[copy] = C
  BY <1>2 DEF WithNode
<1> HIDE DEF G1
<1>4. DOMAIN G = DOMAIN ns \cup N /\ (\A k \in DOMAIN ns : G[k] = L[k]) /\ G[upper] = U /\ G[copy] = C
  BY <1>3 DEF WithNode
<1>5. upper \in N /\ copy \in N /\ N \cap DOMAIN ns = {}
  OBVIOUS
<1> HIDE DEF G, N
<1>6. pa \in HCAddresses
  OBVIOUS
<1> HIDE DEF pa
<1>7. /\ Replacement(ns, Retired(G, n, parent), n, parent, pa, upper, N, slots)
      /\ \A k \in N : Retired(G, n, parent)[k] = G[k]
  BY <1>4, <1>5, <1>6, RetiredReplaces DEF L
<1> QED BY <1>1, <1>4, <1>5, <1>7 DEF Resplit, N, U, C, pa

(* Splitting the prefix of a subnode where the entry leaves it             *)
(* (splitSubnodePrefix) leaves the tree sound.                             *)
LEMMA ResplitSound ==
  ASSUME NEW ns, NEW slots, Sound(ns, slots), NEW parent \in LiveNodes(ns), NEW e \in Entries,
         On(parent, Key[e]), NEW n, Linked(ns, parent, AddressIn(e, parent), n),
         SharedPrefix(e, n, ns[n].prefix) < ns[n].prefix,
         NEW upper \in NodeIds, upper \notin DOMAIN ns, Path(upper) = SplitPath(ns, n, e),
         NEW copy \in NodeIds, copy \notin DOMAIN ns, Path(copy) = Path(n)
  PROVE  Sound(Resplit(ns, n, parent, e, upper, copy), slots)
<1> DEFINE R == Resplit(ns, n, parent, e, upper, copy)
           pa == AddressIn(e, parent)
           shared == SharedPrefix(e, n, ns[n].prefix)
           left == ns[n].prefix - shared - 1
           uc == UpperCont(n, e, upper, copy)
           U == BuildNode(shared, uc)
           C == BuildNode(left, ns[n].cont)
           N == {upper, copy}
           ka == Key[e][Len(Path(upper)) + 1]
           na == Path(n)[Len(Path(upper)) + 1]
<1>1. /\ NodesTyped(ns, slots) /\ Tree(ns) /\ Room(ns) /\ Spread(ns) /\ Placed(ns) /\ IdsTyped(ns)
  BY DEF Sound, NodesTyped
<1>2. pa \in HCAddresses
  <2>1. parent \in NodeIds /\ Len(Path(parent)) < WIDTH
    BY <1>1 DEF NodesTyped, IdsTyped, LiveNodes
  <2> QED BY <2>1, KeyType, PathType DEF AddressIn
<1>3. /\ shared \in Nat /\ shared < ns[n].prefix
      /\ Path(upper) \in Seq(HCAddresses) /\ Len(Path(upper)) = Len(Path(parent)) + 1 + shared
      /\ IsPrefix(Path(upper), Path(n)) /\ IsPrefix(Path(upper), Key[e])
      /\ ka # na
  <2> DEFINE split == SplitPath(ns, n, e)
  <2>1. LET shared0 == SharedPrefix(e, n, ns[n].prefix)
            split0 == SplitPath(ns, n, e)
        IN  /\ shared0 \in Nat /\ shared0 <= ns[n].prefix
            /\ shared0 = ns[n].prefix => On(n, Key[e])
            /\ split0 \in Seq(HCAddresses) /\ Len(split0) = Len(Path(parent)) + 1 + shared0
            /\ IsPrefix(split0, Path(n)) /\ IsPrefix(split0, Key[e])
            /\ shared0 < ns[n].prefix => Key[e][Len(split0) + 1] # Path(n)[Len(split0) + 1]
    <3>1. NodesTyped(ns, slots) /\ Tree(ns) /\ On(parent, Key[e]) /\ Linked(ns, parent, AddressIn(e, parent), n)
      BY <1>1
    <3> QED BY <3>1, WalkOn
  <2>2. /\ shared \in Nat
        /\ split \in Seq(HCAddresses) /\ Len(split) = Len(Path(parent)) + 1 + shared
        /\ IsPrefix(split, Path(n)) /\ IsPrefix(split, Key[e])
        /\ Key[e][Len(split) + 1] # Path(n)[Len(split) + 1]
    BY <2>1
  <2>3. Path(upper) = split
    OBVIOUS
  <2> HIDE DEF split
  <2> QED BY <2>2, <2>3
<1>4. /\ n \in LiveNodes(ns) /\ n # parent /\ ~AtTop(n)
      /\ Len(Path(n)) = Len(Path(parent)) + 1 + ns[n].prefix
      /\ Len(Path(parent)) \in Nat /\ Len(Path(n)) \in Nat /\ ns[n].prefix \in Nat
      /\ Path(n) \in Seq(HCAddresses)
  BY <1>1, <1>2, LinkedFacts
<1>5. n \in DOMAIN ns /\ parent \in DOMAIN ns
  BY <1>4 DEF LiveNodes
<1>6. /\ Len(Path(upper)) < Len(Path(n)) /\ Len(Path(upper)) \in Nat /\ left \in Nat
      /\ Len(Path(n)) = Len(Path(upper)) + 1 + left
  <2> DEFINE px == ns[n].prefix
             lu == Len(Path(upper))
             lp == Len(Path(parent))
             ln == Len(Path(n))
  <2>1. shared \in Nat /\ shared < px /\ lu = lp + 1 + shared
    BY <1>3
  <2>2. px \in Nat /\ lp \in Nat /\ ln = lp + 1 + px
    BY <1>4
  <2>3. left = px - shared - 1
    OBVIOUS
  <2> HIDE DEF px, lu, lp, ln, shared, left
  <2>4. lu < ln /\ lu \in Nat /\ left \in Nat /\ ln = lu + 1 + left
    BY <2>1, <2>2, <2>3
  <2> QED BY <2>4 DEF lu, ln
<1>7. upper # copy
  BY <1>6
<1>8. Len(Path(n)) < WIDTH /\ WIDTH \in Nat /\ Key[e] \in Seq(HCAddresses) /\ Len(Key[e]) = WIDTH
  BY <1>1, <1>5, KeyType DEF NodesTyped
<1>9. ka \in HCAddresses /\ na \in HCAddresses
  BY <1>4, <1>6, <1>8
<1>10. Replacement(ns, R, n, parent, pa, upper, N, slots) /\ R[upper] = U /\ R[copy] = C
  <2> HIDE DEF pa
  <2>1. AddressIn(e, parent) \in HCAddresses
    BY <1>2 DEF pa
  <2> QED BY <1>1, <1>4, <1>5, <1>7, <2>1, ResplitReplaces DEF pa
<1>11. \A a \in HCAddresses : uc[a] = IF a = ka THEN Suffix(e) ELSE IF a = na THEN Sub(copy) ELSE Empty
  BY DEF UpperCont
<1>12. DOMAIN uc = HCAddresses
  BY DEF UpperCont
<1> HIDE DEF R, ka, na, pa, left
<1>13. DOMAIN R = DOMAIN ns \cup N
  BY <1>10 DEF Replacement
<1>14. uc \in [HCAddresses -> Holds(DOMAIN R, slots)]
  <2>1. \A a \in HCAddresses : (IF a = ka THEN Suffix(e) ELSE IF a = na THEN Sub(copy) ELSE Empty)
                                \in Holds(DOMAIN R, slots)
    BY <1>13 DEF Holds
  <2> DEFINE V(a) == IF a = ka THEN Suffix(e) ELSE IF a = na THEN Sub(copy) ELSE Empty
             H == Holds(DOMAIN R, slots)
  <2>2. \A a \in HCAddresses : V(a) \in H
    BY <2>1
  <2>3. uc = [a \in HCAddresses |-> V(a)]
    BY DEF UpperCont, ka, na
  <2> HIDE DEF V, H, uc
  <2>4. uc \in [HCAddresses -> H]
    BY <2>2, <2>3
  <2> QED BY <2>4 DEF H
<1>15. ns[n].cont \in [HCAddresses -> Holds(DOMAIN R, slots)]
  <2>1. R[n] \in NodeFields(n, DOMAIN R, slots) /\ ns[n] \in NodeFields(n, DOMAIN ns, slots)
    BY <1>1, <1>5, <1>10 DEF Replacement, NodesTyped
  <2>2. NodeFields(n, DOMAIN ns, slots) \subseteq NodeFields(n, DOMAIN R, slots)
    BY <1>13, FieldsGrow
  <2>3. ns[n] \in NodeFields(n, DOMAIN R, slots)
    BY <2>1, <2>2
  <2> QED BY <2>3 DEF NodeFields
<1> HIDE DEF shared, uc, U, C, N
<1>16. /\ NContents(U) <= U.max /\ U.prefix = shared /\ U.cont = uc /\ ~U.removed
  BY <1>12, BuiltRoom DEF U
<1>17. /\ NContents(C) <= C.max /\ C.prefix = left /\ C.cont = ns[n].cont /\ ~C.removed
  <2>1. DOMAIN ns[n].cont = HCAddresses
    BY <1>15
  <2> DEFINE cc == ns[n].cont
             y == BuildNode(left, cc)
  <2>4. DOMAIN cc = HCAddresses
    BY <2>1
  <2> HIDE DEF cc
  <2>2. NContents(y) <= y.max /\ y.prefix = left /\ y.cont = cc /\ y.removed = FALSE
    <3>1. NContents(y) <= y.max
      BY <2>4, BuiltRoom, Zenon
    <3>2. y.prefix = left /\ y.cont = cc /\ y.removed = FALSE
      BY DEF BuildNode
    <3> QED BY <3>1, <3>2, Zenon
  <2>3. C = y
    BY DEF C, cc
  <2> QED BY <2>2, <2>3 DEF cc
<1>18. U \in NodeFields(upper, DOMAIN R, slots)
  <2>1. shared \in 0 .. Len(Path(upper))
    BY <1>3, <1>4, <1>6
  <2> QED BY <1>14, <2>1, BuiltTyped DEF U
<1>19. C \in NodeFields(copy, DOMAIN R, slots)
  <2>1. left \in 0 .. Len(Path(copy))
    BY <1>4, <1>6
  <2> QED BY <1>15, <2>1, BuiltTyped DEF C
<1>20. TwoContents(U)
  <2>1. uc[ka] # Empty /\ uc[na] # Empty
    BY <1>3, <1>9, <1>11, SubNotEmpty
  <2> QED BY <1>3, <1>9, <1>16, <2>1 DEF TwoContents, ka, na
<1>21. TwoContents(C)
  <2>1. TwoContents(ns[n])
    BY <1>1, <1>4, <1>5 DEF Spread
  <2> QED BY <1>17, <2>1 DEF TwoContents
<1>22. \A b \in HCAddresses : \A f : U.cont[b] = Suffix(f) => Leads(upper, b, Key[f])
  <2> SUFFICES ASSUME NEW b \in HCAddresses, NEW f, uc[b] = Suffix(f) PROVE Leads(upper, b, Key[f])
    BY <1>16
  <2>1. b = ka /\ Suffix(e) = Suffix(f)
    BY <1>11, SubNotEmpty
  <2>2. f = e
    BY <2>1, Kinds
  <2> QED BY <1>3, <1>6, <1>8, <2>1, <2>2 DEF Leads, Way, ka
<1>23. \A b \in HCAddresses : \A f : C.cont[b] = Suffix(f) => Leads(copy, b, Key[f])
  BY <1>1, <1>4, <1>17 DEF Placed, Leads
<1>24. Len(Path(upper)) < WIDTH /\ Len(Path(copy)) < WIDTH
  BY <1>4, <1>6, <1>8
<1>25. LiveNodes(R) = (LiveNodes(ns) \ {n}) \cup {upper, copy}
  BY <1>4, <1>5, <1>10, <1>13, <1>16, <1>17 DEF Replacement, LiveNodes, N
<1>26. \A b \in HCAddresses : \A m : Linked(R, copy, b, m) <=> Linked(ns, n, b, m)
  BY <1>10, <1>17 DEF Linked
<1>27. \A b \in HCAddresses : \A m :
           Linked(R, upper, b, m) <=> b = Path(n)[Len(Path(upper)) + 1] /\ m = copy
  <2> SUFFICES ASSUME NEW b \in HCAddresses, NEW m
               PROVE  uc[b] = Sub(m) <=> b = na /\ m = copy
    BY <1>10, <1>16 DEF Linked, na
  <2>1. Sub(copy) = Sub(m) => m = copy
    BY Kinds
  <2> QED BY <1>3, <1>11, <2>1, SubNotEmpty
<1>28. \A k \in LiveNodes(ns) \ {n} :
           /\ R[k].prefix = ns[k].prefix
           /\ \A b \in HCAddresses : \A m :
                Linked(R, k, b, m) <=> IF k = parent /\ b = pa THEN m = upper ELSE Linked(ns, k, b, m)
  <2> SUFFICES ASSUME NEW k \in LiveNodes(ns) \ {n}
               PROVE  /\ R[k].prefix = ns[k].prefix
                      /\ \A b \in HCAddresses : \A m :
                           Linked(R, k, b, m) <=> IF k = parent /\ b = pa THEN m = upper ELSE Linked(ns, k, b, m)
    OBVIOUS
  <2>1. k \in DOMAIN ns
    BY DEF LiveNodes
  <2>2. \A i, j : Sub(i) = Sub(j) => i = j
    BY Kinds
  <2> QED BY <1>10, <2>1, <2>2 DEF Replacement, Linked
<1>29. Linked(ns, parent, pa, n)
  BY DEF pa
<1>30. R[upper].prefix \in Nat /\ R[copy].prefix \in Nat
       /\ Len(Path(upper)) = Len(Path(parent)) + 1 + R[upper].prefix
       /\ Len(Path(n)) = Len(Path(upper)) + 1 + R[copy].prefix
  BY <1>3, <1>6, <1>10, <1>16, <1>17
<1>31. Tree(R)
  <2>1. SplitUp(ns, R, n, parent, pa, upper, copy)
    BY <1>25, <1>26, <1>27, <1>28, <1>30 DEF SplitUp
  <2>2. IdsTyped(ns) /\ Tree(ns) /\ IsPrefix(Path(upper), Path(n))
    BY <1>1, <1>3
  <2> QED BY <1>2, <1>29, <2>1, <2>2, SplitTree
<1>32. \A k \in N : /\ Len(Path(k)) < WIDTH /\ R[k] \in NodeFields(k, DOMAIN R, slots)
                    /\ NContents(R[k]) <= R[k].max /\ TwoContents(R[k])
                    /\ \A b \in HCAddresses : \A f : R[k].cont[b] = Suffix(f) => Leads(k, b, Key[f])
  BY <1>10, <1>16, <1>17, <1>18, <1>19, <1>20, <1>21, <1>22, <1>23, <1>24 DEF N
<1>33. N \in SUBSET NodeIds /\ upper \in N
  BY DEF N
<1>34. IsFiniteSet(N)
  <2>1. IsFiniteSet({upper}) /\ IsFiniteSet({copy})
    BY FS_Singleton
  <2>2. N = {upper} \cup {copy}
    BY DEF N
  <2> QED BY <2>1, <2>2, FS_Union
<1>35. Sound(R, slots)
  BY <1>2, <1>4, <1>10, <1>29, <1>31, <1>32, <1>33, <1>34, ReplacementSound
<1> QED BY <1>35 DEF R

-----------------------------------------------------------------------------
(* The entries of the nodes after a change *)
(* A suffix in a free place adds its entry. *)
LEMMA SuffixAdded ==
  ASSUME NEW ns, NEW slots, NodesTyped(ns, slots), NEW n \in LiveNodes(ns), NEW a \in HCAddresses,
         NEW e, ns[n].cont[a] = Empty, NodesTyped(Put(ns, n, a, Suffix(e)), slots)
  PROVE  SuffixEntries(Put(ns, n, a, Suffix(e))) = SuffixEntries(ns) \cup {e}
<1> DEFINE c == Suffix(e)
           R == Put(ns, n, a, c)
<1>1. n \in DOMAIN ns
  BY DEF LiveNodes
<1>2. /\ DOMAIN R = DOMAIN ns
      /\ \A k \in DOMAIN ns : k # n => R[k] = ns[k]
      /\ R[n].removed = ns[n].removed
      /\ \A b \in HCAddresses : b # a => R[n].cont[b] = ns[n].cont[b]
      /\ R[n].cont[a] = c
  BY <1>1, PutIs
<1> HIDE DEF R
<1>3. LiveNodes(R) = LiveNodes(ns)
  BY <1>1, <1>2 DEF LiveNodes
<1>4. ASSUME NEW f PROVE f \in SuffixEntries(R) <=> f \in SuffixEntries(ns) \/ f = e
  <2>1. f \in SuffixEntries(R) <=> \E k \in LiveNodes(R), b \in HCAddresses : R[k].cont[b] = Suffix(f)
    BY SuffixEntriesAre DEF R
  <2>2. f \in SuffixEntries(ns) <=> \E k \in LiveNodes(ns), b \in HCAddresses : ns[k].cont[b] = Suffix(f)
    BY SuffixEntriesAre
  <2>3. ASSUME NEW k \in LiveNodes(ns), NEW b \in HCAddresses, ns[k].cont[b] = Suffix(f)
        PROVE  R[k].cont[b] = Suffix(f)
    <3>1. ~(k = n /\ b = a)
      BY <2>3, SubNotEmpty
    <3> QED BY <1>2, <2>3, <3>1 DEF LiveNodes
  <2>4. ASSUME NEW k \in LiveNodes(ns), NEW b \in HCAddresses, R[k].cont[b] = Suffix(f)
        PROVE  ns[k].cont[b] = Suffix(f) \/ f = e
    <3>1. CASE k = n /\ b = a
      BY <1>2, <2>4, <3>1, Kinds
    <3>2. CASE ~(k = n /\ b = a)
      BY <1>2, <2>4, <3>2 DEF LiveNodes
    <3> QED BY <3>1, <3>2
  <2>5. R[n].cont[a] = Suffix(e)
    BY <1>2
  <2> QED BY <1>3, <2>1, <2>2, <2>3, <2>4, <2>5
<1> QED BY <1>4 DEF R

(* A suffix makes room for a buffer: its entry leaves the nodes.           *)
LEMMA SuffixMoved ==
  ASSUME NEW ns, NEW slots, NodesTyped(ns, slots), NEW n \in LiveNodes(ns), NEW a \in HCAddresses,
         NEW f, ns[n].cont[a] = Suffix(f), NEW s, NodesTyped(Put(ns, n, a, Buf(s)), slots)
  PROVE  SuffixEntries(Put(ns, n, a, Buf(s))) \cup {f} = SuffixEntries(ns)
<1> DEFINE c == Buf(s)
           R == Put(ns, n, a, c)
<1>1. n \in DOMAIN ns
  BY DEF LiveNodes
<1>2. /\ DOMAIN R = DOMAIN ns
      /\ \A k \in DOMAIN ns : k # n => R[k] = ns[k]
      /\ R[n].removed = ns[n].removed
      /\ \A b \in HCAddresses : b # a => R[n].cont[b] = ns[n].cont[b]
      /\ R[n].cont[a] = c
  BY <1>1, PutIs
<1> HIDE DEF R
<1>3. LiveNodes(R) = LiveNodes(ns)
  BY <1>1, <1>2 DEF LiveNodes
<1>4. ASSUME NEW g PROVE g \in SuffixEntries(R) \cup {f} <=> g \in SuffixEntries(ns)
  <2>1. g \in SuffixEntries(R) <=> \E k \in LiveNodes(R), b \in HCAddresses : R[k].cont[b] = Suffix(g)
    BY SuffixEntriesAre DEF R
  <2>2. g \in SuffixEntries(ns) <=> \E k \in LiveNodes(ns), b \in HCAddresses : ns[k].cont[b] = Suffix(g)
    BY SuffixEntriesAre
  <2>3. ASSUME NEW k \in LiveNodes(ns), NEW b \in HCAddresses, R[k].cont[b] = Suffix(g)
        PROVE  ns[k].cont[b] = Suffix(g)
    <3>1. ~(k = n /\ b = a)
      BY <1>2, <2>3, SubNotEmpty
    <3> QED BY <1>2, <2>3, <3>1 DEF LiveNodes
  <2>4. ASSUME NEW k \in LiveNodes(ns), NEW b \in HCAddresses, ns[k].cont[b] = Suffix(g)
        PROVE  R[k].cont[b] = Suffix(g) \/ g = f
    <3>1. CASE k = n /\ b = a
      BY <2>4, <3>1, Kinds
    <3>2. CASE ~(k = n /\ b = a)
      BY <1>2, <2>4, <3>2 DEF LiveNodes
    <3> QED BY <3>1, <3>2
  <2> QED BY <1>3, <2>1, <2>2, <2>3, <2>4
<1> QED BY <1>4 DEF R

(* Nodes with the same contents hold the same entries.                     *)
LEMMA SameEntries ==
  ASSUME NEW ns, NEW slots, NodesTyped(ns, slots), NEW ns2, NodesTyped(ns2, slots),
         LiveNodes(ns2) = LiveNodes(ns), \A k \in LiveNodes(ns) : ns2[k].cont = ns[k].cont
  PROVE  SuffixEntries(ns2) = SuffixEntries(ns)
<1>1. ASSUME NEW f PROVE f \in SuffixEntries(ns2) <=> f \in SuffixEntries(ns)
  <2>1. f \in SuffixEntries(ns2) <=> \E k \in LiveNodes(ns2), b \in HCAddresses : ns2[k].cont[b] = Suffix(f)
    BY SuffixEntriesAre
  <2>2. f \in SuffixEntries(ns) <=> \E k \in LiveNodes(ns), b \in HCAddresses : ns[k].cont[b] = Suffix(f)
    BY SuffixEntriesAre
  <2> QED BY <2>1, <2>2
<1> QED BY <1>1

(* The nodes N have the entries of node n and entry e besides. *)
Takeover(ns, R, n, N, e) ==
  \A f : (\E k \in N, b \in HCAddresses : R[k].cont[b] = Suffix(f))
           <=> f = e \/ \E b \in HCAddresses : ns[n].cont[b] = Suffix(f)

(* The nodes that replace a node hold its entries and another.             *)
LEMMA ReplacementEntries ==
  ASSUME NEW ns, NEW slots, NodesTyped(ns, slots), NEW n \in LiveNodes(ns), NEW parent \in LiveNodes(ns),
         n # parent, NEW pa \in HCAddresses, Linked(ns, parent, pa, n), NEW m, NEW N,
         N \cap DOMAIN ns = {}, NEW R, NodesTyped(R, slots),
         Replacement(ns, R, n, parent, pa, m, N, slots), \A k \in N : ~R[k].removed, NEW e,
         Takeover(ns, R, n, N, e)
  PROVE  SuffixEntries(R) = SuffixEntries(ns) \cup {e}
<1>1. /\ DOMAIN R = DOMAIN ns \cup N
      /\ \A k \in DOMAIN ns : R[k].removed <=> (ns[k].removed \/ k = n)
      /\ \A k \in DOMAIN ns, b \in HCAddresses :
           R[k].cont[b] = IF k = parent /\ b = pa THEN Sub(m) ELSE ns[k].cont[b]
  BY DEF Replacement
<1>2. LiveNodes(R) = (LiveNodes(ns) \ {n}) \cup N
  BY <1>1 DEF LiveNodes
<1>3. ASSUME NEW k \in LiveNodes(ns), NEW b \in HCAddresses, NEW f
      PROVE  R[k].cont[b] = Suffix(f) <=> ns[k].cont[b] = Suffix(f)
  <2>1. CASE k = parent /\ b = pa
    <3>1. R[k].cont[b] = Sub(m) /\ ns[k].cont[b] = Sub(n)
      BY <1>1, <2>1 DEF Linked, LiveNodes
    <3> QED BY <3>1, SubNotEmpty
  <2>2. CASE ~(k = parent /\ b = pa)
    BY <1>1, <2>2 DEF LiveNodes
  <2> QED BY <2>1, <2>2
<1>4. ASSUME NEW f PROVE f \in SuffixEntries(R) <=> f \in SuffixEntries(ns) \/ f = e
  <2>1. f \in SuffixEntries(R) <=> \E k \in LiveNodes(R), b \in HCAddresses : R[k].cont[b] = Suffix(f)
    BY SuffixEntriesAre
  <2>2. f \in SuffixEntries(ns) <=> \E k \in LiveNodes(ns), b \in HCAddresses : ns[k].cont[b] = Suffix(f)
    BY SuffixEntriesAre
  <2>3. (\E k \in N, b \in HCAddresses : R[k].cont[b] = Suffix(f))
           <=> f = e \/ \E b \in HCAddresses : ns[n].cont[b] = Suffix(f)
    BY DEF Takeover
  <2> QED BY <1>2, <1>3, <2>1, <2>2, <2>3
<1> QED BY <1>4

(* A copy into a larger node adds just the new entry.                      *)
LEMMA CopiedEntries ==
  ASSUME NEW ns, NEW slots, Sound(ns, slots), NEW parent \in LiveNodes(ns), NEW pa \in HCAddresses,
         NEW n, Linked(ns, parent, pa, n), NEW a \in HCAddresses, NEW e \in Entries,
         ns[n].cont[a] = Empty, IsFull(ns[n]), NEW new, new \notin DOMAIN ns,
         Sound(Copied(ns, n, parent, pa, new, a, e), slots)
  PROVE  SuffixEntries(Copied(ns, n, parent, pa, new, a, e)) = SuffixEntries(ns) \cup {e}
<1> DEFINE R == Copied(ns, n, parent, pa, new, a, e)
           N == {new}
<1>1. NodesTyped(ns, slots) /\ Tree(ns) /\ NodesTyped(R, slots)
  BY DEF Sound
<1>2. n \in LiveNodes(ns) /\ n # parent /\ n \in DOMAIN ns /\ parent \in DOMAIN ns
  BY <1>1, LinkedFacts DEF LiveNodes
<1>3. Replacement(ns, R, n, parent, pa, new, N, slots) /\ R[new] = LargerCopy(ns[n], a, e)
  BY <1>1, <1>2, CopiedReplaces
<1>4. /\ ~LargerCopy(ns[n], a, e).removed
      /\ \A b \in HCAddresses : LargerCopy(ns[n], a, e).cont[b]
                                     = IF b = a THEN Suffix(e) ELSE ns[n].cont[b]
  BY <1>1, <1>2, LargerCopyIs
<1> HIDE DEF R
<1>5. ASSUME NEW f
      PROVE  (\E b \in HCAddresses : R[new].cont[b] = Suffix(f))
                  <=> f = e \/ \E b \in HCAddresses : ns[n].cont[b] = Suffix(f)
  <2>1. \A b \in HCAddresses : b # a => R[new].cont[b] = ns[n].cont[b]
    BY <1>3, <1>4
  <2>2. R[new].cont[a] = Suffix(e)
    BY <1>3, <1>4
  <2>3. \A g : Suffix(g) = Suffix(e) <=> g = e
    BY Kinds
  <2>4. \A g : ns[n].cont[a] # Suffix(g)
    BY SubNotEmpty
  <2> QED BY <2>1, <2>2, <2>3, <2>4
<1>6. Takeover(ns, R, n, N, e)
  BY <1>5 DEF Takeover
<1>7. N \cap DOMAIN ns = {} /\ \A k \in N : ~R[k].removed
  BY <1>3, <1>4
<1> HIDE DEF N
<1>8. SuffixEntries(R) = SuffixEntries(ns) \cup {e}
  BY <1>1, <1>2, <1>3, <1>6, <1>7, ReplacementEntries
<1> QED BY <1>8 DEF R

(* A prefix split adds just the new entry.                                 *)
LEMMA ResplitEntries ==
  ASSUME NEW ns, NEW slots, Sound(ns, slots), NEW parent \in LiveNodes(ns), NEW e \in Entries,
         AddressIn(e, parent) \in HCAddresses, NEW n, Linked(ns, parent, AddressIn(e, parent), n),
         NEW upper, upper \notin DOMAIN ns, Key[e][Len(Path(upper)) + 1] \in HCAddresses,
         NEW copy, copy \notin DOMAIN ns, upper # copy,
         Sound(Resplit(ns, n, parent, e, upper, copy), slots)
  PROVE  SuffixEntries(Resplit(ns, n, parent, e, upper, copy)) = SuffixEntries(ns) \cup {e}
<1> DEFINE R == Resplit(ns, n, parent, e, upper, copy)
           N == {upper, copy}
           pa == AddressIn(e, parent)
<1>1. NodesTyped(ns, slots) /\ Tree(ns) /\ NodesTyped(R, slots)
  BY DEF Sound
<1>2. n \in LiveNodes(ns) /\ n # parent /\ n \in DOMAIN ns /\ parent \in DOMAIN ns
  BY <1>1, LinkedFacts DEF LiveNodes
<1>3. /\ Replacement(ns, R, n, parent, pa, upper, N, slots)
      /\ R[upper] = BuildNode(SharedPrefix(e, n, ns[n].prefix), UpperCont(n, e, upper, copy))
      /\ R[copy] = BuildNode(ns[n].prefix - SharedPrefix(e, n, ns[n].prefix) - 1, ns[n].cont)
  BY <1>1, <1>2, ResplitReplaces
<1> HIDE DEF R
<1>4. /\ ~R[upper].removed /\ ~R[copy].removed
      /\ R[upper].cont = UpperCont(n, e, upper, copy) /\ R[copy].cont = ns[n].cont
  BY <1>3 DEF BuildNode
<1>5. ASSUME NEW f
      PROVE  (\E b \in HCAddresses : R[upper].cont[b] = Suffix(f)) <=> f = e
  <2>1. R[upper].cont[Key[e][Len(Path(upper)) + 1]] = Suffix(e)
    BY <1>4 DEF UpperCont
  <2>2. \A b \in HCAddresses : R[upper].cont[b] \in {Suffix(e), Sub(copy), Empty}
    BY <1>4 DEF UpperCont
  <2>3. Suffix(f) = Suffix(e) <=> f = e
    BY Kinds
  <2> QED BY <2>1, <2>2, <2>3, SubNotEmpty
<1>6. Takeover(ns, R, n, N, e)
  <2> SUFFICES ASSUME NEW f
               PROVE  (\E k \in N, b \in HCAddresses : R[k].cont[b] = Suffix(f))
                  <=> f = e \/ \E b \in HCAddresses : ns[n].cont[b] = Suffix(f)
    BY DEF Takeover
  <2>1. (\E k \in N, b \in HCAddresses : R[k].cont[b] = Suffix(f))
          <=> \/ \E b \in HCAddresses : R[upper].cont[b] = Suffix(f)
              \/ \E b \in HCAddresses : R[copy].cont[b] = Suffix(f)
    OBVIOUS
  <2> QED BY <1>4, <1>5, <2>1
<1>7. N \cap DOMAIN ns = {} /\ \A k \in N : ~R[k].removed
  BY <1>4
<1> HIDE DEF N, pa
<1>8. pa \in HCAddresses /\ Linked(ns, parent, pa, n)
  BY DEF pa
<1>9. SuffixEntries(R) = SuffixEntries(ns) \cup {e}
  BY <1>1, <1>2, <1>3, <1>6, <1>7, <1>8, ReplacementEntries
<1> QED BY <1>9 DEF R

-----------------------------------------------------------------------------
(* What the properties say of a tree that is Sound *)

(* A key that leads through an address of a node starts with its path and  *)
(* the address.                                                            *)
LEMMA LeadsPrefix ==
  ASSUME NEW n \in NodeIds, NEW a \in HCAddresses, NEW k \in Seq(HCAddresses), Leads(n, a, k)
  PROVE  IsPrefix(Append(Path(n), a), k)
<1>1. Path(n) \in Seq(HCAddresses)
  BY PathType
<1> QED BY <1>1, PrefixAppend DEF Leads, Way

(* The kind of a content tells which of the four it is.                    *)
LEMMA KindIs ==
  ASSUME NEW ns, NEW slots, NodesTyped(ns, slots), NEW n \in DOMAIN ns, NEW a \in HCAddresses
  PROVE  /\ ns[n].cont[a].kind = "subnode" => Linked(ns, n, a, ns[n].cont[a].node)
         /\ ns[n].cont[a].kind = "suffix" =>
              ns[n].cont[a] = Suffix(ns[n].cont[a].entry) /\ ns[n].cont[a].entry \in Entries
<1> DEFINE c == ns[n].cont[a]
           ids == DOMAIN ns
<1>1. c \in Holds(ids, slots)
  <2>1. ns[n] \in NodeFields(n, ids, slots)
    BY DEF NodesTyped
  <2> QED BY <2>1 DEF NodeFields
<1> HIDE DEF c, ids
<1>2. \/ c = Empty
      \/ \E e \in Entries : c = Suffix(e)
      \/ \E m \in ids : c = Sub(m)
      \/ \E s \in slots : c = Buf(s)
  BY <1>1 DEF Holds
<1>3. /\ c.kind = "subnode" => c = Sub(c.node)
      /\ c.kind = "suffix" => c = Suffix(c.entry) /\ c.entry \in Entries
  BY <1>2, Kinds
<1> QED BY <1>3 DEF c, Linked

(* Two taken places are two contents.                                      *)
LEMMA TwoCounted ==
  ASSUME NEW node, TwoContents(node)
  PROVE  NContents(node) >= 2
<1> DEFINE S == {a \in HCAddresses : node.cont[a] # Empty}
<1>1. PICK a \in S, b \in S : a # b
  BY DEF TwoContents
<1>2. IsFiniteSet(S) /\ Cardinality(S) \in Nat
  BY CountBound
<1> HIDE DEF S
<1>3. IsFiniteSet(S \ {a}) /\ Cardinality(S \ {a}) = Cardinality(S) - 1
  BY <1>1, <1>2, FS_RemoveElement
<1>4. b \in S \ {a} /\ Cardinality(S \ {a}) # 0
  BY <1>1, <1>3, FS_EmptySet
<1>5. Cardinality(S) >= 2
  <2>1. Cardinality(S \ {a}) \in Nat
    BY <1>3, FS_CardinalityType
  <2> QED BY <1>2, <1>3, <1>4, <2>1
<1> QED BY <1>5 DEF NContents, S

(* One node is at the top. *)
LEMMA OneTop ==
  ASSUME NEW ns, IdsTyped(ns), Tree(ns), NEW r \in LiveNodes(ns), AtTop(r)
  PROVE  /\ Path(r) = <<>> /\ ns[r].prefix = 0
         /\ \A k \in LiveNodes(ns) : k # r => ~AtTop(k)
<1>1. \A k \in LiveNodes(ns) : AtTop(k) => Path(k) = <<>>
  <2> TAKE k \in LiveNodes(ns)
  <2>1. Path(k) \in Seq(HCAddresses)
    BY PathType DEF IdsTyped, LiveNodes
  <2> QED BY <2>1, EmptySeq DEF AtTop
<1>2. ASSUME NEW k \in LiveNodes(ns), k # r PROVE ~AtTop(k)
  <2> SUFFICES ASSUME AtTop(k) PROVE FALSE
    OBVIOUS
  <2> DEFINE z == Path(k)
  <2>1. z \in Seq(HCAddresses) /\ Path(r) = z
    BY <1>1, PathType DEF IdsTyped, LiveNodes
  <2> HIDE DEF z
  <2>2. IsPrefix(z, z)
    BY <2>1, PrefixIff
  <2>3. On(r, Path(k))
    BY <2>1, <2>2 DEF On, z
  <2>4. Len(Path(r)) < Len(Path(k))
    BY <1>2, <2>3 DEF Tree, NoShortcut
  <2> QED BY <2>4 DEF AtTop
<1>3. PICK t \in LiveNodes(ns) : AtTop(t) /\ ns[t].prefix = 0
  BY DEF Tree, RootTop
<1> QED BY <1>1, <1>2, <1>3

(* The nodes of a sound tree form one tree under the root.                 *)
LEMMA SoundTree ==
  ASSUME NEW ns, NEW slots, Sound(ns, slots), NEW root \in LiveNodes(ns), AtTop(root)
  PROVE  IsTree(ns, root)
<1>1. NodesTyped(ns, slots) /\ Tree(ns) /\ Spread(ns) /\ IdsTyped(ns)
  BY DEF Sound, NodesTyped
<1>2. /\ ns[root].prefix = 0 /\ Path(root) = <<>>
      /\ \A k \in LiveNodes(ns) : k # root => ~AtTop(k)
  BY <1>1, OneTop
<1>3. ASSUME NEW n \in LiveNodes(ns), NEW a \in HCAddresses, NEW m, Linked(ns, n, a, m)
      PROVE  /\ m \in LiveNodes(ns) /\ m # root
             /\ IsPrefix(Append(Path(n), a), Path(m))
             /\ Len(Path(m)) = Len(Path(n)) + 1 + ns[m].prefix
  BY <1>1, <1>3, LinkedFacts, LeadsPrefix
<1>4. Parents(ns, root) = {}
  <2> SUFFICES ASSUME NEW n \in LiveNodes(ns), NEW a \in HCAddresses, ns[n].cont[a] = Sub(root)
               PROVE  FALSE
    BY DEF Parents
  <2> QED BY <1>3 DEF Linked
<1>5. ASSUME NEW n \in LiveNodes(ns), NEW a \in HCAddresses, ns[n].cont[a].kind = "subnode"
      PROVE  LET m == ns[n].cont[a].node IN
               /\ m \in LiveNodes(ns)
               /\ IsPrefix(Append(Path(n), a), Path(m))
               /\ Len(Path(m)) = Len(Path(n)) + 1 + ns[m].prefix
  <2>1. n \in DOMAIN ns
    BY DEF LiveNodes
  <2>2. Linked(ns, n, a, ns[n].cont[a].node)
    BY <1>1, <1>5, <2>1, KindIs
  <2> QED BY <1>3, <2>2
<1>6. ASSUME NEW m \in LiveNodes(ns) \ {root}
      PROVE  Cardinality(Parents(ns, m)) = 1 /\ NContents(ns[m]) >= 2
  <2>1. PICK n \in LiveNodes(ns), a \in HCAddresses : Linked(ns, n, a, m)
    BY <1>1, <1>2 DEF Tree, AllLinked
  <2>2. ASSUME NEW k \in LiveNodes(ns), NEW b \in HCAddresses, Linked(ns, k, b, m)
        PROVE  n = k /\ a = b
    BY <1>1, <2>1, <2>2, OneParent
  <2>3. Parents(ns, m) = {<<n, a>>}
    BY <2>1, <2>2 DEF Parents, Linked
  <2>4. Cardinality(Parents(ns, m)) = 1
    BY <2>3, FS_Singleton
  <2>5. NContents(ns[m]) >= 2
    BY <1>1, <1>2, TwoCounted DEF Spread, LiveNodes
  <2> QED BY <2>4, <2>5
<1> QED BY <1>2, <1>4, <1>5, <1>6 DEF IsTree

(* Every suffix lies where a lookup of its key leads.                      *)
LEMMA SoundPlaced ==
  ASSUME NEW ns, NEW slots, Sound(ns, slots),
         NEW n \in LiveNodes(ns), NEW a \in HCAddresses, ns[n].cont[a].kind = "suffix"
  PROVE  IsPrefix(Append(Path(n), a), Key[ns[n].cont[a].entry])
<1>1. NodesTyped(ns, slots) /\ Placed(ns) /\ n \in DOMAIN ns /\ n \in NodeIds
  BY DEF Sound, NodesTyped, IdsTyped, LiveNodes
<1> DEFINE e == ns[n].cont[a].entry
<1>2. ns[n].cont[a] = Suffix(e) /\ e \in Entries
  BY <1>1, KindIs
<1>3. Leads(n, a, Key[e])
  BY <1>1, <1>2 DEF Placed
<1> HIDE DEF e
<1>4. Key[e] \in Seq(HCAddresses)
  BY <1>2, KeyType
<1>5. IsPrefix(Append(Path(n), a), Key[e])
  BY <1>1, <1>3, <1>4, LeadsPrefix
<1> QED BY <1>5 DEF e

-----------------------------------------------------------------------------
(* Without buffers the tree is the one of its entries *)

NoBuffers(ns) == \A n \in LiveNodes(ns), a \in HCAddresses : \A s : ns[n].cont[a] # Buf(s)

(* Entry e is stored below address a of node n. *)
StoredBelow(ns, n, a) == \E e \in SuffixEntries(ns) : Leads(n, a, Key[e])

(* An entry of the nodes has a key and a place.                            *)
LEMMA StoredEntries ==
  ASSUME NEW ns, NEW slots, NodesTyped(ns, slots), NEW e \in SuffixEntries(ns)
  PROVE  /\ e \in Entries /\ Key[e] \in Seq(HCAddresses) /\ Len(Key[e]) = WIDTH
         /\ \E n \in LiveNodes(ns), a \in HCAddresses : ns[n].cont[a] = Suffix(e)
<1>1. PICK n \in LiveNodes(ns), a \in HCAddresses : ns[n].cont[a] = Suffix(e)
  BY SuffixEntriesAre
<1>2. n \in DOMAIN ns
  BY DEF LiveNodes
<1>3. e \in Entries
  BY <1>1, <1>2, KindIs, Kinds
<1> QED BY <1>1, <1>3, KeyType

(* Every content of a node leads to an entry: of the places from which     *)
(* none is reached take a lowest; it would have a subnode with such a      *)
(* place.                                                                  *)
LEMMA LeadsSomewhere ==
  ASSUME NEW ns, NEW slots, Sound(ns, slots), NoBuffers(ns),
         NEW n \in LiveNodes(ns), NEW a \in HCAddresses, ns[n].cont[a] # Empty
  PROVE  StoredBelow(ns, n, a)
<1> DEFINE Bad(k) == \E b \in HCAddresses : ns[k].cont[b] # Empty /\ ~StoredBelow(ns, k, b)
           C == {k \in LiveNodes(ns) : Bad(k)}
           len == [k \in C |-> Len(Path(k))]
<1>1. NodesTyped(ns, slots) /\ Tree(ns) /\ Spread(ns) /\ Placed(ns)
  BY DEF Sound
<1> SUFFICES C = {}
  OBVIOUS
<1> SUFFICES ASSUME C # {} PROVE FALSE
  OBVIOUS
<1>2. \A k \in LiveNodes(ns) : k \in NodeIds /\ Len(Path(k)) \in 0 .. WIDTH /\ k \in DOMAIN ns
  <2> TAKE k \in LiveNodes(ns)
  <2>1. k \in DOMAIN ns /\ k \in NodeIds /\ Len(Path(k)) < WIDTH
    BY <1>1 DEF LiveNodes, NodesTyped, IdsTyped
  <2> QED BY <2>1, PathType, DimAssumption
<1>3. len \in [C -> 0 .. WIDTH]
  BY <1>2
<1>4. PICK k \in C : \A x \in C : len[x] <= len[k]
  <2> HIDE DEF C, len
  <2> QED BY <1>3, LongestExists, DimAssumption
<1>5. \A x \in C : Len(Path(x)) <= Len(Path(k))
  BY <1>4
<1>6. PICK b \in HCAddresses : ns[k].cont[b] # Empty /\ ~StoredBelow(ns, k, b)
  BY <1>4
<1>7. k \in LiveNodes(ns)
  BY <1>4
<1> HIDE DEF C, len
<1>8. ns[k].cont[b] \in Holds(DOMAIN ns, slots)
  <2>1. ns[k] \in NodeFields(k, DOMAIN ns, slots)
    BY <1>1, <1>2, <1>7 DEF NodesTyped
  <2> QED BY <2>1 DEF NodeFields
<1>9. CASE \E e \in Entries : ns[k].cont[b] = Suffix(e)
  <2>1. PICK e \in Entries : ns[k].cont[b] = Suffix(e)
    BY <1>9
  <2>2. e \in SuffixEntries(ns)
    BY <1>1, <1>7, <2>1, SuffixEntriesAre
  <2>3. Leads(k, b, Key[e])
    BY <1>1, <1>7, <2>1 DEF Placed
  <2> QED BY <1>6, <2>2, <2>3 DEF StoredBelow
<1>10. CASE \E m : ns[k].cont[b] = Sub(m)
  <2>1. PICK m : Linked(ns, k, b, m)
    BY <1>10 DEF Linked
  <2>2. /\ m \in LiveNodes(ns) /\ ~AtTop(m) /\ Leads(k, b, Path(m)) /\ m \in NodeIds
        /\ Len(Path(m)) = Len(Path(k)) + 1 + ns[m].prefix
        /\ Len(Path(k)) \in Nat /\ ns[m].prefix \in Nat
        /\ Path(m) \in Seq(HCAddresses) /\ Path(k) \in Seq(HCAddresses)
    BY <1>1, <1>7, <2>1, LinkedFacts
  <2>3. PICK c \in HCAddresses : ns[m].cont[c] # Empty
    BY <1>1, <2>2 DEF Spread, TwoContents, LiveNodes
  <2>4. m \notin C
    <3>1. ~(Len(Path(m)) <= Len(Path(k)))
      BY <2>2
    <3> QED BY <1>5, <3>1
  <2>5. PICK e \in SuffixEntries(ns) : Leads(m, c, Key[e])
    BY <2>2, <2>3, <2>4 DEF C, StoredBelow
  <2>6. Key[e] \in Seq(HCAddresses)
    BY <1>1, StoredEntries
  <2>7. Leads(k, b, Key[e])
    <3> DEFINE K == Key[e]
               p == Path(k)
               q == Path(m)
    <3>1. K \in Seq(HCAddresses) /\ p \in Seq(HCAddresses) /\ q \in Seq(HCAddresses)
          /\ Way(p, b, q) /\ IsPrefix(q, K)
      BY <2>2, <2>5, <2>6 DEF Leads, Way
    <3> HIDE DEF K, p, q
    <3>2. Way(p, b, K)
      BY <3>1, WayThrough
    <3> QED BY <3>2 DEF K, p, Leads
  <2> QED BY <1>6, <2>7 DEF StoredBelow
<1>11. \A s \in slots : ns[k].cont[b] # Buf(s)
  BY <1>7 DEF NoBuffers
<1> QED BY <1>6, <1>8, <1>9, <1>10, <1>11 DEF Holds

(* Two entries are stored at different places below path p. *)
Parts(ns, p) ==
  \E e, f \in SuffixEntries(ns), a, b \in HCAddresses :
    a # b /\ Way(p, a, Key[e]) /\ Way(p, b, Key[f])

(* Where a node is, entries part. *)
LEMMA NodeParts ==
  ASSUME NEW ns, NEW slots, Sound(ns, slots), NoBuffers(ns), NEW n \in LiveNodes(ns), ~AtTop(n)
  PROVE  Parts(ns, Path(n))
<1>1. PICK a, b \in HCAddresses : a # b /\ ns[n].cont[a] # Empty /\ ns[n].cont[b] # Empty
  BY DEF Sound, Spread, TwoContents, LiveNodes
<1>2. StoredBelow(ns, n, a) /\ StoredBelow(ns, n, b)
  BY <1>1, LeadsSomewhere
<1> QED BY <1>1, <1>2 DEF StoredBelow, Parts, Leads

(* A node on the way to an entry has the entry itself at the address the   *)
(* way takes, or a subnode on that way.                                    *)
LEMMA TowardEntry ==
  ASSUME NEW ns, NEW slots, Sound(ns, slots), NEW n \in LiveNodes(ns),
         NEW e \in SuffixEntries(ns), On(n, Key[e])
  PROVE  LET a == Key[e][Len(Path(n)) + 1] IN
           \/ ns[n].cont[a] = Suffix(e)
           \/ \E c : Linked(ns, n, a, c) /\ On(c, Key[e])
<1> DEFINE K == Key[e]
           a == K[Len(Path(n)) + 1]
<1>1. NodesTyped(ns, slots) /\ Tree(ns) /\ Placed(ns)
  BY DEF Sound
<1>2. K \in Seq(HCAddresses)
  BY <1>1, StoredEntries
<1>3. PICK m \in LiveNodes(ns), b \in HCAddresses : ns[m].cont[b] = Suffix(e)
  BY <1>1, StoredEntries
<1>4. Leads(m, b, K)
  BY <1>1, <1>3 DEF Placed
<1>5. \A k \in LiveNodes(ns) : k \in NodeIds /\ Path(k) \in Seq(HCAddresses) /\ Len(Path(k)) \in Nat
  <2> TAKE k \in LiveNodes(ns)
  <2>1. k \in NodeIds
    BY <1>1 DEF LiveNodes, NodesTyped, IdsTyped
  <2> QED BY <2>1, PathType
<1> DEFINE p == Path(n)
           q == Path(m)
<1>6. /\ p \in Seq(HCAddresses) /\ q \in Seq(HCAddresses) /\ Len(p) \in Nat /\ Len(q) \in Nat
      /\ IsPrefix(p, K) /\ IsPrefix(q, K) /\ K[Len(q) + 1] = b
  BY <1>4, <1>5 DEF Leads, Way, On
<1>7. CASE n = m
  BY <1>3, <1>6, <1>7
<1>8. CASE n # m /\ Len(p) <= Len(q)
  <2>1. On(n, q)
    <3> HIDE DEF p, q, K
    <3>1. IsPrefix(p, q)
      BY <1>2, <1>6, <1>8, PrefixOrder
    <3> QED BY <3>1 DEF On, p
  <2>2. PICK c : Linked(ns, n, q[Len(p) + 1], c) /\ On(c, q) /\ Len(p) < Len(q)
    BY <1>1, <1>8, <2>1 DEF Tree, NoShortcut
  <2>3. q[Len(p) + 1] = a
    <3>1. Len(p) + 1 \in 1 .. Len(q)
      BY <1>6, <2>2
    <3> HIDE DEF p, q, K
    <3> QED BY <1>2, <1>6, <3>1, PrefixIff DEF p
  <2>4. q[Len(p) + 1] \in HCAddresses
    BY <1>6, <2>2
  <2>5. c \in LiveNodes(ns)
    BY <1>1, <2>2, <2>4, LinkedFacts
  <2>6. On(c, K)
    <3> DEFINE r == Path(c)
    <3>1. r \in Seq(HCAddresses) /\ IsPrefix(r, q)
      BY <1>5, <2>2, <2>5 DEF On
    <3> HIDE DEF r, q, K
    <3>2. IsPrefix(r, K)
      BY <1>2, <1>6, <3>1, PrefixTrans
    <3> QED BY <3>2 DEF On, r
  <2> QED BY <2>2, <2>3, <2>6
<1>9. CASE n # m /\ Len(q) <= Len(p)
  <2>1. On(m, p)
    <3> HIDE DEF p, q, K
    <3>1. IsPrefix(q, p)
      BY <1>2, <1>6, <1>9, PrefixOrder
    <3> QED BY <3>1 DEF On, q
  <2>2. PICK c : Linked(ns, m, p[Len(q) + 1], c) /\ Len(q) < Len(p)
    BY <1>1, <1>9, <2>1 DEF Tree, NoShortcut
  <2>3. p[Len(q) + 1] = b
    <3>1. Len(q) + 1 \in 1 .. Len(p)
      BY <1>6, <2>2
    <3> HIDE DEF p, q, K
    <3>2. p[Len(q) + 1] = K[Len(q) + 1]
      BY <1>2, <1>6, <3>1, PrefixIff
    <3> QED BY <1>6, <3>2
  <2> QED BY <1>3, <2>2, <2>3, SubNotEmpty DEF Linked
<1> QED BY <1>6, <1>7, <1>8, <1>9

(* Where entries part, a node is: the last node on the common way leads    *)
(* both to different places.                                               *)
LEMMA PartsNode ==
  ASSUME NEW ns, NEW slots, Sound(ns, slots), NEW p \in Seq(HCAddresses), Parts(ns, p)
  PROVE  \E n \in LiveNodes(ns) : Path(n) = p
<1> DEFINE C == {n \in LiveNodes(ns) : IsPrefix(Path(n), p)}
           len == [n \in C |-> Len(Path(n))]
<1>1. NodesTyped(ns, slots) /\ Tree(ns)
  BY DEF Sound
<1>2. \A k \in LiveNodes(ns) : Path(k) \in Seq(HCAddresses) /\ Len(Path(k)) \in 0 .. WIDTH
  <2> TAKE k \in LiveNodes(ns)
  <2>1. k \in NodeIds /\ Len(Path(k)) < WIDTH
    BY <1>1 DEF LiveNodes, NodesTyped, IdsTyped
  <2> QED BY <2>1, PathType, DimAssumption
<1>3. C # {}
  <2>1. PICK r \in LiveNodes(ns) : AtTop(r)
    BY <1>1 DEF Tree, RootTop
  <2>2. IsPrefix(Path(r), p)
    <3> DEFINE z == <<>>
    <3>1. z \in Seq(HCAddresses) /\ Len(z) = 0 /\ z = <<>>
      OBVIOUS
    <3>2. Path(r) = z
      BY <1>2, <2>1, EmptySeq DEF AtTop
    <3> HIDE DEF z
    <3>4. Len(p) \in Nat /\ \A i \in 1 .. 0 : z[i] = p[i]
      OBVIOUS
    <3>5. Len(z) <= Len(p) /\ \A i \in 1 .. Len(z) : z[i] = p[i]
      BY <3>1, <3>4
    <3>3. IsPrefix(z, p)
      <4> HIDE DEF C, len
      <4> QED BY <3>1, <3>5, PrefixIff
    <3> QED BY <3>2, <3>3
  <2> QED BY <2>1, <2>2
<1>4. len \in [C -> 0 .. WIDTH]
  BY <1>2
<1>5. PICK n \in C : \A x \in C : len[x] <= len[n]
  <2> HIDE DEF C, len
  <2> QED BY <1>3, <1>4, LongestExists, DimAssumption
<1>6. \A x \in C : Len(Path(x)) <= Len(Path(n))
  BY <1>5
<1>7. PICK e \in SuffixEntries(ns), f \in SuffixEntries(ns), a \in HCAddresses, b \in HCAddresses :
        a # b /\ Way(p, a, Key[e]) /\ Way(p, b, Key[f])
  BY DEF Parts
<1> DEFINE q == Path(n)
           K == Key[e]
           M == Key[f]
<1>8. /\ q \in Seq(HCAddresses) /\ Len(q) \in Nat /\ IsPrefix(q, p) /\ n \in LiveNodes(ns)
      /\ K \in Seq(HCAddresses) /\ M \in Seq(HCAddresses) /\ Len(p) \in Nat
      /\ IsPrefix(p, K) /\ IsPrefix(p, M) /\ K[Len(p) + 1] # M[Len(p) + 1]
      /\ Len(p) < Len(K) /\ Len(p) < Len(M)
  BY <1>1, <1>2, <1>5, <1>7, StoredEntries DEF Way
<1> SUFFICES ASSUME q # p PROVE FALSE
  BY <1>8
<1>9. Len(q) < Len(p)
  <2> HIDE DEF q, K, M
  <2> QED BY <1>8, PrefixSame, PrefixIff
<1>10. /\ K[Len(q) + 1] = p[Len(q) + 1] /\ M[Len(q) + 1] = p[Len(q) + 1]
       /\ IsPrefix(q, K) /\ IsPrefix(q, M) /\ p[Len(q) + 1] \in HCAddresses
  <2> HIDE DEF q, K, M
  <2>1. Len(q) + 1 \in 1 .. Len(p)
    BY <1>8, <1>9
  <2>2. IsPrefix(q, K) /\ IsPrefix(q, M)
    BY <1>8, PrefixTrans
  <2>3. \A i \in 1 .. Len(p) : p[i] = K[i] /\ p[i] = M[i]
    BY <1>8, PrefixIff
  <2> QED BY <1>8, <2>1, <2>2, <2>3
<1> DEFINE o == p[Len(q) + 1]
<1>11. /\ ns[n].cont[o] = Suffix(e) \/ \E c : Linked(ns, n, o, c) /\ On(c, K)
       /\ ns[n].cont[o] = Suffix(f) \/ \E c : Linked(ns, n, o, c) /\ On(c, M)
  <2>1. On(n, Key[e]) /\ On(n, Key[f])
    BY <1>10 DEF On
  <2> QED BY <1>8, <1>10, <2>1, TowardEntry
<1>12. e # f
  BY <1>8
<1> HIDE DEF o, K, M
<1>13. PICK c : Linked(ns, n, o, c) /\ On(c, K) /\ On(c, M)
  BY <1>11, <1>12, SubNotEmpty, Kinds, OneLink DEF Linked
<1>14. c \in LiveNodes(ns) /\ Len(Path(c)) > Len(q) /\ Path(c) \in Seq(HCAddresses)
  <2>1. /\ c \in LiveNodes(ns) /\ Len(Path(c)) = Len(Path(n)) + 1 + ns[c].prefix
        /\ Len(Path(n)) \in Nat /\ ns[c].prefix \in Nat
    BY <1>1, <1>8, <1>10, <1>13, LinkedFacts DEF o
  <2> QED BY <1>2, <2>1
<1>15. Len(Path(c)) <= Len(p)
  <2> DEFINE r == Path(c)
  <2> SUFFICES ASSUME ~(Len(r) <= Len(p)) PROVE FALSE
    OBVIOUS
  <2>1. r \in Seq(HCAddresses) /\ IsPrefix(r, K) /\ IsPrefix(r, M) /\ Len(p) + 1 \in 1 .. Len(r)
    BY <1>8, <1>13, <1>14 DEF On
  <2> HIDE DEF r
  <2>2. \A i \in 1 .. Len(r) : r[i] = K[i] /\ r[i] = M[i]
    BY <1>8, <2>1, PrefixIff
  <2> QED BY <1>8, <2>1, <2>2
<1>16. IsPrefix(Path(c), p)
  <2> DEFINE r == Path(c)
  <2>1. r \in Seq(HCAddresses) /\ IsPrefix(r, K) /\ Len(r) <= Len(p)
    BY <1>13, <1>14, <1>15 DEF On
  <2> HIDE DEF r
  <2>2. IsPrefix(r, p)
    BY <1>8, <2>1, PrefixOrder
  <2> QED BY <2>2 DEF r
<1>17. ~(Len(Path(c)) <= Len(q))
  BY <1>2, <1>8, <1>14
<1> QED BY <1>6, <1>14, <1>16, <1>17

(* A path has entries behind two addresses where entries part.             *)
LEMMA PartsCounted ==
  ASSUME NEW es \in SUBSET Entries, NEW p \in Seq(HCAddresses)
  PROVE  Cardinality({a \in HCAddresses : Below(p, a, es) # {}}) > 1
           <=> \E e, f \in es, a, b \in HCAddresses :
                 a # b /\ Way(p, a, Key[e]) /\ Way(p, b, Key[f])
<1> DEFINE S == {a \in HCAddresses : Below(p, a, es) # {}}
<1>1. \A a \in HCAddresses : a \in S <=> \E e \in es : Way(p, a, Key[e])
  BY BelowIs
<1>2. S \in SUBSET HCAddresses
  OBVIOUS
<1> HIDE DEF S
<1>3. IsFiniteSet(S) /\ Cardinality(S) \in Nat
  BY <1>2, CountBound
<1>4. Cardinality(S) > 1 <=> \E a, b \in S : a # b
  <2>1. Cardinality(S) = 0 <=> S = {}
    BY <1>3, FS_EmptySet
  <2>2. Cardinality(S) = 1 <=> \E x : S = {x}
    BY <1>3, FS_Singleton
  <2> QED BY <1>3, <2>1, <2>2
<1>5. (\E a, b \in S : a # b)
        <=> \E e, f \in es, a, b \in HCAddresses : a # b /\ Way(p, a, Key[e]) /\ Way(p, b, Key[f])
  BY <1>1, <1>2
<1> QED BY <1>4, <1>5 DEF S

(* A tree without buffers has the shape its entries give it.               *)
LEMMA SoundCanonical ==
  ASSUME NEW ns, NEW slots, Sound(ns, slots), NoBuffers(ns)
  PROVE  IsCanonical(ns)
<1> DEFINE es == SuffixEntries(ns)
           prefixes == UNION {{SubSeq(Key[e], 1, i) : i \in 0 .. WIDTH - 1} : e \in es}
           parts(p) == Cardinality({a \in HCAddresses : Below(p, a, es) # {}}) > 1
           P == {Path(n) : n \in LiveNodes(ns)}
           Q == {<<>>} \cup {p \in prefixes : parts(p)}
<1>1. NodesTyped(ns, slots) /\ Tree(ns)
  BY DEF Sound
<1>2. es \in SUBSET Entries /\ \A e \in es : Key[e] \in Seq(HCAddresses) /\ Len(Key[e]) = WIDTH
  BY <1>1, StoredEntries
<1>3. \A n \in LiveNodes(ns) : Path(n) \in Seq(HCAddresses) /\ Len(Path(n)) \in 0 .. WIDTH - 1
  <2> TAKE n \in LiveNodes(ns)
  <2>1. n \in NodeIds /\ Len(Path(n)) < WIDTH
    BY <1>1 DEF LiveNodes, NodesTyped, IdsTyped
  <2> QED BY <2>1, PathType, DimAssumption
<1>4. \A p \in Seq(HCAddresses) : parts(p) <=> Parts(ns, p)
  <2> TAKE p \in Seq(HCAddresses)
  <2>1. parts(p) <=> \E e, f \in es, a, b \in HCAddresses :
                       a # b /\ Way(p, a, Key[e]) /\ Way(p, b, Key[f])
    <3> HIDE DEF es
    <3> QED BY <1>2, PartsCounted
  <2> QED BY <2>1 DEF Parts
<1>5. ASSUME NEW p \in prefixes
      PROVE  p \in Seq(HCAddresses)
  <2>1. PICK e \in es, i \in 0 .. WIDTH - 1 : p = SubSeq(Key[e], 1, i)
    OBVIOUS
  <2> DEFINE K == Key[e]
  <2>2. K \in Seq(HCAddresses) /\ i \in 0 .. Len(K)
    BY <1>2, DimAssumption
  <2> HIDE DEF K
  <2>3. SubSeq(K, 1, i) \in Seq(HCAddresses)
    BY <2>2, SubSeqPrefix
  <2> QED BY <2>1, <2>3 DEF K
<1>6. ASSUME NEW n \in LiveNodes(ns)
      PROVE  Path(n) \in Q
  <2>1. CASE AtTop(n)
    BY <1>3, <2>1, EmptySeq DEF AtTop
  <2>2. CASE ~AtTop(n)
    <3> DEFINE p == Path(n)
    <3>1. Parts(ns, p)
      BY <2>2, NodeParts
    <3>2. PICK e \in es : IsPrefix(p, Key[e])
      BY <3>1 DEF Parts, Way
    <3>3. p \in Seq(HCAddresses) /\ Len(p) \in 0 .. WIDTH - 1
      BY <1>3
    <3>4. p = SubSeq(Key[e], 1, Len(p))
      <4> DEFINE K == Key[e]
      <4>1. K \in Seq(HCAddresses) /\ Len(p) \in 0 .. Len(K) /\ IsPrefix(p, K)
        BY <1>2, <3>2, <3>3, DimAssumption
      <4> HIDE DEF p, K
      <4>2. /\ SubSeq(K, 1, Len(p)) \in Seq(HCAddresses) /\ Len(SubSeq(K, 1, Len(p))) = Len(p)
            /\ IsPrefix(SubSeq(K, 1, Len(p)), K)
        BY <4>1, SubSeqPrefix
      <4> DEFINE q == SubSeq(K, 1, Len(p))
      <4>3. q \in Seq(HCAddresses) /\ Len(q) = Len(p) /\ IsPrefix(q, K)
        BY <4>2
      <4> HIDE DEF q
      <4>4. IsPrefix(p, q)
        BY <3>3, <4>1, <4>3, PrefixOrder
      <4>5. p = q
        BY <3>3, <4>3, <4>4, PrefixSame
      <4> QED BY <4>5 DEF q, K
    <3>5. p \in prefixes
      <4> DEFINE l == Len(p)
                 R(d) == {SubSeq(Key[d], 1, i) : i \in 0 .. WIDTH - 1}
      <4>1. e \in es /\ l \in 0 .. WIDTH - 1 /\ p = SubSeq(Key[e], 1, l)
        BY <3>2, <3>3, <3>4
      <4> HIDE DEF p, l, es
      <4>2. p \in R(e)
        BY <4>1
      <4> HIDE DEF R
      <4>3. p \in UNION {R(d) : d \in es}
        BY <4>1, <4>2
      <4> QED BY <4>3 DEF R
    <3>6. parts(p)
      BY <1>4, <3>1, <3>3
    <3> HIDE DEF parts, prefixes
    <3> QED BY <3>5, <3>6
  <2> QED BY <2>1, <2>2
<1>7. ASSUME NEW p \in Q
      PROVE  p \in P
  <2>1. CASE p = <<>>
    <3>1. PICK r \in LiveNodes(ns) : AtTop(r)
      BY <1>1 DEF Tree, RootTop
    <3>2. Path(r) = <<>>
      BY <1>3, <3>1, EmptySeq DEF AtTop
    <3> QED BY <2>1, <3>2
  <2>2. CASE p \in prefixes /\ parts(p)
    <3>1. p \in Seq(HCAddresses)
      BY <1>5, <2>2
    <3>2. Parts(ns, p)
      BY <1>4, <2>2, <3>1
    <3> HIDE DEF parts, prefixes
    <3>3. \E n \in LiveNodes(ns) : Path(n) = p
      BY <3>1, <3>2, PartsNode
    <3> QED BY <3>3
  <2> HIDE DEF parts, prefixes
  <2> QED BY <1>7, <2>1, <2>2
<1>8. P = Q
  <2> HIDE DEF parts, prefixes
  <2> QED BY <1>6, <1>7
<1> QED BY <1>8 DEF IsCanonical

-----------------------------------------------------------------------------
(* Buffers in the tree *)

(* Every buffer in use hangs where it says and nowhere else; fields are    *)
(* the names of a buffer's fields.                                         *)
Hung(ns, bs, slots, fields) ==
  /\ {"node", "addr", "rows"} \subseteq fields
  /\ DOMAIN bs = slots
  /\ \A s \in slots : DOMAIN bs[s] = fields
  /\ \A s \in slots : bs[s].node = None => bs[s].rows = <<>>
  /\ \A s \in slots : bs[s].node # None =>
       /\ bs[s].node \in LiveNodes(ns) /\ bs[s].addr \in HCAddresses
       /\ ns[bs[s].node].cont[bs[s].addr] = Buf(s)
  /\ \A n \in LiveNodes(ns), a \in HCAddresses : \A s : ns[n].cont[a] = Buf(s) =>
       s \in slots /\ bs[s].node = n /\ bs[s].addr = a

(* The rows of a buffer lie on their lookup paths; two keys at least are   *)
(* among them.                                                             *)
RowsLie(b) ==
  /\ b.rows \in Seq(Entries) /\ Len(b.rows) >= 2
  /\ Key[b.rows[1]] # Key[b.rows[2]]
  /\ \A i \in DOMAIN b.rows : Leads(b.node, b.addr, Key[b.rows[i]])
BuffersLie(bs, slots) == \A s \in slots : bs[s].node # None => RowsLie(bs[s])

(* A node at the top is on every way. *)
LEMMA TopOn ==
  ASSUME NEW n \in NodeIds, AtTop(n), NEW k \in Seq(HCAddresses)
  PROVE  On(n, k)
<1>1. Path(n) \in Seq(HCAddresses) /\ Len(Path(n)) = 0
  BY PathType DEF AtTop
<1> DEFINE p == Path(n)
<1>2. p \in Seq(HCAddresses) /\ Len(p) = 0 /\ Len(k) \in Nat
  BY <1>1
<1> HIDE DEF p
<1>3. IsPrefix(p, k)
  <2> DEFINE A == HCAddresses
  <2>1. p \in Seq(A) /\ k \in Seq(A) 
    BY <1>2
  <2>2. \A j \in 1 .. Len(p) : p[j] = k[j]
    BY <1>2
  <2> HIDE DEF A
  <2>3. IsPrefix(p, k) <=> Len(p) <= Len(k) /\ \A i \in 1 .. Len(p) : p[i] = k[i]
    BY <2>1, PrefixIff
  <2> QED BY <1>2, <2>2, <2>3
<1> QED BY <1>3 DEF On, p

(* An entry has an address in every node above its last bits.              *)
LEMMA AddressType ==
  ASSUME NEW n \in NodeIds, Len(Path(n)) < WIDTH, NEW e \in Entries
  PROVE  AddressIn(e, n) \in HCAddresses
<1>1. Key[e] \in Seq(HCAddresses) /\ Len(Key[e]) = WIDTH /\ WIDTH \in Nat
  BY KeyType
<1>2. Len(Path(n)) \in Nat
  BY PathType
<1> QED BY <1>1, <1>2 DEF AddressIn

(* Buffers that stay where they are. *)
SamePlaces(bs, bs2, slots) ==
  /\ DOMAIN bs2 = slots
  /\ \A s \in slots : DOMAIN bs2[s] = DOMAIN bs[s] /\ bs2[s].node = bs[s].node
                      /\ bs2[s].addr = bs[s].addr

(* Buffers that keep their places stay hung up.                            *)
LEMMA HungSame ==
  ASSUME NEW ns, NEW slots, NEW fields, NEW bs, Hung(ns, bs, slots, fields), NEW bs2, SamePlaces(bs, bs2, slots),
         \A s \in slots : bs[s].node = None => bs2[s].rows = bs[s].rows
  PROVE  Hung(ns, bs2, slots, fields)
<1>1. /\ DOMAIN bs2 = slots
      /\ \A s \in slots : DOMAIN bs2[s] = fields
      /\ \A s \in slots : bs2[s].node = None => bs2[s].rows = <<>>
  BY DEF Hung, SamePlaces
<1>2. \A s \in slots : bs2[s].node # None =>
        /\ bs2[s].node \in LiveNodes(ns) /\ bs2[s].addr \in HCAddresses
        /\ ns[bs2[s].node].cont[bs2[s].addr] = Buf(s)
  BY DEF Hung, SamePlaces
<1>3. \A n \in LiveNodes(ns), a \in HCAddresses : \A s : ns[n].cont[a] = Buf(s) =>
        s \in slots /\ bs2[s].node = n /\ bs2[s].addr = a
  BY DEF Hung, SamePlaces
<1> QED BY <1>1, <1>2, <1>3 DEF Hung

(* Buffers stay hung up if the places of buffers stay.                     *)
LEMMA HungAlike ==
  ASSUME NEW ns, NEW slots, NEW fields, NEW bs, Hung(ns, bs, slots, fields), NEW ns2, LiveNodes(ns2) = LiveNodes(ns),
         \A k \in LiveNodes(ns), b \in HCAddresses : \A s :
           ns2[k].cont[b] = Buf(s) <=> ns[k].cont[b] = Buf(s)
  PROVE  Hung(ns2, bs, slots, fields)
BY DEF Hung

(* A suffix makes room for a buffer with its entry and another. *)
LEMMA BufferHung ==
  ASSUME NEW ns, NEW slots, NEW fields, NEW bs, Hung(ns, bs, slots, fields), NEW ns2, NEW n \in LiveNodes(ns), NEW a \in HCAddresses,
         n # None, LiveNodes(ns2) = LiveNodes(ns), NEW s \in slots, bs[s].node = None,
         \A k \in LiveNodes(ns), b \in HCAddresses : ~(k = n /\ b = a) => ns2[k].cont[b] = ns[k].cont[b],
         ns2[n].cont[a] = Buf(s), \A r : ns[n].cont[a] # Buf(r), None \notin LiveNodes(ns),
         NEW b2, b2.node = n, b2.addr = a, DOMAIN b2 = fields,
         NEW bs2, bs2 = [bs EXCEPT ![s] = b2]
  PROVE  Hung(ns2, bs2, slots, fields)
<1>1. DOMAIN bs2 = slots /\ bs2[s] = b2 /\ \A r \in slots : r # s => bs2[r] = bs[r]
  BY DEF Hung
<1>2. \A r \in slots : DOMAIN bs2[r] = fields
  BY <1>1 DEF Hung
<1>3. \A r \in slots : bs2[r].node = None => bs2[r].rows = <<>>
  BY <1>1 DEF Hung
<1>4. \A r \in slots : bs2[r].node # None =>
        /\ bs2[r].node \in LiveNodes(ns2) /\ bs2[r].addr \in HCAddresses
        /\ ns2[bs2[r].node].cont[bs2[r].addr] = Buf(r)
  <2> SUFFICES ASSUME NEW r \in slots, bs2[r].node # None
               PROVE  /\ bs2[r].node \in LiveNodes(ns2) /\ bs2[r].addr \in HCAddresses
                      /\ ns2[bs2[r].node].cont[bs2[r].addr] = Buf(r)
    OBVIOUS
  <2>1. CASE r = s
    BY <1>1, <2>1
  <2>2. CASE r # s
    <3>1. /\ bs[r].node \in LiveNodes(ns) /\ bs[r].addr \in HCAddresses
          /\ ns[bs[r].node].cont[bs[r].addr] = Buf(r) /\ bs2[r] = bs[r]
      BY <1>1, <2>2 DEF Hung
    <3>2. ~(bs[r].node = n /\ bs[r].addr = a)
      BY <3>1
    <3> QED BY <3>1, <3>2
  <2> QED BY <2>1, <2>2
<1>5. \A k \in LiveNodes(ns2), b \in HCAddresses : \A r : ns2[k].cont[b] = Buf(r) =>
        r \in slots /\ bs2[r].node = k /\ bs2[r].addr = b
  <2> SUFFICES ASSUME NEW k \in LiveNodes(ns), NEW b \in HCAddresses, NEW r, ns2[k].cont[b] = Buf(r)
               PROVE  r \in slots /\ bs2[r].node = k /\ bs2[r].addr = b
    OBVIOUS
  <2>1. CASE k = n /\ b = a
    <3>1. r = s
      BY <2>1, Kinds
    <3> QED BY <1>1, <2>1, <3>1
  <2>2. CASE ~(k = n /\ b = a)
    <3>1. ns[k].cont[b] = Buf(r)
      BY <2>2
    <3>2. r \in slots /\ bs[r].node = k /\ bs[r].addr = b
      BY <3>1 DEF Hung
    <3>3. r # s
      BY <3>2
    <3> QED BY <1>1, <3>2, <3>3
  <2> QED BY <2>1, <2>2
<1> QED BY <1>1, <1>2, <1>3, <1>4, <1>5 DEF Hung

(* Buffers that hang in the tree. *)
Full(ns, bufs, S, slots, fields) ==
  /\ Sound(ns, slots) /\ Hung(ns, bufs, slots, fields) /\ BuffersLie(bufs, slots)
  /\ IsFiniteSet(slots) /\ S \subseteq slots /\ \A s \in S : bufs[s].node # None

Picked(bufs, S) == {bufs[s] : s \in S}

(* The buffers to be flushed are finitely many.                            *)
LEMMA PickedFinite ==
  ASSUME NEW bufs, NEW slots, IsFiniteSet(slots), NEW S \in SUBSET slots
  PROVE  IsFiniteSet(Picked(bufs, S))
<1> DEFINE f == [s \in S |-> bufs[s]]
           T == Picked(bufs, S)
<1>2. IsFiniteSet(S)
  BY FS_Subset
<1>3. f \in Surjection(S, T)
  BY DEF Surjection, Picked
<1> HIDE DEF f, T
<1>4. IsFiniteSet(T)
  BY <1>2, <1>3, FS_Surjection
<1> QED BY <1>4 DEF T

(* The buffers to be flushed hang at different places.                     *)
LEMMA PickedHang ==
  ASSUME NEW ns, NEW slots, NEW fields, NEW bufs, NEW S, Full(ns, bufs, S, slots, fields)
  PROVE  /\ HangingOnce(ns, Picked(bufs, S)) /\ IsFiniteSet(Picked(bufs, S))
         /\ \A b \in Picked(bufs, S) : \E s : ns[b.node].cont[b.addr] = Buf(s)
<1>1. ASSUME NEW s \in S
      PROVE  /\ Hanging(ns, bufs[s]) /\ ns[bufs[s].node].cont[bufs[s].addr] = Buf(s)
  <2> DEFINE b == bufs[s]
  <2>1. /\ b.node \in LiveNodes(ns) /\ b.addr \in HCAddresses
        /\ ns[b.node].cont[b.addr] = Buf(s)
    BY <1>1 DEF Full, Hung
  <2>2. \A m : ~Linked(ns, b.node, b.addr, m)
    BY <2>1, SubNotEmpty DEF Linked
  <2>3. RowsLie(b)
    BY <1>1 DEF Full, BuffersLie
  <2>4. b.node \in NodeIds
    BY <2>1 DEF Full, Sound, NodesTyped, IdsTyped, LiveNodes
  <2>5. Together(DistinctRows(b.rows), b.node, b.addr)
    <3> HIDE DEF b
    <3> QED BY <2>3, <2>4, RowsTogether DEF RowsLie
  <2> QED BY <2>1, <2>2, <2>5 DEF Hanging
<1>2. \A s, r \in S : bufs[s].node = bufs[r].node /\ bufs[s].addr = bufs[r].addr => bufs[s] = bufs[r]
  <2> SUFFICES ASSUME NEW s \in S, NEW r \in S, bufs[s].node = bufs[r].node, bufs[s].addr = bufs[r].addr
               PROVE  bufs[s] = bufs[r]
    OBVIOUS
  <2>1. Buf(s) = Buf(r)
    BY <1>1
  <2>2. s = r
    BY <2>1, Kinds
  <2> QED BY <2>2
<1>3. IsFiniteSet(Picked(bufs, S))
  BY PickedFinite DEF Full
<1> QED BY <1>1, <1>2, <1>3 DEF HangingOnce, Picked

(* A node no buffer hangs off stays as it is. *)
LEMMA FlushedElse ==
  ASSUME NEW ns, NEW slots, NodesTyped(ns, slots), NEW bs, HangingOnce(ns, bs),
         NEW n \in DOMAIN ns, \A b \in bs : b.node # n
  PROVE  Flushed(ns, bs)[n] = ns[n]
<1> DEFINE ids == DOMAIN ns \cup {TopNode(b, DOMAIN ns) : b \in bs}
<1>1. PICK c \in [HCAddresses -> Holds(ids, slots)] :
           /\ Flushed(ns, bs)[n] = WithCont(ns[n], c)
           /\ \A a \in HCAddresses :
                \/ c[a] = ns[n].cont[a] /\ \A b \in bs : ~(b.node = n /\ b.addr = a)
                \/ \E b \in bs : b.node = n /\ b.addr = a /\ c[a] = Sub(TopNode(b, DOMAIN ns))
  <2>1. DOMAIN ns \subseteq ids /\ \A b \in bs : TopNode(b, DOMAIN ns) \in ids
    OBVIOUS
  <2> HIDE DEF ids
  <2> QED BY <2>1, FlushedOld
<1>2. \A a \in HCAddresses : c[a] = ns[n].cont[a]
  BY <1>1
<1>3. DOMAIN ns[n].cont = HCAddresses /\ ns[n].cont = [a \in HCAddresses |-> ns[n].cont[a]]
  <2> DEFINE H == Holds(DOMAIN ns, slots)
  <2>1. ns[n].cont \in [HCAddresses -> H]
    BY DEF NodesTyped, NodeFields
  <2> HIDE DEF H
  <2> QED BY <2>1
<1>4. c = ns[n].cont
  <2>1. c = [a \in HCAddresses |-> c[a]]
    OBVIOUS
  <2> QED BY <1>2, <1>3, <2>1
<1>5. ns[n] = [ns[n] EXCEPT !.cont = ns[n].cont]
  BY DEF NodesTyped, NodeFields
<1> QED BY <1>1, <1>4, <1>5 DEF WithCont

(* The buffers in the tree after a flush are those not flushed. *)
LEMMA FlushedBuffers ==
  ASSUME NEW ns, NEW slots, NEW fields, NEW bufs, NEW S, Full(ns, bufs, S, slots, fields),
         NEW F, F = Flushed(ns, Picked(bufs, S))
  PROVE  /\ \A r \in slots \ S : bufs[r].node # None =>
              /\ bufs[r].node \in LiveNodes(F) /\ F[bufs[r].node].cont[bufs[r].addr] = Buf(r)
         /\ \A k \in LiveNodes(F), b \in HCAddresses : \A r : F[k].cont[b] = Buf(r) =>
              r \in slots \ S /\ bufs[r].node = k /\ bufs[r].addr = b
<1> DEFINE bs == Picked(bufs, S)
<1>1. /\ HangingOnce(ns, bs) /\ IsFiniteSet(bs) /\ NodesTyped(ns, slots) /\ Tree(ns)
  BY PickedHang DEF Full, Sound
<1>2. LiveNodes(F) = LiveNodes(ns) \cup NewNodes(bs, DOMAIN ns) /\ F = Flushed(ns, bs)
  BY <1>1, FlushedLive
<1> HIDE DEF bs
<1>3. ASSUME NEW r \in slots \ S, bufs[r].node # None
      PROVE  bufs[r].node \in LiveNodes(F) /\ F[bufs[r].node].cont[bufs[r].addr] = Buf(r)
  <2>1. /\ bufs[r].node \in LiveNodes(ns) /\ bufs[r].addr \in HCAddresses
        /\ ns[bufs[r].node].cont[bufs[r].addr] = Buf(r) /\ bufs[r].node \in DOMAIN ns
    BY <1>3 DEF Full, Hung, LiveNodes
  <2>2. \A b \in bs : ~(b.node = bufs[r].node /\ b.addr = bufs[r].addr)
    <3> SUFFICES ASSUME NEW s \in S, bufs[s].node = bufs[r].node, bufs[s].addr = bufs[r].addr
                 PROVE  FALSE
      BY DEF bs, Picked
    <3>1. ns[bufs[s].node].cont[bufs[s].addr] = Buf(s)
      BY DEF Full, Hung
    <3>2. r = s
      BY <2>1, <3>1, Kinds
    <3> QED BY <3>2
  <2>3. F[bufs[r].node].cont[bufs[r].addr] = ns[bufs[r].node].cont[bufs[r].addr]
    BY <1>1, <1>2, <2>1, <2>2, FlushedPlace
  <2> QED BY <1>2, <2>1, <2>3
<1>4. ASSUME NEW k \in LiveNodes(F), NEW b \in HCAddresses, NEW r, F[k].cont[b] = Buf(r)
      PROVE  r \in slots \ S /\ bufs[r].node = k /\ bufs[r].addr = b
  <2>1. CASE k \in LiveNodes(ns)
    <3>1. k \in DOMAIN ns
      BY <2>1 DEF LiveNodes
    <3>2. F[k].cont[b] = ns[k].cont[b] /\ \A d \in bs : ~(d.node = k /\ d.addr = b)
      <4>1. IF \E d \in bs : d.node = k /\ d.addr = b
            THEN \E j : F[k].cont[b] = Sub(j) ELSE F[k].cont[b] = ns[k].cont[b]
        BY <1>1, <1>2, <3>1, FlushedPlace
      <4>2. \A j : F[k].cont[b] # Sub(j)
        BY <1>4, SubNotEmpty
      <4>3. ~\E d \in bs : d.node = k /\ d.addr = b
        <5> SUFFICES ASSUME \E d \in bs : d.node = k /\ d.addr = b
                     PROVE  FALSE
          OBVIOUS
        <5>1. \E j : F[k].cont[b] = Sub(j)
          BY <4>1
        <5> QED BY <5>1, <4>2
      <4>4. F[k].cont[b] = ns[k].cont[b]
        BY <4>1, <4>3
      <4> QED BY <4>3, <4>4
    <3>3. r \in slots /\ bufs[r].node = k /\ bufs[r].addr = b
      <4>1. ns[k].cont[b] = Buf(r)
        BY <1>4, <3>2
      <4>2. \A n \in LiveNodes(ns), a \in HCAddresses : \A s : ns[n].cont[a] = Buf(s) =>
              s \in slots /\ bufs[s].node = n /\ bufs[s].addr = a
        BY DEF Full, Hung
      <4> QED BY <2>1, <4>1, <4>2
    <3>4. r \notin S
      BY <3>2, <3>3 DEF bs, Picked
    <3> QED BY <3>3, <3>4
  <2>2. CASE k \notin LiveNodes(ns)
    <3>1. k \in NewNodes(bs, DOMAIN ns)
      BY <1>2, <2>2
    <3>2. k \in DOMAIN F /\ k \notin DOMAIN ns
      <4>1. k \notin DOMAIN ns
        BY <1>1, <3>1, FlushedNew DEF NodesTyped
      <4> QED BY <4>1 DEF LiveNodes
    <3>3. PICK d \in bs :
           /\ k \in DOMAIN SubtreeOf(d, DOMAIN ns)
           /\ F[k] = SubtreeOf(d, DOMAIN ns)[k]
           /\ Together(DistinctRows(d.rows), d.node, d.addr)
      BY <1>1, <1>2, <3>2, FlushedSubtree
    <3> DEFINE es == DistinctRows(d.rows)
               T == SubtreeFor(es, d.node, DOMAIN ns)
    <3>4. LET T2 == SubtreeFor(es, d.node, DOMAIN ns) IN
             /\ T2[k] \in [prefix : 0 .. Len(Path(k)), max : Nat, removed : {FALSE}, updates : {0},
                        cont : [HCAddresses -> {Empty} \cup {Suffix(e) : e \in es}
                                                 \cup {Sub(j) : j \in DOMAIN T2}]]
             /\ NContents(T2[k]) <= T2[k].max
             /\ TwoContents(T2[k])
      <4>1. /\ Together(es, d.node, d.addr) /\ IsFiniteSet(DOMAIN ns)
            /\ k \in DOMAIN SubtreeFor(es, d.node, DOMAIN ns)
        BY <1>1, <3>3 DEF NodesTyped, SubtreeOf
      <4> HIDE DEF es
      <4> QED BY <4>1, SubtreeShape
    <3> HIDE DEF es
    <3> DEFINE H == {Empty} \cup {Suffix(e) : e \in es} \cup {Sub(j) : j \in DOMAIN T}
    <3>5. T[k].cont \in [HCAddresses -> H]
      BY <3>4
    <3>6. T[k].cont[b] \in H
      <4> HIDE DEF H
      <4> QED BY <3>5
    <3>7. T[k].cont[b] # Buf(r)
      <4> HIDE DEF T
      <4> QED BY <3>6, Kinds
    <3>8. T[k] = F[k]
      BY <3>3 DEF SubtreeOf, es
    <3> QED BY <1>4, <3>7, <3>8
  <2> QED BY <2>1, <2>2
<1> QED BY <1>3, <1>4

(* Node n, linked at pa in parent, is replaced; among the new nodes N node *)
(* new takes over its buffers.                                             *)
Handover(ns, R, n, parent, pa, m, N, new, slots) ==
  /\ Replacement(ns, R, n, parent, pa, m, N, slots)
  /\ n \in LiveNodes(ns) /\ parent \in LiveNodes(ns) /\ n # parent
  /\ pa \in HCAddresses
  /\ ns[parent].cont[pa] = Sub(n)
  /\ N \subseteq NodeIds /\ N \cap DOMAIN ns = {} /\ m \in N /\ new \in N /\ Path(new) = Path(n)
  /\ \A k \in N : ~R[k].removed
  /\ \A k \in N, b \in HCAddresses : \A s :
       R[k].cont[b] = Buf(s) <=> k = new /\ ns[n].cont[b] = Buf(s)

(* Node n is replaced by the nodes N, among which new takes over its       *)
(* buffers.                                                                *)
Succession(ns, R, n, N, new) ==
  /\ n \in LiveNodes(ns) /\ LiveNodes(R) = (LiveNodes(ns) \ {n}) \cup N
  /\ N \subseteq NodeIds /\ N \cap DOMAIN ns = {} /\ new \in N /\ Path(new) = Path(n)
  /\ \A k \in LiveNodes(ns) \ {n}, b \in HCAddresses : \A s :
       R[k].cont[b] = Buf(s) <=> ns[k].cont[b] = Buf(s)
  /\ \A k \in N, b \in HCAddresses : \A s :
       R[k].cont[b] = Buf(s) <=> k = new /\ ns[n].cont[b] = Buf(s)

(* What updateNode changes: the node of the buffers that the replaced node *)
(* has.                                                                    *)
LEMMA MovedIs ==
  ASSUME NEW bs, NEW node, NEW new, NEW s \in DOMAIN bs,
         NEW fields, {"node", "addr", "rows"} \subseteq fields, DOMAIN bs[s] = fields
  PROVE  LET bs2 == BuffersMoved(bs, node, new)
             moved == \E a \in HCAddresses : node.cont[a] = Buf(s)
         IN  /\ DOMAIN bs2 = DOMAIN bs /\ DOMAIN bs2[s] = fields
             /\ bs2[s].addr = bs[s].addr /\ bs2[s].rows = bs[s].rows
             /\ moved => bs2[s].node = new
             /\ ~moved => bs2[s] = bs[s]
<1>2. DOMAIN BuffersMoved(bs, node, new) = DOMAIN bs
  BY DEF BuffersMoved
<1>3. CASE \E a \in HCAddresses : node.cont[a] = Buf(s)
  <2> DEFINE b == bs[s]
  <2>1. BuffersMoved(bs, node, new)[s] = [b EXCEPT !.node = new]
    BY <1>3 DEF BuffersMoved
  <2>2. {"node", "addr", "rows"} \subseteq DOMAIN b
    OBVIOUS
  <2> HIDE DEF b
  <2>3. /\ [b EXCEPT !.node = new].addr = b.addr /\ [b EXCEPT !.node = new].rows = b.rows
        /\ [b EXCEPT !.node = new].node = new
        /\ DOMAIN [b EXCEPT !.node = new] = DOMAIN b
    BY <2>2
  <2> QED BY <1>2, <1>3, <2>1, <2>2, <2>3 DEF b
<1>4. CASE ~\E a \in HCAddresses : node.cont[a] = Buf(s)
  <2>1. BuffersMoved(bs, node, new)[s] = bs[s]
    BY <1>4 DEF BuffersMoved
  <2> QED BY <1>2, <1>4, <2>1
<1> QED BY <1>3, <1>4

(* A node is replaced below its parent. *)
LEMMA HandoverSucceeds ==
  ASSUME NEW ns, NEW slots, NodesTyped(ns, slots), NEW R, NEW n, NEW parent, NEW pa, NEW m, NEW N, NEW new,
         Handover(ns, R, n, parent, pa, m, N, new, slots)
  PROVE  Succession(ns, R, n, N, new)
<1>1. LiveNodes(R) = (LiveNodes(ns) \ {n}) \cup N
  BY DEF Handover, Replacement, LiveNodes
<1>2. ASSUME NEW k \in LiveNodes(ns), NEW b \in HCAddresses, NEW s
      PROVE  R[k].cont[b] = Buf(s) <=> ns[k].cont[b] = Buf(s)
  <2>1. R[k].cont[b] = IF k = parent /\ b = pa THEN Sub(m) ELSE ns[k].cont[b]
    BY DEF Handover, Replacement, LiveNodes
  <2>2. CASE k = parent /\ b = pa
    <3>1. R[k].cont[b] = Sub(m) /\ ns[k].cont[b] = Sub(n)
      BY <2>1, <2>2 DEF Handover
    <3> QED BY <3>1, SubNotEmpty
  <2>3. CASE ~(k = parent /\ b = pa)
    BY <2>1, <2>3
  <2> QED BY <2>2, <2>3
<1> QED BY <1>1, <1>2 DEF Handover, Succession

(* The buffers move to the new node. *)
LEMMA BuffersFollow ==
  ASSUME NEW ns, NEW slots, NEW fields, NodesTyped(ns, slots), NEW R, NEW n, NEW N, NEW new,
         Succession(ns, R, n, N, new), NEW bs, Hung(ns, bs, slots, fields), NEW bs2,
         bs2 = BuffersMoved(bs, ns[n], new)
  PROVE  /\ Hung(R, bs2, slots, fields)
         /\ \A s \in slots :
              /\ bs2[s].node = None <=> bs[s].node = None
              /\ bs2[s].rows = bs[s].rows /\ bs2[s].addr = bs[s].addr
              /\ Path(bs2[s].node) = Path(bs[s].node)
<1>1. /\ LiveNodes(R) = (LiveNodes(ns) \ {n}) \cup N /\ n \in LiveNodes(ns) /\ n \in DOMAIN ns
      /\ new \in N /\ N \cap DOMAIN ns = {} /\ Path(new) = Path(n)
      /\ \A k \in N, b \in HCAddresses : \A s :
           R[k].cont[b] = Buf(s) <=> k = new /\ ns[n].cont[b] = Buf(s)
      /\ new \in NodeIds /\ n \in NodeIds
  BY DEF Succession, LiveNodes, NodesTyped, IdsTyped
<1>2. \A k \in LiveNodes(ns) \ {n}, b \in HCAddresses : \A s :
        R[k].cont[b] = Buf(s) <=> ns[k].cont[b] = Buf(s)
  BY DEF Succession
<1>3. new # None /\ n # None
  BY <1>1 DEF NodeIds, None
<1>4. /\ {"node", "addr", "rows"} \subseteq fields
      /\ DOMAIN bs = slots /\ \A s \in slots : DOMAIN bs[s] = fields
      /\ \A s \in slots : bs[s].node = None => bs[s].rows = <<>>
      /\ \A s \in slots : bs[s].node # None =>
           /\ bs[s].node \in LiveNodes(ns) /\ bs[s].addr \in HCAddresses
           /\ ns[bs[s].node].cont[bs[s].addr] = Buf(s)
      /\ \A k \in LiveNodes(ns), a \in HCAddresses : \A s : ns[k].cont[a] = Buf(s) =>
           s \in slots /\ bs[s].node = k /\ bs[s].addr = a
  BY DEF Hung
<1>5. ASSUME NEW s \in slots
      PROVE  /\ bs2[s].addr = bs[s].addr /\ bs2[s].rows = bs[s].rows
             /\ bs2[s].node = IF bs[s].node = n THEN new ELSE bs[s].node
             /\ DOMAIN bs2[s] = fields
  <2>1. /\ DOMAIN bs2[s] = fields
        /\ bs2[s].addr = bs[s].addr /\ bs2[s].rows = bs[s].rows
        /\ (\E a \in HCAddresses : ns[n].cont[a] = Buf(s)) => bs2[s].node = new
        /\ ~(\E a \in HCAddresses : ns[n].cont[a] = Buf(s)) => bs2[s] = bs[s]
    BY <1>4, MovedIs
  <2>2. (\E a \in HCAddresses : ns[n].cont[a] = Buf(s)) <=> bs[s].node = n
    BY <1>1, <1>3, <1>4
  <2> QED BY <2>1, <2>2
<1>6. DOMAIN bs2 = slots
  BY <1>4 DEF BuffersMoved
<1>7. \A s \in slots : bs2[s].node = None <=> bs[s].node = None
  BY <1>3, <1>5
<1>8. \A s \in slots : Path(bs2[s].node) = Path(bs[s].node)
  BY <1>1, <1>5
<1>9. ASSUME NEW s \in slots, bs2[s].node # None
      PROVE  /\ bs2[s].node \in LiveNodes(R) /\ bs2[s].addr \in HCAddresses
             /\ R[bs2[s].node].cont[bs2[s].addr] = Buf(s)
  <2>1. /\ bs[s].node \in LiveNodes(ns) /\ bs[s].addr \in HCAddresses
        /\ ns[bs[s].node].cont[bs[s].addr] = Buf(s) /\ bs2[s].addr = bs[s].addr
        /\ bs2[s].node = IF bs[s].node = n THEN new ELSE bs[s].node
    BY <1>4, <1>5, <1>7, <1>9
  <2>2. CASE bs[s].node = n
    BY <1>1, <2>1, <2>2
  <2>3. CASE bs[s].node # n
    BY <1>1, <1>2, <2>1, <2>3
  <2> QED BY <2>2, <2>3
<1>10. ASSUME NEW k \in LiveNodes(R), NEW a \in HCAddresses, NEW s, R[k].cont[a] = Buf(s)
       PROVE  s \in slots /\ bs2[s].node = k /\ bs2[s].addr = a
  <2>1. CASE k \in N
    <3>1. k = new /\ ns[n].cont[a] = Buf(s)
      BY <1>1, <1>10, <2>1
    <3>2. s \in slots /\ bs[s].node = n /\ bs[s].addr = a
      BY <1>1, <1>4, <3>1
    <3> QED BY <1>5, <3>1, <3>2
  <2>2. CASE k \notin N
    <3>1. k \in LiveNodes(ns) /\ k # n
      BY <1>1, <2>2
    <3>2. ns[k].cont[a] = Buf(s)
      BY <1>2, <1>10, <3>1
    <3>3. s \in slots /\ bs[s].node = k /\ bs[s].addr = a
      BY <1>4, <3>1, <3>2
    <3> QED BY <1>5, <3>1, <3>3
  <2> QED BY <2>1, <2>2
<1>11. \A s \in slots : bs2[s].node = None => bs2[s].rows = <<>>
  BY <1>4, <1>5, <1>7
<1>12. Hung(R, bs2, slots, fields)
  BY <1>5, <1>6, <1>9, <1>10, <1>11 DEF Hung
<1> QED BY <1>5, <1>7, <1>8, <1>12

(* Rows stay on their lookup paths, for the new node has the path of the   *)
(* old.                                                                    *)
LEMMA RowsFollow ==
  ASSUME NEW slots, NEW bs, NEW bs2, BuffersLie(bs, slots),
         \A s \in slots :
              /\ bs2[s].node = None <=> bs[s].node = None
              /\ bs2[s].rows = bs[s].rows /\ bs2[s].addr = bs[s].addr
              /\ Path(bs2[s].node) = Path(bs[s].node)
  PROVE  BuffersLie(bs2, slots)
<1> SUFFICES ASSUME NEW s \in slots, bs2[s].node # None
             PROVE  RowsLie(bs2[s])
  BY DEF BuffersLie
<1>1. RowsLie(bs[s])
  BY DEF BuffersLie
<1>2. \A k : Leads(bs2[s].node, bs2[s].addr, k) <=> Leads(bs[s].node, bs[s].addr, k)
  BY DEF Leads
<1> QED BY <1>1, <1>2 DEF RowsLie

(* A copy into a larger node hands the buffers over to the copy.           *)
LEMMA CopiedHandover ==
  ASSUME NEW ns, NEW slots, Sound(ns, slots), NEW parent \in LiveNodes(ns), NEW pa \in HCAddresses,
         NEW n, Linked(ns, parent, pa, n), NEW a \in HCAddresses, NEW e \in Entries,
         ns[n].cont[a] = Empty, IsFull(ns[n]),
         NEW new \in NodeIds, new \notin DOMAIN ns, Path(new) = Path(n)
  PROVE  Handover(ns, Copied(ns, n, parent, pa, new, a, e), n, parent, pa, new, {new}, new, slots)
<1> DEFINE R == Copied(ns, n, parent, pa, new, a, e)
<1>1. NodesTyped(ns, slots) /\ Tree(ns)
  BY DEF Sound
<1>2. n \in LiveNodes(ns) /\ n # parent /\ n \in DOMAIN ns /\ parent \in DOMAIN ns
  BY <1>1, LinkedFacts DEF LiveNodes
<1>3. /\ Replacement(ns, R, n, parent, pa, new, {new}, slots)
      /\ R[new] = LargerCopy(ns[n], a, e)
  BY <1>1, <1>2, CopiedReplaces
<1>4. /\ ~LargerCopy(ns[n], a, e).removed
      /\ \A b \in HCAddresses : LargerCopy(ns[n], a, e).cont[b]
                                     = IF b = a THEN Suffix(e) ELSE ns[n].cont[b]
  BY <1>1, <1>2, LargerCopyIs
<1> HIDE DEF R
<1>5. ~R[new].removed
  BY <1>3, <1>4
<1>6. ASSUME NEW b \in HCAddresses, NEW s
      PROVE  R[new].cont[b] = Buf(s) <=> ns[n].cont[b] = Buf(s)
  <2>1. R[new].cont[b] = IF b = a THEN Suffix(e) ELSE ns[n].cont[b]
    BY <1>3, <1>4
  <2>2. Suffix(e) # Buf(s) /\ Empty # Buf(s)
    BY Kinds
  <2>3. CASE b = a
    BY <2>1, <2>2, <2>3
  <2>4. CASE b # a
    BY <2>1, <2>4
  <2> QED BY <2>3, <2>4
<1>7. ns[parent].cont[pa] = Sub(n)
  BY DEF Linked
<1> QED BY <1>2, <1>3, <1>5, <1>6, <1>7 DEF Handover, R

(* A prefix split hands the buffers over to the copy of the lower part.    *)
LEMMA ResplitHandover ==
  ASSUME NEW ns, NEW slots, Sound(ns, slots), NEW parent \in LiveNodes(ns), NEW e \in Entries,
         NEW pa \in HCAddresses, pa = AddressIn(e, parent),
         NEW n, Linked(ns, parent, pa, n),
         NEW upper \in NodeIds, upper \notin DOMAIN ns,
         NEW copy \in NodeIds, copy \notin DOMAIN ns, Path(copy) = Path(n), upper # copy
  PROVE  Handover(ns, Resplit(ns, n, parent, e, upper, copy), n, parent, pa,
                  upper, {upper, copy}, copy, slots)
<1> DEFINE R == Resplit(ns, n, parent, e, upper, copy)
<1>1. NodesTyped(ns, slots) /\ Tree(ns)
  BY DEF Sound
<1>2. n \in LiveNodes(ns) /\ n # parent /\ n \in DOMAIN ns /\ parent \in DOMAIN ns
  BY <1>1, LinkedFacts DEF LiveNodes
<1>3. /\ Replacement(ns, R, n, parent, pa, upper, {upper, copy}, slots)
      /\ R[upper] = BuildNode(SharedPrefix(e, n, ns[n].prefix), UpperCont(n, e, upper, copy))
      /\ R[copy] = BuildNode(ns[n].prefix - SharedPrefix(e, n, ns[n].prefix) - 1, ns[n].cont)
  BY <1>1, <1>2, ResplitReplaces
<1> HIDE DEF R
<1>4. /\ ~R[upper].removed /\ ~R[copy].removed
      /\ R[upper].cont = UpperCont(n, e, upper, copy) /\ R[copy].cont = ns[n].cont
  BY <1>3 DEF BuildNode
<1>5. \A b \in HCAddresses : \A s : R[upper].cont[b] # Buf(s)
  <2> TAKE b \in HCAddresses
  <2> TAKE s
  <2>1. R[upper].cont[b] \in {Suffix(e), Sub(copy), Empty}
    BY <1>4 DEF UpperCont
  <2> QED BY <2>1, Kinds
<1>6. ns[parent].cont[pa] = Sub(n)
  BY DEF Linked
<1> QED BY <1>2, <1>3, <1>4, <1>5, <1>6 DEF Handover, R

(* A new node gets an id that is not in use.                               *)
LEMMA FreshId ==
  ASSUME NEW ns, NEW slots, NodesTyped(ns, slots), NEW p \in Seq(HCAddresses), NEW id, id = NewId(p, DOMAIN ns)
  PROVE  id \in NodeIds /\ id \notin DOMAIN ns /\ Path(id) = p
<1>1. IsFiniteSet(DOMAIN ns)
  BY DEF NodesTyped
<1>2. id \notin DOMAIN ns /\ Path(id) = p /\ id \in {p} \X Nat
  BY <1>1, NewIdFresh
<1> QED BY <1>2 DEF NodeIds

(* Removed nodes may be dropped. *)
Pruned(ns) == [n \in LiveNodes(ns) |-> ns[n]]

(* Freeing the replaced nodes leaves the tree sound: nothing in it refers  *)
(* to them.                                                                *)
LEMMA PrunedSound ==
  ASSUME NEW ns, NEW slots, Sound(ns, slots)
  PROVE  /\ Sound(Pruned(ns), slots)
         /\ LiveNodes(Pruned(ns)) = LiveNodes(ns) /\ DOMAIN Pruned(ns) = LiveNodes(ns)
         /\ \A n \in LiveNodes(ns) : Pruned(ns)[n] = ns[n]
<1> DEFINE P == Pruned(ns)
<1>1. DOMAIN P = LiveNodes(ns) /\ \A n \in LiveNodes(ns) : P[n] = ns[n]
  BY DEF Pruned
<1> HIDE DEF P
<1>2. LiveNodes(P) = LiveNodes(ns) /\ LiveNodes(ns) \subseteq DOMAIN ns
  BY <1>1 DEF LiveNodes
<1>3. NodesTyped(ns, slots) /\ Tree(ns) /\ Room(ns) /\ Spread(ns) /\ Placed(ns)
  BY DEF Sound
<1>4. \A n \in LiveNodes(ns) : \A a, m : Linked(P, n, a, m) <=> Linked(ns, n, a, m)
  BY <1>1 DEF Linked
<1>5. NodesTyped(P, slots)
  <2>1. IsFiniteSet(DOMAIN P) /\ DOMAIN P \subseteq NodeIds
    BY <1>1, <1>2, <1>3, FS_Subset DEF NodesTyped, IdsTyped
  <2>2. ASSUME NEW n \in DOMAIN P
        PROVE  Len(Path(n)) < WIDTH /\ P[n] \in NodeFields(n, DOMAIN P, slots)
    <3>1. /\ P[n] = ns[n] /\ n \in LiveNodes(ns) /\ n \in DOMAIN ns
          /\ Len(Path(n)) < WIDTH /\ ns[n] \in NodeFields(n, DOMAIN ns, slots)
      BY <1>1, <1>2, <1>3 DEF NodesTyped
    <3> DEFINE H == Holds(DOMAIN ns, slots)
               K == Holds(DOMAIN P, slots)
               c == ns[n].cont
    <3>2. c \in [HCAddresses -> H]
      BY <3>1 DEF NodeFields
    <3>3. ASSUME NEW a \in HCAddresses
          PROVE  c[a] \in K
      <4>1. c[a] \in H
        <5> HIDE DEF H, c
        <5> QED BY <3>2
      <4>2. ASSUME NEW m, c[a] = Sub(m)
            PROVE  m \in DOMAIN P
        <5>1. Linked(ns, n, a, m)
          BY <4>2 DEF Linked
        <5>2. m \in LiveNodes(ns)
          BY <1>3, <3>1, <5>1 DEF Tree, LinksRight
        <5> QED BY <1>1, <5>2
      <4> HIDE DEF c
      <4>3. \/ c[a] = Empty \/ \E e \in Entries : c[a] = Suffix(e)
            \/ \E m : c[a] = Sub(m) \/ \E s \in slots : c[a] = Buf(s)
        BY <4>1 DEF Holds
      <4> QED BY <4>2, <4>3 DEF Holds
    <3>4. c \in [HCAddresses -> K]
      <4>1. c = [a \in HCAddresses |-> c[a]]
        <5> HIDE DEF H, c
        <5> QED BY <3>2
      <4> HIDE DEF K, c
      <4> QED BY <3>3, <4>1
    <3>5. ns[n] \in [prefix : 0 .. Len(Path(n)), cont : [HCAddresses -> H],
                     max : Nat, removed : BOOLEAN, updates : Nat]
      BY <3>1 DEF NodeFields
    <3>6. ns[n] \in [prefix : 0 .. Len(Path(n)), cont : [HCAddresses -> K],
                     max : Nat, removed : BOOLEAN, updates : Nat]
      <4> HIDE DEF H, K
      <4> QED BY <3>4, <3>5 DEF c
    <3> QED BY <3>1, <3>6 DEF NodeFields
  <2> QED BY <2>1, <2>2 DEF NodesTyped, IdsTyped
<1>6. Room(P) /\ Spread(P) /\ Placed(P)
  <2>1. Room(P)
    BY <1>1, <1>2, <1>3 DEF Room
  <2>2. Spread(P)
    BY <1>1, <1>2, <1>3 DEF Spread
  <2>3. Placed(P)
    BY <1>1, <1>2, <1>3 DEF Placed
  <2> QED BY <2>1, <2>2, <2>3
<1>7. Tree(P)
  <2>1. RootTop(P)
    BY <1>1, <1>2, <1>3 DEF Tree, RootTop
  <2>2. LinksRight(P)
    BY <1>1, <1>2, <1>3 DEF Tree, LinksRight, Linked
  <2>3. AllLinked(P)
    BY <1>1, <1>2, <1>3, <1>4 DEF Tree, AllLinked
  <2>4. NoShortcut(P)
    <3>1. NoShortcut(ns)
      BY <1>3 DEF Tree
    <3>2. ASSUME NEW n \in LiveNodes(ns), NEW m \in LiveNodes(ns), n # m, On(n, Path(m))
          PROVE  /\ Len(Path(n)) < Len(Path(m))
                 /\ \E c : Linked(P, n, Path(m)[Len(Path(n)) + 1], c) /\ On(c, Path(m))
      <4>1. Len(Path(n)) < Len(Path(m))
        BY <3>1, <3>2 DEF NoShortcut
      <4>2. PICK c : Linked(ns, n, Path(m)[Len(Path(n)) + 1], c) /\ On(c, Path(m))
        BY <3>1, <3>2 DEF NoShortcut
      <4>3. Linked(P, n, Path(m)[Len(Path(n)) + 1], c)
        BY <1>4, <4>2
      <4> QED BY <4>1, <4>2, <4>3
    <3> QED BY <1>2, <3>2 DEF NoShortcut
  <2> QED BY <2>1, <2>2, <2>3, <2>4 DEF Tree
<1> QED BY <1>1, <1>2, <1>5, <1>6, <1>7 DEF Sound, P

(* The root has the empty path. *)
LEMMA RootId == Root \in NodeIds /\ Path(Root) = <<>> /\ Len(Path(Root)) = 0 /\ AtTop(Root)
<1> DEFINE z == <<>>
<1>1. z \in Seq(HCAddresses) /\ Len(z) = 0 /\ z = <<>>
  OBVIOUS
<1>2. Root = <<z, 0>>
  BY DEF Root
<1> HIDE DEF z
<1>3. <<z, 0>> \in Seq(HCAddresses) \X Nat /\ <<z, 0>>[1] = z
  <2> DEFINE S == Seq(HCAddresses)
  <2>1. z \in S
    BY <1>1
  <2> HIDE DEF S
  <2>2. <<z, 0>> \in S \X Nat
    BY <2>1
  <2>3. <<z, 0>>[1] = z
    OBVIOUS
  <2> QED BY <2>2, <2>3 DEF S
<1>4. Path(Root) = z
  BY <1>2, <1>3 DEF Path
<1> QED BY <1>1, <1>2, <1>3, <1>4 DEF NodeIds, AtTop

(* An empty root is a sound tree. *)
LEMMA RootSound ==
  ASSUME NEW slots, NEW room \in Nat,
         NEW ns, ns = [n \in {Root} |-> [BuildNode(0, [a \in HCAddresses |-> Empty]) EXCEPT
                                            !.max = room]]
  PROVE  /\ Sound(ns, slots) /\ DOMAIN ns = {Root} /\ LiveNodes(ns) = {Root} /\ AtTop(Root)
         /\ \A a \in HCAddresses : ns[Root].cont[a] = Empty
<1> DEFINE c == [a \in HCAddresses |-> Empty]
<1>1. /\ DOMAIN ns = {Root} /\ ns[Root].prefix = 0 /\ ns[Root].cont = c
      /\ ns[Root].max = room /\ ns[Root].removed = FALSE /\ ns[Root].updates = 0
      /\ ns[Root] = [prefix |-> 0, cont |-> c, max |-> room, removed |-> FALSE, updates |-> 0]
  BY DEF BuildNode
<1>2. \A a \in HCAddresses : c[a] = Empty
  OBVIOUS
<1>3. room \in Nat
  OBVIOUS
<1>4. Root \in NodeIds /\ Path(Root) = <<>> /\ Len(Path(Root)) = 0
  BY RootId
<1>5. LiveNodes(ns) = {Root}
  BY <1>1 DEF LiveNodes
<1>6. NodesTyped(ns, slots)
  <2>1. IsFiniteSet({Root}) /\ {Root} \subseteq NodeIds
    BY <1>4, FS_Singleton
  <2> DEFINE H == Holds({Root}, slots)
  <2>2. c \in [HCAddresses -> H]
    <3>1. Empty \in H
      BY DEF Holds
    <3> HIDE DEF H
    <3> QED BY <3>1
  <2>3. ns[Root] \in NodeFields(Root, {Root}, slots)
    <3> DEFINE cap == room
               C == [HCAddresses -> H]
               L == 0 .. Len(Path(Root))
    <3>2. cap \in Nat /\ c \in C /\ 0 \in L /\ FALSE \in BOOLEAN
      <4>1. 0 \in L
        BY <1>4
      <4>2. cap \in Nat
        BY <1>3
      <4>3. c \in C
        BY <2>2
      <4> HIDE DEF cap, C, L, c
      <4> QED BY <4>1, <4>2, <4>3
    <3>3. ns[Root] = [prefix |-> 0, cont |-> c, max |-> cap, removed |-> FALSE, updates |-> 0]
      BY <1>1
    <3> HIDE DEF c, H, cap, C, L
    <3>4. ns[Root] \in [prefix : L, cont : C, max : Nat, removed : BOOLEAN, updates : Nat]
      <4>1. [prefix |-> 0, cont |-> c, max |-> cap, removed |-> FALSE, updates |-> 0]
              \in [prefix : L, cont : C, max : Nat, removed : BOOLEAN, updates : Nat]
        BY <3>2
      <4> QED BY <3>3, <4>1
    <3>1. ns[Root] \in [prefix : 0 .. Len(Path(Root)), cont : [HCAddresses -> H],
                        max : Nat, removed : BOOLEAN, updates : Nat]
      BY <3>4 DEF C, L
    <3> QED BY <3>1 DEF NodeFields, H
  <2>4. 0 < WIDTH
    BY DimAssumption
  <2> HIDE DEF c, H
  <2> QED BY <1>1, <1>4, <2>1, <2>3, <2>4 DEF NodesTyped, IdsTyped
<1>7. Room(ns)
  <2>1. {a \in HCAddresses : ns[Root].cont[a] # Empty} = {}
    BY <1>1, <1>2
  <2>2. NContents(ns[Root]) = 0
    BY <2>1, FS_EmptySet DEF NContents
  <2> QED BY <1>1, <1>3, <2>2 DEF Room
<1>8. Spread(ns) /\ Placed(ns)
  <2>1. Spread(ns)
    BY <1>1, <1>4 DEF Spread, AtTop
  <2>2. \A e : Empty # Suffix(e)
    BY Kinds
  <2>3. Placed(ns)
    BY <1>1, <1>2, <1>5, <2>2 DEF Placed
  <2> QED BY <2>1, <2>3
<1>9. Tree(ns)
  <2>1. \A a \in HCAddresses : \A m : ~Linked(ns, Root, a, m)
    BY <1>1, <1>2, SubNotEmpty DEF Linked
  <2>2. RootTop(ns)
    BY <1>1, <1>4, <1>5 DEF RootTop, AtTop
  <2>3. LinksRight(ns) /\ AllLinked(ns) /\ NoShortcut(ns)
    BY <1>4, <1>5, <2>1 DEF LinksRight, AllLinked, NoShortcut, AtTop
  <2> QED BY <2>2, <2>3 DEF Tree
<1> QED BY <1>1, <1>2, <1>4, <1>5, <1>6, <1>7, <1>8, <1>9 DEF Sound, AtTop

-----------------------------------------------------------------------------
(* The entries of the nodes and the buffers *)

(* The first row of each key is kept.                                      *)
LEMMA DistinctIs ==
  ASSUME NEW rows, NEW f
  PROVE  f \in DistinctRows(rows) <=>
           \E i \in DOMAIN rows : rows[i] = f /\ \A k \in 1 .. i - 1 : Key[rows[k]] # Key[f]
<1>1. f \in DistinctRows(rows) <=>
           \E i \in {j \in DOMAIN rows : \A k \in 1 .. j - 1 : Key[rows[k]] # Key[rows[j]]} : rows[i] = f
  BY DEF DistinctRows
<1> QED BY <1>1

(* A buffer's entries have different keys. *)
LEMMA DistinctKeys ==
  ASSUME NEW rows \in Seq(Entries), NEW f \in DistinctRows(rows), NEW g \in DistinctRows(rows),
         Key[f] = Key[g]
  PROVE  f = g
<1>1. PICK i \in DOMAIN rows : rows[i] = f /\ \A k \in 1 .. i - 1 : Key[rows[k]] # Key[f]
  BY DistinctIs
<1>2. PICK j \in DOMAIN rows : rows[j] = g /\ \A k \in 1 .. j - 1 : Key[rows[k]] # Key[g]
  BY DistinctIs
<1>3. i \in 1 .. Len(rows) /\ j \in 1 .. Len(rows) /\ Len(rows) \in Nat
  OBVIOUS
<1>4. ~(i < j) /\ ~(j < i)
  BY <1>1, <1>2, <1>3
<1> QED BY <1>1, <1>2, <1>3, <1>4

(* Another row adds its entry or, if its key is known, nothing.            *)
LEMMA RowAppended ==
  ASSUME NEW rows \in Seq(Entries), NEW e \in Entries
  PROVE  \/ DistinctRows(Append(rows, e)) = DistinctRows(rows)
         \/ DistinctRows(Append(rows, e)) = DistinctRows(rows) \cup {e}
<1> DEFINE r2 == Append(rows, e)
           m == Len(rows)
<1>1. m \in Nat /\ DOMAIN rows = 1 .. m /\ DOMAIN r2 = 1 .. m + 1
      /\ (\A i \in 1 .. m : r2[i] = rows[i]) /\ r2[m + 1] = e
  OBVIOUS
<1> HIDE DEF r2, m
<1>2. ASSUME NEW f
      PROVE  f \in DistinctRows(r2) <=>
               \/ f \in DistinctRows(rows)
               \/ f = e /\ \A k \in 1 .. m : Key[rows[k]] # Key[e]
  <2>1. f \in DistinctRows(r2) <=>
           \E i \in 1 .. m + 1 : r2[i] = f /\ \A k \in 1 .. i - 1 : Key[r2[k]] # Key[f]
    BY <1>1, DistinctIs
  <2>2. f \in DistinctRows(rows) <=>
           \E i \in 1 .. m : rows[i] = f /\ \A k \in 1 .. i - 1 : Key[rows[k]] # Key[f]
    BY <1>1, DistinctIs
  <2>3. ASSUME NEW i \in 1 .. m
        PROVE  (r2[i] = f /\ \A k \in 1 .. i - 1 : Key[r2[k]] # Key[f])
                 <=> (rows[i] = f /\ \A k \in 1 .. i - 1 : Key[rows[k]] # Key[f])
    <3>1. \A k \in 1 .. i - 1 : k \in 1 .. m
      BY <1>1
    <3> QED BY <1>1, <3>1
  <2>4. (r2[m + 1] = f /\ \A k \in 1 .. (m + 1) - 1 : Key[r2[k]] # Key[f])
                 <=> (f = e /\ \A k \in 1 .. m : Key[rows[k]] # Key[e])
    <3>1. (m + 1) - 1 = m
      BY <1>1
    <3> QED BY <1>1, <3>1
  <2>5. 1 .. m + 1 = 1 .. m \cup {m + 1}
    BY <1>1
  <2> QED BY <2>1, <2>2, <2>3, <2>4, <2>5
<1>3. CASE \A k \in 1 .. m : Key[rows[k]] # Key[e]
  <2>1. DistinctRows(r2) = DistinctRows(rows) \cup {e}
    BY <1>2, <1>3
  <2> QED BY <2>1 DEF r2
<1>4. CASE ~ \A k \in 1 .. m : Key[rows[k]] # Key[e]
  <2>1. DistinctRows(r2) = DistinctRows(rows)
    BY <1>2, <1>4
  <2> QED BY <2>1 DEF r2
<1> QED BY <1>3, <1>4

(* Two rows with different keys, and none. *)
LEMMA FewRows ==
  /\ DistinctRows(<<>>) = {}
  /\ \A e, f : Key[e] # Key[f] => DistinctRows(<<e, f>>) = {e, f}
<1>1. DistinctRows(<<>>) = {}
  <2> DEFINE z == <<>>
  <2>1. DOMAIN z = {}
    OBVIOUS
  <2> HIDE DEF z
  <2>2. DistinctRows(z) = {}
    BY <2>1, DistinctIs
  <2> QED BY <2>2 DEF z
<1>2. ASSUME NEW e, NEW f, Key[e] # Key[f]
      PROVE  DistinctRows(<<e, f>>) = {e, f}
  <2> DEFINE r == <<e, f>>
  <2>1. DOMAIN r = 1 .. 2 /\ r[1] = e /\ r[2] = f
    OBVIOUS
  <2> HIDE DEF r
  <2>2. ASSUME NEW g PROVE g \in DistinctRows(r) <=> g = e \/ g = f
    <3>1. g \in DistinctRows(r) <=>
            \E i \in 1 .. 2 : r[i] = g /\ \A k \in 1 .. i - 1 : Key[r[k]] # Key[g]
      BY <2>1, DistinctIs
    <3>2. 1 .. 2 = {1, 2} /\ 1 .. 1 - 1 = {} /\ 1 .. 2 - 1 = {1}
      OBVIOUS
    <3> QED BY <1>2, <2>1, <3>1, <3>2
  <2>3. DistinctRows(r) = {e, f}
    BY <2>2
  <2> QED BY <2>3 DEF r
<1> QED BY <1>1, <1>2

(* A stored entry is in a node or a kept row of a buffer.                  *)
LEMMA StoredIs ==
  ASSUME NEW ns, NEW bs, NEW f
  PROVE  f \in StoredIn(ns, bs) <=>
           f \in SuffixEntries(ns) \/ \E s \in DOMAIN bs : f \in DistinctRows(bs[s].rows)
  BY DEF StoredIn

(* A stored entry lies at a place its key leads to.                        *)
LEMMA StoredLies ==
  ASSUME NEW ns, NEW bs, NEW slots, NEW fields, Sound(ns, slots), Hung(ns, bs, slots, fields), BuffersLie(bs, slots),
         NEW f \in StoredIn(ns, bs)
  PROVE  /\ f \in Entries
         /\ \E n \in LiveNodes(ns), a \in HCAddresses :
              /\ Leads(n, a, Key[f]) /\ \A m : ~Linked(ns, n, a, m)
              /\ \/ ns[n].cont[a] = Suffix(f)
                 \/ \E s \in slots : ns[n].cont[a] = Buf(s) /\ f \in DistinctRows(bs[s].rows)
<1>1. NodesTyped(ns, slots) /\ Placed(ns) /\ DOMAIN bs = slots
  BY DEF Sound, Hung
<1>2. CASE f \in SuffixEntries(ns)
  <2>1. PICK n \in LiveNodes(ns), a \in HCAddresses : ns[n].cont[a] = Suffix(f)
    BY <1>1, <1>2, SuffixEntriesAre
  <2>2. Leads(n, a, Key[f])
    BY <1>1, <2>1 DEF Placed
  <2>3. \A m : ~Linked(ns, n, a, m)
    BY <2>1, SubNotEmpty DEF Linked
  <2>4. f \in Entries
    <3>1. n \in DOMAIN ns
      BY DEF LiveNodes
    <3>2. \E e \in Entries : ns[n].cont[a] = Suffix(e)
      BY <1>1, <2>1, <3>1, ContentType, SubNotEmpty
    <3>3. PICK e \in Entries : Suffix(f) = Suffix(e)
      BY <2>1, <3>2
    <3>4. f = e
      BY <3>3, Kinds
    <3> QED BY <3>4
  <2> QED BY <2>1, <2>2, <2>3, <2>4
<1>3. CASE \E s \in DOMAIN bs : f \in DistinctRows(bs[s].rows)
  <2>1. PICK s \in slots : f \in DistinctRows(bs[s].rows)
    BY <1>1, <1>3
  <2>2. bs[s].node # None
    <3> SUFFICES ASSUME bs[s].node = None PROVE FALSE
      OBVIOUS
    <3>1. bs[s].rows = <<>>
      BY DEF Hung
    <3> QED BY <2>1, <3>1, FewRows
  <2>3. PICK i \in DOMAIN bs[s].rows : bs[s].rows[i] = f
    BY <2>1, DistinctIs
  <2>4. /\ bs[s].node \in LiveNodes(ns) /\ bs[s].addr \in HCAddresses
        /\ ns[bs[s].node].cont[bs[s].addr] = Buf(s)
    BY <2>2 DEF Hung
  <2>5. RowsLie(bs[s])
    BY <2>2 DEF BuffersLie
  <2>6. bs[s].rows \in Seq(Entries) /\ Leads(bs[s].node, bs[s].addr, Key[f])
    BY <2>3, <2>5 DEF RowsLie
  <2>7. f \in Entries
    BY <2>3, <2>6
  <2>8. \A m : ~Linked(ns, bs[s].node, bs[s].addr, m)
    BY <2>4, SubNotEmpty DEF Linked
  <2> QED BY <2>1, <2>4, <2>6, <2>7, <2>8
<1> QED BY <1>2, <1>3, StoredIs

(* Stored entries have different keys. *)
LEMMA OneKey ==
  ASSUME NEW ns, NEW bs, NEW slots, NEW fields, Sound(ns, slots), Hung(ns, bs, slots, fields), BuffersLie(bs, slots),
         NEW f \in StoredIn(ns, bs), NEW g \in StoredIn(ns, bs), Key[f] = Key[g]
  PROVE  f = g
<1>1. f \in Entries /\ g \in Entries /\ IdsTyped(ns) /\ Tree(ns)
  BY StoredLies DEF Sound, NodesTyped
<1>2. PICK n \in LiveNodes(ns), a \in HCAddresses :
              /\ Leads(n, a, Key[f]) /\ \A m : ~Linked(ns, n, a, m)
              /\ \/ ns[n].cont[a] = Suffix(f)
                 \/ \E s \in slots : ns[n].cont[a] = Buf(s) /\ f \in DistinctRows(bs[s].rows)
  BY StoredLies
<1>3. PICK k \in LiveNodes(ns), b \in HCAddresses :
              /\ Leads(k, b, Key[g]) /\ \A m : ~Linked(ns, k, b, m)
              /\ \/ ns[k].cont[b] = Suffix(g)
                 \/ \E s \in slots : ns[k].cont[b] = Buf(s) /\ g \in DistinctRows(bs[s].rows)
  BY StoredLies
<1>4. n = k /\ a = b
  <2>1. Len(Path(n)) \in Nat /\ Len(Path(k)) \in Nat
    BY <1>1, PathType DEF IdsTyped, LiveNodes
  <2> DEFINE q == Key[f]
  <2>2. q \in Seq(HCAddresses)
    BY <1>1, KeyType
  <2>3. Leads(n, a, q) /\ Leads(k, b, q)
    BY <1>2, <1>3
  <2> HIDE DEF q
  <2>4. CASE Len(Path(n)) <= Len(Path(k))
    BY <1>1, <1>2, <1>3, <2>2, <2>3, <2>4, OnePlaceBelow
  <2>5. CASE Len(Path(k)) <= Len(Path(n))
    BY <1>1, <1>2, <1>3, <2>2, <2>3, <2>5, OnePlaceBelow
  <2> QED BY <2>1, <2>4, <2>5
<1>5. CASE ns[n].cont[a] = Suffix(f)
  BY <1>3, <1>4, <1>5, Kinds, SubNotEmpty
<1>6. CASE \E s \in slots : ns[n].cont[a] = Buf(s) /\ f \in DistinctRows(bs[s].rows)
  <2>1. PICK s \in slots : ns[n].cont[a] = Buf(s) /\ f \in DistinctRows(bs[s].rows)
    BY <1>6
  <2>2. g \in DistinctRows(bs[s].rows)
    BY <1>3, <1>4, <2>1, Kinds, SubNotEmpty
  <2>3. bs[s].rows \in Seq(Entries)
    <3>1. bs[s].node # None
      <4> SUFFICES ASSUME bs[s].node = None PROVE FALSE
        OBVIOUS
      <4>1. bs[s].rows = <<>>
        BY DEF Hung
      <4> QED BY <2>1, <4>1, FewRows
    <3> QED BY <3>1 DEF BuffersLie, RowsLie
  <2> QED BY <2>1, <2>2, <2>3, DistinctKeys
<1> QED BY <1>2, <1>5, <1>6

(* An entry that was added is new, or nothing was added.                   *)
LEMMA NewKey ==
  ASSUME NEW ns, NEW bs, NEW slots, NEW fields, Sound(ns, slots), Hung(ns, bs, slots, fields), BuffersLie(bs, slots),
         NEW S, NEW e, StoredIn(ns, bs) = S \cup {e}
  PROVE  StoredIn(ns, bs) = S \/ \A f \in S : Key[f] # Key[e]
<1> SUFFICES ASSUME NEW f \in S, Key[f] = Key[e]
             PROVE  StoredIn(ns, bs) = S
  OBVIOUS
<1>1. f \in StoredIn(ns, bs) /\ e \in StoredIn(ns, bs)
  OBVIOUS
<1>2. f = e
  BY <1>1, OneKey
<1> QED BY <1>2

(* The entries of a flushed buffer are in its subtree.                     *)
LEMMA FlushedStored ==
  ASSUME NEW ns, NEW slots, NEW fields, NEW bufs, NEW S, Full(ns, bufs, S, slots, fields)
  PROVE  SuffixEntries(Flushed(ns, Picked(bufs, S)))
           = SuffixEntries(ns) \cup UNION {DistinctRows(bufs[s].rows) : s \in S}
<1> DEFINE bs == Picked(bufs, S)
<1>1. /\ HangingOnce(ns, bs) /\ IsFiniteSet(bs)
      /\ \A b \in bs : \E s : ns[b.node].cont[b.addr] = Buf(s)
  BY PickedHang
<1>2. NodesTyped(ns, slots) /\ Tree(ns)
  BY DEF Full, Sound
<1>3. UNION {DistinctRows(b.rows) : b \in bs} = UNION {DistinctRows(bufs[s].rows) : s \in S}
  BY DEF Picked
<1> HIDE DEF bs
<1>4. SuffixEntries(Flushed(ns, bs)) = SuffixEntries(ns) \cup UNION {DistinctRows(b.rows) : b \in bs}
  BY <1>1, <1>2, FlushedEntries
<1> QED BY <1>3, <1>4 DEF bs

(* A flush turns the buffers into subtrees: the others stay hung up, all   *)
(* entries stay stored, and nodes and links stay.                          *)
LEMMA FlushedStays ==
  ASSUME NEW ns, NEW slots, NEW fields, NEW bufs, NEW S, Full(ns, bufs, S, slots, fields),
         NEW F, F = Flushed(ns, Picked(bufs, S)),
         NEW clear, clear.node = None, clear.rows = <<>>, DOMAIN clear = fields,
         NEW bufs2, DOMAIN bufs2 = slots, \A s \in slots : bufs2[s] = IF s \in S THEN clear ELSE bufs[s]
  PROVE  /\ Sound(F, slots) /\ Hung(F, bufs2, slots, fields) /\ BuffersLie(bufs2, slots)
         /\ StoredIn(F, bufs2) = StoredIn(ns, bufs)
         /\ LiveNodes(ns) \subseteq LiveNodes(F)
         /\ \A n \in LiveNodes(ns), a \in HCAddresses : \A m : Linked(ns, n, a, m) => Linked(F, n, a, m)
<1> DEFINE bs == Picked(bufs, S)
<1>1. /\ HangingOnce(ns, bs) /\ IsFiniteSet(bs)
      /\ \A b \in bs : \E s : ns[b.node].cont[b.addr] = Buf(s)
  BY PickedHang
<1>2. Sound(ns, slots) /\ NodesTyped(ns, slots) /\ Tree(ns) /\ S \subseteq slots
  BY DEF Full, Sound
<1>3. F = Flushed(ns, bs)
  OBVIOUS
<1>4. SuffixEntries(F) = SuffixEntries(ns) \cup UNION {DistinctRows(bufs[s].rows) : s \in S}
  BY FlushedStored
<1>5. /\ \A r \in slots \ S : bufs[r].node # None =>
            /\ bufs[r].node \in LiveNodes(F) /\ F[bufs[r].node].cont[bufs[r].addr] = Buf(r)
      /\ \A k \in LiveNodes(F), b \in HCAddresses : \A r : F[k].cont[b] = Buf(r) =>
            r \in slots \ S /\ bufs[r].node = k /\ bufs[r].addr = b
  BY FlushedBuffers
<1> HIDE DEF bs
<1>6. Sound(F, slots)
  BY <1>1, <1>2, <1>3, FlushedSound
<1>7. LiveNodes(ns) \subseteq LiveNodes(F)
  BY <1>1, <1>2, <1>3, FlushedLive
<1>8. ASSUME NEW n \in LiveNodes(ns), NEW a \in HCAddresses, NEW m, Linked(ns, n, a, m)
      PROVE  Linked(F, n, a, m)
  <2>1. n \in DOMAIN ns
    BY DEF LiveNodes
  <2>2. \A s : ns[n].cont[a] # Buf(s)
    BY <1>8, SubNotEmpty DEF Linked
  <2>3. F[n].cont[a] = ns[n].cont[a]
    BY <1>1, <1>2, <1>3, <2>1, <2>2, FlushedOr
  <2> QED BY <1>8, <2>3 DEF Linked
<1>9. /\ {"node", "addr", "rows"} \subseteq fields /\ \A s \in slots : DOMAIN bufs[s] = fields
      /\ \A s \in slots : bufs[s].node = None => bufs[s].rows = <<>>
      /\ \A s \in slots : bufs[s].node # None => bufs[s].addr \in HCAddresses
      /\ DOMAIN bufs = slots
  BY DEF Full, Hung
<1>10. Hung(F, bufs2, slots, fields)
  <2>1. \A s \in slots : DOMAIN bufs2[s] = fields /\ (bufs2[s].node = None => bufs2[s].rows = <<>>)
    BY <1>9
  <2>2. ASSUME NEW s \in slots, bufs2[s].node # None
        PROVE  /\ bufs2[s].node \in LiveNodes(F) /\ bufs2[s].addr \in HCAddresses
               /\ F[bufs2[s].node].cont[bufs2[s].addr] = Buf(s)
    <3>1. s \notin S /\ bufs2[s] = bufs[s]
      BY <2>2
    <3> QED BY <1>5, <1>9, <2>2, <3>1
  <2>3. ASSUME NEW n \in LiveNodes(F), NEW a \in HCAddresses, NEW s, F[n].cont[a] = Buf(s)
        PROVE  s \in slots /\ bufs2[s].node = n /\ bufs2[s].addr = a
    <3>1. s \in slots \ S /\ bufs[s].node = n /\ bufs[s].addr = a
      BY <1>5, <2>3
    <3> QED BY <3>1
  <2> QED BY <1>9, <2>1, <2>2, <2>3 DEF Hung
<1>11. BuffersLie(bufs2, slots)
  <2> SUFFICES ASSUME NEW s \in slots, bufs2[s].node # None
               PROVE  RowsLie(bufs2[s])
    BY DEF BuffersLie
  <2>1. bufs2[s] = bufs[s]
    OBVIOUS
  <2> QED BY <2>1 DEF Full, BuffersLie
<1>12. ASSUME NEW g PROVE g \in StoredIn(F, bufs2) <=> g \in StoredIn(ns, bufs)
  <2>1. g \in StoredIn(F, bufs2) <=>
          g \in SuffixEntries(F) \/ \E s \in slots : g \in DistinctRows(bufs2[s].rows)
    BY StoredIs
  <2>2. g \in StoredIn(ns, bufs) <=>
          g \in SuffixEntries(ns) \/ \E s \in slots : g \in DistinctRows(bufs[s].rows)
    BY <1>9, StoredIs
  <2>3. \A s \in S : g \notin DistinctRows(bufs2[s].rows)
    BY <1>2, FewRows
  <2>4. \A s \in slots \ S : bufs2[s] = bufs[s]
    OBVIOUS
  <2>5. g \in SuffixEntries(F) <=> g \in SuffixEntries(ns) \/ \E s \in S : g \in DistinctRows(bufs[s].rows)
    BY <1>4
  <2> QED BY <1>2, <2>1, <2>2, <2>3, <2>4, <2>5
<1> QED BY <1>6, <1>7, <1>8, <1>10, <1>11, <1>12
=============================================================================
