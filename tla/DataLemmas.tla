------------------------------ MODULE DataLemmas ------------------------------
(***************************************************************************)
(* Facts about numbers, prefixes of sequences and finite sets that the     *)
(* proofs of several modules rest on.                                      *)
(***************************************************************************)
EXTENDS Integers, Sequences, FiniteSets, SequencesExt, FiniteSetTheorems, SequenceTheorems, TLAPS

-----------------------------------------------------------------------------
(* Products and quotients, stated on their own because the solver only     *)
(* uses non-linear arithmetic it is given.                                 *)

(* Division with remainder. *)
LEMMA DivMod ==
  ASSUME NEW n \in Nat, NEW d \in Nat \ {0}
  PROVE  /\ n \div d \in Nat
         /\ n % d \in 0 .. d - 1
         /\ n = d * (n \div d) + (n % d)
  BY SMT

(* Multiplication is monotone and distributes over the successor. *)
LEMMA MulMonotone ==
  ASSUME NEW a \in Nat, NEW b \in Nat, NEW c \in Nat, b <= c
  PROVE  a * b <= a * c
  BY SMT

LEMMA MulSucc ==
  ASSUME NEW a \in Nat, NEW b \in Nat
  PROVE  a * (b + 1) = a * b + a
  BY SMT

(* a < d*b and its converse decide on which side of b the quotient lies.   *)
LEMMA QuotientBelow ==
  ASSUME NEW a \in Nat, NEW d \in Nat \ {0}, NEW b \in Nat
  PROVE  a < d * b <=> a \div d < b
<1> DEFINE q == a \div d
<1>1. q \in Nat /\ a % d \in 0 .. d - 1 /\ a = d * q + (a % d)
  BY DivMod
<1> HIDE DEF q
<1>2. ASSUME q >= b PROVE ~(a < d * b)
  <2>1. d * b <= d * q
    BY <1>1, <1>2, MulMonotone
  <2>2. d * b \in Nat /\ d * q \in Nat
    BY <1>1, SMT
  <2>3. QED BY <2>1, <2>2, <1>1
<1>3. ASSUME q < b PROVE a < d * b
  <2>1. d * (q + 1) <= d * b
    BY <1>1, <1>3, MulMonotone
  <2>2. d * (q + 1) = d * q + d
    BY <1>1, MulSucc
  <2>3. d * b \in Nat /\ d * q \in Nat
    BY <1>1, SMT
  <2>4. QED BY <2>1, <2>2, <2>3, <1>1
<1>4. a < d * b <=> q < b
  BY <1>1, <1>2, <1>3
<1>5. QED BY <1>4 DEF q

-----------------------------------------------------------------------------
(* Prefixes *)

(* A prefix agrees with the sequence in every place it has.                *)
LEMMA PrefixIff ==
  ASSUME NEW A, NEW p \in Seq(A), NEW q \in Seq(A)
  PROVE  IsPrefix(p, q) <=> Len(p) <= Len(q) /\ \A i \in 1 .. Len(p) : p[i] = q[i]
<1>1. SubSeq(p, 1, Len(p)) = p
  BY SubSeqFull
<1>2. ASSUME Len(p) <= Len(q)
      PROVE  /\ SubSeq(q, 1, Len(p)) \in Seq(A) /\ Len(SubSeq(q, 1, Len(p))) = Len(p)
             /\ \A i \in 1 .. Len(p) : SubSeq(q, 1, Len(p))[i] = q[i]
  BY <1>2
<1>3. ASSUME Len(p) <= Len(q), \A i \in 1 .. Len(p) : p[i] = q[i]
      PROVE  p = SubSeq(q, 1, Len(p))
  BY <1>2, <1>3, SeqEqual
<1>4. IsPrefix(p, q) <=> Len(p) <= Len(q) /\ p = SubSeq(q, 1, Len(p))
  BY <1>1 DEF IsPrefix
<1> HIDE DEF IsPrefix
<1>5. CASE Len(p) <= Len(q)
  <2>1. p = SubSeq(q, 1, Len(p)) => \A i \in 1 .. Len(p) : p[i] = q[i]
    BY <1>2, <1>5
  <2> QED BY <1>3, <1>4, <1>5, <2>1
<1>6. CASE ~(Len(p) <= Len(q))
  BY <1>4, <1>6
<1> QED BY <1>5, <1>6

(* The first k elements of a sequence are a prefix of length k.            *)
LEMMA SubSeqPrefix ==
  ASSUME NEW A, NEW q \in Seq(A), NEW k \in 0 .. Len(q)
  PROVE  SubSeq(q, 1, k) \in Seq(A) /\ Len(SubSeq(q, 1, k)) = k /\ IsPrefix(SubSeq(q, 1, k), q)
         /\ \A i \in 1 .. k : SubSeq(q, 1, k)[i] = q[i]
<1>1. /\ SubSeq(q, 1, k) \in Seq(A) /\ Len(SubSeq(q, 1, k)) = k
      /\ \A i \in 1 .. k : SubSeq(q, 1, k)[i] = q[i]
  OBVIOUS
<1> DEFINE r == SubSeq(q, 1, k)
<1> HIDE DEF r
<1>2. r \in Seq(A) /\ Len(r) <= Len(q) /\ \A i \in 1 .. Len(r) : r[i] = q[i]
  BY <1>1 DEF r
<1>3. IsPrefix(r, q)
  BY <1>2, PrefixIff
<1> QED BY <1>1, <1>3 DEF r

(* A prefix of the full length is the sequence.                            *)
LEMMA PrefixSame ==
  ASSUME NEW A, NEW p \in Seq(A), NEW q \in Seq(A), IsPrefix(p, q), Len(p) = Len(q)
  PROVE  p = q
  BY PrefixIff, SeqEqual

(* A prefix of a prefix is a prefix.                                       *)
LEMMA PrefixTrans ==
  ASSUME NEW A, NEW p \in Seq(A), NEW q \in Seq(A), NEW r \in Seq(A), IsPrefix(p, q),
         IsPrefix(q, r)
  PROVE  IsPrefix(p, r)
  BY PrefixIff

(* Of two prefixes of a sequence the shorter is a prefix of the longer.    *)
LEMMA PrefixOrder ==
  ASSUME NEW A, NEW p \in Seq(A), NEW q \in Seq(A), NEW r \in Seq(A), IsPrefix(p, r),
         IsPrefix(q, r), Len(p) <= Len(q)
  PROVE  IsPrefix(p, q)
  BY PrefixIff

(* An extended path is a prefix if the path is and the next element is the *)
(* one appended.                                                           *)
LEMMA PrefixAppend ==
  ASSUME NEW A, NEW p \in Seq(A), NEW a \in A, NEW q \in Seq(A)
  PROVE  IsPrefix(Append(p, a), q) <=> IsPrefix(p, q) /\ Len(p) < Len(q) /\ q[Len(p) + 1] = a
<1>1. /\ Append(p, a) \in Seq(A) /\ Len(Append(p, a)) = Len(p) + 1
      /\ \A i \in 1 .. Len(p) : Append(p, a)[i] = p[i]
      /\ Append(p, a)[Len(p) + 1] = a
  OBVIOUS
<1>2. \A i \in 1 .. Len(p) + 1 : i \in 1 .. Len(p) \/ i = Len(p) + 1
  <2>1. Len(p) \in Nat
    OBVIOUS
  <2> QED BY <2>1
<1> DEFINE pa == Append(p, a)
<1> HIDE DEF pa
<1>3. IsPrefix(pa, q) <=> Len(pa) <= Len(q) /\ \A i \in 1 .. Len(pa) : pa[i] = q[i]
  <2>1. pa \in Seq(A)
    BY <1>1 DEF pa
  <2> QED BY <2>1, PrefixIff
<1>4. IsPrefix(p, q) <=> Len(p) <= Len(q) /\ \A i \in 1 .. Len(p) : p[i] = q[i]
  BY PrefixIff
<1>5. Len(p) \in Nat /\ Len(q) \in Nat
  OBVIOUS
<1>6. /\ Len(pa) = Len(p) + 1
      /\ \A i \in 1 .. Len(p) : pa[i] = p[i]
      /\ pa[Len(p) + 1] = a
  BY <1>1 DEF pa
<1>7. ASSUME IsPrefix(pa, q) PROVE IsPrefix(p, q) /\ Len(p) < Len(q) /\ q[Len(p) + 1] = a
  BY <1>3, <1>4, <1>5, <1>6, <1>7
<1>8. ASSUME IsPrefix(p, q), Len(p) < Len(q), q[Len(p) + 1] = a PROVE IsPrefix(pa, q)
  BY <1>2, <1>3, <1>4, <1>5, <1>6, <1>8
<1> QED BY <1>7, <1>8 DEF pa

-----------------------------------------------------------------------------
(* The longest common prefix *)

(* A set of natural numbers has a least one. *)
LEMMA LeastNatural ==
  ASSUME NEW T \in SUBSET Nat, T # {}
  PROVE  \E t \in T : \A u \in T : t <= u
<1> DEFINE F == {1 .. t : t \in T}
           R == StrictSubsetOrdering(Nat)
<1>1. F \subseteq FiniteSubsetsOf(Nat) /\ F # {}
  <2>1. \A t \in T : IsFiniteSet(1 .. t) /\ 1 .. t \in SUBSET Nat
    <3> TAKE t \in T
    <3>1. IsFiniteSet(1 .. t)
      BY FS_Interval
    <3> QED BY <3>1
  <2> QED BY <2>1 DEF FiniteSubsetsOf
<1>2. PICK f \in F : \A g \in F : ~ (<<g, f>> \in R)
  <2>1. IsWellFoundedOn(R, FiniteSubsetsOf(Nat))
    BY FS_StrictSubsetOrderingWellFounded
  <2> HIDE DEF F, R
  <2> QED BY <1>1, <2>1, WFMin
<1>3. PICK t \in T : f = 1 .. t
  OBVIOUS
<1>4. ASSUME NEW u \in T, u < t PROVE FALSE
  <2>1. 1 .. u \in F
    OBVIOUS
  <2>2. 1 .. u \subseteq 1 .. t /\ t \in 1 .. t /\ t \notin 1 .. u
    BY <1>4
  <2>3. <<1 .. u, f>> \in R
    BY <1>3, <2>2 DEF StrictSubsetOrdering
  <2> QED BY <1>2, <2>1, <2>3
<1> QED BY <1>3, <1>4

(* A bounded length is greatest somewhere.                                 *)
LEMMA LongestExists ==
  ASSUME NEW S, S # {}, NEW m \in Nat, NEW len \in [S -> 0 .. m]
  PROVE  \E x \in S : \A y \in S : len[y] <= len[x]
<1> DEFINE T == {m - len[x] : x \in S}
<1>1. T \subseteq Nat /\ T # {}
  OBVIOUS
<1>2. PICK t \in T : \A u \in T : t <= u
  BY <1>1, LeastNatural
<1>3. PICK x \in S : t = m - len[x]
  BY Zenon
<1>4. \A y \in S : m - len[x] <= m - len[y]
  BY <1>2, <1>3
<1> QED BY <1>4

(* LongestCommonPrefix is a common prefix, and the longest one.            *)
LEMMA CommonPrefix ==
  ASSUME NEW A, NEW S \in SUBSET Seq(A), S # {}
  PROVE  LET p == LongestCommonPrefix(S) IN
           /\ p \in Seq(A)
           /\ \A t \in S : IsPrefix(p, t)
           /\ \A q \in Seq(A) : (\A t \in S : IsPrefix(q, t)) => IsPrefix(q, p)
<1> DEFINE C == CommonPrefixes(S)
<1>1. \A q \in Seq(A) : (\A t \in S : IsPrefix(q, t)) => q \in C
  <2> SUFFICES ASSUME NEW q \in Seq(A), \A t \in S : IsPrefix(q, t) PROVE q \in C
    OBVIOUS
  <2>1. PICK t \in S : TRUE
    OBVIOUS
  <2>2. q = SubSeq(t, 1, Len(q)) /\ Len(q) \in 0 .. Len(t)
    BY <2>1, SubSeqFull DEF IsPrefix
  <2>3. q \in Prefixes(t)
    BY <2>2 DEF Prefixes
  <2> QED BY <2>1, <2>3 DEF CommonPrefixes
<1>2. \A q \in C : q \in Seq(A) /\ \A t \in S : IsPrefix(q, t)
  <2>1. \A t \in S : \A l \in 0 .. Len(t) : SubSeq(t, 1, l) \in Seq(A)
    BY SubSeqPrefix
  <2> QED BY <2>1 DEF CommonPrefixes, Prefixes
<1>3. C # {}
  <2>1. << >> \in Seq(A) /\ \A t \in S : IsPrefix(<< >>, t)
    BY SMT DEF IsPrefix
  <2> QED BY <1>1, <2>1
<1>4. PICK t \in S : TRUE
  OBVIOUS
<1> HIDE DEF C
<1> DEFINE len == [q \in C |-> Len(q)]
<1>5. len \in [C -> 0 .. Len(t)]
  BY <1>2, <1>4, PrefixIff
<1>6. \E p \in C : \A q \in C : Len(q) <= Len(p)
  <2>1. \E p \in C : \A q \in C : len[q] <= len[p]
    <3> HIDE DEF len
    <3> QED BY <1>3, <1>5, LongestExists
  <2> QED BY <2>1
<1>7. LongestCommonPrefix(S) \in C /\ \A q \in C : Len(q) <= Len(LongestCommonPrefix(S))
  BY <1>6 DEF LongestCommonPrefix, C
<1> DEFINE p == LongestCommonPrefix(S)
<1> HIDE DEF p
<1>8. p \in Seq(A) /\ \A s \in S : IsPrefix(p, s)
  BY <1>2, <1>7 DEF p
<1>9. ASSUME NEW q \in Seq(A), \A s \in S : IsPrefix(q, s)
      PROVE  IsPrefix(q, p)
  BY <1>1, <1>4, <1>7, <1>8, <1>9, PrefixOrder DEF p
<1> QED BY <1>8, <1>9 DEF p

(* Two sequences of which none is a prefix of the other part behind their  *)
(* common prefix.                                                          *)
LEMMA CommonApart ==
  ASSUME NEW A, NEW x \in Seq(A), NEW y \in Seq(A), ~IsPrefix(x, y), ~IsPrefix(y, x)
  PROVE  LET p == LongestCommonPrefix({x, y}) IN
           /\ p \in Seq(A) /\ Len(p) < Len(x) /\ Len(p) < Len(y)
           /\ IsPrefix(p, x) /\ IsPrefix(p, y)
           /\ x[Len(p) + 1] # y[Len(p) + 1]
<1> DEFINE p == LongestCommonPrefix({x, y})
<1>1. /\ p \in Seq(A) /\ IsPrefix(p, x) /\ IsPrefix(p, y)
      /\ \A q \in Seq(A) : IsPrefix(q, x) /\ IsPrefix(q, y) => IsPrefix(q, p)
  BY CommonPrefix
<1> HIDE DEF p
<1>2. Len(p) < Len(x) /\ Len(p) < Len(y)
  <2>1. Len(p) <= Len(x) /\ Len(p) <= Len(y)
    BY <1>1, PrefixIff
  <2>2. Len(p) # Len(x) /\ Len(p) # Len(y)
    BY <1>1, PrefixSame
  <2> QED BY <1>1, <2>1, <2>2
<1>3. SUFFICES ASSUME x[Len(p) + 1] = y[Len(p) + 1] PROVE FALSE
  BY <1>1, <1>2 DEF p
<1>4. Len(p) + 1 \in 1 .. Len(x) /\ x[Len(p) + 1] \in A
  BY <1>1, <1>2
<1> DEFINE q == Append(p, x[Len(p) + 1])
<1>5. q \in Seq(A) /\ Len(q) = Len(p) + 1
  BY <1>1, <1>4
<1>6. IsPrefix(q, x) /\ IsPrefix(q, y)
  BY <1>1, <1>2, <1>3, <1>4, PrefixAppend
<1>7. IsPrefix(q, p)
  BY <1>1, <1>5, <1>6
<1>8. Len(q) <= Len(p)
  BY <1>1, <1>5, <1>7, PrefixIff
<1> QED BY <1>1, <1>5, <1>8

(* Two sequences of the same length part behind their common prefix. *)
LEMMA CommonOfTwo ==
  ASSUME NEW A, NEW x \in Seq(A), NEW y \in Seq(A), Len(x) = Len(y), x # y
  PROVE  LET p == LongestCommonPrefix({x, y}) IN
           /\ p \in Seq(A) /\ Len(p) < Len(x) /\ IsPrefix(p, x) /\ IsPrefix(p, y)
           /\ x[Len(p) + 1] # y[Len(p) + 1]
<1>1. ~IsPrefix(x, y) /\ ~IsPrefix(y, x)
  BY PrefixSame
<1> QED BY <1>1, CommonApart
=============================================================================
