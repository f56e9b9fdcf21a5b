---------------------------- MODULE PhTreeV16Proofs ----------------------------
(***************************************************************************)
(* That the tree of PhTreeV16 stays right under every sequence of calls,   *)
(* for every finite set of keys of one length and every set of values.     *)
(***************************************************************************)
EXTENDS PhTreeV16, DataLemmas

-----------------------------------------------------------------------------
(* The shape of a tree.  Node n is over s if s goes on behind n. *)
Over(n, s) == IsPrefix(n, s) /\ Len(n) < Len(s)

ValueEntries == [kind : {"value"}, key : Key, bucket : SUBSET Value]
NodeEntries(ns) == [kind : {"node"}, key : DOMAIN ns]

(* The nodes are functions from addresses to entries, each over a key; an  *)
(* entry is at the address its key has in its node.                        *)
Typed(ns) ==
  /\ <<>> \in DOMAIN ns
  /\ DOMAIN ns \subseteq Seq(Nat)
  /\ ns = [n \in DOMAIN ns |-> ns[n]]
  /\ \A n \in DOMAIN ns :
       /\ \E k \in Key : Over(n, k)
       /\ ns[n] = [a \in DOMAIN ns[n] |-> ns[n][a]]
       /\ \A a \in DOMAIN ns[n] :
            /\ ns[n][a] \in ValueEntries \cup NodeEntries(ns)
            /\ Over(n, ns[n][a].key)
            /\ ns[n][a].key[Len(n) + 1] = a

(* From a node over another one an entry leads to it or towards it. *)
Linked(ns) ==
  \A n, m \in DOMAIN ns : Over(n, m) =>
    /\ m[Len(n) + 1] \in DOMAIN ns[n]
    /\ ns[n][m[Len(n) + 1]].kind = "node"
    /\ IsPrefix(ns[n][m[Len(n) + 1]].key, m)

(* A node but the root has two entries at least. *)
Full(ns) == \A n \in DOMAIN ns \ {<<>>} : \E a, b \in DOMAIN ns[n] : a # b

Tree(ns) == Typed(ns) /\ Linked(ns) /\ Full(ns)

(* The entries that hold keys. *)
Values(ns) ==
  {e \in UNION {{ns[n][a] : a \in DOMAIN ns[n]} : n \in DOMAIN ns} : e.kind = "value"}
Stored(ns, k) == \E e \in Values(ns) : e.key = k

-----------------------------------------------------------------------------
(* Looking up *)

(* Keys are sequences of one length. *)
LEMMA KeyFacts ==
  /\ Key \subseteq Seq(Nat)
  /\ \A k \in Key : Len(k) \in Nat \ {0} /\ \A l \in Key : Len(k) = Len(l)
  BY KeyAssumption

(* Being over is transitive and agrees with prefixes. *)
LEMMA OverTrans ==
  ASSUME NEW p \in Seq(Nat), NEW q \in Seq(Nat), NEW r \in Seq(Nat)
  PROVE  /\ Over(p, q) /\ IsPrefix(q, r) => Over(p, r) /\ r[Len(p) + 1] = q[Len(p) + 1]
         /\ IsPrefix(p, q) /\ Over(q, r) => Over(p, r)
         /\ IsPrefix(p, r) /\ IsPrefix(q, r) /\ Len(p) < Len(q) =>
              Over(p, q) /\ q[Len(p) + 1] = r[Len(p) + 1]
         /\ IsPrefix(p, q) /\ p # q => Over(p, q)
         /\ IsPrefix(p, p)
         /\ IsPrefix(p, r) /\ IsPrefix(q, r) /\ Len(p) = Len(q) => p = q
<1>1. Len(p) \in Nat /\ Len(q) \in Nat /\ Len(r) \in Nat
  OBVIOUS
<1>2. \A x, y \in Seq(Nat) :
        IsPrefix(x, y) <=> Len(x) <= Len(y) /\ \A i \in 1 .. Len(x) : x[i] = y[i]
  BY PrefixIff
<1>3. \A x, y \in Seq(Nat) : IsPrefix(x, y) /\ Len(x) = Len(y) => x = y
  BY PrefixSame
<1>4. ASSUME Over(p, q), IsPrefix(q, r) PROVE Over(p, r) /\ r[Len(p) + 1] = q[Len(p) + 1]
  <2>1. Len(p) < Len(q) /\ Len(q) <= Len(r) /\ \A i \in 1 .. Len(q) : q[i] = r[i]
    BY <1>2, <1>4 DEF Over
  <2>2. IsPrefix(p, r)
    BY <1>4, PrefixTrans DEF Over
  <2> QED BY <1>1, <2>1, <2>2 DEF Over
<1>5. ASSUME IsPrefix(p, q), Over(q, r) PROVE Over(p, r)
  <2>1. IsPrefix(p, r)
    BY <1>5, PrefixTrans DEF Over
  <2>2. Len(p) <= Len(q) /\ Len(q) < Len(r)
    BY <1>2, <1>5 DEF Over
  <2> QED BY <1>1, <2>1, <2>2 DEF Over
<1>6. IsPrefix(p, r) /\ IsPrefix(q, r) /\ Len(p) < Len(q) =>
              Over(p, q) /\ q[Len(p) + 1] = r[Len(p) + 1]
  <2> SUFFICES ASSUME IsPrefix(p, r), IsPrefix(q, r), Len(p) < Len(q)
               PROVE  Over(p, q) /\ q[Len(p) + 1] = r[Len(p) + 1]
    OBVIOUS
  <2>1. IsPrefix(p, q)
    BY <1>1, PrefixOrder
  <2>2. Len(q) <= Len(r) /\ \A i \in 1 .. Len(q) : q[i] = r[i]
    BY <1>2
  <2> QED BY <1>1, <2>1, <2>2 DEF Over
<1>7. IsPrefix(p, q) /\ p # q => Over(p, q)
  BY <1>1, <1>2, <1>3 DEF Over
<1>8. IsPrefix(p, p)
  BY <1>1, <1>2
<1>9. IsPrefix(p, r) /\ IsPrefix(q, r) /\ Len(p) = Len(q) => p = q
  BY <1>1, <1>2, SeqEqual
<1> QED BY <1>4, <1>5, <1>6, <1>7, <1>8, <1>9

(* The walk for s ends at the longest node that is a prefix of s.          *)
LEMMA DeepestIs ==
  ASSUME NEW ns, <<>> \in DOMAIN ns, DOMAIN ns \subseteq Seq(Nat), NEW s \in Seq(Nat)
  PROVE  LET n == Deepest(ns, s) IN
           /\ n \in DOMAIN ns /\ IsPrefix(n, s)
           /\ \A m \in DOMAIN ns : IsPrefix(m, s) => IsPrefix(m, n)
           /\ \A m \in DOMAIN ns :
                IsPrefix(m, s) /\ (\A x \in DOMAIN ns : IsPrefix(x, s) => Len(x) <= Len(m)) => m = n
<1> DEFINE C == {n \in DOMAIN ns : IsPrefix(n, s)}
           len == [n \in C |-> Len(n)]
<1>1. \A x \in Seq(Nat) : IsPrefix(x, s) => Len(x) \in 0 .. Len(s)
  BY PrefixIff
<1>2. <<>> \in C
  BY SMT DEF IsPrefix
<1>3. len \in [C -> 0 .. Len(s)]
  BY <1>1
<1>4. \E x \in C : \A y \in C : len[y] <= len[x]
  <2>1. C # {} /\ Len(s) \in Nat
    BY <1>2
  <2> DEFINE m == Len(s)
  <2>2. C # {} /\ m \in Nat /\ len \in [C -> 0 .. m]
    BY <1>3, <2>1
  <2> HIDE DEF C, len, m
  <2> QED BY <2>2, LongestExists
<1>5. \E x \in DOMAIN ns : IsPrefix(x, s) /\ \A y \in DOMAIN ns : IsPrefix(y, s) => Len(y) <= Len(x)
  <2>1. PICK x \in C : \A y \in C : len[y] <= len[x]
    BY <1>4
  <2>2. \A y \in C : Len(y) <= Len(x)
    BY <2>1
  <2> QED BY <2>1, <2>2
<1> DEFINE n == Deepest(ns, s)
<1>6. /\ n \in DOMAIN ns /\ IsPrefix(n, s)
      /\ \A y \in DOMAIN ns : IsPrefix(y, s) => Len(y) <= Len(n)
  BY <1>5 DEF Deepest
<1> HIDE DEF n
<1>7. \A m \in DOMAIN ns : IsPrefix(m, s) => IsPrefix(m, n)
  BY <1>6, PrefixOrder
<1>8. ASSUME NEW m \in DOMAIN ns, IsPrefix(m, s),
             \A x \in DOMAIN ns : IsPrefix(x, s) => Len(x) <= Len(m)
      PROVE  m = n
  <2>1. Len(m) = Len(n)
    BY <1>6, <1>8
  <2> QED BY <1>6, <1>8, <2>1, OverTrans
<1> QED BY <1>6, <1>7, <1>8 DEF n

(* A key ends at a node over it. *)
LEMMA DeepestOfKey ==
  ASSUME NEW ns, Typed(ns), NEW k \in Key
  PROVE  LET n == Deepest(ns, k) IN
           /\ n \in DOMAIN ns /\ Over(n, k)
           /\ \A m \in DOMAIN ns : IsPrefix(m, k) => IsPrefix(m, n)
           /\ \A m \in DOMAIN ns :
                IsPrefix(m, k) /\ (\A x \in DOMAIN ns : IsPrefix(x, k) => Len(x) <= Len(m)) => m = n
<1> DEFINE n == Deepest(ns, k)
<1>1. k \in Seq(Nat) /\ <<>> \in DOMAIN ns /\ DOMAIN ns \subseteq Seq(Nat)
  BY KeyFacts DEF Typed
<1>2. /\ n \in DOMAIN ns /\ IsPrefix(n, k)
      /\ \A m \in DOMAIN ns : IsPrefix(m, k) => IsPrefix(m, n)
      /\ \A m \in DOMAIN ns :
           IsPrefix(m, k) /\ (\A x \in DOMAIN ns : IsPrefix(x, k) => Len(x) <= Len(m)) => m = n
  BY <1>1, DeepestIs
<1> HIDE DEF n
<1>3. PICK l \in Key : Over(n, l)
  BY <1>2 DEF Typed
<1>4. Len(n) < Len(k)
  BY <1>3, KeyFacts DEF Over
<1> QED BY <1>2, <1>4 DEF Over, n

(* The entry of a node is in the map of its parent. *)
LEMMA ParentIs ==
  ASSUME NEW ns, Typed(ns), Linked(ns), NEW n \in DOMAIN ns, n # <<>>
  PROVE  LET p == Parent(ns, n) IN
           /\ p \in DOMAIN ns /\ Over(p, n)
           /\ n[Len(p) + 1] \in DOMAIN ns[p] /\ ns[p][n[Len(p) + 1]] = NodeEntry(n)
           /\ \A m \in DOMAIN ns : Over(m, n) => IsPrefix(m, p)
           /\ EntryOf(ns, n) = Ptr(p, n[Len(p) + 1])
<1> DEFINE rs == [m \in DOMAIN ns \ {n} |-> ns[m]]
           p == Parent(ns, n)
<1>1. <<>> \in DOMAIN rs /\ DOMAIN rs = DOMAIN ns \ {n} /\ DOMAIN rs \subseteq Seq(Nat) /\ n \in Seq(Nat)
  BY DEF Typed
<1>2. p = Deepest(rs, n)
  BY DEF Parent
<1> HIDE DEF rs, p
<1>3. p \in DOMAIN rs /\ IsPrefix(p, n) /\ \A m \in DOMAIN rs : IsPrefix(m, n) => IsPrefix(m, p)
  BY <1>1, <1>2, DeepestIs
<1>4. p \in DOMAIN ns /\ p \in Seq(Nat) /\ Over(p, n)
  BY <1>1, <1>3, OverTrans
<1>5. \A m \in DOMAIN ns : Over(m, n) => IsPrefix(m, p)
  BY <1>1, <1>3 DEF Over
<1> DEFINE a == n[Len(p) + 1]
           e == ns[p][a]
<1>6. a \in DOMAIN ns[p] /\ e.kind = "node" /\ IsPrefix(e.key, n)
  BY <1>4 DEF Linked
<1>7. e \in NodeEntries(ns) /\ Over(p, e.key)
  BY <1>4, <1>6 DEF Typed, ValueEntries
<1> HIDE DEF a, e
<1>8. e.key \in DOMAIN ns /\ e.key \in Seq(Nat) /\ e = NodeEntry(e.key)
  BY <1>1, <1>7 DEF NodeEntries, NodeEntry, Typed
<1>9. e.key = n
  <2> SUFFICES ASSUME e.key # n PROVE FALSE
    OBVIOUS
  <2>1. IsPrefix(e.key, p)
    BY <1>1, <1>6, <1>8, <1>5, OverTrans
  <2>2. Len(e.key) <= Len(p)
    BY <1>4, <1>8, <2>1, PrefixIff
  <2> QED BY <1>4, <1>7, <1>8, <2>2 DEF Over
<1>10. EntryOf(ns, n) = Ptr(p, a)
  BY DEF EntryOf, AddressIn, p, a
<1> QED BY <1>4, <1>5, <1>6, <1>8, <1>9, <1>10 DEF p, a, e

(* The entries with keys are those found in the maps. *)
LEMMA ValuesIff ==
  ASSUME NEW ns, NEW e
  PROVE  e \in Values(ns) <=>
           \E n \in DOMAIN ns : \E a \in DOMAIN ns[n] : e = ns[n][a] /\ e.kind = "value"
  BY DEF Values

(* A key is in the node its walk ends at. *)
LEMMA WhereKey ==
  ASSUME NEW ns, Typed(ns), Linked(ns), NEW n \in DOMAIN ns, NEW a \in DOMAIN ns[n],
         ns[n][a].kind = "value"
  PROVE  /\ ns[n][a] \in ValueEntries /\ ns[n][a].key \in Key
         /\ n = Deepest(ns, ns[n][a].key) /\ a = ns[n][a].key[Len(n) + 1]
<1> DEFINE k == ns[n][a].key
           d == Deepest(ns, k)
<1>1. ns[n][a] \in ValueEntries /\ Over(n, k) /\ k[Len(n) + 1] = a
  BY DEF Typed, NodeEntries
<1>2. k \in Key /\ k \in Seq(Nat) /\ n \in Seq(Nat)
  BY <1>1, KeyFacts DEF ValueEntries, Typed
<1> HIDE DEF k, d
<1>3. d \in DOMAIN ns /\ d \in Seq(Nat) /\ Over(d, k) /\ IsPrefix(n, d)
  BY <1>1, <1>2, DeepestOfKey DEF d, Over, Typed
<1>4. n = d
  <2> SUFFICES ASSUME n # d PROVE FALSE
    OBVIOUS
  <2>1. Over(n, d)
    BY <1>2, <1>3, OverTrans
  <2>2. d[Len(n) + 1] = a
    BY <1>1, <1>2, <1>3, <2>1, OverTrans DEF Over
  <2> QED BY <1>3, <2>1, <2>2 DEF Linked
<1> QED BY <1>1, <1>2, <1>4 DEF k, d

(* Find finds the entry of a key, which is the only one with that key.     *)
LEMMA FindIs ==
  ASSUME NEW ns, Typed(ns), Linked(ns), NEW k \in Key
  PROVE  LET n == Deepest(ns, k)
             a == k[Len(n) + 1]
         IN  /\ Stored(ns, k) <=> Find(ns, k) # Null
             /\ Stored(ns, k) =>
                  /\ Find(ns, k) = Ptr(n, a) /\ a \in DOMAIN ns[n]
                  /\ ns[n][a] \in Values(ns) /\ ns[n][a].key = k
                  /\ ns[n][a] \in ValueEntries
                  /\ At(ns, Find(ns, k)) = ns[n][a]
             /\ \A e \in Values(ns) : e.key = k => e = ns[n][a]
             /\ ~Stored(ns, k) => Find(ns, k) = Null
<1> DEFINE n == Deepest(ns, k)
           a == k[Len(n) + 1]
<1>1. n \in DOMAIN ns /\ Over(n, k)
  BY DeepestOfKey
<1>2. \A p, b : Ptr(p, b) # Null
  BY DEF Ptr, Null
<1>3. Find(ns, k) = IF a \in DOMAIN ns[n] /\ ns[n][a].key = k THEN Ptr(n, a) ELSE Null
  BY DEF Find, AddressIn
<1> HIDE DEF n, a
<1>4. ASSUME NEW e \in Values(ns), e.key = k
      PROVE  a \in DOMAIN ns[n] /\ e = ns[n][a]
  <2>1. PICK m \in DOMAIN ns : \E b \in DOMAIN ns[m] : e = ns[m][b] /\ e.kind = "value"
    BY ValuesIff
  <2>2. PICK b \in DOMAIN ns[m] : e = ns[m][b] /\ e.kind = "value"
    BY <2>1
  <2>3. m = n /\ b = a
    BY <1>4, <2>2, WhereKey DEF n, a
  <2> QED BY <2>2, <2>3
<1>5. ASSUME a \in DOMAIN ns[n], ns[n][a].key = k
      PROVE  ns[n][a] \in ValueEntries /\ ns[n][a] \in Values(ns)
  <2>1. ns[n][a] \in ValueEntries \cup NodeEntries(ns)
    BY <1>1, <1>5 DEF Typed
  <2>2. ASSUME ns[n][a] \in NodeEntries(ns) PROVE FALSE
    <3>1. k \in DOMAIN ns
      BY <1>5, <2>2 DEF NodeEntries
    <3>2. PICK l \in Key : Over(k, l)
      BY <3>1 DEF Typed
    <3> QED BY <3>2, KeyFacts DEF Over
  <2>3. ns[n][a] \in ValueEntries
    BY <2>1, <2>2
  <2>4. ns[n][a].kind = "value"
    BY <2>3 DEF ValueEntries
  <2> QED BY <1>1, <1>5, <2>3, <2>4, ValuesIff
<1>6. Stored(ns, k) <=> a \in DOMAIN ns[n] /\ ns[n][a].key = k
  BY <1>4, <1>5 DEF Stored
<1>7. At(ns, Ptr(n, a)) = ns[n][a]
  BY DEF At, Ptr
<1> QED BY <1>2, <1>3, <1>4, <1>5, <1>6, <1>7 DEF n, a

-----------------------------------------------------------------------------
(* Changing the maps *)

(* What Put changes. *)
LEMMA PutIs ==
  ASSUME NEW ns, NEW n \in DOMAIN ns, NEW a, NEW e, ns = [m \in DOMAIN ns |-> ns[m]]
  PROVE  LET ms == Put(ns, Ptr(n, a), e) IN
           /\ DOMAIN ms = DOMAIN ns
           /\ ms = [m \in DOMAIN ms |-> ms[m]]
           /\ \A m \in DOMAIN ns \ {n} : ms[m] = ns[m]
           /\ DOMAIN ms[n] = DOMAIN ns[n] \cup {a}
           /\ ms[n] = [b \in DOMAIN ms[n] |-> ms[n][b]]
           /\ ms[n][a] = e
           /\ \A b \in DOMAIN ns[n] \ {a} : ms[n][b] = ns[n][b]
<1> DEFINE ms == Put(ns, Ptr(n, a), e)
           f == With(ns[n], a, e)
<1>1. ms = [ns EXCEPT ![n] = f]
  BY DEF Put, Ptr
<1>2. /\ DOMAIN f = DOMAIN ns[n] \cup {a} /\ f[a] = e
      /\ f = [b \in DOMAIN f |-> f[b]]
      /\ \A b \in DOMAIN ns[n] \ {a} : f[b] = ns[n][b]
  BY DEF With
<1> HIDE DEF f, ms
<1>3. /\ DOMAIN ms = DOMAIN ns /\ ms = [m \in DOMAIN ms |-> ms[m]]
      /\ \A m \in DOMAIN ns \ {n} : ms[m] = ns[m]
      /\ ms[n] = f
  BY <1>1
<1> QED BY <1>2, <1>3 DEF ms

(* Putting an entry with a key in a free place, or in the place of another *)
(* one, leaves a tree.                                                     *)
LEMMA PutValue ==
  ASSUME NEW ns, Tree(ns), NEW n \in DOMAIN ns, NEW e \in ValueEntries, NEW a,
         Over(n, e.key), a = e.key[Len(n) + 1],
         a \in DOMAIN ns[n] => ns[n][a].kind = "value"
  PROVE  LET ms == Put(ns, Ptr(n, a), e) IN
           /\ Tree(ms)
           /\ Values(ms) = {f \in Values(ns) : a \in DOMAIN ns[n] => f.key # ns[n][a].key} \cup {e}
<1> DEFINE ms == Put(ns, Ptr(n, a), e)
<1>0. Typed(ns) /\ Linked(ns) /\ Full(ns) /\ e.kind = "value" /\ e.key \in Key
  BY DEF Tree, ValueEntries
<1>1. /\ DOMAIN ms = DOMAIN ns
      /\ ms = [m \in DOMAIN ms |-> ms[m]]
      /\ \A m \in DOMAIN ns \ {n} : ms[m] = ns[m]
      /\ DOMAIN ms[n] = DOMAIN ns[n] \cup {a}
      /\ ms[n] = [b \in DOMAIN ms[n] |-> ms[n][b]]
      /\ ms[n][a] = e
      /\ \A b \in DOMAIN ns[n] \ {a} : ms[n][b] = ns[n][b]
  BY <1>0, PutIs DEF Typed
<1> HIDE DEF ms
<1>2. Typed(ms)
  <2>1. NodeEntries(ms) = NodeEntries(ns)
    BY <1>1 DEF NodeEntries
  <2>2. ASSUME NEW m \in DOMAIN ns
        PROVE  /\ \E k \in Key : Over(m, k)
               /\ ms[m] = [b \in DOMAIN ms[m] |-> ms[m][b]]
               /\ \A b \in DOMAIN ms[m] :
                    /\ ms[m][b] \in ValueEntries \cup NodeEntries(ms)
                    /\ Over(m, ms[m][b].key)
                    /\ ms[m][b].key[Len(m) + 1] = b
    <3>1. CASE m = n
      BY <1>0, <1>1, <2>1, <3>1 DEF Typed
    <3>2. CASE m # n
      BY <1>0, <1>1, <2>1, <3>2 DEF Typed
    <3> QED BY <3>1, <3>2
  <2>3. <<>> \in DOMAIN ns /\ DOMAIN ns \subseteq Seq(Nat)
    BY <1>0 DEF Typed
  <2> QED BY <1>1, <2>2, <2>3 DEF Typed
<1>3. Linked(ms)
  <2> SUFFICES ASSUME NEW u \in DOMAIN ns, NEW v \in DOMAIN ns, Over(u, v)
               PROVE  /\ v[Len(u) + 1] \in DOMAIN ms[u]
                      /\ ms[u][v[Len(u) + 1]].kind = "node"
                      /\ IsPrefix(ms[u][v[Len(u) + 1]].key, v)
    BY <1>1 DEF Linked
  <2>1. /\ v[Len(u) + 1] \in DOMAIN ns[u]
        /\ ns[u][v[Len(u) + 1]].kind = "node"
        /\ IsPrefix(ns[u][v[Len(u) + 1]].key, v)
    BY <1>0 DEF Linked
  <2>2. u = n => v[Len(u) + 1] # a
    BY <2>1
  <2> QED BY <1>1, <2>1, <2>2
<1>4. Full(ms)
  <2> SUFFICES ASSUME NEW m \in DOMAIN ns \ {<<>>} PROVE \E b, c \in DOMAIN ms[m] : b # c
    BY <1>1 DEF Full
  <2>1. PICK b \in DOMAIN ns[m], c \in DOMAIN ns[m] : b # c
    BY <1>0 DEF Full
  <2> QED BY <1>1, <2>1
<1>5. ASSUME NEW f
      PROVE  f \in Values(ms) <=>
               \/ f = e
               \/ f \in Values(ns) /\ (a \in DOMAIN ns[n] => f.key # ns[n][a].key)
  <2>1. ASSUME f \in Values(ms), f # e
        PROVE  f \in Values(ns) /\ (a \in DOMAIN ns[n] => f.key # ns[n][a].key)
    <3>1. PICK m \in DOMAIN ns : \E b \in DOMAIN ms[m] : f = ms[m][b] /\ f.kind = "value"
      BY <1>1, <2>1, ValuesIff
    <3>2. PICK b \in DOMAIN ms[m] : f = ms[m][b] /\ f.kind = "value"
      BY <3>1
    <3>3. b \in DOMAIN ns[m] /\ f = ns[m][b] /\ ~(m = n /\ b = a)
      BY <1>1, <2>1, <3>2
    <3>4. f \in Values(ns)
      BY <3>2, <3>3, ValuesIff
    <3>5. ASSUME a \in DOMAIN ns[n], f.key = ns[n][a].key PROVE FALSE
      BY <1>0, <3>2, <3>3, <3>5, WhereKey
    <3> QED BY <3>4, <3>5
  <2>2. e \in Values(ms)
    BY <1>0, <1>1, ValuesIff
  <2>3. ASSUME f \in Values(ns), a \in DOMAIN ns[n] => f.key # ns[n][a].key
        PROVE  f \in Values(ms)
    <3>1. PICK m \in DOMAIN ns : \E b \in DOMAIN ns[m] : f = ns[m][b] /\ f.kind = "value"
      BY <2>3, ValuesIff
    <3>2. PICK b \in DOMAIN ns[m] : f = ns[m][b] /\ f.kind = "value"
      BY <3>1
    <3>3. ~(m = n /\ b = a)
      BY <2>3, <3>2
    <3>4. b \in DOMAIN ms[m] /\ f = ms[m][b]
      BY <1>1, <3>2, <3>3
    <3> QED BY <1>1, <3>2, <3>4, ValuesIff
  <2> QED BY <2>1, <2>2, <2>3
<1>6. Values(ms) = {f \in Values(ns) : a \in DOMAIN ns[n] => f.key # ns[n][a].key} \cup {e}
  BY <1>5
<1> QED BY <1>2, <1>3, <1>4, <1>6 DEF Tree, ms

(* What the insertion of key k leaves as it was: only the map of the node  *)
(* it ends at changes, and no entry for a node becomes one for a key.      *)
Extends(ms, ns, d, a) ==
  /\ DOMAIN ns \subseteq DOMAIN ms
  /\ \A m \in DOMAIN ns \ {d} : ms[m] = ns[m]
  /\ DOMAIN ms[d] = DOMAIN ns[d] \cup {a}
  /\ \A b \in DOMAIN ns[d] \ {a} : ms[d][b] = ns[d][b]
  /\ a \in DOMAIN ns[d] /\ ns[d][a].kind = "node" => ms[d][a].kind = "node"

(* A new node below d for an entry in the way and key k. *)
LEMMA SplitTree ==
  ASSUME NEW ns, Tree(ns), NEW k \in Key, NEW B \in SUBSET Value, ~Stored(ns, k),
         k[Len(Deepest(ns, k)) + 1] \in DOMAIN ns[Deepest(ns, k)]
  PROVE  LET d == Deepest(ns, k)
             ms == Emplaced(ns, k, B)
         IN  /\ Tree(ms)
             /\ Values(ms) = Values(ns) \cup {KeyEntry(k, B)}
             /\ Extends(ms, ns, d, k[Len(d) + 1])
<1> DEFINE d == Deepest(ns, k)
           a == k[Len(d) + 1]
           old == ns[d][a]
           x == old.key
           m == Common(x, k)
           ks == Put(ns, Ptr(d, a), NodeEntry(m))
           b == k[Len(m) + 1]
           c == x[Len(m) + 1]
           both == [y \in {b, c} |-> IF y = b THEN KeyEntry(k, B) ELSE old]
           ms == Emplaced(ns, k, B)
<1>1. Typed(ns) /\ Linked(ns) /\ Full(ns) /\ k \in Seq(Nat) /\ DOMAIN ns \subseteq Seq(Nat)
  BY KeyFacts DEF Tree, Typed
<1>2. /\ d \in DOMAIN ns /\ d \in Seq(Nat) /\ Over(d, k)
      /\ \A n \in DOMAIN ns : IsPrefix(n, k) => IsPrefix(n, d)
  BY <1>1, DeepestOfKey
<1>3. a \in DOMAIN ns[d] /\ x # k
  <2>1. a \in DOMAIN ns[d]
    OBVIOUS
  <2>2. Find(ns, k) = Null
    BY <1>1, FindIs
  <2>3. \A p, y : Ptr(p, y) # Null
    BY DEF Ptr, Null
  <2> QED BY <2>1, <2>2, <2>3 DEF Find, AddressIn
<1>4. ms = With(ks, m, both)
  <2> HIDE DEF d
  <2> QED BY <1>3 DEF Emplaced, AddressIn, At, Ptr, d
<1> HIDE DEF d, a, old, x, m, ks, b, c, both, ms
<1>5. old \in ValueEntries \cup NodeEntries(ns) /\ Over(d, x) /\ x[Len(d) + 1] = a /\ x \in Seq(Nat)
  <2>1. old \in ValueEntries \cup NodeEntries(ns) /\ Over(d, x) /\ x[Len(d) + 1] = a
    BY <1>1, <1>2, <1>3 DEF Typed, old, x
  <2> QED BY <1>1, <2>1, KeyFacts DEF ValueEntries, NodeEntries, x
<1>6. ~IsPrefix(x, k) /\ ~IsPrefix(k, x)
  <2>1. CASE old \in ValueEntries
    <3>1. x \in Key /\ Len(x) = Len(k)
      BY <2>1, KeyFacts DEF ValueEntries, x
    <3> QED BY <1>1, <1>3, <1>5, <3>1, PrefixSame
  <2>2. CASE old \in NodeEntries(ns)
    <3>1. x \in DOMAIN ns
      BY <2>2 DEF NodeEntries, x
    <3>2. PICK l \in Key : Over(x, l)
      BY <1>1, <3>1 DEF Typed
    <3>3. Len(x) < Len(k)
      BY <3>2, KeyFacts DEF Over
    <3>4. ~IsPrefix(k, x)
      BY <1>1, <1>5, <3>3, PrefixIff
    <3>5. ASSUME IsPrefix(x, k) PROVE FALSE
      <4>1. IsPrefix(x, d)
        BY <1>2, <3>1, <3>5
      <4>2. Len(x) <= Len(d)
        BY <1>2, <1>5, <4>1, PrefixIff
      <4> QED BY <1>2, <1>5, <4>2 DEF Over
    <3> QED BY <3>4, <3>5
  <2> QED BY <1>5, <2>1, <2>2
<1>7. m \in Seq(Nat) /\ Over(m, x) /\ Over(m, k) /\ b # c
  BY <1>1, <1>5, <1>6, CommonApart DEF m, Common, Over, b, c
<1>8. Over(d, m) /\ m[Len(d) + 1] = a
  <2>1. ~(Len(m) <= Len(d))
    <3> SUFFICES ASSUME Len(m) <= Len(d) PROVE FALSE
      OBVIOUS
    <3>1. CASE Len(m) = Len(d)
      BY <1>5, <1>7, <3>1 DEF a, b, c
    <3>2. CASE Len(m) < Len(d)
      <4>1. Over(m, d) /\ d[Len(m) + 1] = k[Len(m) + 1]
        BY <1>1, <1>2, <1>7, <3>2, OverTrans DEF Over
      <4>2. d[Len(m) + 1] = x[Len(m) + 1]
        BY <1>2, <1>5, <1>7, <3>2, OverTrans DEF Over
      <4> QED BY <1>7, <4>1, <4>2 DEF b, c
    <3> QED BY <1>2, <1>7, <3>1, <3>2
  <2>2. Len(d) < Len(m)
    BY <1>2, <1>7, <2>1
  <2> QED BY <1>1, <1>2, <1>7, <2>2, OverTrans DEF Over, a
<1>9. m \notin DOMAIN ns
  <2> SUFFICES ASSUME m \in DOMAIN ns PROVE FALSE
    OBVIOUS
  <2>1. IsPrefix(m, d)
    BY <1>2, <1>7 DEF Over
  <2> QED BY <1>2, <1>7, <1>8, <2>1, PrefixIff DEF Over
<1>10. /\ DOMAIN ks = DOMAIN ns
       /\ ks = [n \in DOMAIN ks |-> ks[n]]
       /\ \A n \in DOMAIN ns \ {d} : ks[n] = ns[n]
       /\ DOMAIN ks[d] = DOMAIN ns[d]
       /\ ks[d] = [y \in DOMAIN ks[d] |-> ks[d][y]]
       /\ ks[d][a] = NodeEntry(m)
       /\ \A y \in DOMAIN ns[d] \ {a} : ks[d][y] = ns[d][y]
  <2>1. ns = [n \in DOMAIN ns |-> ns[n]]
    BY <1>1 DEF Typed
  <2>2. /\ DOMAIN ks = DOMAIN ns
        /\ ks = [n \in DOMAIN ks |-> ks[n]]
        /\ \A n \in DOMAIN ns \ {d} : ks[n] = ns[n]
        /\ DOMAIN ks[d] = DOMAIN ns[d] \cup {a}
        /\ ks[d] = [y \in DOMAIN ks[d] |-> ks[d][y]]
        /\ ks[d][a] = NodeEntry(m)
        /\ \A y \in DOMAIN ns[d] \ {a} : ks[d][y] = ns[d][y]
    BY <1>2, <2>1, PutIs DEF ks
  <2>3. DOMAIN ns[d] \cup {a} = DOMAIN ns[d]
    BY <1>3
  <2> QED BY <2>2, <2>3
<1>11. /\ DOMAIN ms = DOMAIN ns \cup {m}
       /\ ms = [n \in DOMAIN ms |-> ms[n]]
       /\ \A n \in DOMAIN ns : ms[n] = ks[n]
       /\ ms[m] = both
  BY <1>4, <1>9, <1>10 DEF With
<1>12. /\ DOMAIN both = {b, c} /\ both = [y \in DOMAIN both |-> both[y]]
       /\ both[b] = KeyEntry(k, B) /\ both[c] = old
  BY <1>7 DEF both
<1>13. Typed(ms)
  <2>1. NodeEntries(ns) \subseteq NodeEntries(ms) /\ NodeEntry(m) \in NodeEntries(ms)
    BY <1>11 DEF NodeEntries, NodeEntry
  <2>2. KeyEntry(k, B) \in ValueEntries /\ KeyEntry(k, B).key = k /\ NodeEntry(m).key = m
    BY DEF KeyEntry, ValueEntries, NodeEntry
  <2>3. ASSUME NEW n \in DOMAIN ms
        PROVE  /\ \E l \in Key : Over(n, l)
               /\ ms[n] = [y \in DOMAIN ms[n] |-> ms[n][y]]
               /\ \A y \in DOMAIN ms[n] :
                    /\ ms[n][y] \in ValueEntries \cup NodeEntries(ms)
                    /\ Over(n, ms[n][y].key)
                    /\ ms[n][y].key[Len(n) + 1] = y
    <3>1. CASE n = m
      BY <1>5, <1>7, <1>11, <1>12, <2>1, <2>2, <3>1 DEF b, c, x
    <3>2. CASE n = d
      <4>1. /\ \E l \in Key : Over(d, l)
            /\ \A y \in DOMAIN ns[d] :
                 /\ ns[d][y] \in ValueEntries \cup NodeEntries(ms)
                 /\ Over(d, ns[d][y].key)
                 /\ ns[d][y].key[Len(d) + 1] = y
        BY <1>1, <1>2, <2>1 DEF Typed
      <4> QED BY <1>2, <1>3, <1>8, <1>10, <1>11, <2>1, <2>2, <3>2, <4>1
    <3>3. CASE n \in DOMAIN ns \ {d}
      BY <1>1, <1>10, <1>11, <2>1, <3>3 DEF Typed
    <3> QED BY <1>11, <3>1, <3>2, <3>3
  <2>4. <<>> \in DOMAIN ms /\ DOMAIN ms \subseteq Seq(Nat)
    BY <1>1, <1>7, <1>11 DEF Typed
  <2> QED BY <1>11, <2>3, <2>4 DEF Typed
<1>14. Linked(ms)
  <2> SUFFICES ASSUME NEW u \in DOMAIN ms, NEW v \in DOMAIN ms, Over(u, v)
               PROVE  /\ v[Len(u) + 1] \in DOMAIN ms[u]
                      /\ ms[u][v[Len(u) + 1]].kind = "node"
                      /\ IsPrefix(ms[u][v[Len(u) + 1]].key, v)
    BY DEF Linked
  <2>0. u \in Seq(Nat) /\ v \in Seq(Nat)
    BY <1>1, <1>7, <1>11
  <2>1. NodeEntry(m).kind = "node" /\ NodeEntry(m).key = m
    BY DEF NodeEntry
  <2>2. ASSUME v \in DOMAIN ns, Over(d, v), v[Len(d) + 1] = a
        PROVE  old.kind = "node" /\ IsPrefix(x, v)
    BY <1>1, <1>2, <2>2 DEF Linked, old, x
  <2>3. CASE u \in DOMAIN ns /\ v \in DOMAIN ns
    <3>1. /\ v[Len(u) + 1] \in DOMAIN ns[u]
          /\ ns[u][v[Len(u) + 1]].kind = "node"
          /\ IsPrefix(ns[u][v[Len(u) + 1]].key, v)
      BY <1>1, <2>3 DEF Linked
    <3>2. CASE u = d /\ v[Len(u) + 1] = a
      <4>1. IsPrefix(m, v)
        BY <1>5, <1>7, <2>0, <2>2, <2>3, <3>2, PrefixTrans DEF Over
      <4> QED BY <1>10, <1>11, <2>1, <2>3, <3>1, <3>2, <4>1
    <3>3. CASE ~(u = d /\ v[Len(u) + 1] = a)
      BY <1>10, <1>11, <2>3, <3>1, <3>3
    <3> QED BY <3>2, <3>3
  <2>4. CASE u = m /\ v \in DOMAIN ns
    <3>1. Over(d, v) /\ v[Len(d) + 1] = a
      BY <1>2, <1>7, <1>8, <2>0, <2>4, OverTrans DEF Over
    <3>2. old.kind = "node" /\ IsPrefix(x, v)
      BY <2>2, <2>4, <3>1
    <3>3. v[Len(m) + 1] = c
      BY <1>5, <1>7, <2>0, <3>2, OverTrans DEF c
    <3> QED BY <1>11, <1>12, <2>4, <3>2, <3>3 DEF x
  <2>5. CASE u \in DOMAIN ns /\ v = m
    <3>1. Over(u, k)
      BY <1>1, <1>7, <2>0, <2>5, OverTrans DEF Over
    <3>2. IsPrefix(u, d)
      BY <1>2, <2>5, <3>1 DEF Over
    <3>3. CASE u = d
      <4>1. IsPrefix(m, m)
        BY <1>7, OverTrans
      <4> QED BY <1>3, <1>8, <1>10, <1>11, <2>1, <2>5, <3>3, <4>1
    <3>4. CASE u # d
      <4>1. Over(u, d)
        BY <1>2, <2>0, <3>2, <3>4, OverTrans
      <4>2. m[Len(u) + 1] = d[Len(u) + 1]
        BY <1>2, <1>7, <1>8, <2>0, <4>1, OverTrans DEF Over
      <4>3. /\ d[Len(u) + 1] \in DOMAIN ns[u]
            /\ ns[u][d[Len(u) + 1]].kind = "node"
            /\ IsPrefix(ns[u][d[Len(u) + 1]].key, d)
        BY <1>1, <1>2, <2>5, <4>1 DEF Linked
      <4>4. ns[u][d[Len(u) + 1]].key \in Seq(Nat)
        BY <1>1, <2>5, <4>3, KeyFacts DEF Typed, ValueEntries, NodeEntries
      <4>5. IsPrefix(ns[u][d[Len(u) + 1]].key, m)
        BY <1>2, <1>7, <1>8, <4>3, <4>4, PrefixTrans DEF Over
      <4> QED BY <1>10, <1>11, <2>5, <3>4, <4>2, <4>3, <4>5
    <3> QED BY <3>3, <3>4
  <2>6. u # v
    BY <2>0 DEF Over
  <2> QED BY <1>11, <2>3, <2>4, <2>5, <2>6
<1>15. Full(ms)
  <2> SUFFICES ASSUME NEW n \in DOMAIN ms \ {<<>>} PROVE \E y, z \in DOMAIN ms[n] : y # z
    BY DEF Full
  <2>1. CASE n = m
    BY <1>7, <1>11, <1>12, <2>1
  <2>2. CASE n \in DOMAIN ns
    <3>1. DOMAIN ms[n] = DOMAIN ns[n]
      BY <1>10, <1>11, <2>2
    <3> QED BY <1>1, <2>2, <3>1 DEF Full
  <2> QED BY <1>11, <2>1, <2>2
<1>16. ASSUME NEW f PROVE f \in Values(ms) <=> f \in Values(ns) \/ f = KeyEntry(k, B)
  <2>0. KeyEntry(k, B).kind = "value" /\ NodeEntry(m).kind = "node"
    BY DEF KeyEntry, NodeEntry
  <2>1. ASSUME f \in Values(ms) PROVE f \in Values(ns) \/ f = KeyEntry(k, B)
    <3>1. PICK n \in DOMAIN ms : \E y \in DOMAIN ms[n] : f = ms[n][y] /\ f.kind = "value"
      BY <2>1, ValuesIff
    <3>2. PICK y \in DOMAIN ms[n] : f = ms[n][y] /\ f.kind = "value"
      BY <3>1
    <3>3. CASE n = m
      <4>1. f = KeyEntry(k, B) \/ f = ns[d][a]
        BY <1>11, <1>12, <3>2, <3>3 DEF old
      <4> QED BY <1>2, <1>3, <3>2, <4>1, ValuesIff
    <3>4. CASE n \in DOMAIN ns
      <4>1. y \in DOMAIN ns[n] /\ f = ns[n][y]
        BY <1>3, <1>10, <1>11, <2>0, <3>2, <3>4
      <4> QED BY <3>2, <3>4, <4>1, ValuesIff
    <3> QED BY <1>11, <3>3, <3>4
  <2>2. KeyEntry(k, B) \in Values(ms)
    BY <1>11, <1>12, <2>0, ValuesIff
  <2>3. ASSUME f \in Values(ns) PROVE f \in Values(ms)
    <3>1. PICK n \in DOMAIN ns : \E y \in DOMAIN ns[n] : f = ns[n][y] /\ f.kind = "value"
      BY <2>3, ValuesIff
    <3>2. PICK y \in DOMAIN ns[n] : f = ns[n][y] /\ f.kind = "value"
      BY <3>1
    <3>3. CASE n = d /\ y = a
      <4>1. m \in DOMAIN ms /\ c \in DOMAIN ms[m] /\ f = ms[m][c]
        BY <1>11, <1>12, <3>2, <3>3 DEF old
      <4> QED BY <3>2, <4>1, ValuesIff
    <3>4. CASE ~(n = d /\ y = a)
      <4>1. n \in DOMAIN ms /\ y \in DOMAIN ms[n] /\ f = ms[n][y]
        BY <1>10, <1>11, <3>2, <3>4
      <4> QED BY <3>2, <4>1, ValuesIff
    <3> QED BY <3>3, <3>4
  <2> QED BY <2>1, <2>2, <2>3
<1>17. Values(ms) = Values(ns) \cup {KeyEntry(k, B)}
  BY <1>16
<1>18. Extends(ms, ns, d, a)
  <2>1. NodeEntry(m).kind = "node"
    BY DEF NodeEntry
  <2> QED BY <1>2, <1>3, <1>10, <1>11, <2>1 DEF Extends
<1> QED BY <1>13, <1>14, <1>15, <1>17, <1>18 DEF Tree, ms, d, a

(* Emplace: key k is there afterwards and the others are as they were.     *)
LEMMA EmplacedTree ==
  ASSUME NEW ns, Tree(ns), NEW k \in Key, NEW B \in SUBSET Value
  PROVE  LET d == Deepest(ns, k)
             ms == Emplaced(ns, k, B)
         IN  /\ Tree(ms)
             /\ Stored(ns, k) => ms = ns
             /\ ~Stored(ns, k) => Values(ms) = Values(ns) \cup {KeyEntry(k, B)}
             /\ Extends(ms, ns, d, k[Len(d) + 1])
<1> DEFINE d == Deepest(ns, k)
           a == k[Len(d) + 1]
           ms == Emplaced(ns, k, B)
<1>1. Typed(ns) /\ Linked(ns) /\ Full(ns) /\ ns = [m \in DOMAIN ns |-> ns[m]]
  BY DEF Tree, Typed
<1>2. d \in DOMAIN ns /\ Over(d, k)
  BY <1>1, DeepestOfKey
<1>3. Stored(ns, k) => a \in DOMAIN ns[d] /\ ns[d][a].key = k
  BY <1>1, FindIs
<1>4. At(ns, Ptr(d, a)) = ns[d][a]
  BY DEF At, Ptr
<1>5. CASE Stored(ns, k)
  <2>1. ms = ns
    <3> HIDE DEF d
    <3> QED BY <1>3, <1>4, <1>5 DEF Emplaced, AddressIn, Ptr, d
  <2>2. Extends(ms, ns, d, a)
    BY <1>3, <1>5, <2>1 DEF Extends
  <2> QED BY <1>5, <2>1, <2>2
<1>6. CASE ~Stored(ns, k) /\ a \in DOMAIN ns[d]
  BY <1>6, SplitTree
<1>7. CASE ~Stored(ns, k) /\ a \notin DOMAIN ns[d]
  <2> DEFINE e == KeyEntry(k, B)
  <2>1. ms = Put(ns, Ptr(d, a), e)
    <3> HIDE DEF d
    <3> QED BY <1>7 DEF Emplaced, AddressIn, Ptr, d
  <2>2. e \in ValueEntries /\ e.key = k
    BY DEF KeyEntry, ValueEntries
  <2> HIDE DEF e, d, ms
  <2>3. Tree(ms) /\ Values(ms) = Values(ns) \cup {e}
    BY <1>2, <1>7, <2>1, <2>2, PutValue
  <2> HIDE DEF a
  <2>4. /\ DOMAIN ms = DOMAIN ns
        /\ ms = [m \in DOMAIN ms |-> ms[m]]
        /\ \A m \in DOMAIN ns \ {d} : ms[m] = ns[m]
        /\ DOMAIN ms[d] = DOMAIN ns[d] \cup {a}
        /\ ms[d] = [b \in DOMAIN ms[d] |-> ms[d][b]]
        /\ ms[d][a] = e
        /\ \A b \in DOMAIN ns[d] \ {a} : ms[d][b] = ns[d][b]
    BY <1>1, <1>2, <2>1, PutIs
  <2>5. Extends(ms, ns, d, a)
    BY <1>7, <2>4 DEF Extends
  <2> QED BY <1>7, <2>3, <2>5 DEF e, d, ms, a
<1> QED BY <1>5, <1>6, <1>7

(* A node has finitely many entries, since each leads to a key.            *)
LEMMA FiniteMaps ==
  ASSUME NEW ns, Typed(ns), NEW n \in DOMAIN ns
  PROVE  IsFiniteSet(DOMAIN ns[n])
<1> DEFINE f == [k \in Key |-> k[Len(n) + 1]]
           T == {f[k] : k \in Key}
<1>1. IsFiniteSet(T)
  <2>1. f \in [Key -> T]
    OBVIOUS
  <2>2. IsFiniteSet(Key)
    BY KeyAssumption
  <2>3. f \in Surjection(Key, T)
    BY <2>1 DEF Surjection
  <2> HIDE DEF f, T
  <2> QED BY <2>2, <2>3, FS_Surjection
<1>2. ASSUME NEW a \in DOMAIN ns[n] PROVE a \in T
  <2> DEFINE e == ns[n][a]
  <2>1. e \in ValueEntries \cup NodeEntries(ns) /\ Over(n, e.key) /\ e.key[Len(n) + 1] = a
    BY DEF Typed
  <2>2. n \in Seq(Nat)
    BY DEF Typed
  <2> HIDE DEF e
  <2>3. PICK k \in Key : IsPrefix(e.key, k) /\ e.key \in Seq(Nat)
    <3>1. CASE e \in ValueEntries
      <4>1. e.key \in Key /\ e.key \in Seq(Nat)
        BY <3>1, KeyFacts DEF ValueEntries
      <4>2. IsPrefix(e.key, e.key)
        BY <4>1, OverTrans
      <4> QED BY <4>1, <4>2
    <3>2. CASE e \in NodeEntries(ns)
      BY <3>2 DEF NodeEntries, Typed, Over
    <3> QED BY <2>1, <3>1, <3>2
  <2>4. k \in Seq(Nat)
    BY KeyFacts
  <2>5. k[Len(n) + 1] = a
    BY <2>1, <2>2, <2>3, <2>4, OverTrans
  <2> QED BY <2>5
<1> HIDE DEF T
<1> QED BY <1>1, <1>2, FS_Subset

(* Removed: the key is gone and the others are as they were.               *)
LEMMA RemovedTree ==
  ASSUME NEW ns, Tree(ns), NEW k \in Key, Stored(ns, k)
  PROVE  LET ms == Removed(ns, k) IN
           Tree(ms) /\ Values(ms) = {e \in Values(ns) : e.key # k}
<1> DEFINE n == Deepest(ns, k)
           a == k[Len(n) + 1]
           rest == DOMAIN ns[n] \ {a}
           kept == [b \in rest |-> ns[n][b]]
           merge == n # <<>> /\ Cardinality(rest) = 1
           ms == Removed(ns, k)
<1>1. Typed(ns) /\ Linked(ns) /\ Full(ns) /\ k \in Seq(Nat) /\ DOMAIN ns \subseteq Seq(Nat)
  BY KeyFacts DEF Tree, Typed
<1>2. n \in DOMAIN ns /\ n \in Seq(Nat) /\ Over(n, k)
  BY <1>1, DeepestOfKey
<1>3. /\ a \in DOMAIN ns[n] /\ ns[n][a] \in Values(ns) /\ ns[n][a].key = k
      /\ \A e \in Values(ns) : e.key = k => e = ns[n][a]
  BY <1>1, FindIs
<1>4. ns[n][a].kind = "value"
  BY <1>3 DEF Values
<1>5. /\ merge => LET last == kept[CHOOSE b \in rest : TRUE] IN
                    ms = Put([m \in DOMAIN ns \ {n} |-> ns[m]], EntryOf(ns, n), last)
      /\ ~merge => ms = [ns EXCEPT ![n] = kept]
  <2> HIDE DEF n
  <2> QED BY DEF Removed, AddressIn, n
<1>6. IsFiniteSet(rest)
  <2>1. IsFiniteSet(DOMAIN ns[n])
    BY <1>1, <1>2, FiniteMaps
  <2> QED BY <2>1, FS_Subset
<1>7. ASSUME NEW m \in DOMAIN ns, NEW b \in DOMAIN ns[m], ns[m][b].kind = "value"
      PROVE  (ns[m][b].key = k) <=> (m = n /\ b = a)
  <2>1. ns[m][b] \in Values(ns)
    BY <1>7, ValuesIff
  <2>2. ns[m][b].key = k => m = n /\ b = a
    BY <1>1, <1>7, WhereKey
  <2> QED BY <1>3, <2>2
<1> HIDE DEF n, a, rest, kept, merge, ms
<1>8. CASE ~merge
  <2>1. /\ DOMAIN ms = DOMAIN ns /\ ms = [m \in DOMAIN ms |-> ms[m]]
        /\ \A m \in DOMAIN ns \ {n} : ms[m] = ns[m]
        /\ DOMAIN ms[n] = rest
        /\ ms[n] = [b \in DOMAIN ms[n] |-> ms[n][b]]
        /\ \A b \in rest : ms[n][b] = ns[n][b]
    BY <1>1, <1>2, <1>5, <1>8 DEF Typed, kept
  <2>2. rest \subseteq DOMAIN ns[n] /\ rest = DOMAIN ns[n] \ {a}
    BY DEF rest
  <2>3. Typed(ms)
    <3>1. NodeEntries(ms) = NodeEntries(ns)
      BY <2>1 DEF NodeEntries
    <3>2. ASSUME NEW m \in DOMAIN ns
          PROVE  /\ \E l \in Key : Over(m, l)
                 /\ ms[m] = [b \in DOMAIN ms[m] |-> ms[m][b]]
                 /\ \A b \in DOMAIN ms[m] :
                      /\ ms[m][b] \in ValueEntries \cup NodeEntries(ms)
                      /\ Over(m, ms[m][b].key)
                      /\ ms[m][b].key[Len(m) + 1] = b
      <4>1. CASE m = n
        BY <1>1, <2>1, <2>2, <3>1, <4>1 DEF Typed
      <4>2. CASE m # n
        BY <1>1, <2>1, <3>1, <4>2 DEF Typed
      <4> QED BY <4>1, <4>2
    <3>3. <<>> \in DOMAIN ns
      BY <1>1 DEF Typed
    <3> QED BY <1>1, <2>1, <3>2, <3>3 DEF Typed
  <2>4. Linked(ms)
    <3> SUFFICES ASSUME NEW u \in DOMAIN ns, NEW v \in DOMAIN ns, Over(u, v)
                 PROVE  /\ v[Len(u) + 1] \in DOMAIN ms[u]
                        /\ ms[u][v[Len(u) + 1]].kind = "node"
                        /\ IsPrefix(ms[u][v[Len(u) + 1]].key, v)
      BY <2>1 DEF Linked
    <3>1. /\ v[Len(u) + 1] \in DOMAIN ns[u]
          /\ ns[u][v[Len(u) + 1]].kind = "node"
          /\ IsPrefix(ns[u][v[Len(u) + 1]].key, v)
      BY <1>1 DEF Linked
    <3>2. u = n => v[Len(u) + 1] # a
      BY <1>4, <3>1
    <3> QED BY <2>1, <2>2, <3>1, <3>2
  <2>5. Full(ms)
    <3> SUFFICES ASSUME NEW m \in DOMAIN ns \ {<<>>} PROVE \E b, c \in DOMAIN ms[m] : b # c
      BY <2>1 DEF Full
    <3>1. PICK b \in DOMAIN ns[m], c \in DOMAIN ns[m] : b # c
      BY <1>1 DEF Full
    <3>2. CASE m = n
      <4>1. \E d \in rest : TRUE
        BY <2>2, <3>1, <3>2
      <4>2. PICK d \in rest : TRUE
        BY <4>1
      <4>3. rest # {d}
        <5> SUFFICES ASSUME rest = {d} PROVE FALSE
          OBVIOUS
        <5>1. Cardinality(rest) = 1
          BY FS_Singleton
        <5> QED BY <1>8, <3>2, <5>1 DEF merge
      <4> QED BY <2>1, <3>2, <4>2, <4>3
    <3>3. CASE m # n
      BY <2>1, <3>1, <3>3
    <3> QED BY <3>2, <3>3
  <2>6. ASSUME NEW f PROVE f \in Values(ms) <=> f \in Values(ns) /\ f.key # k
    <3>1. ASSUME f \in Values(ms) PROVE f \in Values(ns) /\ f.key # k
      <4>1. PICK m \in DOMAIN ns : \E b \in DOMAIN ms[m] : f = ms[m][b] /\ f.kind = "value"
        BY <2>1, <3>1, ValuesIff
      <4>2. PICK b \in DOMAIN ms[m] : f = ms[m][b] /\ f.kind = "value"
        BY <4>1
      <4>3. b \in DOMAIN ns[m] /\ f = ns[m][b] /\ ~(m = n /\ b = a)
        BY <2>1, <2>2, <4>2
      <4> QED BY <1>7, <4>2, <4>3, ValuesIff
    <3>2. ASSUME f \in Values(ns), f.key # k PROVE f \in Values(ms)
      <4>1. PICK m \in DOMAIN ns : \E b \in DOMAIN ns[m] : f = ns[m][b] /\ f.kind = "value"
        BY <3>2, ValuesIff
      <4>2. PICK b \in DOMAIN ns[m] : f = ns[m][b] /\ f.kind = "value"
        BY <4>1
      <4>3. ~(m = n /\ b = a)
        BY <1>7, <3>2, <4>2
      <4>4. b \in DOMAIN ms[m] /\ f = ms[m][b]
        BY <2>1, <2>2, <4>2, <4>3
      <4> QED BY <2>1, <4>2, <4>4, ValuesIff
    <3> QED BY <3>1, <3>2
  <2>7. Values(ms) = {e \in Values(ns) : e.key # k}
    BY <2>6
  <2> QED BY <2>3, <2>4, <2>5, <2>7 DEF Tree, ms
<1>9. CASE merge
  <2> DEFINE p == Parent(ns, n)
             q == n[Len(p) + 1]
             b == CHOOSE b \in rest : TRUE
             last == ns[n][b]
             rs == [m \in DOMAIN ns \ {n} |-> ns[m]]
  <2>1. n # <<>> /\ rest = {b}
    <3>1. PICK c : rest = {c}
      BY <1>6, <1>9, FS_Singleton DEF merge
    <3> QED BY <1>9, <3>1 DEF merge
  <2>2. DOMAIN ns[n] = {a, b} /\ a # b
    BY <1>3, <2>1 DEF rest
  <2>3. /\ p \in DOMAIN ns /\ Over(p, n) /\ q \in DOMAIN ns[p] /\ ns[p][q] = NodeEntry(n)
        /\ \A m \in DOMAIN ns : Over(m, n) => IsPrefix(m, p)
        /\ EntryOf(ns, n) = Ptr(p, q)
    BY <1>1, <1>2, <2>1, ParentIs
  <2>4. p \in Seq(Nat) /\ p # n
    BY <1>1, <1>2, <2>3 DEF Over
  <2>5. ms = Put(rs, Ptr(p, q), last)
    BY <1>5, <1>9, <2>1, <2>3 DEF kept
  <2>6. /\ last \in ValueEntries \cup NodeEntries(ns) /\ Over(n, last.key)
        /\ last.key[Len(n) + 1] = b /\ last.key \in Seq(Nat)
    <3>1. /\ last \in ValueEntries \cup NodeEntries(ns) /\ Over(n, last.key)
          /\ last.key[Len(n) + 1] = b
      BY <1>1, <1>2, <2>2 DEF Typed
    <3> QED BY <1>1, <3>1, KeyFacts DEF ValueEntries, NodeEntries
  <2> HIDE DEF p, q, b, last, rs
  <2>7. /\ DOMAIN rs = DOMAIN ns \ {n} /\ rs = [m \in DOMAIN rs |-> rs[m]]
        /\ \A m \in DOMAIN rs : rs[m] = ns[m]
    BY DEF rs
  <2>8. /\ DOMAIN ms = DOMAIN ns \ {n} /\ ms = [m \in DOMAIN ms |-> ms[m]]
        /\ \A m \in DOMAIN ms \ {p} : ms[m] = ns[m]
        /\ DOMAIN ms[p] = DOMAIN ns[p]
        /\ ms[p] = [c \in DOMAIN ms[p] |-> ms[p][c]]
        /\ ms[p][q] = last
        /\ \A c \in DOMAIN ns[p] \ {q} : ms[p][c] = ns[p][c]
    <3>1. p \in DOMAIN rs
      BY <2>3, <2>4, <2>7
    <3>2. /\ DOMAIN ms = DOMAIN rs /\ ms = [m \in DOMAIN ms |-> ms[m]]
          /\ \A m \in DOMAIN rs \ {p} : ms[m] = rs[m]
          /\ DOMAIN ms[p] = DOMAIN rs[p] \cup {q}
          /\ ms[p] = [c \in DOMAIN ms[p] |-> ms[p][c]]
          /\ ms[p][q] = last
          /\ \A c \in DOMAIN rs[p] \ {q} : ms[p][c] = rs[p][c]
      BY <2>5, <2>7, <3>1, PutIs
    <3> QED BY <2>3, <2>7, <3>1, <3>2
  <2>9. p \in DOMAIN ms
    BY <2>3, <2>4, <2>8
  <2>10. Over(p, last.key) /\ last.key[Len(p) + 1] = q
    BY <1>2, <2>3, <2>4, <2>6, OverTrans DEF Over, q
  <2>11. ASSUME NEW u \in DOMAIN ns, NEW c \in DOMAIN ns[u], ns[u][c].key = n
         PROVE  u = p /\ c = q
    <3>1. Over(u, n) /\ n[Len(u) + 1] = c
      BY <1>1, <2>11 DEF Typed
    <3>2. IsPrefix(u, p) /\ u \in Seq(Nat)
      BY <1>1, <2>3, <3>1
    <3>3. ASSUME u # p PROVE FALSE
      <4>1. Over(u, p)
        BY <2>4, <3>2, <3>3, OverTrans
      <4>2. p[Len(u) + 1] = c
        BY <1>2, <2>3, <2>4, <3>1, <3>2, <4>1, OverTrans DEF Over
      <4>3. IsPrefix(n, p)
        BY <1>1, <2>3, <2>11, <4>1, <4>2 DEF Linked
      <4> QED BY <1>2, <2>3, <2>4, <4>3, PrefixIff DEF Over
    <3> QED BY <3>1, <3>3 DEF q
  <2>12. last.key # n
    BY <2>6 DEF Over
  <2>13. Typed(ms)
    <3>1. ASSUME NEW u \in DOMAIN ns, NEW c \in DOMAIN ns[u], ~(u = p /\ c = q)
          PROVE  ns[u][c] \in ValueEntries \cup NodeEntries(ms)
      <4>1. ns[u][c] \in ValueEntries \cup NodeEntries(ns) /\ ns[u][c].key # n
        BY <1>1, <2>11, <3>1 DEF Typed
      <4> QED BY <2>8, <4>1 DEF NodeEntries
    <3>2. last \in ValueEntries \cup NodeEntries(ms)
      BY <2>6, <2>8, <2>12 DEF NodeEntries
    <3>3. ASSUME NEW m \in DOMAIN ms
          PROVE  /\ \E l \in Key : Over(m, l)
                 /\ ms[m] = [c \in DOMAIN ms[m] |-> ms[m][c]]
                 /\ \A c \in DOMAIN ms[m] :
                      /\ ms[m][c] \in ValueEntries \cup NodeEntries(ms)
                      /\ Over(m, ms[m][c].key)
                      /\ ms[m][c].key[Len(m) + 1] = c
      <4>1. /\ \E l \in Key : Over(m, l)
            /\ ns[m] = [c \in DOMAIN ns[m] |-> ns[m][c]]
            /\ \A c \in DOMAIN ns[m] : Over(m, ns[m][c].key) /\ ns[m][c].key[Len(m) + 1] = c
        BY <1>1, <2>8 DEF Typed
      <4>2. CASE m = p
        BY <2>8, <2>10, <3>1, <3>2, <4>1, <4>2
      <4>3. CASE m # p
        BY <2>8, <3>1, <4>1, <4>3
      <4> QED BY <4>2, <4>3
    <3>4. <<>> \in DOMAIN ms /\ DOMAIN ms \subseteq Seq(Nat)
      BY <1>1, <2>1, <2>8 DEF Typed
    <3> QED BY <2>8, <3>3, <3>4 DEF Typed
  <2>14. Linked(ms)
    <3> SUFFICES ASSUME NEW u \in DOMAIN ms, NEW v \in DOMAIN ms, Over(u, v)
                 PROVE  /\ v[Len(u) + 1] \in DOMAIN ms[u]
                        /\ ms[u][v[Len(u) + 1]].kind = "node"
                        /\ IsPrefix(ms[u][v[Len(u) + 1]].key, v)
      BY DEF Linked
    <3>1. /\ v[Len(u) + 1] \in DOMAIN ns[u]
          /\ ns[u][v[Len(u) + 1]].kind = "node"
          /\ IsPrefix(ns[u][v[Len(u) + 1]].key, v)
      BY <1>1, <2>8 DEF Linked
    <3>2. CASE u = p /\ v[Len(u) + 1] = q
      <4>1. IsPrefix(n, v) /\ v # n /\ v \in Seq(Nat) /\ v \in DOMAIN ns
        BY <1>1, <2>3, <2>8, <3>1, <3>2 DEF NodeEntry
      <4>2. Over(n, v)
        BY <1>2, <4>1, OverTrans
      <4>3. /\ v[Len(n) + 1] \in DOMAIN ns[n]
            /\ ns[n][v[Len(n) + 1]].kind = "node"
            /\ IsPrefix(ns[n][v[Len(n) + 1]].key, v)
        BY <1>1, <1>2, <4>1, <4>2 DEF Linked
      <4>4. v[Len(n) + 1] = b
        BY <1>4, <2>2, <4>3
      <4> QED BY <2>8, <3>1, <3>2, <4>3, <4>4 DEF last
    <3>3. CASE ~(u = p /\ v[Len(u) + 1] = q)
      BY <2>8, <3>1, <3>3
    <3> QED BY <3>2, <3>3
  <2>15. Full(ms)
    <3> SUFFICES ASSUME NEW m \in DOMAIN ms \ {<<>>} PROVE \E c, d \in DOMAIN ms[m] : c # d
      BY DEF Full
    <3>1. DOMAIN ms[m] = DOMAIN ns[m]
      BY <2>8
    <3> QED BY <1>1, <2>8, <3>1 DEF Full
  <2>16. ASSUME NEW f PROVE f \in Values(ms) <=> f \in Values(ns) /\ f.key # k
    <3>1. ASSUME f \in Values(ms) PROVE f \in Values(ns) /\ f.key # k
      <4>1. PICK m \in DOMAIN ms : \E c \in DOMAIN ms[m] : f = ms[m][c] /\ f.kind = "value"
        BY <3>1, ValuesIff
      <4>2. PICK c \in DOMAIN ms[m] : f = ms[m][c] /\ f.kind = "value"
        BY <4>1
      <4>3. CASE m = p /\ c = q
        <5>1. f = ns[n][b] /\ b \in DOMAIN ns[n]
          BY <2>2, <2>8, <4>2, <4>3 DEF last
        <5> QED BY <1>2, <1>7, <2>2, <4>2, <5>1, ValuesIff
      <4>4. CASE ~(m = p /\ c = q)
        <5>1. m \in DOMAIN ns /\ m # n /\ c \in DOMAIN ns[m] /\ f = ns[m][c]
          BY <2>8, <4>2, <4>4
        <5> QED BY <1>7, <4>2, <5>1, ValuesIff
      <4> QED BY <4>3, <4>4
    <3>2. ASSUME f \in Values(ns), f.key # k PROVE f \in Values(ms)
      <4>1. PICK m \in DOMAIN ns : \E c \in DOMAIN ns[m] : f = ns[m][c] /\ f.kind = "value"
        BY <3>2, ValuesIff
      <4>2. PICK c \in DOMAIN ns[m] : f = ns[m][c] /\ f.kind = "value"
        BY <4>1
      <4>3. CASE m = n
        <5>1. c = b
          BY <1>3, <2>2, <3>2, <4>2, <4>3
        <5>2. q \in DOMAIN ms[p] /\ f = ms[p][q]
          BY <2>3, <2>8, <4>2, <4>3, <5>1 DEF last
        <5> QED BY <2>9, <4>2, <5>2, ValuesIff
      <4>4. CASE m # n
        <5>1. ~(m = p /\ c = q)
          BY <2>3, <4>2 DEF NodeEntry
        <5>2. m \in DOMAIN ms /\ c \in DOMAIN ms[m] /\ f = ms[m][c]
          BY <2>8, <4>2, <4>4, <5>1
        <5> QED BY <4>2, <5>2, ValuesIff
      <4> QED BY <4>3, <4>4
    <3> QED BY <3>1, <3>2
  <2>17. Values(ms) = {e \in Values(ns) : e.key # k}
    BY <2>16
  <2> QED BY <2>13, <2>14, <2>15, <2>17 DEF Tree, ms
<1> QED BY <1>8, <1>9

(* Another key or bucket in the place of key k: the same key, or one that  *)
(* belongs into the same place.                                            *)
LEMMA ChangedTree ==
  ASSUME NEW ns, Tree(ns), NEW k \in Key, Stored(ns, k), NEW l \in Key, NEW B \in SUBSET Value,
         LET d == Deepest(ns, k) IN l = k \/ (Over(d, l) /\ l[Len(d) + 1] = k[Len(d) + 1])
  PROVE  LET ms == Put(ns, Find(ns, k), KeyEntry(l, B)) IN
           /\ Tree(ms)
           /\ Values(ms) = {e \in Values(ns) : e.key # k} \cup {KeyEntry(l, B)}
           /\ DOMAIN ms = DOMAIN ns
           /\ \A m \in DOMAIN ns :
                /\ DOMAIN ms[m] = DOMAIN ns[m]
                /\ \A b \in DOMAIN ns[m] : ms[m][b].kind = ns[m][b].kind
                                           /\ (ns[m][b].kind = "node" => ms[m][b] = ns[m][b])
           /\ l # k => ~Stored(ns, l)
<1> DEFINE d == Deepest(ns, k)
           a == k[Len(d) + 1]
           e == KeyEntry(l, B)
           ms == Put(ns, Find(ns, k), KeyEntry(l, B))
<1>1. Typed(ns) /\ Linked(ns) /\ ns = [m \in DOMAIN ns |-> ns[m]]
  BY DEF Tree, Typed
<1>2. d \in DOMAIN ns /\ Over(d, k) /\ Over(d, l) /\ l[Len(d) + 1] = a
  BY <1>1, DeepestOfKey
<1>3. /\ Find(ns, k) = Ptr(d, a) /\ a \in DOMAIN ns[d]
      /\ ns[d][a] \in ValueEntries /\ ns[d][a].key = k
  BY <1>1, FindIs
<1>4. ms = Put(ns, Ptr(d, a), e)
  BY <1>3
<1>5. e \in ValueEntries /\ e.key = l /\ e.kind = "value" /\ ns[d][a].kind = "value"
  BY <1>3 DEF KeyEntry, ValueEntries
<1>6. l # k => ~Stored(ns, l)
  <2> SUFFICES ASSUME l # k, Stored(ns, l) PROVE FALSE
    OBVIOUS
  <2>1. PICK f \in Values(ns) : f.key = l
    BY DEF Stored
  <2>2. PICK m \in DOMAIN ns : \E b \in DOMAIN ns[m] : f = ns[m][b] /\ f.kind = "value"
    BY <2>1, ValuesIff
  <2>3. PICK b \in DOMAIN ns[m] : f = ns[m][b] /\ f.kind = "value"
    BY <2>2
  <2>4. m \in Seq(Nat) /\ d \in Seq(Nat) /\ l \in Seq(Nat)
    BY <1>1, <1>2, KeyFacts DEF Typed
  <2>5. m = Deepest(ns, l) /\ b = l[Len(m) + 1]
    BY <1>1, <2>1, <2>3, WhereKey
  <2> HIDE DEF d, a, e, ms
  <2>6. IsPrefix(d, m) /\ IsPrefix(m, l)
    BY <1>1, <1>2, <2>5, DeepestOfKey DEF Over
  <2>7. CASE m = d
    BY <1>2, <1>3, <2>1, <2>3, <2>5, <2>7
  <2>8. CASE m # d
    <3>1. Over(d, m) /\ l[Len(d) + 1] = m[Len(d) + 1]
      BY <2>4, <2>6, <2>8, OverTrans
    <3> QED BY <1>1, <1>2, <1>5, <3>1 DEF Linked
  <2> QED BY <2>7, <2>8
<1> HIDE DEF d, a, e, ms
<1>7. Tree(ms) /\ Values(ms) = {f \in Values(ns) : a \in DOMAIN ns[d] => f.key # ns[d][a].key} \cup {e}
  BY <1>2, <1>4, <1>5, PutValue
<1>8. Values(ms) = {f \in Values(ns) : f.key # k} \cup {e}
  BY <1>3, <1>7
<1>9. /\ DOMAIN ms = DOMAIN ns
      /\ ms = [m \in DOMAIN ms |-> ms[m]]
      /\ \A m \in DOMAIN ns \ {d} : ms[m] = ns[m]
      /\ DOMAIN ms[d] = DOMAIN ns[d] \cup {a}
      /\ ms[d] = [b \in DOMAIN ms[d] |-> ms[d][b]]
      /\ ms[d][a] = e
      /\ \A b \in DOMAIN ns[d] \ {a} : ms[d][b] = ns[d][b]
  BY <1>1, <1>2, <1>4, PutIs
<1>10. ASSUME NEW m \in DOMAIN ns
       PROVE  /\ DOMAIN ms[m] = DOMAIN ns[m]
              /\ \A b \in DOMAIN ns[m] : ms[m][b].kind = ns[m][b].kind
                                         /\ (ns[m][b].kind = "node" => ms[m][b] = ns[m][b])
  BY <1>3, <1>5, <1>9
<1> QED BY <1>6, <1>7, <1>8, <1>9, <1>10 DEF e, ms

-----------------------------------------------------------------------------
(* The buckets of a tree *)

BucketIn(ns, k) == IF Find(ns, k) = Null THEN {} ELSE At(ns, Find(ns, k)).bucket
StoredKeys(ns) == {k \in Key : Stored(ns, k)}

(* A stored key has one entry, with its bucket. *)
LEMMA BucketIs ==
  ASSUME NEW ns, Tree(ns), NEW k \in Key
  PROVE  /\ Stored(ns, k) <=> KeyEntry(k, BucketIn(ns, k)) \in Values(ns)
         /\ \A e \in Values(ns) : e.key = k => e = KeyEntry(k, BucketIn(ns, k))
         /\ ~Stored(ns, k) => BucketIn(ns, k) = {}
         /\ BucketIn(ns, k) \subseteq Value
         /\ \A B : KeyEntry(k, B) \in Values(ns) => Stored(ns, k) /\ BucketIn(ns, k) = B
<1>1. Typed(ns) /\ Linked(ns)
  BY DEF Tree
<1> DEFINE e == At(ns, Find(ns, k))
<1>2. /\ Stored(ns, k) <=> Find(ns, k) # Null
      /\ Stored(ns, k) => /\ e \in Values(ns) /\ e.key = k /\ e \in ValueEntries
                          /\ \A f \in Values(ns) : f.key = k => f = e
  BY <1>1, FindIs
<1>3. \A B : KeyEntry(k, B).key = k /\ KeyEntry(k, B).bucket = B
  BY DEF KeyEntry
<1>4. e \in ValueEntries /\ e.key = k => e = KeyEntry(k, e.bucket) /\ e.bucket \subseteq Value
  BY DEF ValueEntries, KeyEntry
<1> HIDE DEF e
<1>5. BucketIn(ns, k) = IF Stored(ns, k) THEN e.bucket ELSE {}
  BY <1>2 DEF BucketIn, e
<1>6. \A f \in Values(ns) : f.key = k => Stored(ns, k)
  BY DEF Stored
<1> QED BY <1>2, <1>3, <1>4, <1>5, <1>6

(* What the stored keys and buckets are after each change. *)
LEMMA EmplacedStore ==
  ASSUME NEW ns, Tree(ns), NEW k \in Key, NEW B \in SUBSET Value
  PROVE  LET ms == Emplaced(ns, k, B) IN
           /\ StoredKeys(ms) = StoredKeys(ns) \cup {k}
           /\ \A l \in Key : BucketIn(ms, l) = IF l = k /\ ~Stored(ns, k) THEN B ELSE BucketIn(ns, l)
<1> DEFINE ms == Emplaced(ns, k, B)
<1>1. /\ Tree(ms) /\ (Stored(ns, k) => ms = ns)
      /\ ~Stored(ns, k) => Values(ms) = Values(ns) \cup {KeyEntry(k, B)}
  BY EmplacedTree
<1> HIDE DEF ms
<1>2. ASSUME NEW l \in Key
      PROVE  /\ Stored(ms, l) <=> Stored(ns, l) \/ l = k
             /\ BucketIn(ms, l) = IF l = k /\ ~Stored(ns, k) THEN B ELSE BucketIn(ns, l)
  <2>1. CASE Stored(ns, k)
    BY <1>1, <2>1
  <2>2. CASE ~Stored(ns, k) /\ l = k
    BY <1>1, <2>2, BucketIs
  <2>3. CASE ~Stored(ns, k) /\ l # k
    <3>1. \A C : KeyEntry(l, C) # KeyEntry(k, B)
      BY <2>3 DEF KeyEntry
    <3>2. \A C : KeyEntry(l, C) \in Values(ms) <=> KeyEntry(l, C) \in Values(ns)
      BY <1>1, <2>3, <3>1
    <3>3. Stored(ms, l) <=> Stored(ns, l)
      BY <1>1, <3>2, BucketIs
    <3>4. BucketIn(ms, l) = BucketIn(ns, l)
      BY <1>1, <3>2, <3>3, BucketIs
    <3> QED BY <2>3, <3>3, <3>4
  <2> QED BY <2>1, <2>2, <2>3
<1> QED BY <1>2 DEF StoredKeys, ms

LEMMA ChangedStore ==
  ASSUME NEW ns, Tree(ns), NEW k \in Key, Stored(ns, k), NEW l \in Key, NEW B \in SUBSET Value,
         LET d == Deepest(ns, k) IN l = k \/ (Over(d, l) /\ l[Len(d) + 1] = k[Len(d) + 1])
  PROVE  LET ms == Put(ns, Find(ns, k), KeyEntry(l, B)) IN
           /\ StoredKeys(ms) = (StoredKeys(ns) \ {k}) \cup {l}
           /\ \A x \in Key : BucketIn(ms, x) = IF x = l THEN B ELSE IF x = k THEN {} ELSE BucketIn(ns, x)
<1> DEFINE ms == Put(ns, Find(ns, k), KeyEntry(l, B))
<1>1. Tree(ms) /\ Values(ms) = {e \in Values(ns) : e.key # k} \cup {KeyEntry(l, B)}
  BY ChangedTree
<1> HIDE DEF ms
<1>2. ASSUME NEW x \in Key
      PROVE  /\ Stored(ms, x) <=> x = l \/ (x # k /\ Stored(ns, x))
             /\ BucketIn(ms, x) = IF x = l THEN B ELSE IF x = k THEN {} ELSE BucketIn(ns, x)
  <2>0. \A C : KeyEntry(x, C).key = x /\ (x # l => KeyEntry(x, C) # KeyEntry(l, B))
    BY DEF KeyEntry
  <2>1. CASE x = l
    BY <1>1, <2>1, BucketIs
  <2>2. CASE x # l /\ x = k
    <3>1. \A C : KeyEntry(x, C) \notin Values(ms)
      BY <1>1, <2>0, <2>2
    <3> QED BY <1>1, <2>2, <3>1, BucketIs
  <2>3. CASE x # l /\ x # k
    <3>1. \A C : KeyEntry(x, C) \in Values(ms) <=> KeyEntry(x, C) \in Values(ns)
      BY <1>1, <2>0, <2>3
    <3>2. Stored(ms, x) <=> Stored(ns, x)
      BY <1>1, <3>1, BucketIs
    <3>3. BucketIn(ms, x) = BucketIn(ns, x)
      BY <1>1, <3>1, <3>2, BucketIs
    <3> QED BY <2>3, <3>2, <3>3
  <2> QED BY <2>1, <2>2, <2>3
<1> QED BY <1>2 DEF StoredKeys, ms

LEMMA RemovedStore ==
  ASSUME NEW ns, Tree(ns), NEW k \in Key, Stored(ns, k)
  PROVE  LET ms == Removed(ns, k) IN
           /\ StoredKeys(ms) = StoredKeys(ns) \ {k}
           /\ \A x \in Key : BucketIn(ms, x) = IF x = k THEN {} ELSE BucketIn(ns, x)
<1> DEFINE ms == Removed(ns, k)
<1>1. Tree(ms) /\ Values(ms) = {e \in Values(ns) : e.key # k}
  BY RemovedTree
<1> HIDE DEF ms
<1>2. ASSUME NEW x \in Key
      PROVE  /\ Stored(ms, x) <=> x # k /\ Stored(ns, x)
             /\ BucketIn(ms, x) = IF x = k THEN {} ELSE BucketIn(ns, x)
  <2>0. \A C : KeyEntry(x, C).key = x
    BY DEF KeyEntry
  <2>1. CASE x = k
    <3>1. \A C : KeyEntry(x, C) \notin Values(ms)
      BY <1>1, <2>0, <2>1
    <3> QED BY <1>1, <2>1, <3>1, BucketIs
  <2>2. CASE x # k
    <3>1. \A C : KeyEntry(x, C) \in Values(ms) <=> KeyEntry(x, C) \in Values(ns)
      BY <1>1, <2>0, <2>2
    <3>2. Stored(ms, x) <=> Stored(ns, x)
      BY <1>1, <3>1, BucketIs
    <3>3. BucketIn(ms, x) = BucketIn(ns, x)
      BY <1>1, <3>1, <3>2, BucketIs
    <3> QED BY <2>2, <3>2, <3>3
  <2> QED BY <2>1, <2>2
<1> QED BY <1>2 DEF StoredKeys, ms

-----------------------------------------------------------------------------
(* The inductive invariant *)

(* The pairs of a key and a value in its bucket. *)
Pairs(ns) == {p \in Key \X Value : p[2] \in BucketIn(ns, p[1])}

(* Pointers that lead to an entry, and to one of a node. *)
Leads(ns, p) == \E n \in DOMAIN ns : \E a \in DOMAIN ns[n] : p = Ptr(n, a)
NodeAt(ns, p) == p = RootEntry \/ (Leads(ns, p) /\ At(ns, p).kind = "node")

(* The counters agree with the tree; a key that relocate_if moves is in it *)
(* twice for a while.                                                      *)
CountInv ==
  /\ numEntries \in Nat /\ size \in Nat
  /\ Cardinality(StoredKeys(nodes)) = numEntries + One(pc = "erase")
  /\ IsFiniteSet(Pairs(nodes)) /\ size = Cardinality(Pairs(nodes))

(* Only the buckets of the relocation under way may be empty: that of the  *)
(* old key once its values have gone, and that of the new one until they   *)
(* come.                                                                   *)
BucketInv ==
  \A k \in StoredKeys(nodes) : BucketIn(nodes, k) = {} =>
    \/ pc \in {"erase", "cleanold"} /\ k = call[1]
    \/ pc \in {"move", "cleannew"} /\ k = call[2]

(* What a relocation is about. *)
CallInv ==
  /\ pc \in {"idle", "insert", "erase", "create", "move", "cleannew", "cleanold"}
  /\ pc # "idle" => /\ call \in Key \X Key \X SUBSET Value /\ call[1] # call[2]
                    /\ Stored(nodes, call[1])
  /\ pc = "insert" => ~Stored(nodes, call[2]) /\ call[3] = BucketIn(nodes, call[1])
  /\ pc \in {"erase", "move", "cleannew"} => Stored(nodes, call[2])
  /\ pc = "erase" => BucketIn(nodes, call[1]) = {}
  /\ pc \in {"create", "move", "cleannew", "cleanold"} => map \in Moving
  /\ ~Refused =>
       /\ pc \in {"create", "move"} =>
            BucketIn(nodes, call[2]) # {} \/ call[3] \cap BucketIn(nodes, call[1]) # {}
       /\ pc = "cleannew" => BucketIn(nodes, call[2]) # {}

(* What its pointers are.  The pointer to the old node is stale only if a  *)
(* map moves its entries, and the one to the old entry only after a        *)
(* removal, which leaves the old bucket as it is.                          *)
PtrInv ==
  /\ DOMAIN ptr = {"old", "oldNode", "parent", "new", "newNode"}
  /\ pc = "insert" =>
       ptr = [PointersFor(call[1], call[2]) EXCEPT !.newNode = EntryOf(nodes, Deepest(nodes, call[2]))]
  /\ pc = "create" => ptr = PointersFor(call[1], call[2])
  /\ pc = "erase" => NodeAt(nodes, ptr.oldNode)
  /\ pc \in {"move", "cleannew"} =>
       /\ ptr.old = Find(nodes, call[1]) /\ ptr.new = Find(nodes, call[2])
       /\ NodeAt(nodes, ptr.oldNode) \/ (ptr.oldNode = Stale /\ map # "array")
  /\ pc = "cleanold" =>
       /\ ptr.old = Stale \/ Leads(nodes, ptr.old)
       /\ BucketIn(nodes, call[1]) = {} =>
            ptr.old = Find(nodes, call[1]) /\ (NodeAt(nodes, ptr.oldNode) \/ ptr.oldNode = Stale)
       /\ map = "array" /\ ~Refused => ptr.old = Find(nodes, call[1]) /\ ptr.oldNode # Stale

IInv == Tree(nodes) /\ map \in Maps /\ CountInv /\ BucketInv /\ CallInv /\ PtrInv

-----------------------------------------------------------------------------
(* Counting *)

(* KeyEntries and Content are what the lemmas above speak of. *)
LEMMA ContentIs ==
  ASSUME NEW ns, Tree(ns)
  PROVE  UNION {{e.key} \X e.bucket : e \in Values(ns)} = Pairs(ns)
<1> DEFINE C == UNION {{e.key} \X e.bucket : e \in Values(ns)}
<1>1. \A e \in Values(ns) : e.key \in Key /\ e.bucket \subseteq Value
                            /\ e.bucket = BucketIn(ns, e.key)
  <2> TAKE e \in Values(ns)
  <2>1. PICK n \in DOMAIN ns : \E a \in DOMAIN ns[n] : e = ns[n][a] /\ e.kind = "value"
    BY ValuesIff
  <2>2. e \in ValueEntries
    BY <2>1, WhereKey DEF Tree
  <2>3. e.key \in Key /\ e.bucket \subseteq Value
    BY <2>2 DEF ValueEntries
  <2>4. e = KeyEntry(e.key, BucketIn(ns, e.key))
    BY <2>3, BucketIs
  <2>5. \A k, B : KeyEntry(k, B).bucket = B
    BY DEF KeyEntry
  <2> QED BY <2>3, <2>4, <2>5
<1>2. ASSUME NEW p \in C PROVE p \in Pairs(ns)
  <2>1. PICK e \in Values(ns) : p \in {e.key} \X e.bucket
    OBVIOUS
  <2>2. p \in Key \X Value /\ p[1] = e.key /\ p[2] \in e.bucket
    BY <1>1, <2>1
  <2> QED BY <1>1, <2>2 DEF Pairs
<1>3. ASSUME NEW p \in Pairs(ns) PROVE p \in C
  <2>1. p \in Key \X Value /\ p[2] \in BucketIn(ns, p[1]) /\ p[1] \in Key
    BY DEF Pairs
  <2>2. Stored(ns, p[1])
    BY <2>1, BucketIs
  <2>3. PICK e \in Values(ns) : e.key = p[1]
    BY <2>2 DEF Stored
  <2>4. p \in {e.key} \X e.bucket
    BY <1>1, <2>1, <2>3
  <2> QED BY <2>4
<1> HIDE DEF C
<1>4. C = Pairs(ns)
  BY <1>2, <1>3
<1> QED BY <1>4 DEF C

(* There are as many entries with keys as keys are stored. *)
LEMMA EntryCount ==
  ASSUME NEW ns, Tree(ns)
  PROVE  Cardinality(Values(ns)) = Cardinality(StoredKeys(ns))
<1> DEFINE S == StoredKeys(ns)
           f == [k \in S |-> KeyEntry(k, BucketIn(ns, k))]
<1>1. IsFiniteSet(S)
  BY KeyAssumption, FS_Subset DEF StoredKeys
<1>2. \A k, B : KeyEntry(k, B).key = k
  BY DEF KeyEntry
<1>3. \A k \in S : k \in Key /\ f[k] \in Values(ns)
  BY BucketIs DEF StoredKeys
<1>4. \A e \in Values(ns) : \E k \in S : f[k] = e
  <2> TAKE e \in Values(ns)
  <2>1. PICK n \in DOMAIN ns : \E a \in DOMAIN ns[n] : e = ns[n][a] /\ e.kind = "value"
    BY ValuesIff
  <2>2. e.key \in Key
    BY <2>1, WhereKey DEF Tree
  <2>3. e.key \in S /\ e = KeyEntry(e.key, BucketIn(ns, e.key))
    BY <2>2, BucketIs DEF StoredKeys, Stored
  <2> QED BY <2>3
<1>5. f \in Bijection(S, Values(ns))
  <2>1. f \in [S -> Values(ns)]
    BY <1>3
  <2>2. \A k, l \in S : f[k] = f[l] => k = l
    BY <1>2
  <2> HIDE DEF f, S
  <2> QED BY <1>4, <2>1, <2>2 DEF Bijection, Injection, Surjection, IsInjective
<1> HIDE DEF f, S
<1>6. ExistsBijection(S, Values(ns))
  BY <1>5 DEF ExistsBijection
<1> QED BY <1>1, <1>6, FS_Bijection DEF S

(* One key more or less. *)
LEMMA KeyCounts ==
  ASSUME NEW S \in SUBSET Key, NEW k
  PROVE  /\ IsFiniteSet(S) /\ Cardinality(S) \in Nat
         /\ Cardinality(S \cup {k}) = Cardinality(S) + (IF k \in S THEN 0 ELSE 1)
         /\ Cardinality(S \ {k}) = Cardinality(S) - (IF k \in S THEN 1 ELSE 0)
<1>1. IsFiniteSet(S)
  BY KeyAssumption, FS_Subset
<1>2. Cardinality(S) \in Nat
  BY <1>1, FS_CardinalityType
<1>3. Cardinality(S \cup {k}) = Cardinality(S) + (IF k \in S THEN 0 ELSE 1)
  <2>1. CASE k \notin S
    BY <1>1, <2>1, FS_AddElement
  <2>2. CASE k \in S
    <3>1. S \cup {k} = S
      BY <2>2
    <3> QED BY <1>2, <2>2, <3>1
  <2> QED BY <2>1, <2>2
<1>4. Cardinality(S \ {k}) = Cardinality(S) - (IF k \in S THEN 1 ELSE 0)
  <2>1. CASE k \in S
    BY <1>1, <2>1, FS_RemoveElement
  <2>2. CASE k \notin S
    <3>1. S \ {k} = S
      BY <2>2
    <3> QED BY <1>2, <2>2, <3>1
  <2> QED BY <2>1, <2>2
<1> QED BY <1>1, <1>2, <1>3, <1>4

(* Values that move to another key are as many as before. *)
CanMove(P, k, l, M) ==
  /\ P \subseteq Key \X Value /\ IsFiniteSet(P) /\ k \in Key /\ l \in Key /\ k # l
  /\ M \subseteq Value /\ \A v \in M : <<k, v>> \in P /\ <<l, v>> \notin P

LEMMA MovedPairs ==
  ASSUME NEW P, NEW k, NEW l, NEW M, CanMove(P, k, l, M)
  PROVE  LET Q == (P \ ({k} \X M)) \cup ({l} \X M) IN
           IsFiniteSet(Q) /\ Cardinality(Q) = Cardinality(P)
<1> DEFINE Q == (P \ ({k} \X M)) \cup ({l} \X M)
           f == [p \in P |-> IF p[1] = k /\ p[2] \in M THEN <<l, p[2]>> ELSE p]
<1>0. /\ P \subseteq Key \X Value /\ IsFiniteSet(P) /\ k \in Key /\ l \in Key /\ k # l
      /\ M \subseteq Value /\ \A v \in M : <<k, v>> \in P /\ <<l, v>> \notin P
  BY DEF CanMove
<1>1. \A p \in P : p = <<p[1], p[2]>> /\ p[1] \in Key /\ p[2] \in Value
  BY <1>0
<1>2. f \in [P -> Q]
  <2> SUFFICES ASSUME NEW p \in P PROVE f[p] \in Q
    OBVIOUS
  <2>1. CASE p[1] = k /\ p[2] \in M
    BY <1>0, <2>1
  <2>2. CASE ~(p[1] = k /\ p[2] \in M)
    BY <1>1, <2>2
  <2> QED BY <2>1, <2>2
<1>3. ASSUME NEW p \in P, NEW q \in P, f[p] = f[q] PROVE p = q
  <2>1. p = <<p[1], p[2]>> /\ q = <<q[1], q[2]>>
    BY <1>1
  <2>2. CASE (p[1] = k /\ p[2] \in M) /\ (q[1] = k /\ q[2] \in M)
    BY <1>0, <1>3, <2>1, <2>2
  <2>3. CASE (p[1] = k /\ p[2] \in M) /\ ~(q[1] = k /\ q[2] \in M)
    <3>1. q = <<l, p[2]>>
      BY <1>0, <1>3, <2>3
    <3> QED BY <1>0, <2>3, <3>1
  <2>4. CASE ~(p[1] = k /\ p[2] \in M) /\ (q[1] = k /\ q[2] \in M)
    <3>1. p = <<l, q[2]>>
      BY <1>0, <1>3, <2>4
    <3> QED BY <1>0, <2>4, <3>1
  <2>5. CASE ~(p[1] = k /\ p[2] \in M) /\ ~(q[1] = k /\ q[2] \in M)
    BY <1>3, <2>5
  <2> QED BY <2>2, <2>3, <2>4, <2>5
<1>4. ASSUME NEW q \in Q PROVE \E p \in P : f[p] = q
  <2>1. CASE q \in P \ ({k} \X M)
    <3>1. ~(q[1] = k /\ q[2] \in M)
      BY <1>1, <2>1
    <3> QED BY <2>1, <3>1
  <2>2. CASE q \in {l} \X M
    <3>1. q = <<l, q[2]>> /\ q[2] \in M
      BY <2>2
    <3>2. <<k, q[2]>> \in P /\ f[<<k, q[2]>>] = <<l, q[2]>>
      BY <1>0, <3>1
    <3> QED BY <3>1, <3>2
  <2> QED BY <2>1, <2>2
<1> HIDE DEF f, Q
<1>5. f \in Bijection(P, Q)
  BY <1>2, <1>3, <1>4 DEF Bijection, Injection, Surjection, IsInjective
<1>6. ExistsBijection(P, Q)
  BY <1>5 DEF ExistsBijection
<1> QED BY <1>0, <1>6, FS_Bijection DEF Q

-----------------------------------------------------------------------------
(* Pointers *)

(* The sorts of pointers differ. *)
LEMMA PointerSorts ==
  /\ \A n, a : Ptr(n, a) # RootEntry /\ Ptr(n, a) # Stale /\ Ptr(n, a) # Null
  /\ RootEntry # Stale /\ RootEntry # Null /\ Stale # Null
  /\ \A n, a : Ptr(n, a).node = n /\ Ptr(n, a).addr = a /\ DOMAIN Ptr(n, a) = {"node", "addr"}
  /\ DOMAIN RootEntry = {"root"}
<1>1. \A n, a : DOMAIN Ptr(n, a) = {"node", "addr"} /\ Ptr(n, a).node = n /\ Ptr(n, a).addr = a
  BY DEF Ptr
<1>2. DOMAIN RootEntry = {"root"} /\ DOMAIN Stale = {"stale"} /\ DOMAIN Null = {"null"}
  BY DEF RootEntry, Stale, Null
<1>4. /\ "node" \in {"node", "addr"}
      /\ "node" \notin {"root"} /\ "node" \notin {"stale"} /\ "node" \notin {"null"}
      /\ {"root"} # {"stale"} /\ {"root"} # {"null"} /\ {"stale"} # {"null"}
  OBVIOUS
<1> QED BY <1>1, <1>2, <1>4

(* A pointer determines the node and the address. *)
LEMMA PtrUnique ==
  ASSUME NEW n, NEW a, NEW m, NEW b, Ptr(n, a) = Ptr(m, b)
  PROVE  n = m /\ a = b
  BY DEF Ptr

(* A pointer into a map stays if its entry does and, in a map that moves   *)
(* its entries, nothing is added or removed.                               *)
LEMMA StaleIff ==
  ASSUME NEW ns, NEW ms, NEW n, NEW a
  PROVE  /\ IsStale(Ptr(n, a), ns, ms) <=>
              \/ n \notin DOMAIN ms
              \/ a \notin DOMAIN ms[n]
              \/ map = "sparse" /\ DOMAIN ms[n] # DOMAIN ns[n]
         /\ ~IsStale(RootEntry, ns, ms)
<1>1. "node" \in {"node", "addr"} /\ "node" \notin {"root"}
  OBVIOUS
<1> QED BY <1>1, PointerSorts DEF IsStale

(* The entry of a node stays if its map does. *)
LEMMA EntryStays ==
  ASSUME NEW ns, Tree(ns), NEW ms, NEW m \in DOMAIN ns,
         m # <<>> => LET p == Parent(ns, m) IN
                       /\ p \in DOMAIN ms /\ DOMAIN ms[p] = DOMAIN ns[p]
                       /\ ms[p][m[Len(p) + 1]].kind = "node"
  PROVE  ~IsStale(EntryOf(ns, m), ns, ms) /\ NodeAt(ms, EntryOf(ns, m))
<1>1. CASE m = <<>>
  <2>1. EntryOf(ns, m) = RootEntry
    BY <1>1 DEF EntryOf
  <2> QED BY <2>1, StaleIff DEF NodeAt
<1>2. CASE m # <<>>
  <2> DEFINE p == Parent(ns, m)
             a == m[Len(p) + 1]
  <2>1. p \in DOMAIN ns /\ a \in DOMAIN ns[p] /\ EntryOf(ns, m) = Ptr(p, a)
    BY <1>2, ParentIs DEF Tree
  <2>2. p \in DOMAIN ms /\ DOMAIN ms[p] = DOMAIN ns[p] /\ ms[p][a].kind = "node"
    BY <1>2
  <2> HIDE DEF p, a
  <2>3. ~IsStale(Ptr(p, a), ns, ms)
    BY <2>1, <2>2, StaleIff
  <2>4. Leads(ms, Ptr(p, a))
    BY <2>1, <2>2 DEF Leads
  <2>5. At(ms, Ptr(p, a)) = ms[p][a]
    BY PointerSorts DEF At
  <2> QED BY <2>1, <2>2, <2>3, <2>4, <2>5 DEF NodeAt
<1> QED BY <1>1, <1>2

(* It does if nothing changes. *)
LEMMA EntryLeads ==
  ASSUME NEW ns, Tree(ns), NEW m \in DOMAIN ns
  PROVE  NodeAt(ns, EntryOf(ns, m)) /\ EntryOf(ns, m) # Stale /\ EntryOf(ns, m) # Null
<1>1. m # <<>> => LET p == Parent(ns, m) IN
                    /\ p \in DOMAIN ns /\ DOMAIN ns[p] = DOMAIN ns[p]
                    /\ ns[p][m[Len(p) + 1]].kind = "node"
  <2>1. \A n : NodeEntry(n).kind = "node"
    BY DEF NodeEntry
  <2> QED BY <2>1, ParentIs DEF Tree
<1>2. NodeAt(ns, EntryOf(ns, m))
  BY <1>1, EntryStays
<1>3. EntryOf(ns, m) # Stale /\ EntryOf(ns, m) # Null
  BY PointerSorts DEF EntryOf
<1> QED BY <1>2, <1>3

(* No two nodes share an entry. *)
LEMMA EntryUnique ==
  ASSUME NEW ns, Tree(ns), NEW m \in DOMAIN ns, NEW n \in DOMAIN ns, EntryOf(ns, m) = EntryOf(ns, n)
  PROVE  m = n
<1>1. \A x : NodeEntry(x).key = x
  BY DEF NodeEntry
<1>2. CASE m = <<>> \/ n = <<>>
  <2>1. \A x \in DOMAIN ns : EntryOf(ns, x) = RootEntry <=> x = <<>>
    <3> TAKE x \in DOMAIN ns
    <3>1. EntryOf(ns, x) = IF x = <<>> THEN RootEntry ELSE Ptr(Parent(ns, x), AddressIn(Parent(ns, x), x))
      BY DEF EntryOf
    <3> QED BY <3>1, PointerSorts
  <2> QED BY <1>2, <2>1
<1>3. CASE m # <<>> /\ n # <<>>
  <2> DEFINE p == Parent(ns, m)
             q == Parent(ns, n)
  <2>1. EntryOf(ns, m) = Ptr(p, m[Len(p) + 1]) /\ ns[p][m[Len(p) + 1]] = NodeEntry(m)
    BY <1>3, ParentIs DEF Tree
  <2>2. EntryOf(ns, n) = Ptr(q, n[Len(q) + 1]) /\ ns[q][n[Len(q) + 1]] = NodeEntry(n)
    BY <1>3, ParentIs DEF Tree
  <2> HIDE DEF p, q
  <2>3. p = q /\ m[Len(p) + 1] = n[Len(q) + 1]
    <3>1. Ptr(p, m[Len(p) + 1]) = Ptr(q, n[Len(q) + 1])
      BY <2>1, <2>2
    <3> QED BY <3>1, PtrUnique
  <2>4. NodeEntry(m) = NodeEntry(n)
    BY <2>1, <2>2, <2>3
  <2>5. NodeEntry(m).key = m /\ NodeEntry(n).key = n
    BY <1>1
  <2> QED BY <2>4, <2>5
<1> QED BY <1>2, <1>3

(* A key keeps its place if its entry does. *)
LEMMA FindStays ==
  ASSUME NEW ns, Tree(ns), NEW ms, Tree(ms), NEW k \in Key, Stored(ns, k),
         LET n == Deepest(ns, k)
             a == k[Len(n) + 1]
         IN  n \in DOMAIN ms /\ a \in DOMAIN ms[n] /\ ms[n][a].kind = "value" /\ ms[n][a].key = k
  PROVE  Find(ms, k) = Find(ns, k) /\ Leads(ms, Find(ns, k))
<1> DEFINE n == Deepest(ns, k)
           a == k[Len(n) + 1]
<1>1. Find(ns, k) = Ptr(n, a)
  BY FindIs DEF Tree
<1>2. n \in DOMAIN ms /\ a \in DOMAIN ms[n] /\ ms[n][a].kind = "value" /\ ms[n][a].key = k
  OBVIOUS
<1> HIDE DEF n, a
<1>3. n = Deepest(ms, k) /\ a = k[Len(n) + 1]
  BY <1>2, WhereKey DEF Tree
<1>4. Stored(ms, k)
  BY <1>2, ValuesIff DEF Stored
<1>5. Find(ms, k) = Ptr(n, a)
  BY <1>3, <1>4, FindIs DEF Tree
<1> QED BY <1>1, <1>2, <1>5 DEF Leads

(* What a pointer that names key k leads to. *)
LEMMA NamesKey ==
  ASSUME NEW ns, Tree(ns), NEW k \in Key, NEW p, Leads(ns, p),
         At(ns, p).kind = "value", At(ns, p).key = k
  PROVE  p = Find(ns, k)
<1>1. PICK n \in DOMAIN ns : \E a \in DOMAIN ns[n] : p = Ptr(n, a)
  BY DEF Leads
<1>2. PICK a \in DOMAIN ns[n] : p = Ptr(n, a)
  BY <1>1
<1>3. At(ns, p) = ns[n][a]
  BY <1>2, PointerSorts DEF At
<1>4. n = Deepest(ns, k) /\ a = k[Len(n) + 1]
  BY <1>3, WhereKey DEF Tree
<1>5. Stored(ns, k)
  BY <1>3, ValuesIff DEF Stored
<1> QED BY <1>2, <1>4, <1>5, FindIs DEF Tree

-----------------------------------------------------------------------------
(* Every action keeps the invariant *)

(* The empty tree has no keys. *)
LEMMA EmptyTree ==
  /\ Tree(Empty) /\ StoredKeys(Empty) = {} /\ Pairs(Empty) = {}
  /\ \A k \in Key : BucketIn(Empty, k) = {}
<1>1. /\ DOMAIN Empty = {<<>>} /\ Empty = [n \in DOMAIN Empty |-> Empty[n]]
      /\ Empty[<<>>] = <<>> /\ DOMAIN Empty[<<>>] = {}
      /\ Empty[<<>>] = [a \in DOMAIN Empty[<<>>] |-> Empty[<<>>][a]]
  BY DEF Empty
<1>2. PICK k \in Key : Over(<<>>, k)
  <2>1. PICK k \in Key : TRUE
    BY KeyAssumption
  <2>2. k \in Seq(Nat) /\ Len(k) \in Nat \ {0} /\ <<>> \in Seq(Nat) /\ Len(<<>>) = 0
    BY KeyFacts
  <2>3. IsPrefix(<<>>, k)
    BY SMT DEF IsPrefix
  <2> QED BY <2>2, <2>3 DEF Over
<1>3. Typed(Empty)
  <2>1. DOMAIN Empty \subseteq Seq(Nat)
    BY <1>1
  <2> QED BY <1>1, <1>2, <2>1 DEF Typed
<1>4. Linked(Empty)
  BY <1>1 DEF Linked, Over
<1>5. Full(Empty)
  BY <1>1 DEF Full
<1>6. Values(Empty) = {}
  BY <1>1 DEF Values
<1>7. Tree(Empty) /\ \A l \in Key : ~Stored(Empty, l) /\ BucketIn(Empty, l) = {}
  BY <1>3, <1>4, <1>5, <1>6, BucketIs DEF Tree, Stored
<1> QED BY <1>7 DEF StoredKeys, Pairs

LEMMA InitIInv == Init => IInv /\ Pairs(nodes) = {}
<1> SUFFICES ASSUME Init PROVE IInv /\ Pairs(nodes) = {}
  OBVIOUS
<1>1. nodes = Empty /\ numEntries = 0 /\ size = 0 /\ pc = "idle" /\ map \in Maps /\ ptr = NoPointers
  BY DEF Init
<1>2. IsFiniteSet({}) /\ Cardinality({}) = 0
  BY FS_EmptySet
<1>3. CountInv
  BY <1>1, <1>2, EmptyTree DEF CountInv, One
<1>4. BucketInv /\ CallInv
  BY <1>1, EmptyTree DEF BucketInv, CallInv
<1>5. PtrInv
  BY <1>1 DEF PtrInv, NoPointers
<1> QED BY <1>1, <1>3, <1>4, <1>5, EmptyTree DEF IInv

(* What the invariant says of a key. *)
LEMMA KeyState ==
  ASSUME IInv, NEW k \in Key
  PROVE  /\ Stored(nodes, k) <=> Find(nodes, k) # Null
         /\ Stored(nodes, k) <=> k \in StoredKeys(nodes)
         /\ Bucket(k) = BucketIn(nodes, k) /\ BucketIn(nodes, k) \subseteq Value
         /\ Stored(nodes, k) => /\ Find(nodes, k) # Null
                                /\ At(nodes, Find(nodes, k)).bucket = BucketIn(nodes, k)
                                /\ At(nodes, Find(nodes, k)).kind = "value"
                                /\ At(nodes, Find(nodes, k)).key = k
                                /\ Leads(nodes, Find(nodes, k))
<1>1. Tree(nodes) /\ Typed(nodes) /\ Linked(nodes)
  BY DEF IInv, Tree
<1>2. Bucket(k) = BucketIn(nodes, k)
  BY DEF Bucket, BucketIn
<1>3. BucketIn(nodes, k) \subseteq Value
  BY <1>1, BucketIs
<1>4. (Stored(nodes, k) <=> Find(nodes, k) # Null) /\ (Stored(nodes, k) <=> k \in StoredKeys(nodes))
  BY <1>1, FindIs DEF StoredKeys
<1>5. ASSUME Stored(nodes, k)
      PROVE  /\ At(nodes, Find(nodes, k)).bucket = BucketIn(nodes, k)
             /\ At(nodes, Find(nodes, k)).kind = "value"
             /\ At(nodes, Find(nodes, k)).key = k
             /\ Leads(nodes, Find(nodes, k))
  <2> DEFINE n == Deepest(nodes, k)
             a == k[Len(n) + 1]
  <2>1. /\ Find(nodes, k) = Ptr(n, a) /\ a \in DOMAIN nodes[n]
        /\ nodes[n][a] \in ValueEntries /\ nodes[n][a].key = k
        /\ At(nodes, Find(nodes, k)) = nodes[n][a]
    BY <1>1, <1>5, FindIs
  <2>2. n \in DOMAIN nodes
    BY <1>1, DeepestOfKey
  <2>3. nodes[n][a].kind = "value"
    BY <2>1 DEF ValueEntries
  <2>4. At(nodes, Find(nodes, k)).bucket = BucketIn(nodes, k)
    BY <1>4, <1>5 DEF BucketIn
  <2> HIDE DEF n, a
  <2>5. Leads(nodes, Find(nodes, k))
    BY <2>1, <2>2 DEF Leads
  <2> QED BY <2>1, <2>3, <2>4, <2>5
<1> QED BY <1>2, <1>3, <1>4, <1>5

(* Emplace adds the value to the bucket of the key. *)
LEMMA EmplaceStep ==
  ASSUME IInv, NEW k \in Key, NEW v \in Value, Emplace(k, v)
  PROVE  IInv' /\ Pairs(nodes') = Pairs(nodes) \cup {<<k, v>>}
<1> DEFINE ns == Emplaced(nodes, k, {})
           B == Bucket(k) \cup {v}
<1>1. Tree(nodes) /\ map \in Maps /\ CountInv /\ BucketInv /\ CallInv /\ PtrInv /\ pc = "idle"
  BY DEF IInv, Emplace
<1>2. /\ nodes' = Put(ns, Find(ns, k), KeyEntry(k, B))
      /\ numEntries' = numEntries + One(Find(nodes, k) = Null)
      /\ size' = size + One(v \notin Bucket(k))
      /\ map' = map /\ pc' = pc /\ call' = call /\ ptr' = ptr
  BY DEF Emplace
<1>3. /\ Find(nodes, k) = Null <=> k \notin StoredKeys(nodes)
      /\ Bucket(k) = BucketIn(nodes, k) /\ BucketIn(nodes, k) \subseteq Value
      /\ ~Stored(nodes, k) => BucketIn(nodes, k) = {}
  BY <1>1, KeyState, BucketIs
<1>4. /\ Tree(ns) /\ StoredKeys(ns) = StoredKeys(nodes) \cup {k}
      /\ \A l \in Key : BucketIn(ns, l) = BucketIn(nodes, l)
  <2>0. {} \in SUBSET Value
    OBVIOUS
  <2>1. Tree(ns)
    BY <1>1, <2>0, EmplacedTree
  <2>2. /\ StoredKeys(ns) = StoredKeys(nodes) \cup {k}
        /\ \A l \in Key : BucketIn(ns, l) =
                           IF l = k /\ ~Stored(nodes, k) THEN {} ELSE BucketIn(nodes, l)
    BY <1>1, <2>0, EmplacedStore
  <2> QED BY <1>3, <2>1, <2>2
<1>5. Stored(ns, k)
  BY <1>4 DEF StoredKeys
<1> HIDE DEF ns
<1>6. B \in SUBSET Value /\ v \in B
  BY <1>3
<1> HIDE DEF B
<1>7. /\ Tree(nodes') /\ StoredKeys(nodes') = StoredKeys(ns)
      /\ \A x \in Key : BucketIn(nodes', x) = IF x = k THEN B ELSE BucketIn(ns, x)
  BY <1>2, <1>4, <1>5, <1>6, ChangedTree, ChangedStore
<1>8. Pairs(nodes') = Pairs(nodes) \cup {<<k, v>>}
  BY <1>3, <1>4, <1>7 DEF Pairs, B
<1>9. v \in Bucket(k) <=> <<k, v>> \in Pairs(nodes)
  BY <1>3 DEF Pairs
<1>10. CountInv'
  <2>1. Cardinality(StoredKeys(nodes')) = numEntries'
    <3>1. StoredKeys(nodes) \in SUBSET Key
      BY DEF StoredKeys
    <3>2. Cardinality(StoredKeys(nodes) \cup {k}) = Cardinality(StoredKeys(nodes)) + (IF k \in StoredKeys(nodes) THEN 0 ELSE 1)
      BY <3>1, KeyCounts
    <3> QED BY <1>1, <1>2, <1>3, <1>4, <1>7, <3>2 DEF CountInv, One
  <2>2. IsFiniteSet(Pairs(nodes')) /\ size' = Cardinality(Pairs(nodes'))
    BY <1>1, <1>2, <1>8, <1>9, FS_AddElement, FS_CardinalityType DEF CountInv, One
  <2>3. numEntries' \in Nat /\ size' \in Nat
    BY <1>1, <1>2 DEF CountInv, One
  <2> QED BY <1>1, <1>2, <2>1, <2>2, <2>3 DEF CountInv, One
<1>11. BucketInv'
  <2>1. \A x \in StoredKeys(nodes') : BucketIn(nodes', x) # {}
    BY <1>1, <1>4, <1>6, <1>7 DEF BucketInv, StoredKeys
  <2> QED BY <2>1 DEF BucketInv
<1>12. CallInv' /\ PtrInv'
  BY <1>1, <1>2 DEF CallInv, PtrInv
<1> QED BY <1>1, <1>2, <1>7, <1>8, <1>10, <1>11, <1>12 DEF IInv

(* Erase takes the value out of the bucket, and an emptied one away. *)
LEMMA EraseStep ==
  ASSUME IInv, NEW k \in Key, NEW v \in Value, Erase(k, v)
  PROVE  IInv' /\ Pairs(nodes') = Pairs(nodes) \ {<<k, v>>}
<1> DEFINE rest == Bucket(k) \ {v}
<1>1. Tree(nodes) /\ map \in Maps /\ CountInv /\ BucketInv /\ CallInv /\ PtrInv /\ pc = "idle"
  BY DEF IInv, Erase
<1>2. /\ Find(nodes, k) # Null
      /\ nodes' = IF rest = {} THEN Removed(nodes, k)
                  ELSE Put(nodes, Find(nodes, k), KeyEntry(k, rest))
      /\ numEntries' = numEntries - One(rest = {})
      /\ size' = size - One(v \in Bucket(k))
      /\ map' = map /\ pc' = pc /\ call' = call /\ ptr' = ptr
  BY DEF Erase
<1>3. /\ Stored(nodes, k) /\ k \in StoredKeys(nodes)
      /\ Bucket(k) = BucketIn(nodes, k) /\ BucketIn(nodes, k) \subseteq Value
  BY <1>1, <1>2, KeyState
<1>4. rest \in SUBSET Value /\ rest = BucketIn(nodes, k) \ {v}
  BY <1>3
<1> HIDE DEF rest
<1>5. /\ Tree(nodes')
      /\ StoredKeys(nodes') = IF rest = {} THEN StoredKeys(nodes) \ {k} ELSE StoredKeys(nodes)
      /\ \A x \in Key : BucketIn(nodes', x) = IF x = k THEN rest ELSE BucketIn(nodes, x)
  <2>1. CASE rest = {}
    BY <1>1, <1>2, <1>3, <2>1, RemovedTree, RemovedStore
  <2>2. CASE rest # {}
    <3>1. nodes' = Put(nodes, Find(nodes, k), KeyEntry(k, rest))
      BY <1>2, <2>2
    <3>2. Tree(nodes')
      BY <1>1, <1>3, <1>4, <3>1, ChangedTree
    <3>3. /\ StoredKeys(nodes') = (StoredKeys(nodes) \ {k}) \cup {k}
          /\ \A x \in Key : BucketIn(nodes', x) = IF x = k THEN rest ELSE IF x = k THEN {} ELSE BucketIn(nodes, x)
      BY <1>1, <1>3, <1>4, <3>1, ChangedStore
    <3> QED BY <1>3, <2>2, <3>2, <3>3
  <2> QED BY <2>1, <2>2
<1>6. Pairs(nodes') = Pairs(nodes) \ {<<k, v>>}
  BY <1>4, <1>5 DEF Pairs
<1>7. v \in Bucket(k) <=> <<k, v>> \in Pairs(nodes)
  BY <1>3 DEF Pairs
<1>8. CountInv'
  <2>1. Cardinality(StoredKeys(nodes')) = numEntries' /\ numEntries' \in Nat
    <3>1. StoredKeys(nodes) \in SUBSET Key /\ StoredKeys(nodes') \in SUBSET Key
      BY DEF StoredKeys
    <3>2. /\ Cardinality(StoredKeys(nodes) \ {k}) = Cardinality(StoredKeys(nodes)) - 1
          /\ Cardinality(StoredKeys(nodes')) \in Nat
      BY <1>3, <3>1, KeyCounts
    <3> QED BY <1>1, <1>2, <1>5, <3>2 DEF CountInv, One
  <2>2. IsFiniteSet(Pairs(nodes')) /\ size' = Cardinality(Pairs(nodes'))
    <3>1. /\ IsFiniteSet(Pairs(nodes)) /\ size = Cardinality(Pairs(nodes)) /\ size \in Nat
          /\ size' = size - One(<<k, v>> \in Pairs(nodes))
      BY <1>1, <1>2, <1>7 DEF CountInv
    <3> QED BY <1>6, <3>1, FS_RemoveElement DEF One
  <2>3. size' \in Nat
    BY <2>2, FS_CardinalityType
  <2> QED BY <1>1, <1>2, <2>1, <2>2, <2>3 DEF CountInv, One
<1>9. BucketInv'
  <2>1. \A x \in StoredKeys(nodes') : BucketIn(nodes', x) # {}
    BY <1>1, <1>5 DEF BucketInv, StoredKeys
  <2> QED BY <2>1 DEF BucketInv
<1>10. CallInv' /\ PtrInv'
  BY <1>1, <1>2 DEF CallInv, PtrInv
<1> QED BY <1>1, <1>2, <1>5, <1>6, <1>8, <1>9, <1>10 DEF IInv

LEMMA ClearStep ==
  ASSUME IInv, Clear
  PROVE  IInv' /\ Pairs(nodes') = {}
<1>1. map \in Maps /\ PtrInv /\ pc = "idle"
  BY DEF IInv, Clear
<1>2. /\ nodes' = Empty /\ numEntries' = 0 /\ size' = 0
      /\ map' = map /\ pc' = pc /\ call' = call /\ ptr' = ptr
  BY DEF Clear
<1>3. IsFiniteSet({}) /\ Cardinality({}) = 0
  BY FS_EmptySet
<1>4. CountInv'
  BY <1>1, <1>2, <1>3, EmptyTree DEF CountInv, One
<1>5. BucketInv' /\ CallInv'
  BY <1>1, <1>2, EmptyTree DEF BucketInv, CallInv
<1>6. PtrInv'
  BY <1>1, <1>2 DEF PtrInv
<1> QED BY <1>1, <1>2, <1>4, <1>5, <1>6, EmptyTree DEF IInv

(* The values M of key k have moved to key l in the tree ms. *)
Moved(ms, k, l, M) ==
  \A x \in Key : BucketIn(ms, x) =
    CASE x = k -> BucketIn(nodes, k) \ M
      [] x = l -> BucketIn(nodes, l) \cup M
      [] OTHER -> BucketIn(nodes, x)

(* Their number stays. *)
LEMMA MovedSize ==
  ASSUME IInv, NEW k \in Key, NEW l \in Key, k # l, NEW M \in SUBSET Value, NEW ms,
         M \subseteq BucketIn(nodes, k), M \cap BucketIn(nodes, l) = {}, Moved(ms, k, l, M)
  PROVE  /\ IsFiniteSet(Pairs(ms)) /\ Cardinality(Pairs(ms)) = size
         /\ {k} \X M \subseteq Pairs(nodes)
         /\ Pairs(ms) = (Pairs(nodes) \ ({k} \X M)) \cup ({l} \X M)
<1>1. \A p \in Key \X Value : p = <<p[1], p[2]>> /\ p[1] \in Key /\ p[2] \in Value
  OBVIOUS
<1>2. Pairs(ms) = (Pairs(nodes) \ ({k} \X M)) \cup ({l} \X M)
  <2> SUFFICES ASSUME NEW p \in Key \X Value
               PROVE  p \in Pairs(ms) <=>
                        (p \in Pairs(nodes) /\ ~(p[1] = k /\ p[2] \in M)) \/ (p[1] = l /\ p[2] \in M)
    BY <1>1 DEF Pairs
  <2>1. BucketIn(ms, p[1]) = CASE p[1] = k -> BucketIn(nodes, k) \ M
                               [] p[1] = l -> BucketIn(nodes, l) \cup M
                               [] OTHER -> BucketIn(nodes, p[1])
    BY <1>1 DEF Moved
  <2>2. CASE p[1] = k
    BY <2>1, <2>2 DEF Pairs
  <2>3. CASE p[1] = l
    BY <2>1, <2>3 DEF Pairs
  <2>4. CASE p[1] # k /\ p[1] # l
    BY <2>1, <2>4 DEF Pairs
  <2> QED BY <2>2, <2>3, <2>4
<1>3. {k} \X M \subseteq Pairs(nodes) /\ \A v \in M : <<k, v>> \in Pairs(nodes) /\ <<l, v>> \notin Pairs(nodes)
  <2>1. \A v \in M : v \in Value /\ v \in BucketIn(nodes, k) /\ v \notin BucketIn(nodes, l)
    OBVIOUS
  <2>2. \A v \in M : <<k, v>> \in Pairs(nodes) /\ <<l, v>> \notin Pairs(nodes)
    BY <2>1 DEF Pairs
  <2>3. \A p \in {k} \X M : p = <<k, p[2]>> /\ p[2] \in M
    OBVIOUS
  <2> QED BY <2>2, <2>3
<1>4. Pairs(nodes) \in SUBSET (Key \X Value)
  BY DEF Pairs
<1>5. IsFiniteSet(Pairs(nodes)) /\ size = Cardinality(Pairs(nodes))
  BY DEF IInv, CountInv
<1> DEFINE P == Pairs(nodes)
           Q == (P \ ({k} \X M)) \cup ({l} \X M)
<1>6. IsFiniteSet(Q) /\ Cardinality(Q) = Cardinality(P)
  <2>1. CanMove(P, k, l, M)
    BY <1>3, <1>4, <1>5 DEF CanMove
  <2> HIDE DEF P
  <2> QED BY <2>1, MovedPairs
<1> QED BY <1>2, <1>3, <1>5, <1>6

(* A key in the same place is over the same node, at the same address.     *)
LEMMA SamePlaceIs ==
  ASSUME IInv, NEW k \in Key, NEW l \in Key, SamePlace(k, l)
  PROVE  LET d == Deepest(nodes, k) IN Over(d, l) /\ l[Len(d) + 1] = k[Len(d) + 1]
<1> DEFINE d == Deepest(nodes, k)
           a == k[Len(d) + 1]
<1>1. Tree(nodes) /\ Typed(nodes)
  BY DEF IInv, Tree
<1>2. d \in DOMAIN nodes /\ d \in Seq(Nat) /\ Over(d, k)
  BY <1>1, DeepestOfKey DEF Typed
<1>3. k \in Seq(Nat) /\ l \in Seq(Nat)
  BY KeyFacts
<1>4. a \in Nat
  BY <1>2, <1>3 DEF Over
<1>5. IsPrefix(Append(d, a), l)
  <2> HIDE DEF d
  <2>1. IsPrefix(Append(Deepest(nodes, k), AddressIn(Deepest(nodes, k), k)), l)
    BY DEF SamePlace
  <2> QED BY <2>1 DEF AddressIn, d
<1> HIDE DEF d, a
<1>6. IsPrefix(d, l) /\ Len(d) < Len(l) /\ l[Len(d) + 1] = a
  <2> DEFINE A == Nat
  <2>1. d \in Seq(A) /\ l \in Seq(A) /\ a \in A
    BY <1>2, <1>3, <1>4
  <2> HIDE DEF A
  <2> QED BY <1>5, <2>1, PrefixAppend
<1> QED BY <1>6 DEF Over, d, a

(* Rename moves all values of a key. *)
LEMMA RenameStep ==
  ASSUME IInv, pc = "idle", NEW k \in Key, NEW l \in Key, k # l, Find(nodes, k) # Null,
         SamePlace(k, l), Rename(k, l)
  PROVE  /\ IInv'
         /\ {k} \X BucketIn(nodes, k) \subseteq Pairs(nodes)
         /\ Pairs(nodes') = (Pairs(nodes) \ ({k} \X BucketIn(nodes, k))) \cup ({l} \X BucketIn(nodes, k))
<1> DEFINE B == BucketIn(nodes, k)
<1>1. Tree(nodes) /\ map \in Maps /\ CountInv /\ BucketInv /\ CallInv /\ PtrInv
  BY DEF IInv
<1>2. /\ nodes' = Put(nodes, Find(nodes, k), KeyEntry(l, B))
      /\ numEntries' = numEntries /\ size' = size
      /\ map' = map /\ pc' = pc /\ call' = call /\ ptr' = ptr
  BY KeyState DEF Rename
<1>3. Stored(nodes, k) /\ k \in StoredKeys(nodes) /\ B \in SUBSET Value
  BY KeyState
<1>4. LET d == Deepest(nodes, k) IN Over(d, l) /\ l[Len(d) + 1] = k[Len(d) + 1]
  BY SamePlaceIs
<1> HIDE DEF B
<1>5. Tree(nodes') /\ ~Stored(nodes, l)
  BY <1>1, <1>2, <1>3, <1>4, ChangedTree
<1>6. /\ StoredKeys(nodes') = (StoredKeys(nodes) \ {k}) \cup {l}
      /\ \A x \in Key : BucketIn(nodes', x) = IF x = l THEN B ELSE IF x = k THEN {} ELSE BucketIn(nodes, x)
  BY <1>1, <1>2, <1>3, <1>4, ChangedStore
<1>7. BucketIn(nodes, l) = {} /\ l \notin StoredKeys(nodes)
  BY <1>1, <1>5, BucketIs DEF StoredKeys
<1>8. Moved(nodes', k, l, B)
  BY <1>6, <1>7 DEF Moved, B
<1>9. /\ IsFiniteSet(Pairs(nodes')) /\ Cardinality(Pairs(nodes')) = size
      /\ {k} \X B \subseteq Pairs(nodes)
      /\ Pairs(nodes') = (Pairs(nodes) \ ({k} \X B)) \cup ({l} \X B)
  <2>1. B \subseteq BucketIn(nodes, k) /\ B \cap BucketIn(nodes, l) = {}
    BY <1>7 DEF B
  <2> QED BY <1>3, <1>8, <2>1, MovedSize
<1>10. CountInv'
  <2>1. StoredKeys(nodes) \in SUBSET Key
    BY DEF StoredKeys
  <2>0. k \in StoredKeys(nodes) /\ l \notin StoredKeys(nodes)
    BY <1>3, <1>7
  <2>2. Cardinality((StoredKeys(nodes) \ {k}) \cup {l}) = Cardinality(StoredKeys(nodes))
    <3> DEFINE S == StoredKeys(nodes)
               T == S \ {k}
    <3>1. S \in SUBSET Key /\ T \in SUBSET Key /\ k \in S /\ l \notin T
      BY <2>0, <2>1
    <3> HIDE DEF S
    <3>2. Cardinality(T) = Cardinality(S) - 1 /\ Cardinality(S) \in Nat
      BY <3>1, KeyCounts
    <3> HIDE DEF T
    <3>3. Cardinality(T \cup {l}) = Cardinality(T) + 1
      BY <3>1, KeyCounts
    <3> QED BY <3>2, <3>3 DEF S, T
  <2> QED BY <1>1, <1>2, <1>6, <1>9, <2>2 DEF CountInv, One
<1>11. BucketInv'
  <2>1. B # {}
    BY <1>1, <1>3 DEF BucketInv, B
  <2>2. \A x \in StoredKeys(nodes') : BucketIn(nodes', x) # {}
    BY <1>1, <1>6, <2>1 DEF BucketInv, StoredKeys
  <2> QED BY <2>2 DEF BucketInv
<1>12. CallInv' /\ PtrInv'
  BY <1>1, <1>2 DEF CallInv, PtrInv
<1> QED BY <1>1, <1>2, <1>5, <1>9, <1>10, <1>11, <1>12 DEF IInv, B

(* What is known of the keys of a relocation. *)
LEMMA CallIs ==
  ASSUME IInv, pc # "idle"
  PROVE  /\ call[1] \in Key /\ call[2] \in Key /\ call[3] \subseteq Value
         /\ call[1] # call[2] /\ Stored(nodes, call[1])
<1>1. call \in Key \X Key \X SUBSET Value /\ call[1] # call[2] /\ Stored(nodes, call[1])
  BY DEF IInv, CallInv
<1> QED BY <1>1

(* The pointers of a relocation are those of a record. *)
LEMMA PointersAre ==
  ASSUME NEW k, NEW l
  PROVE  /\ DOMAIN PointersFor(k, l) = {"old", "oldNode", "parent", "new", "newNode"}
         /\ PointersFor(k, l).old = Find(nodes, k)
         /\ PointersFor(k, l).oldNode = EntryOf(nodes, Deepest(nodes, k))
         /\ PointersFor(k, l).parent = IF Deepest(nodes, k) = <<>> THEN Null
                                       ELSE EntryOf(nodes, Parent(nodes, Deepest(nodes, k)))
         /\ PointersFor(k, l).newNode = EntryOf(nodes, Deepest(nodes, Common(k, l)))
<1>1. DOMAIN NoPointers = {"old", "oldNode", "parent", "new", "newNode"}
  BY DEF NoPointers
<1> QED BY <1>1 DEF PointersFor

(* relocate_if: the key is renamed in its place, or pointers are kept.     *)
LEMMA FindForRelocateIfStep ==
  ASSUME IInv, NEW k \in Key, NEW l \in Key, FindForRelocateIf(k, l)
  PROVE  /\ IInv'
         /\ \/ Pairs(nodes') = Pairs(nodes)
            \/ /\ {k} \X BucketIn(nodes, k) \subseteq Pairs(nodes)
               /\ Pairs(nodes') = (Pairs(nodes) \ ({k} \X BucketIn(nodes, k)))
                                     \cup ({l} \X BucketIn(nodes, k))
<1>1. pc = "idle" /\ k # l /\ Find(nodes, k) # Null
  BY DEF FindForRelocateIf
<1>2. CASE SamePlace(k, l) /\ Rename(k, l)
  BY <1>1, <1>2, RenameStep
<1>3. CASE ~(SamePlace(k, l) /\ Rename(k, l))
  <2>1. /\ pc' = "insert" /\ call' = <<k, l, Bucket(k)>> /\ IsFree(l)
        /\ ptr' = [PointersFor(k, l) EXCEPT !.newNode = EntryOf(nodes, Deepest(nodes, l))]
        /\ map' = map /\ nodes' = nodes /\ numEntries' = numEntries /\ size' = size
    BY <1>3 DEF FindForRelocateIf
  <2>2. Tree(nodes) /\ map \in Maps /\ CountInv /\ BucketInv /\ CallInv
    BY DEF IInv
  <2>3. Stored(nodes, k) /\ ~Stored(nodes, l) /\ Bucket(k) = BucketIn(nodes, k) /\ Bucket(k) \subseteq Value
    BY <1>1, <2>1, KeyState DEF IsFree
  <2>4. CountInv'
    BY <1>1, <2>1, <2>2 DEF CountInv, One
  <2>5. BucketInv'
    BY <1>1, <2>1, <2>2 DEF BucketInv
  <2>6. call'[1] = k /\ call'[2] = l /\ call'[3] = Bucket(k)
        /\ call' \in Key \X Key \X SUBSET Value
    BY <2>1, <2>3
  <2>7. CallInv'
    BY <1>1, <2>1, <2>3, <2>6 DEF CallInv
  <2>8. PtrInv'
    <3>1. PointersFor(k, l)' = PointersFor(k, l)
      BY <2>1 DEF PointersFor
    <3>2. ptr' = [PointersFor(k, l)' EXCEPT !.newNode = EntryOf(nodes', Deepest(nodes', l))]
      BY <2>1, <3>1
    <3>3. DOMAIN ptr' = {"old", "oldNode", "parent", "new", "newNode"}
      BY <2>1, PointersAre
    <3> QED BY <2>1, <2>6, <3>2, <3>3 DEF PtrInv
  <2> QED BY <2>1, <2>2, <2>4, <2>5, <2>7, <2>8 DEF IInv
<1> QED BY <1>2, <1>3

(* relocate likewise. *)
LEMMA FindForMoveStep ==
  ASSUME IInv, NEW k \in Key, NEW l \in Key, NEW vs \in SUBSET Value, FindForMove(k, l, vs)
  PROVE  /\ IInv'
         /\ \/ Pairs(nodes') = Pairs(nodes)
            \/ /\ {k} \X BucketIn(nodes, k) \subseteq Pairs(nodes)
               /\ Pairs(nodes') = (Pairs(nodes) \ ({k} \X BucketIn(nodes, k)))
                                     \cup ({l} \X BucketIn(nodes, k))
<1>1. /\ pc = "idle" /\ k # l /\ Find(nodes, k) # Null /\ map \in Moving
      /\ Refused \/ Bucket(l) # {} \/ vs \cap Bucket(k) # {}
  BY DEF FindForMove
<1>2. CASE SamePlace(k, l) /\ Rename(k, l)
  BY <1>1, <1>2, RenameStep
<1>3. CASE ~(SamePlace(k, l) /\ Rename(k, l))
  <2>1. /\ pc' = "create" /\ call' = <<k, l, vs>>
        /\ ptr' = PointersFor(k, l)
        /\ map' = map /\ nodes' = nodes /\ numEntries' = numEntries /\ size' = size
    BY <1>3 DEF FindForMove
  <2>2. Tree(nodes) /\ map \in Maps /\ CountInv /\ BucketInv /\ CallInv
    BY DEF IInv
  <2>3. /\ Stored(nodes, k) /\ Bucket(k) = BucketIn(nodes, k) /\ Bucket(l) = BucketIn(nodes, l)
    BY <1>1, <2>1, KeyState
  <2>4. CountInv'
    BY <1>1, <2>1, <2>2 DEF CountInv, One
  <2>5. BucketInv'
    BY <1>1, <2>1, <2>2 DEF BucketInv
  <2>6. call'[1] = k /\ call'[2] = l /\ call'[3] = vs
        /\ call' \in Key \X Key \X SUBSET Value
    BY <2>1, <2>3
  <2>7. CallInv'
    BY <1>1, <2>1, <2>3, <2>6 DEF CallInv
  <2>8. PtrInv'
    <3>1. PointersFor(k, l)' = PointersFor(k, l)
      BY <2>1 DEF PointersFor
    <3>3. DOMAIN ptr' = {"old", "oldNode", "parent", "new", "newNode"}
      BY <2>1, PointersAre
    <3> QED BY <2>1, <2>6, <3>1, <3>3 DEF PtrInv
  <2> QED BY <2>1, <2>2, <2>4, <2>5, <2>7, <2>8 DEF IInv
<1> QED BY <1>2, <1>3

(* The insertion of relocate_if takes the values from the old key to the   *)
(* new one; the node that is entered to erase the old key is one.          *)
LEMMA InsertMovedStep ==
  ASSUME IInv, InsertMoved
  PROVE  /\ IInv'
         /\ {call[1]} \X call[3] \subseteq Pairs(nodes)
         /\ Pairs(nodes') = (Pairs(nodes) \ ({call[1]} \X call[3])) \cup ({call[2]} \X call[3])
<1> DEFINE k == call[1]
           l == call[2]
           B == call[3]
           n == Deepest(nodes, k)
           d == Deepest(nodes, l)
           e == Put(nodes, Find(nodes, k), KeyEntry(k, {}))
           ms == Emplaced(e, l, B)
<1>1. /\ Tree(nodes) /\ Typed(nodes) /\ Linked(nodes) /\ map \in Maps
      /\ CountInv /\ BucketInv /\ CallInv /\ PtrInv /\ pc = "insert"
  BY DEF IInv, Tree, InsertMoved
<1>2. /\ k \in Key /\ l \in Key /\ B \in SUBSET Value /\ k # l /\ Stored(nodes, k)
      /\ ~Stored(nodes, l) /\ B = BucketIn(nodes, k)
  BY <1>1, CallIs DEF CallInv
<1>3. /\ ptr = [PointersFor(k, l) EXCEPT !.newNode = EntryOf(nodes, d)]
      /\ DOMAIN ptr = {"old", "oldNode", "parent", "new", "newNode"}
      /\ ptr.old = Find(nodes, k) /\ ptr.oldNode = EntryOf(nodes, n)
      /\ ptr.newNode = EntryOf(nodes, d)
      /\ ptr.parent = IF n = <<>> THEN Null ELSE EntryOf(nodes, Parent(nodes, n))
  <2>1. ptr = [PointersFor(k, l) EXCEPT !.newNode = EntryOf(nodes, d)]
    BY <1>1 DEF PtrInv
  <2> HIDE DEF n, d, k, l
  <2> QED BY <2>1, PointersAre DEF n
<1>4. /\ nodes' = ms /\ ptr' = [Kept(ms) EXCEPT !.oldNode = EraseFrom(Kept(ms))]
      /\ pc' = "erase" /\ map' = map /\ numEntries' = numEntries /\ size' = size /\ call' = call
  BY <1>3 DEF InsertMoved
<1> HIDE DEF k, l, B, n, d, e, ms
<1>5. /\ Tree(e) /\ DOMAIN e = DOMAIN nodes
      /\ \A m \in DOMAIN nodes :
           /\ DOMAIN e[m] = DOMAIN nodes[m]
           /\ \A b \in DOMAIN nodes[m] : nodes[m][b].kind = "node" => e[m][b] = nodes[m][b]
  BY <1>1, <1>2, ChangedTree DEF e
<1>6. /\ StoredKeys(e) = StoredKeys(nodes)
      /\ \A x \in Key : BucketIn(e, x) = IF x = k THEN {} ELSE BucketIn(nodes, x)
  <2>1. /\ StoredKeys(e) = (StoredKeys(nodes) \ {k}) \cup {k}
        /\ \A x \in Key : BucketIn(e, x) = IF x = k THEN {} ELSE IF x = k THEN {} ELSE BucketIn(nodes, x)
    BY <1>1, <1>2, ChangedStore DEF e
  <2> QED BY <1>2, <2>1 DEF StoredKeys
<1>7. ~Stored(e, l)
  BY <1>2, <1>6 DEF StoredKeys
<1>8. Deepest(e, l) = d
  BY <1>5 DEF Deepest, d
<1>9. Tree(ms) /\ Extends(ms, e, d, l[Len(d) + 1])
  BY <1>2, <1>5, <1>8, EmplacedTree DEF ms
<1>10. /\ StoredKeys(ms) = StoredKeys(nodes) \cup {l}
       /\ \A x \in Key : BucketIn(ms, x) = IF x = l THEN B ELSE IF x = k THEN {} ELSE BucketIn(nodes, x)
  BY <1>2, <1>5, <1>6, <1>7, EmplacedStore DEF ms
<1>11. BucketIn(nodes, l) = {} /\ l \notin StoredKeys(nodes)
  BY <1>1, <1>2, BucketIs DEF StoredKeys
<1>12. /\ IsFiniteSet(Pairs(ms)) /\ Cardinality(Pairs(ms)) = size
       /\ {k} \X B \subseteq Pairs(nodes)
       /\ Pairs(ms) = (Pairs(nodes) \ ({k} \X B)) \cup ({l} \X B)
  <2>1. Moved(ms, k, l, B)
    BY <1>2, <1>10, <1>11 DEF Moved
  <2>2. B \subseteq BucketIn(nodes, k) /\ B \cap BucketIn(nodes, l) = {}
    BY <1>2, <1>11
  <2> QED BY <1>2, <2>1, <2>2, MovedSize
<1>13. CountInv'
  <2>1. Cardinality(StoredKeys(nodes) \cup {l}) = Cardinality(StoredKeys(nodes)) + 1
    <3>1. StoredKeys(nodes) \in SUBSET Key
      BY DEF StoredKeys
    <3> QED BY <1>11, <3>1, KeyCounts
  <2> QED BY <1>1, <1>4, <1>10, <1>12, <2>1 DEF CountInv, One
<1>14. BucketInv'
  <2>1. B # {}
    BY <1>1, <1>2 DEF BucketInv, StoredKeys
  <2>2. \A x \in StoredKeys(ms) : BucketIn(ms, x) = {} => x = k
    BY <1>1, <1>10, <2>1 DEF BucketInv, StoredKeys
  <2> QED BY <1>4, <2>2 DEF BucketInv, k
<1>15. CallInv'
  <2>1. Stored(ms, k) /\ Stored(ms, l) /\ BucketIn(ms, k) = {}
    BY <1>2, <1>10 DEF StoredKeys
  <2>2. call \in Key \X Key \X SUBSET Value
    BY <1>1 DEF CallInv
  <2> QED BY <1>2, <1>4, <2>1, <2>2 DEF CallInv, k, l
<1>16. ASSUME NEW m \in DOMAIN nodes, m # <<>> => Parent(nodes, m) # d
       PROVE  ~IsStale(EntryOf(nodes, m), nodes, ms) /\ NodeAt(ms, EntryOf(nodes, m))
  <2>1. m # <<>> => LET p == Parent(nodes, m) IN
                      /\ p \in DOMAIN ms /\ DOMAIN ms[p] = DOMAIN nodes[p]
                      /\ ms[p][m[Len(p) + 1]].kind = "node"
    <3> SUFFICES ASSUME m # <<>>
                 PROVE  LET p == Parent(nodes, m) IN
                          /\ p \in DOMAIN ms /\ DOMAIN ms[p] = DOMAIN nodes[p]
                          /\ ms[p][m[Len(p) + 1]].kind = "node"
      OBVIOUS
    <3> DEFINE p == Parent(nodes, m)
               a == m[Len(p) + 1]
    <3>1. p \in DOMAIN nodes /\ a \in DOMAIN nodes[p] /\ nodes[p][a] = NodeEntry(m) /\ p # d
      BY <1>1, <1>16, ParentIs
    <3> HIDE DEF p, a
    <3>2. p \in DOMAIN ms /\ ms[p] = e[p]
      BY <1>5, <1>9, <3>1 DEF Extends
    <3>3. NodeEntry(m).kind = "node"
      BY DEF NodeEntry
    <3>4. p \in DOMAIN ms /\ DOMAIN ms[p] = DOMAIN nodes[p] /\ ms[p][a].kind = "node"
      BY <1>5, <3>1, <3>2, <3>3
    <3> QED BY <3>4 DEF p, a
  <2> QED BY <1>1, <2>1, EntryStays
<1>17. n \in DOMAIN nodes /\ d \in DOMAIN nodes
  BY <1>1, <1>2, DeepestOfKey DEF n, d
<1>18. NodeAt(ms, ptr'.oldNode) /\ DOMAIN ptr' = DOMAIN ptr
  <2>1. \A f \in DOMAIN ptr : Kept(ms)[f] = IF IsStale(ptr[f], nodes, ms) THEN Stale ELSE ptr[f]
    BY DEF Kept
  <2>2. DOMAIN Kept(ms) = DOMAIN ptr
    BY DEF Kept
  <2>3. ptr'.oldNode = EraseFrom(Kept(ms)) /\ DOMAIN ptr' = DOMAIN ptr
    BY <1>3, <1>4, <2>2
  <2>4. CASE ptr.parent = ptr.newNode
    <3>1. n # <<>> /\ EntryOf(nodes, Parent(nodes, n)) = EntryOf(nodes, d)
      BY <1>1, <1>3, <1>17, <2>4, EntryLeads
    <3>2. Parent(nodes, n) \in DOMAIN nodes
      BY <1>1, <1>17, <3>1, ParentIs
    <3>3. Parent(nodes, n) = d
      BY <1>1, <1>17, <3>1, <3>2, EntryUnique
    <3>4. d # <<>> => Parent(nodes, d) # d
      <4>1. d # <<>> => Over(Parent(nodes, d), d)
        BY <1>1, <1>17, ParentIs
      <4>2. Len(d) \in Nat
        BY <1>1, <1>17 DEF Typed
      <4>3. ~Over(d, d)
        BY <4>2 DEF Over
      <4> QED BY <4>1, <4>3
    <3>5. ~IsStale(EntryOf(nodes, d), nodes, ms) /\ NodeAt(ms, EntryOf(nodes, d))
      BY <1>16, <1>17, <3>4
    <3>6. EraseFrom(Kept(ms)) = Kept(ms).parent
      BY <2>4 DEF EraseFrom
    <3> QED BY <1>3, <2>1, <2>3, <2>4, <3>5, <3>6
  <2>5. CASE ptr.parent # ptr.newNode
    <3>1. n # <<>> => Parent(nodes, n) # d
      BY <1>3, <2>5
    <3>2. ~IsStale(EntryOf(nodes, n), nodes, ms) /\ NodeAt(ms, EntryOf(nodes, n))
      BY <1>16, <1>17, <3>1
    <3>3. EraseFrom(Kept(ms)) = Kept(ms).oldNode
      BY <2>5 DEF EraseFrom
    <3> QED BY <1>3, <2>1, <2>3, <3>2, <3>3
  <2> QED BY <2>4, <2>5
<1>19. PtrInv'
  BY <1>3, <1>4, <1>18 DEF PtrInv
<1> QED BY <1>1, <1>4, <1>9, <1>12, <1>13, <1>14, <1>15, <1>19 DEF IInv, k, l, B

(* The old key, whose values have gone, is erased. *)
LEMMA EraseMovedStep ==
  ASSUME IInv, EraseMoved
  PROVE  IInv' /\ Pairs(nodes') = Pairs(nodes)
<1> DEFINE k == call[1]
<1>1. /\ Tree(nodes) /\ map \in Maps /\ CountInv /\ BucketInv /\ CallInv /\ pc = "erase"
  BY DEF IInv, EraseMoved
<1>2. /\ nodes' = Removed(nodes, k) /\ map' = map /\ numEntries' = numEntries /\ size' = size
      /\ pc' = "idle" /\ ptr' = NoPointers
  BY DEF EraseMoved, Return
<1>3. k \in Key /\ Stored(nodes, k) /\ k \in StoredKeys(nodes) /\ BucketIn(nodes, k) = {}
  BY <1>1, CallIs DEF CallInv, StoredKeys
<1>4. \A x \in StoredKeys(nodes) : BucketIn(nodes, x) = {} => x = k
  BY <1>1 DEF BucketInv
<1> HIDE DEF k
<1>5. /\ Tree(nodes') /\ StoredKeys(nodes') = StoredKeys(nodes) \ {k}
      /\ \A x \in Key : BucketIn(nodes', x) = BucketIn(nodes, x)
  BY <1>1, <1>2, <1>3, RemovedTree, RemovedStore
<1>6. Pairs(nodes') = Pairs(nodes)
  BY <1>5 DEF Pairs
<1>7. CountInv'
  <2>1. StoredKeys(nodes) \in SUBSET Key
    BY DEF StoredKeys
  <2>2. Cardinality(StoredKeys(nodes) \ {k}) = Cardinality(StoredKeys(nodes)) - 1
    BY <1>3, <2>1, KeyCounts
  <2> QED BY <1>1, <1>2, <1>5, <1>6, <2>2 DEF CountInv, One
<1>8. BucketInv'
  <2>1. \A x \in StoredKeys(nodes') : BucketIn(nodes', x) # {}
    BY <1>4, <1>5 DEF StoredKeys
  <2> QED BY <2>1 DEF BucketInv
<1>9. CallInv'
  BY <1>2 DEF CallInv
<1>10. PtrInv'
  BY <1>2 DEF PtrInv, NoPointers
<1> QED BY <1>1, <1>2, <1>5, <1>6, <1>7, <1>8, <1>9, <1>10 DEF IInv

(* A bucket for the new key; the pointers are looked up again where its    *)
(* insertion may have moved what they lead to.                             *)
LEMMA CreateBucketStep ==
  ASSUME IInv, CreateBucket
  PROVE  IInv' /\ Pairs(nodes') = Pairs(nodes)
<1> DEFINE k == call[1]
           l == call[2]
           n == Deepest(nodes, k)
           d == Deepest(nodes, l)
           c == Deepest(nodes, Common(k, l))
           ms == Emplaced(nodes, l, {})
           again == ms # nodes /\ ptr.oldNode = ptr.newNode
<1>1. /\ Tree(nodes) /\ Typed(nodes) /\ Linked(nodes) /\ map \in Maps
      /\ CountInv /\ BucketInv /\ CallInv /\ PtrInv /\ pc = "create"
  BY DEF IInv, Tree, CreateBucket
<1>2. k \in Key /\ l \in Key /\ k # l /\ Stored(nodes, k)
  BY <1>1, CallIs
<1>3. /\ ptr = PointersFor(k, l)
      /\ DOMAIN ptr = {"old", "oldNode", "parent", "new", "newNode"}
      /\ ptr.old = Find(nodes, k) /\ ptr.oldNode = EntryOf(nodes, n)
      /\ ptr.newNode = EntryOf(nodes, c)
  <2>1. ptr = PointersFor(k, l)
    BY <1>1 DEF PtrInv
  <2> HIDE DEF n, c, k, l
  <2> QED BY <2>1, PointersAre DEF n, c
<1>4. /\ nodes' = ms /\ numEntries' = numEntries + One(ms # nodes)
      /\ ptr' = [Kept(ms) EXCEPT
                   !.new = Find(ms, l),
                   !.newNode = EntryOf(nodes, Deepest(nodes, l)),
                   !.old = IF again THEN Find(ms, k) ELSE @,
                   !.oldNode = IF again THEN EntryOf(ms, Deepest(ms, k)) ELSE @]
      /\ pc' = "move" /\ map' = map /\ size' = size /\ call' = call
  BY DEF CreateBucket
<1> HIDE DEF k, l, n, d, c, ms, again
<1>5. n \in DOMAIN nodes /\ d \in DOMAIN nodes /\ Over(n, k)
  BY <1>1, <1>2, DeepestOfKey DEF n, d
<1>6. Tree(ms) /\ Extends(ms, nodes, d, l[Len(d) + 1]) /\ (Stored(nodes, l) => ms = nodes)
  <2>1. {} \in SUBSET Value
    OBVIOUS
  <2> QED BY <1>1, <1>2, <2>1, EmplacedTree DEF ms, d
<1>7. /\ StoredKeys(ms) = StoredKeys(nodes) \cup {l}
      /\ \A x \in Key : BucketIn(ms, x) = BucketIn(nodes, x)
  <2>1. {} \in SUBSET Value
    OBVIOUS
  <2>2. /\ StoredKeys(ms) = StoredKeys(nodes) \cup {l}
        /\ \A x \in Key : BucketIn(ms, x) = IF x = l /\ ~Stored(nodes, l) THEN {} ELSE BucketIn(nodes, x)
    BY <1>1, <1>2, <2>1, EmplacedStore DEF ms
  <2>3. ~Stored(nodes, l) => BucketIn(nodes, l) = {}
    BY <1>1, <1>2, BucketIs
  <2> QED BY <2>2, <2>3
<1>8. ms = nodes <=> l \in StoredKeys(nodes)
  BY <1>2, <1>6, <1>7 DEF StoredKeys
<1>9. Stored(ms, k) /\ Stored(ms, l)
  BY <1>2, <1>7 DEF StoredKeys
<1>10. Pairs(ms) = Pairs(nodes)
  BY <1>7 DEF Pairs
<1>11. CountInv'
  <2>1. StoredKeys(nodes) \in SUBSET Key
    BY DEF StoredKeys
  <2>2. Cardinality(StoredKeys(nodes) \cup {l})
          = Cardinality(StoredKeys(nodes)) + (IF l \in StoredKeys(nodes) THEN 0 ELSE 1)
    BY <2>1, KeyCounts
  <2> QED BY <1>1, <1>4, <1>7, <1>8, <1>10, <2>2 DEF CountInv, One
<1>12. BucketInv'
  <2>1. \A x \in StoredKeys(ms) : BucketIn(ms, x) = {} => x = l
    BY <1>1, <1>7 DEF BucketInv, StoredKeys
  <2> QED BY <1>4, <2>1 DEF BucketInv, l
<1>13. CallInv'
  <2>1. call \in Key \X Key \X SUBSET Value /\ map \in Moving
    BY <1>1 DEF CallInv
  <2>2. ~Refused => BucketIn(ms, l) # {} \/ call[3] \cap BucketIn(ms, k) # {}
    BY <1>1, <1>2, <1>7 DEF CallInv, k, l
  <2> QED BY <1>2, <1>4, <1>9, <2>1, <2>2 DEF CallInv, k, l
(* What is kept is not stale, or its map moved its entries.                *)
<1>14. \A f \in DOMAIN ptr : Kept(ms)[f] = IF IsStale(ptr[f], nodes, ms) THEN Stale ELSE ptr[f]
  BY DEF Kept
<1>15. /\ DOMAIN ptr' = DOMAIN ptr
       /\ ptr'.new = Find(ms, l)
       /\ ptr'.old = IF again THEN Find(ms, k) ELSE Kept(ms).old
       /\ ptr'.oldNode = IF again THEN EntryOf(ms, Deepest(ms, k)) ELSE Kept(ms).oldNode
  <2>1. DOMAIN Kept(ms) = DOMAIN ptr
    BY DEF Kept
  <2> QED BY <1>3, <1>4, <2>1
<1>16. ~again /\ ms # nodes => n # d
  <2> SUFFICES ASSUME ~again, ms # nodes, n = d PROVE FALSE
    OBVIOUS
  <2>1. n # c
    BY <1>3 DEF again
  <2>2. k \in Seq(Nat) /\ l \in Seq(Nat) /\ n \in Seq(Nat) /\ Len(k) = Len(l)
    BY <1>1, <1>2, <1>5, KeyFacts DEF Typed
  <2>3. IsPrefix(n, k) /\ IsPrefix(n, l)
    BY <1>1, <1>2, DeepestOfKey DEF n, d, Over
  <2> DEFINE s == Common(k, l)
  <2>4. s \in Seq(Nat) /\ IsPrefix(s, k) /\ IsPrefix(s, l) /\ IsPrefix(n, s)
    <3> DEFINE A == Nat
               T == {k, l}
    <3>1. T \in SUBSET Seq(A) /\ T # {} /\ n \in Seq(A)
      BY <2>2
    <3>2. s = LongestCommonPrefix(T)
      BY DEF Common
    <3> HIDE DEF A, T, s
    <3>3. /\ s \in Seq(A)
          /\ \A t \in T : IsPrefix(s, t)
          /\ \A q \in Seq(A) : (\A t \in T : IsPrefix(q, t)) => IsPrefix(q, s)
      BY <3>1, <3>2, CommonPrefix
    <3> QED BY <2>3, <3>1, <3>3 DEF A, T
  <2>5. c = Deepest(nodes, s)
    BY DEF c
  <2> HIDE DEF s
  <2>6. <<>> \in DOMAIN nodes /\ DOMAIN nodes \subseteq Seq(Nat)
    BY <1>1 DEF Typed
  <2>7. c \in DOMAIN nodes /\ IsPrefix(c, s) /\ IsPrefix(n, c)
    BY <1>5, <2>4, <2>5, <2>6, DeepestIs
  <2>8. c \in Seq(Nat) /\ IsPrefix(c, k)
    BY <2>2, <2>4, <2>6, <2>7, PrefixTrans
  <2>9. IsPrefix(c, n)
    BY <1>1, <1>2, <2>7, <2>8, DeepestOfKey DEF n
  <2>10. Len(c) = Len(n)
    BY <2>2, <2>7, <2>8, <2>9, PrefixIff
  <2> QED BY <2>1, <2>2, <2>7, <2>8, <2>10, PrefixSame
<1>17. ptr'.old = Find(ms, k)
  <2> SUFFICES ASSUME ~again PROVE Kept(ms).old = Find(ms, k)
    BY <1>15
  <2> DEFINE a == k[Len(n) + 1]
  <2>1. /\ Find(nodes, k) = Ptr(n, a) /\ a \in DOMAIN nodes[n]
        /\ nodes[n][a].key = k /\ nodes[n][a] \in ValueEntries
    BY <1>1, <1>2, FindIs DEF n
  <2>2. nodes[n][a].kind = "value"
    BY <2>1 DEF ValueEntries
  <2> HIDE DEF a
  <2>3. n \in DOMAIN ms /\ ms[n] = nodes[n]
    BY <1>5, <1>6, <1>16 DEF Extends
  <2>4. ~IsStale(Ptr(n, a), nodes, ms)
    BY <2>1, <2>3, StaleIff
  <2>5. Kept(ms).old = Find(nodes, k)
    BY <1>3, <1>14, <2>1, <2>4
  <2>6. Find(ms, k) = Find(nodes, k)
    BY <1>1, <1>2, <1>6, <2>1, <2>2, <2>3, FindStays DEF n, a
  <2> QED BY <2>5, <2>6
<1>18. NodeAt(ms, ptr'.oldNode) \/ (ptr'.oldNode = Stale /\ map # "array")
  <2>1. CASE again
    <3>1. Typed(ms)
      BY <1>6 DEF Tree
    <3>2. Deepest(ms, k) \in DOMAIN ms
      BY <1>2, <3>1, DeepestOfKey
    <3>3. NodeAt(ms, EntryOf(ms, Deepest(ms, k)))
      BY <1>6, <3>2, EntryLeads
    <3> QED BY <1>15, <2>1, <3>3
  <2>2. CASE ~again
    <3>1. ptr'.oldNode = IF IsStale(EntryOf(nodes, n), nodes, ms) THEN Stale ELSE EntryOf(nodes, n)
      BY <1>3, <1>14, <1>15, <2>2
    <3>2. CASE n = <<>>
      <4>1. EntryOf(nodes, n) = RootEntry
        BY <3>2 DEF EntryOf
      <4> QED BY <3>1, <4>1, StaleIff DEF NodeAt
    <3>3. CASE n # <<>>
      <4> DEFINE p == Parent(nodes, n)
                 a == n[Len(p) + 1]
      <4>1. p \in DOMAIN nodes /\ a \in DOMAIN nodes[p] /\ nodes[p][a] = NodeEntry(n) /\ EntryOf(nodes, n) = Ptr(p, a)
        BY <1>1, <1>5, <3>3, ParentIs
      <4> HIDE DEF p, a
      <4>2. nodes[p][a].kind = "node"
        BY <4>1 DEF NodeEntry
      <4>3. p \in DOMAIN ms /\ a \in DOMAIN ms[p] /\ ms[p][a].kind = "node"
        BY <1>6, <4>1, <4>2 DEF Extends
      <4>4. NodeAt(ms, Ptr(p, a))
        <5>1. At(ms, Ptr(p, a)) = ms[p][a]
          BY PointerSorts DEF At
        <5> QED BY <4>3, <5>1 DEF NodeAt, Leads
      <4>5. IsStale(Ptr(p, a), nodes, ms) => map = "sparse"
        BY <4>3, StaleIff
      <4> QED BY <3>1, <4>1, <4>4, <4>5
    <3> QED BY <3>2, <3>3
  <2> QED BY <2>1, <2>2
<1>19. PtrInv'
  BY <1>3, <1>4, <1>15, <1>17, <1>18 DEF PtrInv, k, l
<1> QED BY <1>1, <1>4, <1>6, <1>10, <1>11, <1>12, <1>13, <1>19 DEF IInv

(* A bucket that changes leaves every pointer where it leads to. *)
LEMMA BucketPut ==
  ASSUME NEW ns, Tree(ns), NEW k \in Key, Stored(ns, k), NEW B \in SUBSET Value
  PROVE  LET ms == Put(ns, Find(ns, k), KeyEntry(k, B)) IN
           /\ Tree(ms) /\ StoredKeys(ms) = StoredKeys(ns)
           /\ \A x \in Key : BucketIn(ms, x) = IF x = k THEN B ELSE BucketIn(ns, x)
           /\ \A x \in Key : Find(ms, x) = Find(ns, x)
           /\ \A p : NodeAt(ns, p) => NodeAt(ms, p)
<1> DEFINE ms == Put(ns, Find(ns, k), KeyEntry(k, B))
<1>1. Typed(ns) /\ Linked(ns)
  BY DEF Tree
<1>2. /\ Tree(ms) /\ DOMAIN ms = DOMAIN ns
      /\ \A m \in DOMAIN ns :
           /\ DOMAIN ms[m] = DOMAIN ns[m]
           /\ \A b \in DOMAIN ns[m] : ms[m][b].kind = ns[m][b].kind
  BY ChangedTree
<1>3. /\ StoredKeys(ms) = (StoredKeys(ns) \ {k}) \cup {k}
      /\ \A x \in Key : BucketIn(ms, x) = IF x = k THEN B ELSE IF x = k THEN {} ELSE BucketIn(ns, x)
  BY ChangedStore
<1> HIDE DEF ms
<1>4. /\ StoredKeys(ms) = StoredKeys(ns)
      /\ \A x \in Key : BucketIn(ms, x) = IF x = k THEN B ELSE BucketIn(ns, x)
  BY <1>3 DEF StoredKeys
<1>5. ASSUME NEW x \in Key PROVE Find(ms, x) = Find(ns, x)
  <2>1. Typed(ms) /\ Linked(ms)
    BY <1>2 DEF Tree
  <2>2. Deepest(ms, x) = Deepest(ns, x)
    BY <1>2 DEF Deepest
  <2>3. Stored(ms, x) <=> Stored(ns, x)
    BY <1>4 DEF StoredKeys
  <2> QED BY <1>1, <2>1, <2>2, <2>3, FindIs
<1>6. ASSUME NEW p, NodeAt(ns, p) PROVE NodeAt(ms, p)
  <2>1. CASE p = RootEntry
    BY <2>1 DEF NodeAt
  <2>2. CASE Leads(ns, p) /\ At(ns, p).kind = "node"
    <3>1. PICK n \in DOMAIN ns : \E a \in DOMAIN ns[n] : p = Ptr(n, a)
      BY <2>2 DEF Leads
    <3>2. PICK a \in DOMAIN ns[n] : p = Ptr(n, a)
      BY <3>1
    <3>3. At(ns, p) = ns[n][a] /\ At(ms, p) = ms[n][a]
      BY <3>2, PointerSorts DEF At
    <3>4. n \in DOMAIN ms /\ a \in DOMAIN ms[n] /\ ms[n][a].kind = "node"
      BY <1>2, <2>2, <3>3
    <3> QED BY <3>2, <3>3, <3>4 DEF NodeAt, Leads
  <2> QED BY <1>6, <2>1, <2>2 DEF NodeAt
<1> QED BY <1>2, <1>4, <1>5, <1>6 DEF ms

(* The values move to the bucket of the new key. *)
LEMMA MoveValuesStep ==
  ASSUME IInv, MoveValues
  PROVE  /\ IInv'
         /\ \E M \in SUBSET Value :
              /\ {call[1]} \X M \subseteq Pairs(nodes)
              /\ Pairs(nodes') = (Pairs(nodes) \ ({call[1]} \X M)) \cup ({call[2]} \X M)
<1> DEFINE k == call[1]
           l == call[2]
           src == At(nodes, ptr.old).bucket
           dst == At(nodes, ptr.new).bucket
           M == (call[3] \cap src) \ dst
           es == Put(nodes, ptr.old, KeyEntry(k, src \ M))
           ms == Put(es, ptr.new, KeyEntry(l, dst \cup M))
<1>1. /\ Tree(nodes) /\ Typed(nodes) /\ Linked(nodes) /\ map \in Maps
      /\ CountInv /\ BucketInv /\ CallInv /\ PtrInv /\ pc = "move"
  BY DEF IInv, Tree, MoveValues
<1>2. /\ k \in Key /\ l \in Key /\ k # l /\ Stored(nodes, k) /\ Stored(nodes, l)
      /\ call[3] \subseteq Value /\ l \in StoredKeys(nodes)
  BY <1>1, CallIs DEF CallInv, StoredKeys
<1>3. /\ ptr.old = Find(nodes, k) /\ ptr.new = Find(nodes, l)
      /\ NodeAt(nodes, ptr.oldNode) \/ (ptr.oldNode = Stale /\ map # "array")
      /\ DOMAIN ptr = {"old", "oldNode", "parent", "new", "newNode"}
  BY <1>1 DEF PtrInv
<1>4. src = BucketIn(nodes, k) /\ dst = BucketIn(nodes, l) /\ src \subseteq Value /\ dst \subseteq Value
  BY <1>2, <1>3, KeyState
<1>5. /\ nodes' = ms /\ pc' = IF M = {} THEN "cleannew" ELSE "cleanold"
      /\ map' = map /\ numEntries' = numEntries /\ size' = size /\ call' = call /\ ptr' = ptr
  BY DEF MoveValues
<1> HIDE DEF k, l, src, dst
<1>6. M \subseteq src /\ M \cap dst = {} /\ M \in SUBSET Value /\ src \ M \in SUBSET Value /\ dst \cup M \in SUBSET Value
  BY <1>4
<1>7. M = (call[3] \cap src) \ dst
  OBVIOUS
<1> HIDE DEF M
<1>8. es = Put(nodes, Find(nodes, k), KeyEntry(k, src \ M))
  BY <1>3
<1> HIDE DEF es, ms
<1>9. /\ Tree(es) /\ StoredKeys(es) = StoredKeys(nodes)
      /\ \A x \in Key : BucketIn(es, x) = IF x = k THEN src \ M ELSE BucketIn(nodes, x)
      /\ \A x \in Key : Find(es, x) = Find(nodes, x)
      /\ \A p : NodeAt(nodes, p) => NodeAt(es, p)
  BY <1>1, <1>2, <1>6, <1>8, BucketPut
<1>10. Stored(es, l) /\ ms = Put(es, Find(es, l), KeyEntry(l, dst \cup M))
  BY <1>2, <1>3, <1>9 DEF StoredKeys, ms
<1>11. /\ Tree(ms) /\ StoredKeys(ms) = StoredKeys(es)
       /\ \A x \in Key : BucketIn(ms, x) = IF x = l THEN dst \cup M ELSE BucketIn(es, x)
       /\ \A x \in Key : Find(ms, x) = Find(es, x)
       /\ \A p : NodeAt(es, p) => NodeAt(ms, p)
  BY <1>2, <1>6, <1>9, <1>10, BucketPut
<1>12. /\ StoredKeys(ms) = StoredKeys(nodes)
       /\ Find(ms, k) = Find(nodes, k) /\ Find(ms, l) = Find(nodes, l)
       /\ BucketIn(ms, k) = src \ M /\ BucketIn(ms, l) = dst \cup M
       /\ \A x \in Key \ {k, l} : BucketIn(ms, x) = BucketIn(nodes, x)
  BY <1>2, <1>9, <1>11
<1>13. /\ IsFiniteSet(Pairs(ms)) /\ Cardinality(Pairs(ms)) = size
       /\ {k} \X M \subseteq Pairs(nodes)
       /\ Pairs(ms) = (Pairs(nodes) \ ({k} \X M)) \cup ({l} \X M)
  <2>1. Moved(ms, k, l, M)
    BY <1>2, <1>4, <1>12 DEF Moved
  <2> QED BY <1>2, <1>4, <1>6, <2>1, MovedSize
<1>14. CountInv'
  BY <1>1, <1>5, <1>12, <1>13 DEF CountInv, One
<1>15. BucketInv'
  <2>1. \A x \in StoredKeys(nodes) : BucketIn(nodes, x) = {} => x = l
    BY <1>1 DEF BucketInv, l
  <2>2. \A x \in StoredKeys(ms) : BucketIn(ms, x) = {} => IF M = {} THEN x = l ELSE x = k
    <3> TAKE x \in StoredKeys(ms)
    <3>1. CASE x = k
      BY <1>2, <1>4, <1>12, <2>1, <3>1
    <3>2. CASE x = l
      BY <1>12, <3>2
    <3>3. CASE x # k /\ x # l
      BY <1>12, <2>1, <3>3 DEF StoredKeys
    <3> QED BY <3>1, <3>2, <3>3
  <2> QED BY <1>5, <2>2 DEF BucketInv, k, l
<1>16. CallInv'
  <2>1. call \in Key \X Key \X SUBSET Value /\ map \in Moving
    BY <1>1 DEF CallInv
  <2>2. Stored(ms, k) /\ Stored(ms, l)
    BY <1>2, <1>12 DEF StoredKeys
  <2>3. ~Refused /\ M = {} => BucketIn(ms, l) # {}
    BY <1>1, <1>4, <1>7, <1>12 DEF CallInv, k, l
  <2> QED BY <1>2, <1>5, <2>1, <2>2, <2>3 DEF CallInv, k, l
<1>17. PtrInv'
  <2>1. Leads(ms, ptr.old)
    <3>1. /\ Find(nodes, k) = Find(ms, k)
      BY <1>12
    <3>2. Stored(ms, k) /\ Typed(ms) /\ Linked(ms)
      BY <1>2, <1>11, <1>12 DEF StoredKeys, Tree
    <3> DEFINE m == Deepest(ms, k)
    <3>3. m \in DOMAIN ms /\ Find(ms, k) = Ptr(m, k[Len(m) + 1]) /\ k[Len(m) + 1] \in DOMAIN ms[m]
      BY <1>2, <3>2, FindIs, DeepestOfKey
    <3> HIDE DEF m
    <3> QED BY <1>3, <3>1, <3>3 DEF Leads
  <2>2. NodeAt(ms, ptr.oldNode) \/ (ptr.oldNode = Stale /\ map # "array")
    BY <1>3, <1>9, <1>11
  <2>3. ~NodeAt(ms, Stale)
    BY PointerSorts DEF NodeAt, Leads
  <2> QED BY <1>3, <1>5, <1>12, <2>1, <2>2, <2>3 DEF PtrInv, k, l
<1> QED BY <1>1, <1>5, <1>6, <1>11, <1>13, <1>14, <1>15, <1>16, <1>17 DEF IInv, k, l

(* A bucket that was created and not filled is removed again. *)
LEMMA CleanUpNewStep ==
  ASSUME IInv, CleanUpNew
  PROVE  IInv' /\ Pairs(nodes') = Pairs(nodes)
<1> DEFINE k == call[1]
           l == call[2]
           empty == At(nodes, ptr.new).bucket = {}
<1>1. /\ Tree(nodes) /\ Typed(nodes) /\ Linked(nodes) /\ map \in Maps
      /\ CountInv /\ BucketInv /\ CallInv /\ PtrInv /\ pc = "cleannew"
  BY DEF IInv, Tree, CleanUpNew
<1>2. /\ k \in Key /\ l \in Key /\ k # l /\ Stored(nodes, k) /\ Stored(nodes, l)
      /\ l \in StoredKeys(nodes) /\ k \in StoredKeys(nodes)
  BY <1>1, CallIs DEF CallInv, StoredKeys
<1>3. /\ ptr.old = Find(nodes, k) /\ ptr.new = Find(nodes, l)
      /\ NodeAt(nodes, ptr.oldNode) \/ (ptr.oldNode = Stale /\ map # "array")
      /\ DOMAIN ptr = {"old", "oldNode", "parent", "new", "newNode"}
  BY <1>1 DEF PtrInv
<1>4. empty <=> BucketIn(nodes, l) = {}
  BY <1>2, <1>3, KeyState
<1>5. /\ nodes' = IF empty THEN Removed(nodes, l) ELSE nodes
      /\ numEntries' = numEntries - One(empty)
      /\ ptr' = Kept(nodes') /\ pc' = "cleanold"
      /\ map' = map /\ size' = size /\ call' = call
  BY DEF CleanUpNew, CleanUp
<1> HIDE DEF k, l, empty
<1>6. /\ Tree(nodes')
      /\ StoredKeys(nodes') = IF empty THEN StoredKeys(nodes) \ {l} ELSE StoredKeys(nodes)
      /\ \A x \in Key : BucketIn(nodes', x) = BucketIn(nodes, x)
  <2>1. CASE empty
    <3>1. nodes' = Removed(nodes, l)
      BY <1>5, <2>1
    <3>2. Tree(nodes')
      BY <1>1, <1>2, <3>1, RemovedTree
    <3>3. /\ StoredKeys(nodes') = StoredKeys(nodes) \ {l}
          /\ \A x \in Key : BucketIn(nodes', x) = IF x = l THEN {} ELSE BucketIn(nodes, x)
      BY <1>1, <1>2, <3>1, RemovedStore
    <3> QED BY <1>4, <2>1, <3>2, <3>3
  <2>2. CASE ~empty
    BY <1>1, <1>5, <2>2
  <2> QED BY <2>1, <2>2
<1>7. Pairs(nodes') = Pairs(nodes)
  BY <1>6 DEF Pairs
<1>8. CountInv'
  <2>1. StoredKeys(nodes) \in SUBSET Key /\ StoredKeys(nodes') \in SUBSET Key
    BY DEF StoredKeys
  <2>2. /\ Cardinality(StoredKeys(nodes) \ {l}) = Cardinality(StoredKeys(nodes)) - 1
        /\ Cardinality(StoredKeys(nodes')) \in Nat
    BY <1>2, <2>1, KeyCounts
  <2> QED BY <1>1, <1>5, <1>6, <1>7, <2>2 DEF CountInv, One
<1>9. \A x \in StoredKeys(nodes) : BucketIn(nodes, x) = {} => x = l
  BY <1>1 DEF BucketInv, l
<1>10. BucketInv'
  <2>1. \A x \in StoredKeys(nodes') : BucketIn(nodes', x) # {}
    BY <1>4, <1>6, <1>9 DEF StoredKeys
  <2> QED BY <2>1 DEF BucketInv
<1>11. BucketIn(nodes', k) # {}
  BY <1>2, <1>6, <1>9
<1>12. CallInv'
  <2>1. call \in Key \X Key \X SUBSET Value /\ map \in Moving
    BY <1>1 DEF CallInv
  <2>2. Stored(nodes', k)
    BY <1>2, <1>6 DEF StoredKeys
  <2> QED BY <1>2, <1>5, <2>1, <2>2 DEF CallInv, k, l
<1>13. PtrInv'
  <2>1. /\ DOMAIN ptr' = DOMAIN ptr
        /\ \A f \in DOMAIN ptr : ptr'[f] = IF IsStale(ptr[f], nodes, nodes') THEN Stale ELSE ptr[f]
    BY <1>5 DEF Kept
  <2>2. PICK n \in DOMAIN nodes : \E a \in DOMAIN nodes[n] : ptr.old = Ptr(n, a)
    BY <1>2, <1>3, KeyState DEF Leads
  <2>3. PICK a \in DOMAIN nodes[n] : ptr.old = Ptr(n, a)
    BY <2>2
  <2>4. ptr'.old = Stale \/ Leads(nodes', ptr'.old)
    <3>1. ptr'.old = IF IsStale(ptr.old, nodes, nodes') THEN Stale ELSE ptr.old
      BY <1>3, <2>1
    <3>2. ~IsStale(Ptr(n, a), nodes, nodes') => n \in DOMAIN nodes' /\ a \in DOMAIN nodes'[n]
      BY StaleIff
    <3> QED BY <2>3, <3>1, <3>2 DEF Leads
  <2>5. ASSUME map = "array", ~Refused
        PROVE  ptr'.old = Find(nodes', k) /\ ptr'.oldNode # Stale
    <3>1. ~empty
      BY <1>1, <1>4, <2>5 DEF CallInv, l
    <3>2. nodes' = nodes
      BY <1>5, <3>1
    <3>3. ~IsStale(ptr.old, nodes, nodes')
      BY <2>3, <3>2, StaleIff
    <3>4. NodeAt(nodes, ptr.oldNode)
      BY <1>3, <2>5
    <3>5. ~IsStale(ptr.oldNode, nodes, nodes') /\ ptr.oldNode # Stale
      <4>1. CASE ptr.oldNode = RootEntry
        BY <4>1, StaleIff, PointerSorts
      <4>2. CASE Leads(nodes, ptr.oldNode)
        <5>1. PICK m \in DOMAIN nodes : \E b \in DOMAIN nodes[m] : ptr.oldNode = Ptr(m, b)
          BY <4>2 DEF Leads
        <5>2. PICK b \in DOMAIN nodes[m] : ptr.oldNode = Ptr(m, b)
          BY <5>1
        <5> QED BY <3>2, <5>2, StaleIff, PointerSorts
      <4> QED BY <3>4, <4>1, <4>2 DEF NodeAt
    <3> QED BY <1>3, <2>1, <3>2, <3>3, <3>5
  <2> QED BY <1>3, <1>5, <1>11, <2>1, <2>4, <2>5 DEF PtrInv, k
<1> QED BY <1>1, <1>5, <1>6, <1>7, <1>8, <1>10, <1>12, <1>13 DEF IInv

(* What the last clean-up is told of the old entry is right. *)
ValidAtCleanUp == pc = "cleanold" => PointersValid

(* The old bucket is removed if all values have moved. *)
LEMMA CleanUpOldStep ==
  ASSUME IInv, ValidAtCleanUp, CleanUpOld
  PROVE  IInv' /\ Pairs(nodes') = Pairs(nodes)
<1> DEFINE k == call[1]
           none == BucketIn(nodes, k) = {}
<1>1. /\ Tree(nodes) /\ Typed(nodes) /\ Linked(nodes) /\ map \in Maps
      /\ CountInv /\ BucketInv /\ CallInv /\ PtrInv /\ pc = "cleanold"
  BY DEF IInv, Tree, CleanUpOld
<1>2. k \in Key /\ Stored(nodes, k) /\ k \in StoredKeys(nodes)
  BY <1>1, CallIs DEF StoredKeys
<1>3. /\ ptr.old # Stale /\ At(nodes, ptr.old).kind = "value" /\ At(nodes, ptr.old).key = k
      /\ At(nodes, ptr.old).bucket = {} => ptr.oldNode # Stale
  BY <1>1 DEF ValidAtCleanUp, PointersValid
<1>4. ptr.old = Find(nodes, k)
  <2>1. Leads(nodes, ptr.old)
    BY <1>1, <1>3 DEF PtrInv
  <2> QED BY <1>1, <1>2, <1>3, <2>1, NamesKey
<1>5. At(nodes, ptr.old).bucket = BucketIn(nodes, k)
  BY <1>2, <1>4, KeyState
<1>6. none => ptr.oldNode # Stale /\ HoldsNode(ptr.oldNode)
  BY <1>1, <1>3, <1>5 DEF PtrInv, NodeAt, HoldsNode
<1>7. /\ nodes' = IF none THEN Removed(nodes, k) ELSE nodes
      /\ numEntries' = numEntries - One(none)
      /\ map' = map /\ size' = size /\ pc' = "idle" /\ ptr' = NoPointers
  <2>1. PICK empty \in {At(nodes, ptr.old).bucket = {}},
             found \in IF ptr.oldNode = Stale THEN BOOLEAN ELSE {HoldsNode(ptr.oldNode)} :
               CleanUp(k, empty, found)
    BY <1>3 DEF CleanUpOld
  <2>2. empty <=> none
    BY <1>5, <2>1
  <2>3. none => found
    BY <1>6, <2>1
  <2>4. /\ nodes' = IF empty /\ found THEN Removed(nodes, k) ELSE nodes
        /\ numEntries' = numEntries - One(empty /\ found)
    BY <2>1 DEF CleanUp
  <2>5. map' = map /\ size' = size /\ pc' = "idle" /\ ptr' = NoPointers
    BY DEF CleanUpOld, Return
  <2>6. One(empty /\ found) = One(none)
    BY <2>2, <2>3 DEF One
  <2> HIDE DEF k, none
  <2> QED BY <2>2, <2>3, <2>4, <2>5, <2>6
<1>8. \A x \in StoredKeys(nodes) : BucketIn(nodes, x) = {} => x = k
  BY <1>1 DEF BucketInv
<1> HIDE DEF k
<1>9. /\ Tree(nodes')
      /\ StoredKeys(nodes') = IF none THEN StoredKeys(nodes) \ {k} ELSE StoredKeys(nodes)
      /\ \A x \in Key : BucketIn(nodes', x) = BucketIn(nodes, x)
  <2>1. CASE none
    <3>1. nodes' = Removed(nodes, k)
      BY <1>7, <2>1
    <3>2. Tree(nodes')
      BY <1>1, <1>2, <3>1, RemovedTree
    <3>3. /\ StoredKeys(nodes') = StoredKeys(nodes) \ {k}
          /\ \A x \in Key : BucketIn(nodes', x) = IF x = k THEN {} ELSE BucketIn(nodes, x)
      BY <1>1, <1>2, <3>1, RemovedStore
    <3> QED BY <2>1, <3>2, <3>3
  <2>2. CASE ~none
    BY <1>1, <1>7, <2>2
  <2> QED BY <2>1, <2>2
<1>10. Pairs(nodes') = Pairs(nodes)
  BY <1>9 DEF Pairs
<1>11. CountInv'
  <2>1. StoredKeys(nodes) \in SUBSET Key /\ StoredKeys(nodes') \in SUBSET Key
    BY DEF StoredKeys
  <2>2. /\ Cardinality(StoredKeys(nodes) \ {k}) = Cardinality(StoredKeys(nodes)) - 1
        /\ Cardinality(StoredKeys(nodes')) \in Nat
    BY <1>2, <2>1, KeyCounts
  <2> HIDE DEF none
  <2> QED BY <1>1, <1>7, <1>9, <1>10, <2>2 DEF CountInv, One
<1>12. BucketInv'
  <2>1. \A x \in StoredKeys(nodes') : BucketIn(nodes', x) # {}
    BY <1>8, <1>9 DEF StoredKeys
  <2> QED BY <2>1 DEF BucketInv
<1>13. CallInv'
  BY <1>7 DEF CallInv
<1>14. PtrInv'
  BY <1>7 DEF PtrInv, NoPointers
<1> QED BY <1>1, <1>7, <1>9, <1>10, <1>11, <1>12, <1>13, <1>14 DEF IInv

-----------------------------------------------------------------------------
(* The tree is the one its keys determine *)

(* What keys that part behind m share is m. *)
LEMMA PartBehind ==
  ASSUME NEW S \in SUBSET Seq(Nat), NEW m \in Seq(Nat), NEW k \in S, NEW l \in S,
         \A t \in S : IsPrefix(m, t), Over(m, k), Over(m, l), k[Len(m) + 1] # l[Len(m) + 1]
  PROVE  LongestCommonPrefix(S) = m
<1> DEFINE A == Nat
           q == LongestCommonPrefix(S)
<1>1. /\ q \in Seq(Nat) /\ \A t \in S : IsPrefix(q, t)
      /\ IsPrefix(m, q)
  <2>1. S \in SUBSET Seq(A) /\ S # {} /\ m \in Seq(A)
    OBVIOUS
  <2> HIDE DEF A, q
  <2>2. /\ q \in Seq(A) /\ \A t \in S : IsPrefix(q, t)
        /\ \A r \in Seq(A) : (\A t \in S : IsPrefix(r, t)) => IsPrefix(r, q)
    BY <2>1, CommonPrefix DEF q
  <2> QED BY <2>1, <2>2 DEF A
<1> HIDE DEF q
<1>2. k \in Seq(Nat) /\ l \in Seq(Nat) /\ IsPrefix(q, k) /\ IsPrefix(q, l)
  BY <1>1
<1>3. q = m
  <2> SUFFICES ASSUME q # m PROVE FALSE
    OBVIOUS
  <2>1. Over(m, q)
    BY <1>1, OverTrans
  <2>2. k[Len(m) + 1] = q[Len(m) + 1]
    BY <1>1, <1>2, <2>1, OverTrans
  <2>3. l[Len(m) + 1] = q[Len(m) + 1]
    BY <1>1, <1>2, <2>1, OverTrans
  <2> QED BY <2>2, <2>3
<1> QED BY <1>3 DEF q

(* A node is over every key it is a prefix of. *)
LEMMA OverKeys ==
  ASSUME NEW ns, Typed(ns), NEW n \in DOMAIN ns, NEW k \in Key
  PROVE  n \in Seq(Nat) /\ Len(n) \in Nat /\ Len(n) < Len(k) /\ (IsPrefix(n, k) <=> Over(n, k))
<1>1. PICK l \in Key : Over(n, l)
  BY DEF Typed
<1>2. Len(k) = Len(l) /\ n \in Seq(Nat)
  BY KeyFacts DEF Typed
<1> QED BY <1>1, <1>2 DEF Over

(* Every entry leads to a key. *)
LEMMA KeyBelow ==
  ASSUME NEW ns, Tree(ns), NEW n \in DOMAIN ns, NEW a \in DOMAIN ns[n]
  PROVE  \E k \in StoredKeys(ns) : Over(n, k) /\ k[Len(n) + 1] = a
<1>1. Typed(ns) /\ Linked(ns) /\ Full(ns) /\ DOMAIN ns \subseteq Seq(Nat)
  BY DEF Tree, Typed
<1> DEFINE e == ns[n][a]
<1>2. e \in ValueEntries \cup NodeEntries(ns) /\ Over(n, e.key) /\ e.key[Len(n) + 1] = a
  BY <1>1 DEF Typed
<1>3. ASSUME NEW m \in DOMAIN ns, NEW b \in DOMAIN ns[m], ns[m][b] \in ValueEntries
      PROVE  ns[m][b].key \in StoredKeys(ns)
  BY <1>3, ValuesIff DEF ValueEntries, StoredKeys, Stored
<1> HIDE DEF e
<1>4. CASE e \in ValueEntries
  BY <1>2, <1>3, <1>4 DEF e
<1>5. CASE e \in NodeEntries(ns)
  <2> DEFINE m == e.key
             S == {q \in DOMAIN ns : IsPrefix(m, q)}
             len == [q \in S |-> Len(q)]
  <2>1. m \in DOMAIN ns /\ m \in Seq(Nat) /\ n \in Seq(Nat) /\ Over(n, m) /\ m[Len(n) + 1] = a
    BY <1>1, <1>2, <1>5 DEF NodeEntries
  <2> HIDE DEF m
  <2>2. m \in S
    BY <2>1, OverTrans
  <2>3. PICK l \in Key : TRUE
    BY KeyAssumption
  <2>4. Len(l) \in Nat /\ \A q \in S : Len(q) \in 0 .. Len(l)
    BY <1>1, KeyFacts, OverKeys
  <2>5. \E q \in S : \A r \in S : len[r] <= len[q]
    <3>1. len \in [S -> 0 .. Len(l)]
      BY <2>4
    <3> HIDE DEF len, S
    <3> QED BY <2>2, <2>4, <3>1, LongestExists
  <2>6. PICK q \in S : \A r \in S : Len(r) <= Len(q)
    BY <2>5
  <2>7. q \in DOMAIN ns /\ q \in Seq(Nat) /\ IsPrefix(m, q)
    BY <1>1
  <2>8. q # <<>>
    <3>1. Len(n) \in Nat /\ Len(m) \in Nat /\ Len(q) \in Nat /\ Len(m) <= Len(q) /\ Len(n) < Len(m)
      BY <2>1, <2>7, PrefixIff DEF Over
    <3>2. Len(<<>>) = 0
      OBVIOUS
    <3> HIDE DEF S
    <3> QED BY <3>1, <3>2
  <2>9. PICK b \in DOMAIN ns[q] : TRUE
    BY <1>1, <2>7, <2>8 DEF Full
  <2>10. ns[q][b] \in ValueEntries \cup NodeEntries(ns) /\ Over(q, ns[q][b].key)
    BY <1>1, <2>7 DEF Typed
  <2> DEFINE k == ns[q][b].key
  <2>11. ns[q][b] \notin NodeEntries(ns)
    <3> SUFFICES ASSUME ns[q][b] \in NodeEntries(ns) PROVE FALSE
      OBVIOUS
    <3>1. k \in DOMAIN ns /\ k \in Seq(Nat) /\ Over(q, k)
      BY <1>1, <2>10 DEF NodeEntries
    <3> HIDE DEF k
    <3>2. IsPrefix(m, k)
      BY <2>1, <2>7, <3>1, PrefixTrans DEF Over
    <3>3. Len(k) <= Len(q) /\ Len(q) < Len(k) /\ Len(k) \in Nat /\ Len(q) \in Nat
      BY <2>6, <2>7, <3>1, <3>2 DEF Over
    <3> QED BY <3>3
  <2>12. k \in StoredKeys(ns) /\ k \in Seq(Nat) /\ Over(q, k)
    BY <1>3, <2>7, <2>10, <2>11, KeyFacts DEF StoredKeys
  <2> HIDE DEF k, S
  <2>13. IsPrefix(m, k)
    BY <2>1, <2>7, <2>12, PrefixTrans DEF Over
  <2>14. Over(n, k) /\ k[Len(n) + 1] = a
    BY <2>1, <2>12, <2>13, OverTrans
  <2> QED BY <2>12, <2>14
<1> QED BY <1>2, <1>4, <1>5

(* Every node over a stored key has an entry that leads to it. *)
LEMMA WayToKey ==
  ASSUME NEW ns, Tree(ns), NEW n \in DOMAIN ns, NEW k \in StoredKeys(ns), Over(n, k)
  PROVE  LET a == k[Len(n) + 1] IN
           /\ a \in DOMAIN ns[n] /\ IsPrefix(ns[n][a].key, k)
           /\ ns[n][a].kind = "value" => ns[n][a].key = k
<1> DEFINE d == Deepest(ns, k)
           a == k[Len(n) + 1]
<1>1. Typed(ns) /\ Linked(ns) /\ k \in Key /\ Stored(ns, k) /\ k \in Seq(Nat) /\ n \in Seq(Nat)
  BY KeyFacts DEF Tree, StoredKeys, Typed
<1>2. d \in DOMAIN ns /\ d \in Seq(Nat) /\ IsPrefix(d, k) /\ IsPrefix(n, d)
  BY <1>1, DeepestOfKey DEF Over, Typed
<1>3. d = n => a \in DOMAIN ns[n] /\ ns[n][a].key = k
  BY <1>1, FindIs
<1> HIDE DEF d
<1>4. CASE d = n
  <2>1. IsPrefix(k, k)
    BY <1>1, OverTrans
  <2> QED BY <1>3, <1>4, <2>1
<1>5. CASE d # n
  <2>1. Over(n, d) /\ d[Len(n) + 1] = a
    BY <1>1, <1>2, <1>5, OverTrans
  <2> HIDE DEF a
  <2>2. a \in DOMAIN ns[n] /\ ns[n][a].kind = "node" /\ IsPrefix(ns[n][a].key, d)
    BY <1>1, <1>2, <2>1 DEF Linked
  <2>3. ns[n][a] \in NodeEntries(ns)
    BY <1>1, <2>2 DEF Typed, ValueEntries
  <2>4. ns[n][a].key \in Seq(Nat)
    BY <1>1, <2>3 DEF NodeEntries, Typed
  <2>5. IsPrefix(ns[n][a].key, k)
    BY <1>1, <1>2, <2>2, <2>4, PrefixTrans
  <2> QED BY <2>2, <2>5 DEF a
<1> QED BY <1>4, <1>5

(* Two keys behind a node that is not the root part there. *)
LEMMA TwoBelow ==
  ASSUME NEW ns, Tree(ns), NEW n \in DOMAIN ns \ {<<>>}
  PROVE  \E k, l \in StoredKeys(ns) : Over(n, k) /\ Over(n, l) /\ k[Len(n) + 1] # l[Len(n) + 1]
<1>1. PICK a \in DOMAIN ns[n], b \in DOMAIN ns[n] : a # b
  BY DEF Tree, Full
<1>2. PICK k \in StoredKeys(ns) : Over(n, k) /\ k[Len(n) + 1] = a
  BY KeyBelow
<1>3. PICK l \in StoredKeys(ns) : Over(n, l) /\ l[Len(n) + 1] = b
  BY KeyBelow
<1> QED BY <1>1, <1>2, <1>3

(* The nodes are the root and what two keys share. *)
Shared(K) == {<<>>} \cup UNION {{Common(k, l) : l \in K \ {k}} : k \in K}

LEMMA NodesAre ==
  ASSUME NEW ns, Tree(ns)
  PROVE  DOMAIN ns = Shared(StoredKeys(ns))
<1> DEFINE K == StoredKeys(ns)
           C == UNION {{Common(k, l) : l \in K \ {k}} : k \in K}
<1>1. Typed(ns) /\ Linked(ns) /\ <<>> \in DOMAIN ns /\ DOMAIN ns \subseteq Seq(Nat)
  BY DEF Tree, Typed
<1>2. \A k \in K : k \in Key /\ k \in Seq(Nat)
  BY KeyFacts DEF StoredKeys
<1>3. ASSUME NEW n \in DOMAIN ns \ {<<>>} PROVE n \in C
  <2>1. PICK k \in K, l \in K : Over(n, k) /\ Over(n, l) /\ k[Len(n) + 1] # l[Len(n) + 1]
    BY TwoBelow
  <2> DEFINE S == {k, l}
  <2>2. /\ S \in SUBSET Seq(Nat) /\ n \in Seq(Nat) /\ k \in S /\ l \in S
        /\ \A t \in S : IsPrefix(n, t)
    BY <1>1, <1>2, <2>1 DEF Over
  <2> HIDE DEF S, K
  <2>3. LongestCommonPrefix(S) = n
    BY <2>1, <2>2, PartBehind
  <2>4. n = Common(k, l) /\ l # k
    BY <2>1, <2>3 DEF Common, S
  <2> QED BY <2>4
<1>4. ASSUME NEW k \in K, NEW l \in K \ {k} PROVE Common(k, l) \in DOMAIN ns
  <2> DEFINE A == Nat
             m == Common(k, l)
  <2>1. k \in Seq(A) /\ l \in Seq(A) /\ Len(k) = Len(l) /\ k # l
    BY <1>2, KeyFacts
  <2>2. /\ m \in Seq(A) /\ Len(m) < Len(k) /\ IsPrefix(m, k) /\ IsPrefix(m, l)
        /\ \A r \in Seq(A) : IsPrefix(r, k) /\ IsPrefix(r, l) => IsPrefix(r, m)
    <3> DEFINE T == {k, l}
    <3>1. T \in SUBSET Seq(A) /\ T # {}
      BY <2>1
    <3>2. m = LongestCommonPrefix(T) /\ m = LongestCommonPrefix({k, l})
      BY DEF Common
    <3> HIDE DEF A, m, K
    <3>3. m \in Seq(A) /\ Len(m) < Len(k) /\ IsPrefix(m, k) /\ IsPrefix(m, l)
      BY <2>1, <3>2, CommonOfTwo
    <3>4. k \in T /\ l \in T
      OBVIOUS
    <3>5. \A t \in T : t = k \/ t = l
      OBVIOUS
    <3> HIDE DEF T
    <3>6. \A q \in Seq(A) : (\A t \in T : IsPrefix(q, t)) => IsPrefix(q, m)
      BY <3>1, <3>2, CommonPrefix
    <3> QED BY <3>3, <3>5, <3>6
  <2> DEFINE n == Deepest(ns, m)
  <2> HIDE DEF m, K
  <2>3. m \in Seq(Nat) /\ k \in Seq(Nat) /\ l \in Seq(Nat)
    BY <2>1, <2>2
  <2>4. n \in DOMAIN ns /\ IsPrefix(n, m) /\ \A x \in DOMAIN ns : IsPrefix(x, m) => IsPrefix(x, n)
    BY <1>1, <2>3, DeepestIs
  <2> HIDE DEF n
  <2>5. n \in Seq(Nat)
    BY <1>1, <2>4
  <2>6. CASE n # m
    <3> DEFINE a == m[Len(n) + 1]
    <3>1. Over(n, m)
      BY <2>3, <2>4, <2>5, <2>6, OverTrans
    <3>2. Over(n, k) /\ k[Len(n) + 1] = a
      BY <2>2, <2>3, <2>5, <3>1, OverTrans
    <3>3. Over(n, l) /\ l[Len(n) + 1] = a
      BY <2>2, <2>3, <2>5, <3>1, OverTrans
    <3> DEFINE e == ns[n][a]
    <3>4. k \in StoredKeys(ns) /\ l \in StoredKeys(ns)
      BY DEF K
    <3>5. /\ a \in DOMAIN ns[n] /\ IsPrefix(e.key, k)
          /\ e.kind = "value" => e.key = k
      BY <2>4, <3>2, <3>4, WayToKey
    <3>6. IsPrefix(e.key, l) /\ (e.kind = "value" => e.key = l)
      BY <2>4, <3>3, <3>4, WayToKey
    <3>7. e \in ValueEntries \cup NodeEntries(ns) /\ Over(n, e.key)
      BY <1>1, <2>4, <3>5 DEF Typed
    <3> HIDE DEF a, e
    <3>8. e \in NodeEntries(ns)
      BY <2>1, <3>5, <3>6, <3>7 DEF ValueEntries
    <3>9. e.key \in DOMAIN ns /\ e.key \in Seq(Nat)
      BY <1>1, <3>8 DEF NodeEntries
    <3>10. IsPrefix(e.key, n)
      BY <2>2, <2>4, <3>5, <3>6, <3>9
    <3>11. Len(e.key) <= Len(n) /\ Len(e.key) \in Nat /\ Len(n) \in Nat
      BY <2>5, <3>9, <3>10, PrefixIff
    <3> QED BY <3>7, <3>11 DEF Over
  <2> QED BY <2>4, <2>6 DEF m
<1> HIDE DEF K
<1>5. \A n \in C : n \in DOMAIN ns
  BY <1>4
<1> HIDE DEF C
<1>6. DOMAIN ns = {<<>>} \cup C
  BY <1>1, <1>3, <1>5
<1> QED BY <1>6 DEF C, K, Shared

(* An entry leads to one key, or to what several share. *)
Behind(ns, n, a) == {k \in StoredKeys(ns) : Over(n, k) /\ k[Len(n) + 1] = a}

LEMMA EntryIs ==
  ASSUME NEW ns, Tree(ns), NEW n \in DOMAIN ns, NEW a \in DOMAIN ns[n]
  PROVE  LET below == Behind(ns, n, a) IN
           /\ ns[n][a].kind = "value" => below = {ns[n][a].key}
           /\ ns[n][a].kind # "value" =>
                /\ \E k, l \in below : k # l
                /\ ns[n][a] = NodeEntry(LongestCommonPrefix(below))
<1> DEFINE below == Behind(ns, n, a)
<1>0. below = {k \in StoredKeys(ns) : Over(n, k) /\ k[Len(n) + 1] = a}
  BY DEF Behind
<1> HIDE DEF below
<1>1. Typed(ns) /\ Linked(ns) /\ DOMAIN ns \subseteq Seq(Nat)
  BY DEF Tree, Typed
<1>2. \A k \in below : k \in StoredKeys(ns) /\ k \in Key /\ k \in Seq(Nat)
  BY <1>0, KeyFacts DEF StoredKeys
<1> DEFINE e == ns[n][a]
<1>3. ASSUME NEW k \in below
      PROVE  IsPrefix(e.key, k) /\ (e.kind = "value" => e.key = k)
  <2>1. k \in StoredKeys(ns) /\ Over(n, k) /\ k[Len(n) + 1] = a
    BY <1>0
  <2>2. LET b == k[Len(n) + 1] IN
          /\ b \in DOMAIN ns[n] /\ IsPrefix(ns[n][b].key, k)
          /\ ns[n][b].kind = "value" => ns[n][b].key = k
    BY <2>1, WayToKey
  <2> QED BY <2>1, <2>2
<1>4. PICK k \in StoredKeys(ns) : Over(n, k) /\ k[Len(n) + 1] = a
  BY KeyBelow
<1>5. k \in below
  BY <1>0, <1>4
<1>6. e \in ValueEntries \cup NodeEntries(ns) /\ Over(n, e.key) /\ e.key[Len(n) + 1] = a
  BY <1>1 DEF Typed
<1> HIDE DEF e
<1>7. CASE e.kind = "value"
  <2>1. below = {e.key}
    BY <1>3, <1>5, <1>7
  <2> QED BY <1>7, <2>1 DEF e, below
<1>8. CASE e.kind # "value"
  <2> DEFINE m == e.key
  <2>1. e \in NodeEntries(ns)
    BY <1>6, <1>8 DEF ValueEntries
  <2>2. m \in DOMAIN ns /\ e = NodeEntry(m) /\ m \in Seq(Nat) /\ n \in Seq(Nat) /\ Over(n, m)
        /\ m[Len(n) + 1] = a
    BY <1>1, <1>6, <2>1 DEF NodeEntries, NodeEntry
  <2> HIDE DEF m
  <2>3. m # <<>>
    <3>1. Len(<<>>) = 0 /\ Len(n) \in Nat /\ Len(n) < Len(m)
      BY <2>2 DEF Over
    <3> QED BY <3>1
  <2>4. PICK x \in StoredKeys(ns), y \in StoredKeys(ns) :
               Over(m, x) /\ Over(m, y) /\ x[Len(m) + 1] # y[Len(m) + 1]
    BY <2>2, <2>3, TwoBelow
  <2>5. ASSUME NEW z \in StoredKeys(ns), Over(m, z) PROVE z \in below
    <3>1. z \in Seq(Nat)
      BY KeyFacts DEF StoredKeys
    <3>2. Over(n, z) /\ z[Len(n) + 1] = a
      BY <2>2, <2>5, <3>1, OverTrans DEF Over
    <3> QED BY <1>0, <3>2
  <2>6. x \in below /\ y \in below /\ x # y
    BY <2>4, <2>5
  <2>7. below \in SUBSET Seq(Nat) /\ \A t \in below : IsPrefix(m, t)
    BY <1>2, <1>3 DEF m
  <2>8. LongestCommonPrefix(below) = m
    BY <2>2, <2>4, <2>6, <2>7, PartBehind
  <2> QED BY <1>8, <2>2, <2>6, <2>8 DEF e, below
<1> QED BY <1>7, <1>8 DEF below

-----------------------------------------------------------------------------
(* What follows *)

(* The steps of a multimap. *)
MultiMapStep(P, R) ==
  \/ R = P
  \/ \E k \in Key, v \in Value : R = P \cup {<<k, v>>} \/ R = P \ {<<k, v>>}
  \/ \E k, l \in Key, S \in SUBSET Value :
       {k} \X S \subseteq P /\ R = (P \ ({k} \X S)) \cup ({l} \X S)
  \/ R = {}

(* Every step keeps the invariant and is one of a multimap. *)
LEMMA StepKeeps ==
  ASSUME IInv, ValidAtCleanUp, [Next]_vars
  PROVE  IInv' /\ MultiMapStep(Pairs(nodes), Pairs(nodes'))
<1>1. \A k \in Key : BucketIn(nodes, k) \in SUBSET Value
  BY KeyState
<1>2. CASE UNCHANGED vars
  <2>1. /\ map' = map /\ nodes' = nodes /\ numEntries' = numEntries /\ size' = size
        /\ pc' = pc /\ call' = call /\ ptr' = ptr
    BY <1>2 DEF vars
  <2>2. CountInv' /\ BucketInv' /\ CallInv'
    BY <2>1 DEF IInv, CountInv, BucketInv, CallInv
  <2>3. PtrInv'
    BY <2>1 DEF IInv, PtrInv, PointersFor
  <2> QED BY <2>1, <2>2, <2>3 DEF IInv, MultiMapStep
<1>3. ASSUME NEW k \in Key, NEW v \in Value, Emplace(k, v) \/ Erase(k, v)
      PROVE  IInv' /\ MultiMapStep(Pairs(nodes), Pairs(nodes'))
  BY <1>3, EmplaceStep, EraseStep DEF MultiMapStep
<1>4. CASE Clear
  BY <1>4, ClearStep DEF MultiMapStep
<1>5. ASSUME NEW k \in Key, NEW l \in Key, FindForRelocateIf(k, l)
      PROVE  IInv' /\ MultiMapStep(Pairs(nodes), Pairs(nodes'))
  <2>1. IInv'
    BY <1>5, FindForRelocateIfStep
  <2>2. \/ Pairs(nodes') = Pairs(nodes)
        \/ /\ {k} \X BucketIn(nodes, k) \subseteq Pairs(nodes)
           /\ Pairs(nodes') = (Pairs(nodes) \ ({k} \X BucketIn(nodes, k)))
                                 \cup ({l} \X BucketIn(nodes, k))
    BY <1>5, FindForRelocateIfStep
  <2> QED BY <1>1, <2>1, <2>2 DEF MultiMapStep
<1>6. ASSUME NEW k \in Key, NEW l \in Key, NEW vs \in SUBSET Value \ {{}}, FindForMove(k, l, vs)
      PROVE  IInv' /\ MultiMapStep(Pairs(nodes), Pairs(nodes'))
  <2>0. vs \in SUBSET Value
    OBVIOUS
  <2>1. IInv'
    BY <1>6, <2>0, FindForMoveStep
  <2>2. \/ Pairs(nodes') = Pairs(nodes)
        \/ /\ {k} \X BucketIn(nodes, k) \subseteq Pairs(nodes)
           /\ Pairs(nodes') = (Pairs(nodes) \ ({k} \X BucketIn(nodes, k)))
                                 \cup ({l} \X BucketIn(nodes, k))
    BY <1>6, <2>0, FindForMoveStep
  <2> QED BY <1>1, <2>1, <2>2 DEF MultiMapStep
<1>7. CASE InsertMoved
  <2>1. pc # "idle"
    BY <1>7 DEF InsertMoved
  <2>2. call[1] \in Key /\ call[2] \in Key /\ call[3] \in SUBSET Value
    BY <2>1, CallIs
  <2>3. /\ IInv' /\ {call[1]} \X call[3] \subseteq Pairs(nodes)
        /\ Pairs(nodes') = (Pairs(nodes) \ ({call[1]} \X call[3])) \cup ({call[2]} \X call[3])
    BY <1>7, InsertMovedStep
  <2> DEFINE k == call[1]
             l == call[2]
             S == call[3]
  <2> HIDE DEF k, l, S
  <2>4. MultiMapStep(Pairs(nodes), Pairs(nodes'))
    <3>1. /\ k \in Key /\ l \in Key /\ S \in SUBSET Value /\ {k} \X S \subseteq Pairs(nodes)
          /\ Pairs(nodes') = (Pairs(nodes) \ ({k} \X S)) \cup ({l} \X S)
      BY <2>2, <2>3 DEF k, l, S
    <3> QED BY <3>1 DEF MultiMapStep
  <2> QED BY <2>3, <2>4
<1>8. CASE MoveValues
  <2>1. pc # "idle"
    BY <1>8 DEF MoveValues
  <2>2. call[1] \in Key /\ call[2] \in Key
    BY <2>1, CallIs
  <2>3. IInv'
    BY <1>8, MoveValuesStep
  <2>4. PICK M \in SUBSET Value :
          /\ {call[1]} \X M \subseteq Pairs(nodes)
          /\ Pairs(nodes') = (Pairs(nodes) \ ({call[1]} \X M)) \cup ({call[2]} \X M)
    BY <1>8, MoveValuesStep
  <2> DEFINE k == call[1]
             l == call[2]
  <2> HIDE DEF k, l
  <2>5. MultiMapStep(Pairs(nodes), Pairs(nodes'))
    <3>1. /\ k \in Key /\ l \in Key /\ {k} \X M \subseteq Pairs(nodes)
          /\ Pairs(nodes') = (Pairs(nodes) \ ({k} \X M)) \cup ({l} \X M)
      BY <2>2, <2>4 DEF k, l
    <3> QED BY <3>1 DEF MultiMapStep
  <2> QED BY <2>3, <2>5
<1>9. CASE EraseMoved \/ CreateBucket \/ CleanUpNew \/ CleanUpOld
  BY <1>9, EraseMovedStep, CreateBucketStep, CleanUpNewStep, CleanUpOldStep DEF MultiMapStep
<1> QED BY <1>2, <1>3, <1>4, <1>5, <1>6, <1>7, <1>8, <1>9 DEF Next, Call

(* The entries of the model are those of the lemmas. *)
LEMMA ContentPairs ==
  ASSUME IInv
  PROVE  KeyEntries = Values(nodes) /\ Content = Pairs(nodes)
<1>1. KeyEntries = Values(nodes)
  BY DEF KeyEntries, Values
<1>2. Tree(nodes)
  BY DEF IInv
<1> QED BY <1>1, <1>2, ContentIs DEF Content

(* The tree and its counters are right between two calls. *)
LEMMA ConsistentHolds == IInv => Consistent
<1> SUFFICES ASSUME IInv PROVE Consistent
  OBVIOUS
<1>1. /\ Tree(nodes) /\ Typed(nodes) /\ Linked(nodes) /\ Full(nodes)
      /\ CountInv /\ BucketInv /\ CallInv
  BY DEF IInv, Tree
<1>2. KeyEntries = Values(nodes) /\ Content = Pairs(nodes)
  BY ContentPairs
<1>3. TypeOK
  <2>1. ASSUME NEW n \in DOMAIN nodes, NEW a \in DOMAIN nodes[n]
        PROVE  LET e == nodes[n][a] IN
                 /\ \/ e.kind = "value" /\ e.key \in Key /\ e.bucket \subseteq Value
                    \/ e.kind = "node" /\ e.key \in DOMAIN nodes
                 /\ IsPrefix(n, e.key) /\ AddressIn(n, e.key) = a
    BY <1>1 DEF Typed, Over, ValueEntries, NodeEntries, AddressIn
  <2> QED BY <1>1, <2>1 DEF TypeOK, Typed, CountInv, CallInv
<1>4. ASSUME NEW n \in DOMAIN nodes \ {<<>>} PROVE Cardinality(DOMAIN nodes[n]) >= 2
  <2>1. PICK a \in DOMAIN nodes[n], b \in DOMAIN nodes[n] : a # b
    BY <1>1 DEF Full
  <2>2. IsFiniteSet(DOMAIN nodes[n])
    BY <1>1, FiniteMaps
  <2>3. Cardinality(DOMAIN nodes[n]) \in Nat
    BY <2>2, FS_CardinalityType
  <2>4. Cardinality(DOMAIN nodes[n]) # 0
    BY <2>1, <2>2, FS_EmptySet
  <2>5. Cardinality(DOMAIN nodes[n]) # 1
    <3> SUFFICES ASSUME Cardinality(DOMAIN nodes[n]) = 1 PROVE FALSE
      OBVIOUS
    <3>1. PICK x : DOMAIN nodes[n] = {x}
      BY <2>2, FS_Singleton
    <3> QED BY <2>1, <3>1
  <2> QED BY <2>3, <2>4, <2>5
<1>5. ASSUME pc = "idle"
      PROVE  /\ numEntries = Cardinality(KeyEntries)
             /\ size = Cardinality(Content)
             /\ \A e \in KeyEntries : e.bucket # {}
  <2>1. numEntries = Cardinality(KeyEntries)
    BY <1>1, <1>2, <1>5, EntryCount DEF CountInv, One
  <2>2. size = Cardinality(Content)
    BY <1>1, <1>2 DEF CountInv
  <2>3. ASSUME NEW e \in Values(nodes) PROVE e.bucket # {}
    <3>1. PICK n \in DOMAIN nodes : \E a \in DOMAIN nodes[n] : e = nodes[n][a] /\ e.kind = "value"
      BY ValuesIff
    <3>2. e.key \in Key
      BY <1>1, <3>1, WhereKey
    <3>3. e = KeyEntry(e.key, BucketIn(nodes, e.key)) /\ e.key \in StoredKeys(nodes)
      BY <1>1, <3>2, BucketIs DEF StoredKeys, Stored
    <3>4. BucketIn(nodes, e.key) # {}
      BY <1>1, <1>5, <3>3 DEF BucketInv
    <3>5. KeyEntry(e.key, BucketIn(nodes, e.key)).bucket = BucketIn(nodes, e.key)
      BY DEF KeyEntry
    <3> QED BY <3>3, <3>4, <3>5
  <2> QED BY <1>2, <2>1, <2>2, <2>3
<1> QED BY <1>3, <1>4, <1>5 DEF Consistent, Content

(* The tree is the one of its keys. *)
LEMMA CanonicalHolds == IInv => Canonical
<1> SUFFICES ASSUME IInv PROVE Canonical
  OBVIOUS
<1> DEFINE K == StoredKeys(nodes)
           keys == {e.key : e \in KeyEntries}
           below(p) == {k \in keys : IsPrefix(p, k)}
           entry(p) == IF Cardinality(below(p)) = 1
                         THEN CHOOSE e \in KeyEntries : e.key \in below(p)
                         ELSE NodeEntry(LongestCommonPrefix(below(p)))
           at(n) == {AddressIn(n, k) : k \in below(n)}
           all == {<<>>} \cup UNION {{Common(k, l) : l \in keys \ {k}} : k \in keys}
           whole == [n \in all |-> [a \in at(n) |-> entry(Append(n, a))]]
<1>1. Tree(nodes) /\ Typed(nodes) /\ Linked(nodes) /\ KeyEntries = Values(nodes)
      /\ nodes = [n \in DOMAIN nodes |-> nodes[n]] /\ DOMAIN nodes \subseteq Seq(Nat)
  BY ContentPairs DEF IInv, Tree, Typed
<1>2. keys = K
  <2>1. \A e \in Values(nodes) : e.key \in Key
    <3> TAKE e \in Values(nodes)
    <3>1. PICK n \in DOMAIN nodes : \E a \in DOMAIN nodes[n] : e = nodes[n][a] /\ e.kind = "value"
      BY ValuesIff
    <3> QED BY <1>1, <3>1, WhereKey
  <2> QED BY <1>1, <2>1 DEF StoredKeys, Stored
<1>3. DOMAIN nodes = all
  <2>1. all = Shared(keys)
    BY DEF Shared
  <2>2. DOMAIN nodes = Shared(StoredKeys(nodes))
    BY <1>1, NodesAre
  <2> HIDE DEF keys, all
  <2> QED BY <1>2, <2>1, <2>2
<1>4. \A k \in K : k \in Key /\ k \in Seq(Nat)
  BY KeyFacts DEF StoredKeys
<1> HIDE DEF keys, K
<1>5. ASSUME NEW n \in DOMAIN nodes
      PROVE  nodes[n] = [a \in at(n) |-> entry(Append(n, a))]
  <2>1. n \in Seq(Nat) /\ nodes[n] = [a \in DOMAIN nodes[n] |-> nodes[n][a]]
    BY <1>1 DEF Typed
  <2>2. \A k \in K : IsPrefix(n, k) <=> Over(n, k)
    BY <1>1, <1>4, OverKeys
  <2>3. ASSUME NEW a \in DOMAIN nodes[n] PROVE a \in at(n)
    <3>1. PICK k \in StoredKeys(nodes) : Over(n, k) /\ k[Len(n) + 1] = a
      BY <1>1, KeyBelow
    <3> QED BY <1>2, <2>2, <3>1 DEF AddressIn, K
  <2>4. ASSUME NEW a \in at(n) PROVE a \in DOMAIN nodes[n]
    <3>1. PICK k \in below(n) : a = AddressIn(n, k)
      OBVIOUS
    <3>2. k \in StoredKeys(nodes) /\ Over(n, k) /\ a = k[Len(n) + 1]
      BY <1>2, <2>2, <3>1 DEF AddressIn, K
    <3> QED BY <1>1, <3>2, WayToKey
  <2>5. at(n) = DOMAIN nodes[n]
    BY <2>3, <2>4
  <2>6. ASSUME NEW a \in DOMAIN nodes[n] PROVE nodes[n][a] = entry(Append(n, a))
    <3> DEFINE B == below(Append(n, a))
               C == Behind(nodes, n, a)
               e == nodes[n][a]
    <3>1. B = C
      <4>1. a \in Nat
        <5>1. PICK k \in StoredKeys(nodes) : Over(n, k) /\ k[Len(n) + 1] = a
          BY <1>1, KeyBelow
        <5>2. k \in Seq(Nat) /\ Len(n) \in Nat
          BY <1>4, <2>1 DEF K
        <5> QED BY <5>1, <5>2 DEF Over
      <4>2. ASSUME NEW k \in K
            PROVE  IsPrefix(Append(n, a), k) <=> Over(n, k) /\ k[Len(n) + 1] = a
        <5> DEFINE A == Nat
        <5>1. n \in Seq(A) /\ k \in Seq(A) /\ a \in A
          BY <1>4, <2>1, <4>1
        <5> HIDE DEF A
        <5>2. IsPrefix(Append(n, a), k) <=> IsPrefix(n, k) /\ Len(n) < Len(k) /\ k[Len(n) + 1] = a
          BY <5>1, PrefixAppend
        <5> QED BY <5>2 DEF Over
      <4> QED BY <1>2, <4>2 DEF K, Behind
    <3> HIDE DEF B, C
    <3>2. /\ e.kind = "value" => B = {e.key}
          /\ e.kind # "value" => /\ \E k, l \in B : k # l
                                 /\ e = NodeEntry(LongestCommonPrefix(B))
      <4>1. B = Behind(nodes, n, a)
        BY <3>1 DEF C
      <4> QED BY <1>1, <4>1, EntryIs
    <3>3. entry(Append(n, a)) = IF Cardinality(B) = 1
                                  THEN CHOOSE f \in KeyEntries : f.key \in B
                                  ELSE NodeEntry(LongestCommonPrefix(B))
      BY DEF B
    <3> HIDE DEF e
    <3>4. CASE e.kind = "value"
      <4>1. B = {e.key} /\ Cardinality(B) = 1
        BY <3>2, <3>4, FS_Singleton
      <4>2. e \in KeyEntries
        BY <1>1, <3>4, ValuesIff DEF e
      <4>3. \A f \in KeyEntries : f.key = e.key => f = e
        <5> TAKE f \in KeyEntries
        <5>1. e.key \in Key
          BY <1>1, <3>4, WhereKey DEF e
        <5> QED BY <1>1, <4>2, <5>1, BucketIs
      <4>4. (CHOOSE f \in KeyEntries : f.key \in B) = e
        BY <4>1, <4>2, <4>3
      <4> QED BY <3>3, <4>1, <4>4 DEF e
    <3>5. CASE e.kind # "value"
      <4>1. PICK k \in B, l \in B : k # l
        BY <3>2, <3>5
      <4>2. IsFiniteSet(B)
        <5>1. B \subseteq Key
          BY <3>1 DEF C, Behind, StoredKeys
        <5> QED BY <5>1, KeyAssumption, FS_Subset
      <4>3. Cardinality(B) # 1
        <5> SUFFICES ASSUME Cardinality(B) = 1 PROVE FALSE
          OBVIOUS
        <5>1. PICK x : B = {x}
          BY <4>2, FS_Singleton
        <5> QED BY <4>1, <5>1
      <4> QED BY <3>2, <3>3, <3>5, <4>3 DEF e
    <3> QED BY <3>4, <3>5
  <2> HIDE DEF at, entry
  <2> QED BY <2>1, <2>5, <2>6
<1> HIDE DEF at, entry, all
<1>6. nodes = whole
  BY <1>1, <1>3, <1>5
<1> QED BY <1>6 DEF Canonical, whole, all, at, entry, keys

(* The pointers are right at all places but the last clean-up. *)
LEMMA PointersHold == IInv /\ ValidAtCleanUp => PointersValid
<1> SUFFICES ASSUME IInv, ValidAtCleanUp, pc # "cleanold" PROVE PointersValid
  BY DEF ValidAtCleanUp
<1>1. PtrInv /\ CallInv
  BY DEF IInv
<1>2. CASE pc \in {"insert", "move", "cleannew"}
  <2> DEFINE k == call[1]
             l == call[2]
  <2>1. k \in Key /\ l \in Key /\ Stored(nodes, k)
    BY <1>2, CallIs
  <2>2. ptr.old = Find(nodes, k)
    <3>1. CASE pc = "insert"
      <4>1. ptr = [PointersFor(k, l) EXCEPT !.newNode = EntryOf(nodes, Deepest(nodes, l))]
        BY <1>1, <3>1 DEF PtrInv
      <4> HIDE DEF k, l
      <4> QED BY <4>1, PointersAre
    <3>2. CASE pc \in {"move", "cleannew"}
      BY <1>1, <3>2 DEF PtrInv
    <3> QED BY <1>2, <3>1, <3>2
  <2>3. pc \in {"move", "cleannew"} => ptr.new = Find(nodes, l) /\ Stored(nodes, l)
    BY <1>1 DEF PtrInv, CallInv
  <2> HIDE DEF k, l
  <2>4. ASSUME NEW x \in Key, Stored(nodes, x)
        PROVE  /\ Find(nodes, x) # Stale /\ At(nodes, Find(nodes, x)).kind = "value"
               /\ At(nodes, Find(nodes, x)).key = x
    BY <2>4, KeyState, PointerSorts DEF Leads
  <2> QED BY <1>2, <2>1, <2>2, <2>3, <2>4 DEF PointersValid, k, l
<1>3. CASE pc = "erase"
  <2>1. NodeAt(nodes, ptr.oldNode)
    BY <1>1, <1>3 DEF PtrInv
  <2>2. ptr.oldNode # Stale /\ HoldsNode(ptr.oldNode)
    BY <2>1, PointerSorts DEF NodeAt, HoldsNode, Leads
  <2> QED BY <1>3, <2>2 DEF PointersValid
<1>4. CASE pc \in {"idle", "create"}
  BY <1>4 DEF PointersValid
<1> QED BY <1>1, <1>2, <1>3, <1>4 DEF CallInv

(* A step of the tree is one of the multimap. *)
LEMMA StepImplements ==
  ASSUME IInv, ValidAtCleanUp, [Next]_vars
  PROVE  [Abstract!Next]_Content
<1>1. IInv' /\ MultiMapStep(Pairs(nodes), Pairs(nodes'))
  BY StepKeeps
<1>2. Content = Pairs(nodes)
  BY ContentPairs
<1>3. Content' = Pairs(nodes')
  <2>1. KeyEntries' = Values(nodes') /\ Tree(nodes')
    BY <1>1 DEF KeyEntries, Values, IInv
  <2> QED BY <2>1, ContentIs DEF Content
<1>4. MultiMapStep(Content, Content')
  BY <1>1, <1>2, <1>3
<1> QED
  BY <1>4 DEF MultiMapStep, Abstract!Next, Abstract!Emplace, Abstract!Erase, Abstract!Relocate, Abstract!Clear

LEMMA InitImplements == Init => Abstract!Init
  BY InitIInv, ContentPairs DEF Abstract!Init

(* With pointers into arrays the last clean-up is told what is right. *)
LEMMA ArraysValid ==
  ASSUME Moving \subseteq {"array"}, Refused = FALSE
  PROVE  IInv => ValidAtCleanUp
<1> SUFFICES ASSUME IInv, pc = "cleanold" PROVE PointersValid
  BY DEF ValidAtCleanUp
<1>1. CallInv /\ PtrInv
  BY DEF IInv
<1>2. map = "array"
  BY <1>1 DEF CallInv
<1>3. ptr.old = Find(nodes, call[1]) /\ ptr.oldNode # Stale
  BY <1>1, <1>2 DEF PtrInv
<1>4. call[1] \in Key /\ Stored(nodes, call[1])
  BY CallIs
<1>5. At(nodes, ptr.old).kind = "value" /\ At(nodes, ptr.old).key = call[1] /\ ptr.old # Stale
  <2>1. At(nodes, ptr.old).kind = "value" /\ At(nodes, ptr.old).key = call[1] /\ Leads(nodes, ptr.old)
    BY <1>3, <1>4, KeyState
  <2> QED BY <2>1, PointerSorts DEF Leads
<1> QED BY <1>3, <1>5 DEF PointersValid

-----------------------------------------------------------------------------
(* As long as the last clean-up of a relocation is told what is right of   *)
(* the old entry, the tree, its counters and its buckets are right between *)
(* two calls, every pointer leads to what it was taken for and the tree is *)
(* a multimap: stale pointers there are the only danger, whatever the maps *)
(* do.                                                                     *)
THEOREM StaleAloneEndangers ==
  Spec /\ []ValidAtCleanUp =>
    [](Consistent /\ Canonical /\ PointersValid) /\ ImplementsMultiMap
<1>1. Init => IInv /\ Abstract!Init
  BY InitIInv, InitImplements
<1>2. IInv /\ ValidAtCleanUp /\ [Next]_vars => IInv' /\ [Abstract!Next]_Content
  BY StepKeeps, StepImplements
<1>3. IInv /\ ValidAtCleanUp => Consistent /\ Canonical /\ PointersValid
  BY ConsistentHolds, CanonicalHolds, PointersHold
<1> QED BY <1>1, <1>2, <1>3, PTL DEF Spec, ImplementsMultiMap, Abstract!Spec

(* If only maps that leave their entries in place move values between      *)
(* buckets, and no such call moves nothing to a key that is not there, the *)
(* last clean-up is always told what is right.                             *)
THEOREM ArraysInductive ==
  ASSUME Moving \subseteq {"array"}, Refused = FALSE
  PROVE  Spec => [](IInv /\ ValidAtCleanUp)
<1>1. Init => IInv
  BY InitIInv
<1>2. IInv => ValidAtCleanUp
  BY ArraysValid
<1>3. IInv /\ [Next]_vars => IInv'
  BY <1>2, StepKeeps
<1> QED BY <1>1, <1>2, <1>3, PTL DEF Spec

(* Then nodes, counters and buckets pass CheckConsistency between calls.   *)
THEOREM StaysConsistent ==
  ASSUME Moving \subseteq {"array"}, Refused = FALSE
  PROVE  Spec => []Consistent
<1>1. Spec => [](IInv /\ ValidAtCleanUp)
  BY ArraysInductive
<1> QED BY <1>1, ConsistentHolds, PTL

(* The tree is the one its keys determine, whatever was split, merged and  *)
(* moved before.                                                           *)
THEOREM StaysCanonical ==
  ASSUME Moving \subseteq {"array"}, Refused = FALSE
  PROVE  Spec => []Canonical
<1>1. Spec => [](IInv /\ ValidAtCleanUp)
  BY ArraysInductive
<1> QED BY <1>1, CanonicalHolds, PTL

(* A pointer kept across a change of the tree leads to what it was taken   *)
(* for whenever it is used.                                                *)
THEOREM PointersStay ==
  ASSUME Moving \subseteq {"array"}, Refused = FALSE
  PROVE  Spec => []PointersValid
<1>1. Spec => [](IInv /\ ValidAtCleanUp)
  BY ArraysInductive
<1> QED BY <1>1, PointersHold, PTL

(* The tree with its buckets is a multimap: a value that moves is at every *)
(* moment at one of the two keys.                                          *)
THEOREM MultiMapImplemented ==
  ASSUME Moving \subseteq {"array"}, Refused = FALSE
  PROVE  Spec => ImplementsMultiMap
<1>1. Spec => [](IInv /\ ValidAtCleanUp)
  BY ArraysInductive
<1>2. Init => Abstract!Init
  BY InitImplements
<1>3. IInv /\ ValidAtCleanUp /\ [Next]_vars => [Abstract!Next]_Content
  BY StepImplements
<1> QED BY <1>1, <1>2, <1>3, PTL DEF Spec, ImplementsMultiMap, Abstract!Spec
-----------------------------------------------------------------------------
(* Queries.  Points and their regions are what QueriesV16 says of keys.    *)
CONSTANTS DIM, WIDTH, Window, Filter, Center, Limit
VARIABLES query, stack, queue, found

Q == INSTANCE QueriesV16


-----------------------------------------------------------------------------
(* Rounding *)

(* Division of an integer with remainder. *)
LEMMA DivModInt ==
  ASSUME NEW M \in Nat \ {0}, NEW x \in Int
  PROVE  /\ x \div M \in Int
         /\ x % M \in 0 .. M - 1
         /\ x = M * (x \div M) + (x % M)
  BY SMT

(* A product grows with its second factor. *)
LEMMA MulMonotoneInt ==
  ASSUME NEW M \in Nat \ {0}, NEW a \in Int, NEW b \in Int, a <= b
  PROVE  M * a <= M * b /\ M * a \in Int /\ M * b \in Int
  BY SMT

(* The multiple after M * a is M further on. *)
LEMMA MulSuccInt ==
  ASSUME NEW M \in Nat \ {0}, NEW a \in Int
  PROVE  M * (a + 1) = M * a + M
  BY SMT

(* Clearing the same number of last bits keeps the order of two numbers,   *)
(* negative ones included.                                                 *)
LEMMA RoundMonotone ==
  ASSUME NEW M \in Nat \ {0}, NEW x \in Int, NEW y \in Int, x <= y
  PROVE  x - (x % M) <= y - (y % M)
<1> DEFINE a == x \div M
           b == y \div M
<1>1. /\ a \in Int /\ x % M \in 0 .. M - 1 /\ x = M * a + (x % M)
      /\ b \in Int /\ y % M \in 0 .. M - 1 /\ y = M * b + (y % M)
  BY DivModInt
<1> HIDE DEF a, b
<1>2. a <= b
  <2> SUFFICES ASSUME b + 1 <= a PROVE FALSE
    BY <1>1
  <2>1. M * (b + 1) <= M * a /\ M * a \in Int
    BY <1>1, MulMonotoneInt
  <2>2. M * (b + 1) = M * b + M /\ M * b \in Int
    BY <1>1, MulSuccInt, MulMonotoneInt
  <2> QED BY <1>1, <2>1, <2>2
<1>3. M * a <= M * b /\ M * a \in Int /\ M * b \in Int
  BY <1>1, <1>2, MulMonotoneInt
<1> QED BY <1>1, <1>3

(* A number lies between itself with its last bits cleared and set.        *)
LEMMA RoundAround ==
  ASSUME NEW M \in Nat \ {0}, NEW x \in Int
  PROVE  /\ x - (x % M) \in Int
         /\ x - (x % M) <= x
         /\ x <= x - (x % M) + M - 1
<1>1. x % M \in 0 .. M - 1
  BY DivModInt
<1> QED BY <1>1

-----------------------------------------------------------------------------
(* What a matching point passes *)

(* CalcLimits leaves out no address below which the window has a point.    *)
LEMMA MasksKeep ==
  ASSUME NEW n, NEW a, NEW p, NEW box,
         p \in [Q!Dims -> Int], Q!NodeCenter(n) \in [Q!Dims -> Int],
         box.min \in [Q!Dims -> Int], box.max \in [Q!Dims -> Int],
         Q!LiesIn(p, n, a), Q!IsInRange(p, box)
  PROVE  Q!IsPosValid(a, Q!MaskLower(n, box), Q!MaskUpper(n, box))
<1> DEFINE c == Q!NodeCenter(n)
<1>1. \A d \in Q!Dims : d \in Q!Bits(a) <=> IF n = <<>> THEN p[d] < 0 ELSE p[d] >= c[d]
  BY DEF Q!LiesIn
<1>2. \A d \in Q!Dims : /\ box.min[d] <= p[d] /\ p[d] <= box.max[d]
                      /\ p[d] \in Int /\ c[d] \in Int
                      /\ box.min[d] \in Int /\ box.max[d] \in Int
  BY DEF Q!IsInRange
<1> HIDE DEF c
<1>3. Q!Bits(a) \subseteq Q!MaskUpper(n, box)
  BY <1>1, <1>2 DEF Q!Bits, Q!MaskUpper, c
<1>4. Q!MaskLower(n, box) \subseteq Q!Bits(a)
  BY <1>1, <1>2 DEF Q!MaskLower, c
<1> QED BY <1>3, <1>4 DEF Q!IsPosValid

(* CheckEntry turns away no node in whose region the window has a point.   *)
LEMMA CheckEntryKeeps ==
  ASSUME NEW e, NEW n, NEW a, NEW p, NEW box, e.kind = "node", e.key # <<>>,
         2^(Q!PostfixLen(e.key) + 1) \in Nat \ {0},
         p \in [Q!Dims -> Int], Q!NodeCenter(e.key) \in [Q!Dims -> Int],
         box.min \in [Q!Dims -> Int], box.max \in [Q!Dims -> Int],
         Q!LiesIn(p, e.key, a), Q!IsInRange(p, box)
  PROVE  Q!CheckEntry(e, n, box)
<1> DEFINE b == Q!PostfixLen(e.key) + 1
           M == 2^b
           in(d) == Q!RoundDown(Q!NodeCenter(e.key)[d], b)
<1> SUFFICES ASSUME NEW d \in Q!Dims
             PROVE  in(d) <= box.max[d] /\ in(d) >= Q!RoundDown(box.min[d], b)
  BY DEF Q!CheckEntry
<1>1. in(d) = Q!RoundDown(p[d], b)
  BY DEF Q!LiesIn
<1>2. /\ p[d] \in Int /\ box.min[d] \in Int /\ box.max[d] \in Int
      /\ box.min[d] <= p[d] /\ p[d] <= box.max[d]
  BY DEF Q!IsInRange
<1>3. M \in Nat \ {0}
  OBVIOUS
<1>4. Q!RoundDown(p[d], b) = p[d] - (p[d] % M) /\ Q!RoundDown(box.min[d], b) = box.min[d] - (box.min[d] % M)
  BY DEF Q!RoundDown
<1> HIDE DEF M, in, b
<1>5. p[d] - (p[d] % M) <= p[d] /\ p[d] - (p[d] % M) \in Int
  BY <1>2, <1>3, RoundAround
<1>6. box.min[d] - (box.min[d] % M) <= p[d] - (p[d] % M) /\ box.min[d] - (box.min[d] % M) \in Int
  BY <1>2, <1>3, RoundMonotone, RoundAround
<1> QED BY <1>1, <1>2, <1>4, <1>5, <1>6

(* FilterAABB::IsNodeValid turns away no node in whose region the box has  *)
(* a point.                                                                *)
LEMMA BoxFilterKeeps ==
  ASSUME NEW f, NEW n, NEW a, NEW p, n # <<>>, f.kind = "box",
         2^(Q!PostfixLen(n) + 1) \in Nat \ {0},
         p \in [Q!Dims -> Int], Q!NodeCenter(n) \in [Q!Dims -> Int],
         f.min \in [Q!Dims -> Int], f.max \in [Q!Dims -> Int],
         Q!LiesIn(p, n, a), Q!IsInRange(p, f)
  PROVE  Q!IsNodeValid(f, n)
<1> DEFINE b == Q!PostfixLen(n) + 1
           M == 2^b
           low(d) == Q!RoundDown(Q!NodeCenter(n)[d], b)
           high(d) == Q!RoundUp(Q!NodeCenter(n)[d], b)
<1> SUFFICES ASSUME NEW d \in Q!Dims PROVE high(d) >= f.min[d] /\ low(d) <= f.max[d]
  BY DEF Q!IsNodeValid
<1>1. low(d) = p[d] - (p[d] % M) /\ high(d) = p[d] - (p[d] % M) + M - 1
  BY DEF Q!LiesIn, Q!RoundDown, Q!RoundUp
<1>2. /\ p[d] \in Int /\ f.min[d] \in Int /\ f.max[d] \in Int
      /\ f.min[d] <= p[d] /\ p[d] <= f.max[d]
  BY DEF Q!IsInRange
<1>3. M \in Nat \ {0}
  OBVIOUS
<1> HIDE DEF M, low, high, b
<1> DEFINE x == p[d] - (p[d] % M)
<1>4. x \in Int /\ x <= p[d] /\ p[d] <= x + M - 1
  BY <1>2, <1>3, RoundAround
<1>5. low(d) = x /\ high(d) = x + M - 1
  BY <1>1
<1> HIDE DEF x
<1> QED BY <1>2, <1>3, <1>4, <1>5

-----------------------------------------------------------------------------
(* The path to a match *)

(* A box with corners of integers. *)
IsBox(box) == box.min \in [Q!Dims -> Int] /\ box.max \in [Q!Dims -> Int]

(* The keys a query finds in the maps are those stored.                    *)
LEMMA QueriedKeys ==
  ASSUME IInv, NEW k \in Q!StoredKeys
  PROVE  k \in StoredKeys(nodes)
<1>1. PICK f \in UNION {Q!Range(nodes[m]) : m \in DOMAIN nodes} : f.kind = "value" /\ f.key = k
  BY DEF Q!StoredKeys
<1>2. PICK m \in DOMAIN nodes : f \in Q!Range(nodes[m])
  BY <1>1
<1>3. PICK a \in DOMAIN nodes[m] : f = nodes[m][a]
  BY <1>2 DEF Q!Range
<1>4. f \in Values(nodes)
  BY <1>1, <1>3, ValuesIff
<1>5. k \in Key
  BY <1>1, <1>3, WhereKey DEF IInv, Tree
<1> QED BY <1>1, <1>4, <1>5 DEF StoredKeys, Stored

(* Whether FindNextElement goes into the entry at address a of node n.     *)
Passed(n, a, box) ==
  /\ Q!IsPosValid(a, Q!MaskLower(n, box), Q!MaskUpper(n, box))
  /\ Q!CheckEntry(nodes[n][a], n, box)
  /\ Q!ApplyFilter(nodes[n][a])

(* A query for a window, with a box filter or without, of any tree the     *)
(* calls build misses no key that matches: every node on the way to it has *)
(* an entry that leads on, and IteratorHC and ForEachHC do not skip that   *)
(* entry for the masks of its node, its infix or the filter.               *)
THEOREM WindowKeepsMatches ==
  ASSUME IInv, Q!WellPlaced, NEW k \in Q!Matching, NEW n \in DOMAIN nodes, IsPrefix(n, k),
         query.kind = "window", IsBox(query.box),
         query.filter.kind = "none" \/ (query.filter.kind = "box" /\ IsBox(query.filter))
  PROVE  LET a == k[Len(n) + 1] IN
           /\ a \in DOMAIN nodes[n]
           /\ Passed(n, a, query.box)
           /\ \/ nodes[n][a].kind = "value" /\ nodes[n][a].key = k
              \/ nodes[n][a].key \in DOMAIN nodes /\ Over(n, nodes[n][a].key) /\ IsPrefix(nodes[n][a].key, k)
<1> DEFINE a == k[Len(n) + 1]
           e == nodes[n][a]
           p == Q!Point(k)
<1>1. k \in Q!StoredKeys /\ Q!IsEntryValid(query.filter, p) /\ Q!IsInRange(p, query.box)
  BY DEF Q!Matching
<1>2. p \in [Q!Dims -> Int] /\ Q!NodeCenter(n) \in [Q!Dims -> Int] /\ Q!LiesIn(p, n, a)
  BY <1>1 DEF Q!WellPlaced, Q!RegionsExact, Q!IsPrefix, IsPrefix
<1>3. k \in StoredKeys(nodes) /\ k \in Key /\ Tree(nodes) /\ Typed(nodes)
  BY <1>1, QueriedKeys DEF IInv, Tree, StoredKeys
<1>4. Over(n, k)
  BY <1>3, OverKeys
<1>5. a \in DOMAIN nodes[n] /\ IsPrefix(e.key, k) /\ (e.kind = "value" => e.key = k)
  BY <1>3, <1>4, WayToKey
<1>6. /\ Over(n, e.key)
      /\ \/ e.kind = "value"
         \/ /\ e.kind = "node" /\ e.key \in DOMAIN nodes /\ e.key # <<>>
            /\ 2^(Q!PostfixLen(e.key) + 1) \in Nat \ {0}
  BY <1>3, <1>5 DEF Q!WellPlaced, Typed
<1>7. query.filter.kind = "box" => Q!IsInRange(p, query.filter)
  BY <1>1 DEF Q!IsEntryValid
<1> HIDE DEF a, e, p
<1>8. Q!IsPosValid(a, Q!MaskLower(n, query.box), Q!MaskUpper(n, query.box))
  BY <1>1, <1>2, MasksKeep DEF IsBox
<1>9. CASE e.kind = "value"
  <2>1. p = Q!Point(e.key)
    BY <1>5, <1>9 DEF p
  <2>2. Q!CheckEntry(e, n, query.box)
    BY <1>1, <1>9, <2>1 DEF Q!CheckEntry
  <2>3. Q!ApplyFilter(e)
    BY <1>1, <1>9, <2>1 DEF Q!ApplyFilter
  <2>4. Passed(n, a, query.box)
    BY <1>8, <2>2, <2>3 DEF Passed, e
  <2> QED BY <1>5, <1>9, <2>4 DEF e, a
<1>10. CASE e.kind = "node"
  <2> DEFINE below == k[Len(e.key) + 1]
  <2>1. /\ e.key \in DOMAIN nodes /\ e.key # <<>> /\ IsPrefix(e.key, k)
        /\ 2^(Q!PostfixLen(e.key) + 1) \in Nat \ {0}
    BY <1>5, <1>6, <1>10
  <2>2. Q!NodeCenter(e.key) \in [Q!Dims -> Int] /\ Q!LiesIn(p, e.key, below)
    BY <1>1, <2>1 DEF Q!WellPlaced, Q!RegionsExact, Q!IsPrefix, IsPrefix, p
  <2> HIDE DEF below
  <2>3. Q!CheckEntry(e, n, query.box)
    BY <1>1, <1>2, <1>10, <2>1, <2>2, CheckEntryKeeps DEF IsBox
  <2>4. Q!IsNodeValid(query.filter, e.key)
    <3>1. CASE query.filter.kind = "none"
      BY <3>1 DEF Q!IsNodeValid
    <3>2. CASE query.filter.kind = "box"
      BY <1>2, <1>7, <2>1, <2>2, <3>2, BoxFilterKeeps DEF IsBox
    <3> QED BY <3>1, <3>2
  <2>5. Q!ApplyFilter(e)
    BY <1>10, <2>4 DEF Q!ApplyFilter
  <2>6. Passed(n, a, query.box)
    BY <1>8, <2>3, <2>5 DEF Passed, e
  <2> QED BY <1>5, <1>6, <2>1, <2>6 DEF e, a
<1> QED BY <1>6, <1>9, <1>10
=============================================================================
