------------------------ MODULE SequentialInsertProofs ------------------------
(***************************************************************************)
(* The insertion by one thread, with and without entry buffers, proved for *)
(* every workload and every size of pool and buffer.                       *)
(*                                                                         *)
(* Nodes that a prefix split leaves behind refer to nodes that may be      *)
(* freed later, so that the lemmas about typed sets of nodes do not apply  *)
(* to the variable nodes as it is.  The proofs follow a set G of nodes     *)
(* that agrees with it on the nodes of the tree (Shadow).                  *)
(***************************************************************************)
EXTENDS SequentialInsert, PHTreeNodesProofs

UsedBuffers == {s \in Slots : buffer[s].node # None}

PoolProofs == INSTANCE EntryBufferPoolProofs WITH
                Capacity <- PoolSize, MaxRows <- BufferCapacity, Total <- 1,
                filled <- UsedBuffers,
                phase <- "operating", pending <- {}

-----------------------------------------------------------------------------
(* The buffer pool *)

(* The sizes of the pool meet the assumptions of EntryBufferPool.          *)
LEMMA PoolSizes == PoolSize \in Nat \ {0} /\ BufferCapacity \in Nat /\ BufferCapacity >= 2
BY BufferAssumption

(* A buffer that hangs in the tree was taken from the pool.                *)
LEMMA UsedHeld ==
  ASSUME PoolProofs!IInv
  PROVE  UsedBuffers \subseteq inUse /\ inUse \subseteq Slots /\ nextIndex \in [Slots -> Int]
BY DEF PoolProofs!IInv, PoolProofs!TypeOK, PoolProofs!Slots, Slots

(* The pool stays if its variables and the used buffers do.                *)
LEMMA PoolStays ==
  ASSUME PoolProofs!IInv, UNCHANGED poolVars, UsedBuffers' = UsedBuffers
  PROVE  PoolProofs!IInv'
BY DEF PoolProofs!IInv, PoolProofs!TypeOK, PoolProofs!FreeListInv, PoolProofs!IsFreeList,
       PoolProofs!TailInv, PoolProofs!FlushInv, PoolProofs!Cleared, PoolProofs!Chunk, PoolProofs!ChunkSize,
       PoolProofs!Slots, PoolProofs!Parts, PoolProofs!None, poolVars

(* The pool starts with every buffer free.                                 *)
LEMMA PoolStarts ==
  ASSUME Pool!PoolInit, UsedBuffers = {}
  PROVE  PoolProofs!IInv /\ inUse = {}
<1>1. PoolProofs!Init
  BY DEF Pool!PoolInit, PoolProofs!PoolInit, PoolProofs!Init, Pool!Slots, PoolProofs!Slots
<1> QED BY <1>1, PoolSizes, PoolProofs!InitInv DEF PoolProofs!Init, PoolProofs!PoolInit

(* allocate hands out a buffer that is not in use.                         *)
LEMMA TakeBuffer ==
  ASSUME PoolProofs!IInv, Pool!Allocate, UNCHANGED buffer
  PROVE  PoolProofs!IInv' /\ headIndex \in Slots \ inUse /\ inUse' = inUse \cup {headIndex}
<1>1. PoolProofs!Allocate
  BY DEF Pool!Allocate, PoolProofs!Allocate, Pool!NowInitialized, PoolProofs!NowInitialized,
         Pool!Linked, PoolProofs!Linked, Pool!None, PoolProofs!None
<1>2. UsedBuffers' = UsedBuffers
  BY DEF UsedBuffers, Slots
<1>3. PoolProofs!IInv'
  BY <1>1, <1>2, PoolSizes, PoolProofs!AllocateInv
<1>4. PoolProofs!AllocatesUnusedBuffer
  BY PoolSizes, PoolProofs!UnusedBuffer
<1>5. headIndex \in Slots \ inUse
  BY <1>1, <1>4 DEF PoolProofs!AllocatesUnusedBuffer, PoolProofs!Slots, Slots, PoolProofs!Allocate
<1> QED BY <1>1, <1>3, <1>5 DEF PoolProofs!Allocate

(* deallocate takes back the one buffer.                                   *)
LEMMA GiveBack ==
  ASSUME PoolProofs!IInv, NEW s \in Slots, Pool!Deallocate(s), UsedBuffers' = UsedBuffers \ {s}
  PROVE  PoolProofs!IInv' /\ inUse' = inUse \ {s}
<1>1. PoolProofs!Deallocate(s)
  BY DEF Pool!Deallocate, PoolProofs!Deallocate
<1>2. s \in PoolProofs!Slots
  BY DEF PoolProofs!Slots, Slots
<1>3. PoolProofs!IInv'
  BY <1>1, <1>2, PoolSizes, PoolProofs!DeallocateInv
<1> QED BY <1>1, <1>3 DEF PoolProofs!Deallocate

(* The row counter of a buffer in use may change: the free list does not   *)
(* go through it.                                                          *)
LEMMA CountChanged ==
  ASSUME PoolProofs!IInv, NEW s \in inUse, NEW v \in Int, nextIndex' = [nextIndex EXCEPT ![s] = v],
         UsedBuffers' \subseteq UsedBuffers \cup {s},
         UNCHANGED <<headIndex, nInitialized, nFree, inUse>>
  PROVE  PoolProofs!IInv'
<1>1. 1 \in Nat \ {0}
  OBVIOUS
<1> QED BY <1>1, PoolSizes, PoolProofs!CountInv

(* A full deallocation takes back every buffer.                            *)
LEMMA AllGivenBack ==
  ASSUME PoolProofs!IInv, Pool!FullDeallocate, UsedBuffers' = {}
  PROVE  PoolProofs!IInv' /\ inUse' = {}
<1>1. PoolProofs!FullDeallocate
  BY DEF Pool!FullDeallocate, PoolProofs!FullDeallocate, Pool!Reset, PoolProofs!Reset,
         PoolProofs!Slots, Pool!Slots
<1> QED BY <1>1, PoolSizes, PoolProofs!FullDeallocateInv

-----------------------------------------------------------------------------
(* The shadow of the nodes *)

NodeFieldNames == {"prefix", "cont", "max", "removed", "updates"}

(* G agrees with ns on the nodes of the tree. *)
Shadow(G, ns) ==
  /\ DOMAIN G = DOMAIN ns
  /\ \A n \in DOMAIN ns : DOMAIN ns[n] = NodeFieldNames /\ (ns[n].removed <=> G[n].removed)
  /\ \A n \in LiveNodes(ns) :
       ns[n].prefix = G[n].prefix /\ ns[n].max = G[n].max /\ ns[n].cont = G[n].cont

Fields == DOMAIN Cleared

(* The tree G is sound, the buffers bs hang in it, and the others are      *)
(* cleared.                                                                *)
Held(G, bs) ==
  /\ Sound(G, Slots) /\ Hung(G, bs, Slots, Fields) /\ BuffersLie(bs, Slots)
  /\ \A s \in Slots : bs[s].node = None => bs[s] = Cleared

TreeInv(ns, bs) == \E G : Shadow(G, ns) /\ Held(G, bs)

(* A node of the tree is the same in the shadow. *)
LEMMA ShadowIs ==
  ASSUME NEW G, NEW ns, Shadow(G, ns)
  PROVE  /\ LiveNodes(ns) = LiveNodes(G) /\ LiveNodes(G) \subseteq DOMAIN G
         /\ \A n \in LiveNodes(G) : ns[n].prefix = G[n].prefix /\ ns[n].max = G[n].max
                                   /\ ns[n].cont = G[n].cont /\ NContents(ns[n]) = NContents(G[n])
         /\ \A n \in LiveNodes(G) : \A a, m : Linked(ns, n, a, m) <=> Linked(G, n, a, m)
BY DEF Shadow, LiveNodes, NContents, Linked

(* Both hold the same entries.                                             *)
LEMMA ShadowStored ==
  ASSUME NEW G, NEW ns, Shadow(G, ns)
  PROVE  /\ SuffixEntries(ns) = SuffixEntries(G)
         /\ \A bs : StoredIn(ns, bs) = StoredIn(G, bs)
<1>1. LiveNodes(ns) = LiveNodes(G) /\ \A n \in LiveNodes(G) : ns[n].cont = G[n].cont
  BY ShadowIs
<1>2. Contents(ns) = Contents(G)
  <2>1. \A n \in LiveNodes(G) : {ns[n].cont[a] : a \in HCAddresses} = {G[n].cont[a] : a \in HCAddresses}
    BY <1>1
  <2>2. \A c : c \in Contents(ns) <=> \E n \in LiveNodes(G) : c \in {ns[n].cont[a] : a \in HCAddresses}
    BY <1>1 DEF Contents
  <2>3. \A c : c \in Contents(G) <=> \E n \in LiveNodes(G) : c \in {G[n].cont[a] : a \in HCAddresses}
    BY DEF Contents
  <2> QED BY <2>1, <2>2, <2>3
<1>3. SuffixEntries(ns) = SuffixEntries(G)
  BY <1>2 DEF SuffixEntries
<1> QED BY <1>3 DEF StoredIn

(* A content put in both. *)
LEMMA ShadowPut ==
  ASSUME NEW G, NEW ns, Shadow(G, ns), NodesTyped(G, Slots),
         NEW n \in LiveNodes(ns), NEW a \in HCAddresses, NEW c
  PROVE  Shadow(Put(G, n, a, c), [ns EXCEPT ![n].cont[a] = c])
<1> DEFINE H == Put(G, n, a, c)
           new == [ns EXCEPT ![n].cont[a] = c]
<1>1. DOMAIN G = DOMAIN ns /\ n \in DOMAIN G /\ n \in DOMAIN ns /\ ns[n].cont = G[n].cont
      /\ DOMAIN ns[n] = NodeFieldNames
  BY DEF Shadow, LiveNodes
<1>2. /\ DOMAIN H = DOMAIN G /\ \A k \in DOMAIN G : k # n => H[k] = G[k]
      /\ H[n].prefix = G[n].prefix /\ H[n].max = G[n].max /\ H[n].removed = G[n].removed
  BY <1>1, PutIs
<1>3. H[n].cont = [G[n].cont EXCEPT ![a] = c]
  <2>1. DOMAIN G[n] = NodeFieldNames
    BY <1>1 DEF NodesTyped, NodeFields, NodeFieldNames
  <2> QED BY <1>1, <2>1 DEF Put, NodeFieldNames
<1>4. /\ DOMAIN new = DOMAIN ns /\ \A k \in DOMAIN ns : k # n => new[k] = ns[k]
      /\ DOMAIN new[n] = NodeFieldNames /\ new[n].prefix = ns[n].prefix /\ new[n].max = ns[n].max
      /\ new[n].removed = ns[n].removed /\ new[n].cont = [ns[n].cont EXCEPT ![a] = c]
  BY <1>1 DEF NodeFieldNames
<1> HIDE DEF H, new
<1>5. \A k \in DOMAIN new : DOMAIN new[k] = NodeFieldNames /\ (new[k].removed <=> H[k].removed)
  BY <1>1, <1>2, <1>4 DEF Shadow
<1>6. ASSUME NEW k \in LiveNodes(new)
      PROVE  new[k].prefix = H[k].prefix /\ new[k].max = H[k].max /\ new[k].cont = H[k].cont
  <2>1. k \in LiveNodes(ns)
    BY <1>4 DEF LiveNodes
  <2>2. ns[k].prefix = G[k].prefix /\ ns[k].max = G[k].max /\ ns[k].cont = G[k].cont /\ k \in DOMAIN ns
    BY <2>1 DEF Shadow, LiveNodes
  <2> QED BY <1>1, <1>2, <1>3, <1>4, <2>2
<1>7. Shadow(H, new)
  BY <1>1, <1>2, <1>4, <1>5, <1>6 DEF Shadow
<1> QED BY <1>7 DEF H, new

(* What a place holds after a flush, if it held old before. *)
After(bs, n, a, old, used) ==
  LET stored == {b \in bs : b.node = n /\ b.addr = a} IN
    IF stored = {} THEN old ELSE Sub(TopNode(CHOOSE b \in stored : TRUE, used))

Refilled(bs, n, cont, used) == [a \in HCAddresses |-> After(bs, n, a, cont[a], used)]

(* A node of the subtrees. *)
Hatched(bs, used, m) ==
  (CHOOSE f \in {SubtreeFor(DistinctRows(b.rows), b.node, used) : b \in bs} : m \in DOMAIN f)[m]

(* The parts of a flush. *)
LEMMA FlushedParts ==
  ASSUME NEW ns, NEW bs
  PROVE  /\ DOMAIN Flushed(ns, bs) = DOMAIN ns \cup NewNodes(bs, DOMAIN ns)
         /\ \A m \in DOMAIN ns :
              Flushed(ns, bs)[m] = WithCont(ns[m], Refilled(bs, m, ns[m].cont, DOMAIN ns))
         /\ \A m \in NewNodes(bs, DOMAIN ns) \ DOMAIN ns :
              Flushed(ns, bs)[m] = Hatched(bs, DOMAIN ns, m)
<1> DEFINE used == DOMAIN ns
           F == {SubtreeFor(DistinctRows(b.rows), b.node, used) : b \in bs}
           N == UNION {DOMAIN f : f \in F}
<1>1. N = NewNodes(bs, used)
  BY DEF NewNodes, SubtreeOf
<1>2. DOMAIN Flushed(ns, bs) = used \cup N
  BY DEF Flushed
<1>3. ASSUME NEW m \in used
      PROVE  Flushed(ns, bs)[m] = WithCont(ns[m], Refilled(bs, m, ns[m].cont, used))
  BY <1>2 DEF Flushed, WithCont, After, Refilled
<1>4. ASSUME NEW m \in N \ used
      PROVE  Flushed(ns, bs)[m] = Hatched(bs, used, m)
  BY <1>2 DEF Flushed, Hatched
<1> HIDE DEF N
<1> QED BY <1>1, <1>2, <1>3, <1>4

(* G agrees with ns beside the places of the buffers bs. *)
Beside(G, ns, bs) ==
  /\ DOMAIN G = DOMAIN ns
  /\ \A n \in DOMAIN ns : DOMAIN ns[n] = NodeFieldNames /\ (ns[n].removed <=> G[n].removed)
  /\ \A n \in LiveNodes(ns) :
       /\ ns[n].prefix = G[n].prefix /\ ns[n].max = G[n].max
       /\ \A a \in HCAddresses :
            (\A b \in bs : ~(b.node = n /\ b.addr = a)) => ns[n].cont[a] = G[n].cont[a]

(* The fields of a node. *)
LEMMA FieldsNamed ==
  ASSUME NEW n, NEW ids, NEW slots, NEW node \in NodeFields(n, ids, slots)
  PROVE  DOMAIN node = NodeFieldNames
BY DEF NodeFields, NodeFieldNames

(* A node with other contents is the same in all other fields.             *)
LEMMA WithContIs ==
  ASSUME NEW node, DOMAIN node = NodeFieldNames, NEW c
  PROVE  /\ DOMAIN WithCont(node, c) = NodeFieldNames /\ WithCont(node, c).cont = c
         /\ WithCont(node, c).prefix = node.prefix /\ WithCont(node, c).max = node.max
         /\ WithCont(node, c).removed = node.removed
BY DEF WithCont, NodeFieldNames

(* A flush makes them agree. *)
LEMMA ShadowFlushed ==
  ASSUME NEW G, NEW ns, NEW bs, Beside(G, ns, bs), NodesTyped(G, Slots), NodesTyped(Flushed(G, bs), Slots)
  PROVE  Shadow(Flushed(G, bs), Flushed(ns, bs))
<1> DEFINE used == DOMAIN ns
           H == Flushed(G, bs)
           new == Flushed(ns, bs)
           cG(m) == Refilled(bs, m, G[m].cont, used)
           cN(m) == Refilled(bs, m, ns[m].cont, used)
<1>1. used = DOMAIN G
  BY DEF Beside
<1>2. /\ DOMAIN H = used \cup NewNodes(bs, used)
      /\ \A m \in used : H[m] = WithCont(G[m], cG(m))
      /\ \A m \in NewNodes(bs, used) \ used : H[m] = Hatched(bs, used, m)
  <2>1. /\ DOMAIN H = DOMAIN G \cup NewNodes(bs, DOMAIN G)
        /\ \A m \in DOMAIN G : H[m] = WithCont(G[m], Refilled(bs, m, G[m].cont, DOMAIN G))
        /\ \A m \in NewNodes(bs, DOMAIN G) \ DOMAIN G : H[m] = Hatched(bs, DOMAIN G, m)
    BY FlushedParts
  <2> HIDE DEF H
  <2> QED BY <1>1, <2>1
<1>3. /\ DOMAIN new = used \cup NewNodes(bs, used)
      /\ \A m \in used : new[m] = WithCont(ns[m], cN(m))
      /\ \A m \in NewNodes(bs, used) \ used : new[m] = Hatched(bs, used, m)
  BY FlushedParts
<1>4. \A m \in LiveNodes(ns) : cG(m) = cN(m)
  <2> TAKE m \in LiveNodes(ns)
  <2>1. ASSUME NEW a \in HCAddresses PROVE After(bs, m, a, G[m].cont[a], used) = After(bs, m, a, ns[m].cont[a], used)
    BY DEF After, Beside
  <2> QED BY <2>1 DEF Refilled
<1>5. ASSUME NEW m \in used PROVE DOMAIN G[m] = NodeFieldNames /\ DOMAIN ns[m] = NodeFieldNames
  <2>1. G[m] \in NodeFields(m, DOMAIN G, Slots)
    BY <1>1 DEF NodesTyped
  <2>2. DOMAIN G[m] = NodeFieldNames
    BY <2>1, FieldsNamed
  <2> QED BY <2>2 DEF Beside
<1> HIDE DEF cG, cN, H, new
<1>6. \A m \in used :
        /\ H[m].cont = cG(m) /\ H[m].prefix = G[m].prefix /\ H[m].max = G[m].max
        /\ H[m].removed = G[m].removed
        /\ DOMAIN new[m] = NodeFieldNames
        /\ new[m].cont = cN(m) /\ new[m].prefix = ns[m].prefix /\ new[m].max = ns[m].max
        /\ new[m].removed = ns[m].removed
  BY <1>2, <1>3, <1>5, WithContIs
<1>7. \A m \in NewNodes(bs, used) \ used : H[m] = new[m] /\ DOMAIN H[m] = NodeFieldNames
  <2> TAKE m \in NewNodes(bs, used) \ used
  <2>1. H[m] \in NodeFields(m, DOMAIN H, Slots)
    BY <1>2 DEF NodesTyped, H
  <2> QED BY <1>2, <1>3, <2>1, FieldsNamed
<1>8. \A m \in DOMAIN new : DOMAIN new[m] = NodeFieldNames /\ (new[m].removed <=> H[m].removed)
  BY <1>3, <1>6, <1>7 DEF Beside
<1>9. ASSUME NEW m \in LiveNodes(new)
      PROVE  new[m].prefix = H[m].prefix /\ new[m].max = H[m].max /\ new[m].cont = H[m].cont
  <2>1. CASE m \in used
    <3>1. m \in LiveNodes(ns)
      BY <1>6, <2>1 DEF LiveNodes
    <3> QED BY <1>4, <1>6, <2>1, <3>1 DEF Beside
  <2>2. CASE m \notin used
    BY <1>3, <1>7, <2>2 DEF LiveNodes
  <2> QED BY <2>1, <2>2
<1>10. Shadow(H, new)
  BY <1>2, <1>3, <1>8, <1>9 DEF Shadow
<1> QED BY <1>10 DEF H, new

(* Node n of ns is marked as removed and the nodes N of R take its place   *)
(* behind address pa of the parent.                                        *)
Grafted(ns, new, R, n, parent, pa, m, N) ==
  /\ DOMAIN new = DOMAIN ns \cup N
  /\ \A k \in N : new[k] = R[k]
  /\ new[n] = [ns[n] EXCEPT !.removed = TRUE]
  /\ new[parent] = [ns[parent] EXCEPT !.cont[pa] = Sub(m)]
  /\ \A k \in DOMAIN ns \ {n, parent} : new[k] = ns[k]

(* A node is replaced in both.                                             *)
LEMMA ShadowReplaced ==
  ASSUME NEW G, NEW ns, Shadow(G, ns), NodesTyped(G, Slots),
         NEW n \in LiveNodes(ns), NEW parent \in LiveNodes(ns), n # parent, NEW pa \in HCAddresses,
         NEW N, N \cap DOMAIN ns = {}, NEW m, NEW R, NodesTyped(R, Slots),
         Replacement(G, R, n, parent, pa, m, N, Slots),
         NEW new, Grafted(ns, new, R, n, parent, pa, m, N)
  PROVE  Shadow(R, new)
<1>1. /\ DOMAIN G = DOMAIN ns /\ n \in DOMAIN ns /\ parent \in DOMAIN ns
      /\ \A k \in DOMAIN ns : DOMAIN ns[k] = NodeFieldNames /\ (ns[k].removed <=> G[k].removed)
      /\ \A k \in LiveNodes(ns) :
           ns[k].prefix = G[k].prefix /\ ns[k].max = G[k].max /\ ns[k].cont = G[k].cont
  BY DEF Shadow, LiveNodes
<1>2. /\ DOMAIN R = DOMAIN ns \cup N
      /\ \A k \in DOMAIN ns : R[k].prefix = G[k].prefix /\ R[k].max = G[k].max
      /\ \A k \in DOMAIN ns : R[k].removed <=> (G[k].removed \/ k = n)
      /\ \A k \in DOMAIN ns, b \in HCAddresses :
           R[k].cont[b] = IF k = parent /\ b = pa THEN Sub(m) ELSE G[k].cont[b]
      /\ \A k \in DOMAIN ns : k \notin {n, parent} => R[k] = G[k]
  BY <1>1 DEF Replacement
<1>3. /\ DOMAIN new = DOMAIN R
      /\ \A k \in N : new[k] = R[k]
      /\ DOMAIN new[n] = NodeFieldNames /\ new[n].removed
      /\ DOMAIN new[parent] = NodeFieldNames /\ new[parent].prefix = ns[parent].prefix
      /\ new[parent].max = ns[parent].max /\ new[parent].removed = ns[parent].removed
      /\ new[parent].cont = [ns[parent].cont EXCEPT ![pa] = Sub(m)]
      /\ \A k \in DOMAIN ns \ {n, parent} : new[k] = ns[k]
  BY <1>1, <1>2 DEF Grafted, NodeFieldNames
<1>4. ASSUME NEW k \in N
      PROVE  DOMAIN new[k] = NodeFieldNames
  <2>1. R[k] \in NodeFields(k, DOMAIN R, Slots)
    BY <1>2 DEF NodesTyped
  <2> QED BY <1>3, <2>1, FieldsNamed
<1>5. \A k \in DOMAIN new : DOMAIN new[k] = NodeFieldNames /\ (new[k].removed <=> R[k].removed)
  <2> TAKE k \in DOMAIN new
  <2>1. CASE k \in N
    BY <1>3, <1>4, <2>1
  <2>2. CASE k = n
    BY <1>1, <1>2, <1>3, <2>2
  <2>3. CASE k = parent
    BY <1>1, <1>2, <1>3, <2>3
  <2>4. CASE k \in DOMAIN ns \ {n, parent}
    BY <1>1, <1>2, <1>3, <2>4
  <2> QED BY <1>2, <1>3, <2>1, <2>2, <2>3, <2>4
<1>6. new[parent].cont = R[parent].cont
  <2>1. G[parent] \in NodeFields(parent, DOMAIN G, Slots) /\ R[parent] \in NodeFields(parent, DOMAIN R, Slots)
    BY <1>1, <1>2 DEF NodesTyped
  <2> DEFINE c == G[parent].cont
             d == R[parent].cont
             f == [c EXCEPT ![pa] = Sub(m)]
  <2>2. DOMAIN c = HCAddresses /\ c = [b \in HCAddresses |-> c[b]]
    BY <2>1 DEF NodeFields
  <2>3. d = [b \in HCAddresses |-> d[b]]
    BY <2>1 DEF NodeFields
  <2>4. \A b \in HCAddresses : d[b] = IF b = pa THEN Sub(m) ELSE c[b]
    BY <1>1, <1>2
  <2>5. f = new[parent].cont
    BY <1>1, <1>3
  <2> HIDE DEF c, d
  <2>6. f = [b \in HCAddresses |-> d[b]]
    BY <2>2, <2>4
  <2>7. f = d
    BY <2>3, <2>6
  <2> HIDE DEF f
  <2> QED BY <2>5, <2>7 DEF d
<1>7. ASSUME NEW k \in LiveNodes(new)
      PROVE  new[k].prefix = R[k].prefix /\ new[k].max = R[k].max /\ new[k].cont = R[k].cont
  <2>1. k \in DOMAIN new /\ ~new[k].removed
    BY DEF LiveNodes
  <2>2. CASE k \in N
    BY <1>3, <2>2
  <2>3. CASE k = parent
    BY <1>1, <1>2, <1>3, <1>6, <2>3
  <2>4. CASE k \in DOMAIN ns \ {n, parent}
    <3>1. k \in LiveNodes(ns)
      BY <1>3, <2>1, <2>4 DEF LiveNodes
    <3> QED BY <1>1, <1>2, <1>3, <2>4, <3>1
  <2> QED BY <1>2, <1>3, <2>1, <2>2, <2>3, <2>4
<1> QED BY <1>3, <1>5, <1>7 DEF Shadow

(* A prefix is split in both.                                              *)
LEMMA ShadowSplit ==
  ASSUME NEW G, NEW ns, Shadow(G, ns), NodesTyped(G, Slots),
         NEW n \in LiveNodes(ns), NEW parent \in LiveNodes(ns), n # parent,
         NEW e, AddressIn(e, parent) \in HCAddresses,
         NEW upper, NEW copy, upper \notin DOMAIN ns, copy \notin DOMAIN ns, upper # copy,
         NEW R, R = Resplit(G, n, parent, e, upper, copy), NodesTyped(R, Slots)
  PROVE  Shadow(R, [Split(ns, n, parent, e, upper, copy) EXCEPT ![n].removed = TRUE])
<1> DEFINE pa == AddressIn(e, parent)
           shared == SharedPrefix(e, n, ns[n].prefix)
           L == [ns EXCEPT ![parent].cont[pa] = Sub(upper)]
           U == BuildNode(shared, UpperCont(n, e, upper, copy))
           C == BuildNode(ns[n].prefix - shared - 1, ns[n].cont)
           P == WithNode(WithNode(L, copy, C), upper, U)
           new == [P EXCEPT ![n].removed = TRUE]
           N == {upper, copy}
<1>1. Split(ns, n, parent, e, upper, copy) = P
  BY DEF Split, PrefixLeft, UpperCont
<1>2. /\ DOMAIN G = DOMAIN ns /\ n \in DOMAIN ns /\ parent \in DOMAIN ns
      /\ ns[n].prefix = G[n].prefix /\ ns[n].cont = G[n].cont
  BY DEF Shadow, LiveNodes
<1>3. /\ Replacement(G, R, n, parent, pa, upper, N, Slots)
      /\ R[upper] = U /\ R[copy] = C
  BY <1>2, ResplitReplaces
<1> HIDE DEF U, C
<1>4. /\ DOMAIN P = DOMAIN ns \cup N /\ P[upper] = U /\ P[copy] = C
      /\ \A k \in DOMAIN ns : P[k] = L[k]
  <2> HIDE DEF L
  <2>1. DOMAIN L = DOMAIN ns
    BY DEF L
  <2> QED BY <2>1 DEF WithNode
<1>5. /\ L[parent] = [ns[parent] EXCEPT !.cont[pa] = Sub(upper)]
      /\ \A k \in DOMAIN ns \ {parent} : L[k] = ns[k]
  BY <1>2
<1> HIDE DEF L, P, pa, shared
<1>6. /\ DOMAIN new = DOMAIN P /\ new[n] = [P[n] EXCEPT !.removed = TRUE]
      /\ \A k \in DOMAIN P \ {n} : new[k] = P[k]
  BY <1>2, <1>4
<1>7. n \notin N /\ N \cap DOMAIN ns = {}
  BY <1>2
<1> HIDE DEF new
<1>8. new[n] = [ns[n] EXCEPT !.removed = TRUE] /\ new[parent] = [ns[parent] EXCEPT !.cont[pa] = Sub(upper)]
  BY <1>2, <1>4, <1>5, <1>6
<1>9. \A k \in N : new[k] = R[k]
  BY <1>3, <1>4, <1>6, <1>7
<1>10. \A k \in DOMAIN ns \ {n, parent} : new[k] = ns[k]
  BY <1>4, <1>5, <1>6
<1>11. Grafted(ns, new, R, n, parent, pa, upper, N)
  BY <1>4, <1>6, <1>8, <1>9, <1>10 DEF Grafted
<1>12. pa \in HCAddresses
  BY DEF pa
<1> HIDE DEF N
<1>13. Shadow(R, new)
  BY <1>3, <1>7, <1>11, <1>12, ShadowReplaced
<1> QED BY <1>1, <1>13 DEF new

-----------------------------------------------------------------------------
(* Freeing a node *)

(* Node n is gone; where a node that is no longer of the tree refers to    *)
(* it, nothing matters any more.                                           *)
Dropped(ns, n) ==
  [k \in DOMAIN ns \ {n} |->
     [ns[k] EXCEPT !.cont = [a \in HCAddresses |-> IF ns[k].cont[a] = Sub(n) THEN Sub(k) ELSE ns[k].cont[a]]]]

(* D has the nodes of ns but n; references to it lead from a node to itself *)
(* instead.                                                                *)
IsDropped(ns, D, n, slots) ==
  /\ DOMAIN D = DOMAIN ns \ {n} /\ LiveNodes(D) = LiveNodes(ns)
  /\ \A k \in LiveNodes(ns) : D[k] = ns[k]
  /\ \A k \in DOMAIN D : /\ D[k].prefix = ns[k].prefix /\ D[k].max = ns[k].max
                         /\ D[k].removed = ns[k].removed
                         /\ D[k] \in NodeFields(k, DOMAIN D, slots)
  /\ \A k \in DOMAIN D, a \in HCAddresses :
       D[k].cont[a] = IF ns[k].cont[a] = Sub(n) THEN Sub(k) ELSE ns[k].cont[a]

(* A node that is not of the tree can go. *)
LEMMA DroppedIs ==
  ASSUME NEW ns, NEW slots, Sound(ns, slots), NEW n \in DOMAIN ns, n \notin LiveNodes(ns)
  PROVE  IsDropped(ns, Dropped(ns, n), n, slots)
<1> DEFINE D == Dropped(ns, n)
           c(k) == [a \in HCAddresses |-> IF ns[k].cont[a] = Sub(n) THEN Sub(k) ELSE ns[k].cont[a]]
<1>1. DOMAIN D = DOMAIN ns \ {n} /\ \A k \in DOMAIN D : D[k] = WithCont(ns[k], c(k))
  BY DEF Dropped, WithCont
<1>2. \A k \in DOMAIN ns : ns[k] \in NodeFields(k, DOMAIN ns, slots)
  BY DEF Sound, NodesTyped
<1> HIDE DEF D
<1>3. ASSUME NEW k \in DOMAIN D
      PROVE  /\ D[k].prefix = ns[k].prefix /\ D[k].max = ns[k].max /\ D[k].removed = ns[k].removed
             /\ D[k].cont = c(k) /\ D[k] \in NodeFields(k, DOMAIN D, slots)
  <2> DEFINE H == Holds(DOMAIN ns, slots)
             K == Holds(DOMAIN D, slots)
             d == c(k)
             x == ns[k]
             L == 0 .. Len(Path(k))
  <2>1. k \in DOMAIN ns /\ k # n
    BY <1>1
  <2>2. x \in [prefix : L, cont : [HCAddresses -> H], max : Nat, removed : BOOLEAN, updates : Nat]
    BY <1>2, <2>1 DEF NodeFields
  <2>3. \A a \in HCAddresses : d[a] \in K
    <3> TAKE a \in HCAddresses
    <3>1. x.cont[a] \in H
      BY <2>2
    <3>2. \/ x.cont[a] = Empty \/ \E e \in Entries : x.cont[a] = Suffix(e)
          \/ \E m \in DOMAIN ns : x.cont[a] = Sub(m) \/ \E s \in slots : x.cont[a] = Buf(s)
      BY <3>1 DEF Holds
    <3>3. d[a] = IF x.cont[a] = Sub(n) THEN Sub(k) ELSE x.cont[a]
      OBVIOUS
    <3> HIDE DEF d, x
    <3> QED BY <1>1, <3>2, <3>3 DEF Holds
  <2>4. d \in [HCAddresses -> K]
    <3>1. d = [a \in HCAddresses |-> d[a]]
      OBVIOUS
    <3> HIDE DEF d, K
    <3> QED BY <2>3, <3>1
  <2> HIDE DEF d, K, H, x, L
  <2>5. /\ WithCont(x, d).prefix = x.prefix /\ WithCont(x, d).max = x.max
        /\ WithCont(x, d).removed = x.removed /\ WithCont(x, d).cont = d
        /\ WithCont(x, d) \in [prefix : L, cont : [HCAddresses -> K], max : Nat, removed : BOOLEAN, updates : Nat]
    BY <2>2, <2>4 DEF WithCont
  <2>6. D[k] = WithCont(x, d)
    BY <1>1, <2>1 DEF x, d
  <2> QED BY <2>5, <2>6 DEF NodeFields, K, L, x, d
<1>4. LiveNodes(D) = LiveNodes(ns)
  BY <1>1, <1>3 DEF LiveNodes
<1>5. ASSUME NEW k \in LiveNodes(ns) PROVE D[k] = ns[k]
  <2>1. k \in DOMAIN D /\ k \in DOMAIN ns
    BY <1>1 DEF LiveNodes
  <2>2. \A a \in HCAddresses : ns[k].cont[a] # Sub(n)
    BY DEF Sound, Tree, LinksRight, Linked
  <2> DEFINE x == ns[k]
             d == c(k)
  <2>3. x \in [prefix : 0 .. Len(Path(k)), cont : [HCAddresses -> Holds(DOMAIN ns, slots)],
               max : Nat, removed : BOOLEAN, updates : Nat]
    BY <1>2, <2>1 DEF NodeFields
  <2>4. x.cont = [a \in HCAddresses |-> x.cont[a]]
    BY <2>3
  <2>5. d = [a \in HCAddresses |-> x.cont[a]]
    BY <2>2
  <2>6. d = x.cont
    BY <2>4, <2>5
  <2>7. D[k] = WithCont(x, d)
    BY <1>1, <2>1
  <2> HIDE DEF x, d
  <2>8. WithCont(x, x.cont) = x
    BY <2>3 DEF WithCont
  <2> QED BY <2>6, <2>7, <2>8 DEF x
<1> HIDE DEF c
<1>6. \A k \in DOMAIN D, a \in HCAddresses :
        D[k].cont[a] = IF ns[k].cont[a] = Sub(n) THEN Sub(k) ELSE ns[k].cont[a]
  BY <1>3 DEF c
<1>7. DOMAIN D = DOMAIN ns \ {n} /\ D = Dropped(ns, n)
  BY <1>1 DEF D
<1> HIDE DEF D
<1> QED BY <1>3, <1>4, <1>5, <1>6, <1>7 DEF IsDropped

(* The tree stays sound without it.                                        *)
LEMMA DroppedSound ==
  ASSUME NEW ns, NEW slots, Sound(ns, slots), NEW n \in DOMAIN ns, n \notin LiveNodes(ns)
  PROVE  Sound(Dropped(ns, n), slots)
<1> DEFINE D == Dropped(ns, n)
<1>1. IsDropped(ns, D, n, slots)
  BY DroppedIs
<1> HIDE DEF D
<1>2. /\ DOMAIN D = DOMAIN ns \ {n} /\ LiveNodes(D) = LiveNodes(ns)
      /\ \A k \in LiveNodes(ns) : D[k] = ns[k]
      /\ \A k \in DOMAIN D : /\ D[k].prefix = ns[k].prefix /\ D[k].max = ns[k].max
                             /\ D[k].removed = ns[k].removed
                             /\ D[k] \in NodeFields(k, DOMAIN D, slots)
      /\ \A k \in DOMAIN D, a \in HCAddresses :
           D[k].cont[a] = IF ns[k].cont[a] = Sub(n) THEN Sub(k) ELSE ns[k].cont[a]
  BY <1>1 DEF IsDropped
<1>3. NodesTyped(ns, slots) /\ Tree(ns) /\ Room(ns) /\ Spread(ns) /\ Placed(ns)
  BY DEF Sound
<1>4. NodesTyped(D, slots)
  <2>1. IsFiniteSet(DOMAIN D) /\ DOMAIN D \subseteq NodeIds
    BY <1>2, <1>3, FS_Subset DEF NodesTyped, IdsTyped
  <2> QED BY <1>2, <1>3, <2>1 DEF NodesTyped, IdsTyped
<1>5. \A k \in DOMAIN D, a \in HCAddresses : (ns[k].cont[a] = Empty) <=> (D[k].cont[a] = Empty)
  BY <1>2, SubNotEmpty
<1>6. Room(D) /\ Spread(D) /\ Placed(D)
  <2>1. \A k \in DOMAIN D : NContents(ns[k]) = NContents(D[k]) /\ (TwoContents(ns[k]) => TwoContents(D[k]))
    BY <1>5, SameCount
  <2>2. Room(D)
    BY <1>2, <1>3, <2>1 DEF Room
  <2>3. Spread(D)
    BY <1>2, <1>3, <2>1 DEF Spread
  <2>4. Placed(D)
    BY <1>2, <1>3 DEF Placed
  <2> QED BY <2>2, <2>3, <2>4
<1>7. Tree(D)
  <2>1. \A k \in LiveNodes(ns) :
          /\ D[k].prefix = ns[k].prefix
          /\ \A b \in HCAddresses : \A m : Linked(D, k, b, m) <=> Linked(ns, k, b, m)
    BY <1>2 DEF Linked
  <2>2. IdsTyped(ns)
    BY <1>3 DEF NodesTyped
  <2> QED BY <1>2, <1>3, <2>1, <2>2, SameTree
<1>8. Sound(D, slots)
  BY <1>4, <1>6, <1>7 DEF Sound
<1> QED BY <1>8 DEF D

(* So do the buffers and the entries.                                      *)
LEMMA DroppedHeld ==
  ASSUME NEW ns, NEW bs, Held(ns, bs), NEW n \in DOMAIN ns, n \notin LiveNodes(ns)
  PROVE  /\ Held(Dropped(ns, n), bs)
         /\ StoredIn(Dropped(ns, n), bs) = StoredIn(ns, bs)
<1> DEFINE D == Dropped(ns, n)
<1>1. Sound(ns, Slots)
  BY DEF Held
<1>2. IsDropped(ns, D, n, Slots) /\ Sound(D, Slots)
  BY <1>1, DroppedSound, DroppedIs
<1> HIDE DEF D
<1>3. Sound(D, Slots) /\ LiveNodes(D) = LiveNodes(ns) /\ \A k \in LiveNodes(ns) : D[k] = ns[k]
  BY <1>2 DEF IsDropped
<1>4. Hung(D, bs, Slots, Fields)
  BY <1>3, HungAlike DEF Held
<1>5. SuffixEntries(D) = SuffixEntries(ns)
  BY <1>1, <1>3, SameEntries DEF Sound
<1> QED BY <1>3, <1>4, <1>5 DEF Held, StoredIn, D

(* A node that is marked as removed in the shadow is freed in both.        *)
LEMMA ShadowDropped ==
  ASSUME NEW G, NEW ns, Shadow(G, ns), Sound(G, Slots), NEW n \in DOMAIN G, n \notin LiveNodes(G),
         NEW new, DOMAIN new = DOMAIN ns \ {n}, \A k \in DOMAIN new : new[k] = ns[k]
  PROVE  Shadow(Dropped(G, n), new)
<1> DEFINE D == Dropped(G, n)
<1>1. IsDropped(G, D, n, Slots)
  BY DroppedIs
<1> HIDE DEF D
<1>2. /\ DOMAIN D = DOMAIN G \ {n} /\ LiveNodes(D) = LiveNodes(G)
      /\ \A k \in LiveNodes(G) : D[k] = G[k]
      /\ \A k \in DOMAIN D : /\ D[k].prefix = G[k].prefix /\ D[k].max = G[k].max
                             /\ D[k].removed = G[k].removed
                             /\ D[k] \in NodeFields(k, DOMAIN D, Slots)
      /\ \A k \in DOMAIN D, a \in HCAddresses :
           D[k].cont[a] = IF G[k].cont[a] = Sub(n) THEN Sub(k) ELSE G[k].cont[a]
  BY <1>1 DEF IsDropped
<1>3. DOMAIN new = DOMAIN ns \ {n} /\ \A k \in DOMAIN ns \ {n} : new[k] = ns[k]
  OBVIOUS
<1>4. /\ DOMAIN G = DOMAIN ns
      /\ \A k \in DOMAIN ns : DOMAIN ns[k] = NodeFieldNames /\ (ns[k].removed <=> G[k].removed)
      /\ \A k \in LiveNodes(ns) :
           ns[k].prefix = G[k].prefix /\ ns[k].max = G[k].max /\ ns[k].cont = G[k].cont
  BY DEF Shadow
<1>5. ASSUME NEW k \in LiveNodes(new) PROVE k \in LiveNodes(ns) /\ k \in LiveNodes(G) /\ new[k] = ns[k]
  BY <1>3, <1>4 DEF LiveNodes
<1>6. Shadow(D, new)
  BY <1>2, <1>3, <1>4, <1>5 DEF Shadow
<1> QED BY <1>6 DEF D

-----------------------------------------------------------------------------
(* Copying a full node into a larger one *)

(* The larger copy is the same in both.                                    *)
LEMMA LargerSame ==
  ASSUME NEW x, NEW y, x.prefix = y.prefix, x.max = y.max, x.cont = y.cont, NEW a, NEW e
  PROVE  LargerCopy(x, a, e) = LargerCopy(y, a, e)
BY DEF LargerCopy

(* The nodes after n was copied into a larger one below its parent. *)
Enlarged(ns, n, parent, pa, new, a, e) ==
  LET all == WithNode([ns EXCEPT ![parent].cont[pa] = Sub(new)], new, LargerCopy(ns[n], a, e))
  IN  [k \in DOMAIN all \ {n} |-> all[k]]

(* A node below another is copied and freed in both. *)
LEMMA ShadowCopied ==
  ASSUME NEW G, NEW ns, Shadow(G, ns), NodesTyped(G, Slots),
         NEW n \in LiveNodes(ns), NEW parent \in LiveNodes(ns), n # parent, NEW pa \in HCAddresses,
         NEW new, new \notin DOMAIN ns, NEW a, NEW e,
         Sound(Copied(G, n, parent, pa, new, a, e), Slots)
  PROVE  Shadow(Dropped(Copied(G, n, parent, pa, new, a, e), n), Enlarged(ns, n, parent, pa, new, a, e))
<1> DEFINE R == Copied(G, n, parent, pa, new, a, e)
           all == WithNode([ns EXCEPT ![parent].cont[pa] = Sub(new)], new, LargerCopy(ns[n], a, e))
<1>a. R = Copied(G, n, parent, pa, new, a, e) /\ Sound(R, Slots)
      /\ all = WithNode([ns EXCEPT ![parent].cont[pa] = Sub(new)], new, LargerCopy(ns[n], a, e))
  OBVIOUS
<1>b. Enlarged(ns, n, parent, pa, new, a, e) = [k \in DOMAIN all \ {n} |-> all[k]]
  BY DEF Enlarged
<1> HIDE DEF R, all
<1> USE <1>a
<1> DEFINE C == LargerCopy(ns[n], a, e)
           L == [ns EXCEPT ![parent].cont[pa] = Sub(new)]
           marked == [all EXCEPT ![n].removed = TRUE]
           N == {new}
<1>1. /\ DOMAIN G = DOMAIN ns /\ n \in DOMAIN ns /\ parent \in DOMAIN ns
      /\ ns[n].prefix = G[n].prefix /\ ns[n].max = G[n].max /\ ns[n].cont = G[n].cont
  BY DEF Shadow, LiveNodes
<1>2. C = LargerCopy(G[n], a, e)
  BY <1>1, LargerSame
<1>3. Replacement(G, R, n, parent, pa, new, N, Slots) /\ R[new] = C
  BY <1>1, <1>2, CopiedReplaces
<1> HIDE DEF C
<1>4. /\ DOMAIN L = DOMAIN ns /\ L[parent] = [ns[parent] EXCEPT !.cont[pa] = Sub(new)]
      /\ \A k \in DOMAIN ns \ {parent} : L[k] = ns[k]
  BY <1>1
<1>5. all = WithNode(L, new, C)
  BY DEF C
<1> HIDE DEF L
<1>6. DOMAIN all = DOMAIN ns \cup N /\ all[new] = C /\ \A k \in DOMAIN ns : all[k] = L[k]
  BY <1>4, <1>5 DEF WithNode
<1>7. n \notin N /\ N \cap DOMAIN ns = {}
  BY <1>1
<1>8. /\ DOMAIN marked = DOMAIN all /\ marked[n] = [all[n] EXCEPT !.removed = TRUE]
      /\ \A k \in DOMAIN all \ {n} : marked[k] = all[k]
  BY <1>1, <1>6
<1> HIDE DEF marked
<1>9. Grafted(ns, marked, R, n, parent, pa, new, N)
  <2>1. marked[n] = [ns[n] EXCEPT !.removed = TRUE]
        /\ marked[parent] = [ns[parent] EXCEPT !.cont[pa] = Sub(new)]
    BY <1>1, <1>4, <1>6, <1>8
  <2>2. \A k \in DOMAIN ns \ {n, parent} : marked[k] = ns[k]
    BY <1>4, <1>6, <1>8
  <2>3. \A k \in N : marked[k] = R[k]
    BY <1>3, <1>6, <1>7, <1>8
  <2> QED BY <1>6, <1>8, <2>1, <2>2, <2>3 DEF Grafted
<1> HIDE DEF N
<1>10. Shadow(R, marked)
  BY <1>3, <1>7, <1>9, ShadowReplaced DEF Sound
<1>11. n \in DOMAIN R /\ n \notin LiveNodes(R)
  BY <1>1, <1>3 DEF Replacement, LiveNodes
<1> DEFINE less == [k \in DOMAIN all \ {n} |-> all[k]]
<1>12. DOMAIN less = DOMAIN marked \ {n} /\ \A k \in DOMAIN less : less[k] = marked[k]
  BY <1>8
<1> HIDE DEF less
<1>13. Shadow(Dropped(R, n), less)
  BY <1>10, <1>11, <1>12, ShadowDropped
<1> QED BY <1>13, <1>b DEF less

(* The tree with a larger copy of the node at its top. *)
Topped(ns, n, new, a, e) == WithNode([ns EXCEPT ![n].removed = TRUE], new, LargerCopy(ns[n], a, e))

IsTopped(ns, R, n, new, a, e, slots) ==
  /\ DOMAIN R = DOMAIN ns \cup {new} /\ R[new] = LargerCopy(ns[n], a, e)
  /\ \A k \in DOMAIN ns \ {n} : R[k] = ns[k]
  /\ R[n].prefix = ns[n].prefix /\ R[n].max = ns[n].max /\ R[n].cont = ns[n].cont /\ R[n].removed
  /\ R[n] \in NodeFields(n, DOMAIN ns, slots)

(* That is what becomes of the nodes when the root is enlarged.            *)
LEMMA ToppedIs ==
  ASSUME NEW ns, NEW slots, NodesTyped(ns, slots), NEW n \in DOMAIN ns,
         NEW new, new \notin DOMAIN ns, NEW a, NEW e
  PROVE  IsTopped(ns, Topped(ns, n, new, a, e), n, new, a, e, slots)
<1> DEFINE L == [ns EXCEPT ![n].removed = TRUE]
           C == LargerCopy(ns[n], a, e)
           x == ns[n]
           y == [x EXCEPT !.removed = TRUE]
<1>1. /\ DOMAIN L = DOMAIN ns /\ L[n] = y
      /\ \A k \in DOMAIN ns \ {n} : L[k] = ns[k]
  OBVIOUS
<1>2. x \in NodeFields(n, DOMAIN ns, slots)
  BY DEF NodesTyped
<1> HIDE DEF L, C, x
<1>3. /\ y.prefix = x.prefix /\ y.max = x.max /\ y.cont = x.cont /\ y.removed
      /\ y \in NodeFields(n, DOMAIN ns, slots)
  BY <1>2 DEF NodeFields
<1> HIDE DEF y
<1> DEFINE R == WithNode(L, new, C)
<1>4. /\ DOMAIN R = DOMAIN ns \cup {new} /\ R[new] = C
      /\ \A k \in DOMAIN ns : R[k] = L[k]
  BY <1>1 DEF WithNode
<1>5. Topped(ns, n, new, a, e) = R
  BY DEF Topped, L, C
<1> HIDE DEF R
<1>6. IsTopped(ns, R, n, new, a, e, slots)
  BY <1>1, <1>3, <1>4 DEF IsTopped, C, x
<1> QED BY <1>5, <1>6

(* A node at the top gets a larger copy with the entry: the tree stays     *)
(* sound, the copy takes over the buffers, and the entry is added.         *)
LEMMA ToppedStays ==
  ASSUME NEW ns, NEW slots, Sound(ns, slots), NEW n \in LiveNodes(ns), AtTop(n),
         NEW a \in HCAddresses, NEW e \in Entries, ns[n].cont[a] = Empty, IsFull(ns[n]), Leads(n, a, Key[e]),
         NEW new \in NodeIds, new \notin DOMAIN ns, Path(new) = Path(n),
         NEW R, R = Topped(ns, n, new, a, e)
  PROVE  /\ Sound(R, slots) /\ Succession(ns, R, n, {new}, new)
         /\ SuffixEntries(R) = SuffixEntries(ns) \cup {e}
         /\ n \in DOMAIN R /\ n \notin LiveNodes(R) /\ new \in LiveNodes(R)
<1> DEFINE ids == DOMAIN ns \cup {new}
<1>1. /\ NodesTyped(ns, slots) /\ Tree(ns) /\ Room(ns) /\ Spread(ns) /\ Placed(ns)
      /\ n \in DOMAIN ns /\ new # n /\ IsFiniteSet(DOMAIN ns) /\ IdsTyped(ns)
  BY DEF Sound, LiveNodes, NodesTyped
<1>2. IsTopped(ns, R, n, new, a, e, slots)
  <2>1. IsTopped(ns, Topped(ns, n, new, a, e), n, new, a, e, slots)
    BY <1>1, ToppedIs
  <2> QED BY <2>1
<1>3. /\ R[new].prefix = ns[n].prefix /\ ~R[new].removed
      /\ \A b \in HCAddresses : R[new].cont[b] = IF b = a THEN Suffix(e) ELSE ns[n].cont[b]
      /\ R[new] \in NodeFields(n, DOMAIN ns, slots)
      /\ NContents(R[new]) <= R[new].max
  <2>1. R[new] = LargerCopy(ns[n], a, e)
    BY <1>2 DEF IsTopped
  <2> QED BY <1>1, <2>1, LargerCopyIs
<1>4. /\ DOMAIN R = ids /\ \A k \in DOMAIN ns \ {n} : R[k] = ns[k]
      /\ R[n].prefix = ns[n].prefix /\ R[n].max = ns[n].max /\ R[n].cont = ns[n].cont /\ R[n].removed
      /\ R[n] \in NodeFields(n, DOMAIN ns, slots)
  BY <1>2 DEF IsTopped
<1>5. /\ LiveNodes(R) = (LiveNodes(ns) \ {n}) \cup {new}
      /\ \A k \in LiveNodes(ns) \ {n} : R[k] = ns[k]
      /\ LiveNodes(ns) \subseteq DOMAIN ns
  BY <1>1, <1>3, <1>4 DEF LiveNodes
<1>6. \A k \in LiveNodes(ns), b \in HCAddresses : ~Linked(ns, k, b, n)
  BY <1>1, LinkedFacts
<1>7. \A b \in HCAddresses : \A m : Linked(R, new, b, m) <=> Linked(ns, n, b, m)
  <2> TAKE b \in HCAddresses
  <2> TAKE m
  <2>1. Suffix(e) # Sub(m) /\ Empty # Sub(m)
    BY SubNotEmpty
  <2>2. CASE b = a
    BY <1>3, <2>1, <2>2 DEF Linked
  <2>3. CASE b # a
    BY <1>3, <2>3 DEF Linked
  <2> QED BY <2>2, <2>3
<1>8. NodesTyped(R, slots)
  <2>1. IsFiniteSet(DOMAIN R)
    BY <1>1, <1>4, FS_AddElement
  <2>2. IdsTyped(R)
    BY <1>1, <1>4 DEF IdsTyped
  <2>3. ASSUME NEW k \in DOMAIN R
        PROVE  Len(Path(k)) < WIDTH /\ R[k] \in NodeFields(k, DOMAIN R, slots)
    <3>1. \A i : NodeFields(i, DOMAIN ns, slots) \subseteq NodeFields(i, DOMAIN R, slots)
      BY <1>4, FieldsGrow
    <3>2. Len(Path(n)) < WIDTH /\ NodeFields(new, DOMAIN ns, slots) = NodeFields(n, DOMAIN ns, slots)
      BY <1>1 DEF NodesTyped, NodeFields
    <3>3. CASE k = new
      BY <1>3, <3>1, <3>2, <3>3
    <3>4. CASE k = n
      BY <1>4, <3>1, <3>2, <3>4
    <3>5. CASE k \in DOMAIN ns \ {n}
      BY <1>1, <1>4, <3>1, <3>5 DEF NodesTyped
    <3> QED BY <1>4, <3>3, <3>4, <3>5
  <2> QED BY <2>1, <2>2, <2>3 DEF NodesTyped
<1>9. Tree(R)
  <2> DEFINE old == [k \in LiveNodes(R) |-> IF k = new THEN n ELSE k]
  <2>1. /\ old[new] = n /\ new \in LiveNodes(R) /\ new \notin LiveNodes(ns)
        /\ \A k \in LiveNodes(R) \ {new} : old[k] = k /\ k \in LiveNodes(ns) /\ k # n /\ R[k] = ns[k]
    BY <1>5
  <2> HIDE DEF old
  <2>2. \A k \in LiveNodes(R) :
          old[k] \in LiveNodes(ns) /\ Path(old[k]) = Path(k) /\ R[k].prefix = ns[old[k]].prefix
    BY <1>3, <2>1
  <2>3. \A k, m \in LiveNodes(R) : old[k] = old[m] => k = m
    BY <2>1
  <2>4. \A k \in LiveNodes(ns) : \E m \in LiveNodes(R) : old[m] = k
    <3> TAKE k \in LiveNodes(ns)
    <3>1. CASE k = n
      BY <2>1, <3>1
    <3>2. CASE k # n
      <4>1. k \in LiveNodes(R) /\ k # new
        BY <1>5, <2>1, <3>2
      <4> QED BY <2>1, <4>1
    <3> QED BY <3>1, <3>2
  <2>5. ASSUME NEW k \in LiveNodes(R), NEW b \in HCAddresses, NEW m, Linked(ns, old[k], b, m)
        PROVE  m \in LiveNodes(R) /\ m # new /\ old[m] = m
    <3>1. m \in LiveNodes(ns) /\ m # n
      BY <1>1, <1>6, <2>2, <2>5 DEF Tree, LinksRight
    <3> QED BY <1>5, <2>1, <3>1
  <2>6. ASSUME NEW k \in LiveNodes(R), NEW b \in HCAddresses, NEW m
        PROVE  Linked(R, k, b, m) <=> Linked(ns, old[k], b, m)
    <3>1. CASE k = new
      BY <1>7, <2>1, <3>1
    <3>2. CASE k # new
      BY <2>1, <3>2 DEF Linked
    <3> QED BY <3>1, <3>2
  <2>7. \A k \in LiveNodes(R), b \in HCAddresses : \A m : Linked(R, k, b, m) =>
          m \in LiveNodes(R) /\ Linked(ns, old[k], b, old[m])
    BY <2>5, <2>6
  <2>8. \A k \in LiveNodes(R), m \in LiveNodes(R), b \in HCAddresses :
          Linked(ns, old[k], b, old[m]) => Linked(R, k, b, m)
    <3> SUFFICES ASSUME NEW k \in LiveNodes(R), NEW m \in LiveNodes(R), NEW b \in HCAddresses,
                        Linked(ns, old[k], b, old[m])
                 PROVE  Linked(R, k, b, m)
      OBVIOUS
    <3>1. m # new
      BY <1>6, <2>1, <2>2
    <3>2. old[m] = m
      BY <2>1, <3>1
    <3> QED BY <2>6, <3>2
  <2>9. RenamedNodes(ns, R, old)
    BY <2>2, <2>3, <2>4, <2>7, <2>8 DEF RenamedNodes
  <2> QED BY <1>1, <2>9, RenamedTree
<1>10. Room(R) /\ Spread(R) /\ Placed(R)
  <2>1. Room(R)
    <3>1. NContents(R[n]) = NContents(ns[n])
      BY <1>4 DEF NContents
    <3> QED BY <1>1, <1>3, <1>4, <3>1 DEF Room
  <2>2. Spread(R)
    <3>1. AtTop(new)
      BY DEF AtTop
    <3> QED BY <1>1, <1>4, <3>1 DEF Spread
  <2>3. Placed(R)
    <3> SUFFICES ASSUME NEW k \in LiveNodes(R), NEW b \in HCAddresses, NEW f, R[k].cont[b] = Suffix(f)
                 PROVE  Leads(k, b, Key[f])
      BY DEF Placed
    <3>1. CASE k # new
      BY <1>1, <1>5, <3>1 DEF Placed
    <3>2. CASE k = new /\ b = a
      <4>1. f = e
        BY <1>3, <3>2, Kinds
      <4> QED BY <3>2, <4>1 DEF Leads
    <3>3. CASE k = new /\ b # a
      <4>1. Leads(n, b, Key[f])
        BY <1>1, <1>3, <3>3 DEF Placed
      <4> QED BY <3>3, <4>1 DEF Leads
    <3> QED BY <3>1, <3>2, <3>3
  <2> QED BY <2>1, <2>2, <2>3
<1>11. Sound(R, slots)
  BY <1>8, <1>9, <1>10 DEF Sound
<1>12. ASSUME NEW b \in HCAddresses, NEW s PROVE R[new].cont[b] = Buf(s) <=> ns[n].cont[b] = Buf(s)
  <2>1. Suffix(e) # Buf(s) /\ Empty # Buf(s)
    BY Kinds
  <2>2. CASE b = a
    BY <1>3, <2>1, <2>2
  <2>3. CASE b # a
    BY <1>3, <2>3
  <2> QED BY <2>2, <2>3
<1>13. Succession(ns, R, n, {new}, new)
  BY <1>1, <1>5, <1>12 DEF Succession
<1>14. ASSUME NEW f PROVE f \in SuffixEntries(R) <=> f \in SuffixEntries(ns) \cup {e}
  <2>1. f \in SuffixEntries(R) <=> \E k \in LiveNodes(R), b \in HCAddresses : R[k].cont[b] = Suffix(f)
    BY <1>8, SuffixEntriesAre
  <2>2. f \in SuffixEntries(ns) <=> \E k \in LiveNodes(ns), b \in HCAddresses : ns[k].cont[b] = Suffix(f)
    BY <1>1, SuffixEntriesAre
  <2>3. (\E b \in HCAddresses : R[new].cont[b] = Suffix(f))
          <=> f = e \/ \E b \in HCAddresses : ns[n].cont[b] = Suffix(f)
    <3>1. \A b \in HCAddresses : b # a => R[new].cont[b] = ns[n].cont[b]
      BY <1>3
    <3>2. R[new].cont[a] = Suffix(e)
      BY <1>3
    <3>3. Suffix(f) = Suffix(e) <=> f = e
      BY Kinds
    <3>4. ns[n].cont[a] # Suffix(f)
      BY SubNotEmpty
    <3> QED BY <3>1, <3>2, <3>3, <3>4
  <2>4. (\E k \in LiveNodes(R), b \in HCAddresses : R[k].cont[b] = Suffix(f))
          <=> \/ \E b \in HCAddresses : R[new].cont[b] = Suffix(f)
              \/ \E k \in LiveNodes(ns) \ {n}, b \in HCAddresses : ns[k].cont[b] = Suffix(f)
    BY <1>5
  <2> QED BY <2>1, <2>2, <2>3, <2>4
<1> QED BY <1>4, <1>5, <1>11, <1>13, <1>14 DEF LiveNodes

-----------------------------------------------------------------------------
(* The tree and its buffers after a step *)

(* NULL is no node.                                                        *)
LEMMA NoneNoNode ==
  ASSUME NEW ns, NEW slots, NodesTyped(ns, slots)
  PROVE  None \notin DOMAIN ns /\ None \notin LiveNodes(ns)
BY DEF None, NodesTyped, IdsTyped, NodeIds, LiveNodes

(* The slots are finitely many.                                            *)
LEMMA SlotsFinite == IsFiniteSet(Slots)
BY BufferAssumption, FS_Interval DEF Slots

(* The parts of Cleared. *)
LEMMA ClearedIs ==
  /\ Cleared.node = None /\ Cleared.rows = <<>> /\ Fields = {"node", "addr", "rows"}
  /\ DOMAIN Cleared = Fields
BY DEF Cleared, Fields

(* Node n has c at address a. *)
Having(ns, n, a, c) == [ns EXCEPT ![n].cont[a] = c]

(* A suffix is put in a free place. *)
LEMMA SuffixHeld ==
  ASSUME NEW ns, NEW bs, TreeInv(ns, bs), NEW n \in LiveNodes(ns), NEW a \in HCAddresses,
         NEW e \in Entries, Leads(n, a, Key[e]), ns[n].cont[a] = Empty, ~IsFull(ns[n]),
         NEW new, new = Having(ns, n, a, Suffix(e))
  PROVE  /\ TreeInv(new, bs) /\ LiveNodes(new) = LiveNodes(ns)
         /\ StoredIn(new, bs) = StoredIn(ns, bs) \cup {e}
<1>1. PICK G : Shadow(G, ns) /\ Held(G, bs)
  BY DEF TreeInv
<1> DEFINE H == Put(G, n, a, Suffix(e))
<1>2. Sound(G, Slots) /\ NodesTyped(G, Slots) /\ Hung(G, bs, Slots, Fields)
  BY <1>1 DEF Held, Sound
<1>3. /\ n \in LiveNodes(G) /\ n \in DOMAIN G /\ G[n].cont[a] = Empty /\ ~IsFull(G[n])
      /\ LiveNodes(G) = LiveNodes(ns)
  BY <1>1, ShadowIs DEF IsFull
<1>4. Sound(H, Slots) /\ NodesTyped(H, Slots)
  <2>1. Sound(H, Slots)
    BY <1>2, <1>3, PutSound
  <2> QED BY <2>1 DEF Sound
<1>5. SuffixEntries(H) = SuffixEntries(G) \cup {e}
  BY <1>2, <1>3, <1>4, SuffixAdded
<1>6. /\ DOMAIN H = DOMAIN G /\ \A k \in DOMAIN G : k # n => H[k] = G[k]
      /\ H[n].removed = G[n].removed
      /\ \A b \in HCAddresses : b # a => H[n].cont[b] = G[n].cont[b]
      /\ H[n].cont[a] = Suffix(e)
  BY <1>2, <1>3, PutIs
<1>7. Shadow(H, new)
  <2>1. Shadow(H, [ns EXCEPT ![n].cont[a] = Suffix(e)])
    BY <1>1, <1>2, ShadowPut
  <2> QED BY <2>1 DEF Having
<1> HIDE DEF H
<1>8. LiveNodes(H) = LiveNodes(G)
  BY <1>3, <1>6 DEF LiveNodes
<1>9. Hung(H, bs, Slots, Fields)
  <2>1. \A k \in LiveNodes(G), b \in HCAddresses : \A s : H[k].cont[b] = Buf(s) <=> G[k].cont[b] = Buf(s)
    <3> TAKE k \in LiveNodes(G), b \in HCAddresses
    <3> TAKE s
    <3>1. Suffix(e) # Buf(s) /\ Empty # Buf(s)
      BY Kinds
    <3>2. k \in DOMAIN G
      BY DEF LiveNodes
    <3> QED BY <1>3, <1>6, <3>1, <3>2
  <2> QED BY <1>2, <1>8, <2>1, HungAlike
<1>10. Held(H, bs)
  BY <1>1, <1>4, <1>9 DEF Held
<1>11. StoredIn(H, bs) = StoredIn(G, bs) \cup {e}
  BY <1>5 DEF StoredIn
<1>12. LiveNodes(new) = LiveNodes(H) /\ StoredIn(new, bs) = StoredIn(H, bs)
  BY <1>7, ShadowIs, ShadowStored
<1>13. StoredIn(ns, bs) = StoredIn(G, bs)
  BY <1>1, ShadowStored
<1>14. TreeInv(new, bs)
  BY <1>7, <1>10 DEF TreeInv
<1> QED BY <1>3, <1>8, <1>11, <1>12, <1>13, <1>14

(* Buffer s with two rows at address a of node n. *)
Filled(bs, s, n, a, f, e) == [bs EXCEPT ![s] = [node |-> n, addr |-> a, rows |-> <<f, e>>]]

(* A buffer with an entry and another takes the place of its suffix. *)
LEMMA BufferPut ==
  ASSUME NEW G, NEW bs, Held(G, bs), NEW n \in LiveNodes(G), NEW a \in HCAddresses,
         NEW f, G[n].cont[a] = Suffix(f), NEW e \in Entries, Leads(n, a, Key[e]), Key[f] # Key[e],
         NEW s \in Slots, bs[s].node = None
  PROVE  /\ Held(Put(G, n, a, Buf(s)), Filled(bs, s, n, a, f, e))
         /\ LiveNodes(Put(G, n, a, Buf(s))) = LiveNodes(G)
         /\ StoredIn(Put(G, n, a, Buf(s)), Filled(bs, s, n, a, f, e)) = StoredIn(G, bs) \cup {e}
<1> DEFINE bs2 == Filled(bs, s, n, a, f, e)
           H == Put(G, n, a, Buf(s))
<1>1. Sound(G, Slots) /\ NodesTyped(G, Slots) /\ Hung(G, bs, Slots, Fields) /\ BuffersLie(bs, Slots) /\ Placed(G)
  BY DEF Held, Sound
<1>2. n \in DOMAIN G
  BY DEF LiveNodes
<1>3. Sound(H, Slots) /\ NodesTyped(H, Slots)
  <2>1. Sound(H, Slots)
    BY <1>1, PutSound
  <2> QED BY <2>1 DEF Sound
<1>4. SuffixEntries(H) \cup {f} = SuffixEntries(G)
  BY <1>1, <1>3, SuffixMoved
<1>5. /\ DOMAIN H = DOMAIN G /\ \A k \in DOMAIN G : k # n => H[k] = G[k]
      /\ H[n].removed = G[n].removed
      /\ \A b \in HCAddresses : b # a => H[n].cont[b] = G[n].cont[b]
      /\ H[n].cont[a] = Buf(s)
  BY <1>1, <1>2, PutIs
<1>6. LiveNodes(H) = LiveNodes(G) /\ LiveNodes(G) \subseteq DOMAIN G
  BY <1>2, <1>5 DEF LiveNodes
<1> DEFINE b2 == [node |-> n, addr |-> a, rows |-> <<f, e>>]
<1>7. b2.node = n /\ b2.addr = a /\ b2.rows = <<f, e>> /\ DOMAIN b2 = Fields /\ bs2 = [bs EXCEPT ![s] = b2]
  BY ClearedIs DEF Filled
<1>8. DOMAIN bs = Slots
  BY <1>1 DEF Hung
<1> HIDE DEF b2, bs2, H
<1>9. DOMAIN bs2 = Slots /\ bs2[s] = b2 /\ \A r \in Slots : r # s => bs2[r] = bs[r]
  BY <1>7, <1>8
<1>10. Hung(H, bs2, Slots, Fields)
  <2>1. n # None /\ None \notin LiveNodes(G)
    BY <1>1, NoneNoNode
  <2>2. \A r : G[n].cont[a] # Buf(r)
    BY SubNotEmpty
  <2>3. \A k \in LiveNodes(G), b \in HCAddresses : ~(k = n /\ b = a) => H[k].cont[b] = G[k].cont[b]
    BY <1>5, <1>6
  <2>4. \A r \in Slots : DOMAIN bs2[r] = Fields /\ (bs2[r].node = None => bs2[r].rows = <<>>)
    BY <1>1, <1>7, <1>9, <2>1 DEF Hung
  <2>5. ASSUME NEW r \in Slots, bs2[r].node # None
        PROVE  /\ bs2[r].node \in LiveNodes(G) /\ bs2[r].addr \in HCAddresses
               /\ H[bs2[r].node].cont[bs2[r].addr] = Buf(r)
    <3>1. CASE r = s
      BY <1>5, <1>7, <1>9, <3>1
    <3>2. CASE r # s
      <4>1. /\ bs2[r] = bs[r] /\ bs[r].node \in LiveNodes(G) /\ bs[r].addr \in HCAddresses
            /\ G[bs[r].node].cont[bs[r].addr] = Buf(r)
        BY <1>1, <1>9, <2>5, <3>2 DEF Hung
      <4> QED BY <2>2, <2>3, <4>1
    <3> QED BY <3>1, <3>2
  <2>6. ASSUME NEW k \in LiveNodes(G), NEW b \in HCAddresses, NEW r, H[k].cont[b] = Buf(r)
        PROVE  r \in Slots /\ bs2[r].node = k /\ bs2[r].addr = b
    <3>1. CASE k = n /\ b = a
      <4>1. r = s
        BY <1>5, <2>6, <3>1, Kinds
      <4> QED BY <1>7, <1>9, <3>1, <4>1
    <3>2. CASE ~(k = n /\ b = a)
      <4>1. G[k].cont[b] = Buf(r)
        BY <2>3, <2>6, <3>2
      <4>2. r \in Slots /\ bs[r].node = k /\ bs[r].addr = b
        BY <1>1, <4>1 DEF Hung
      <4> QED BY <1>9, <2>1, <4>2
    <3> QED BY <3>1, <3>2
  <2> QED BY <1>1, <1>6, <1>9, <2>4, <2>5, <2>6 DEF Hung
<1>11. f \in Entries /\ Leads(n, a, Key[f])
  <2>1. f \in SuffixEntries(G)
    BY <1>1, SuffixEntriesAre
  <2>2. f \in Entries
    BY <1>1, <2>1, StoredEntries
  <2> QED BY <1>1, <2>2 DEF Placed
<1>12. BuffersLie(bs2, Slots)
  <2>1. RowsLie(b2)
    <3> DEFINE r == <<f, e>>
    <3>1. r \in Seq(Entries) /\ Len(r) = 2 /\ r[1] = f /\ r[2] = e /\ DOMAIN r = {1, 2}
      BY <1>11
    <3> HIDE DEF r
    <3> QED BY <1>7, <1>11, <3>1 DEF RowsLie, r
  <2> QED BY <1>1, <1>9, <2>1 DEF BuffersLie
<1>13. Held(H, bs2)
  <2>1. b2.node # None
    BY <1>1, <1>7, NoneNoNode
  <2> QED BY <1>3, <1>9, <1>10, <1>12, <2>1 DEF Held
<1>14. ASSUME NEW g PROVE g \in StoredIn(H, bs2) <=> g \in StoredIn(G, bs) \cup {e}
  <2>1. g \in StoredIn(H, bs2) <=> g \in SuffixEntries(H) \/ \E r \in Slots : g \in DistinctRows(bs2[r].rows)
    BY <1>9, StoredIs
  <2>2. g \in StoredIn(G, bs) <=> g \in SuffixEntries(G) \/ \E r \in Slots : g \in DistinctRows(bs[r].rows)
    BY <1>8, StoredIs
  <2>3. DistinctRows(bs2[s].rows) = {f, e}
    BY <1>7, <1>9, FewRows
  <2>4. DistinctRows(bs[s].rows) = {}
    BY <1>1, FewRows DEF Hung
  <2>5. f \in SuffixEntries(G)
    BY <1>4
  <2> QED BY <1>4, <1>9, <2>1, <2>2, <2>3, <2>4, <2>5
<1> QED BY <1>6, <1>13, <1>14 DEF bs2, H

(* Buffers are flushed: they hang in a tree G that agrees with the nodes   *)
(* beside their places.                                                    *)
LEMMA FlushHeld ==
  ASSUME NEW G, NEW bs, Held(G, bs), NEW S \in SUBSET Slots, \A s \in S : bs[s].node # None,
         NEW ns, Beside(G, ns, Picked(bs, S)),
         NEW new, new = Flushed(ns, Picked(bs, S)),
         NEW bs2, DOMAIN bs2 = Slots, \A s \in Slots : bs2[s] = IF s \in S THEN Cleared ELSE bs[s]
  PROVE  /\ TreeInv(new, bs2) /\ StoredIn(new, bs2) = StoredIn(G, bs)
         /\ LiveNodes(G) \subseteq LiveNodes(new)
         /\ \A n \in LiveNodes(G), a \in HCAddresses : \A m : Linked(G, n, a, m) => Linked(new, n, a, m)
<1> DEFINE F == Flushed(G, Picked(bs, S))
<1>1. Full(G, bs, S, Slots, Fields)
  BY SlotsFinite DEF Held, Full
<1>2. Cleared.node = None /\ Cleared.rows = <<>> /\ DOMAIN Cleared = Fields
  BY ClearedIs
<1>3. /\ Sound(F, Slots) /\ Hung(F, bs2, Slots, Fields) /\ BuffersLie(bs2, Slots)
      /\ StoredIn(F, bs2) = StoredIn(G, bs)
      /\ LiveNodes(G) \subseteq LiveNodes(F)
      /\ \A n \in LiveNodes(G), a \in HCAddresses : \A m : Linked(G, n, a, m) => Linked(F, n, a, m)
  BY <1>1, <1>2, FlushedStays
<1>4. Shadow(F, new)
  <2>1. NodesTyped(G, Slots) /\ NodesTyped(F, Slots)
    BY <1>3 DEF Held, Sound
  <2> QED BY <2>1, ShadowFlushed
<1> HIDE DEF F
<1>5. Held(F, bs2)
  BY <1>2, <1>3 DEF Held
<1>6. TreeInv(new, bs2)
  BY <1>4, <1>5 DEF TreeInv
<1>7. /\ LiveNodes(new) = LiveNodes(F) /\ StoredIn(new, bs2) = StoredIn(F, bs2)
      /\ \A n \in LiveNodes(F) : \A a, m : Linked(new, n, a, m) <=> Linked(F, n, a, m)
  BY <1>4, ShadowIs, ShadowStored
<1> QED BY <1>3, <1>6, <1>7

(* What a shadow is beside the places of buffers. *)
LEMMA BesideShadow ==
  ASSUME NEW G, NEW ns, Shadow(G, ns), NEW bs
  PROVE  Beside(G, ns, bs)
BY DEF Shadow, Beside

(* flushToSubtree for some of the buffers in the tree. *)
LEMMA FlushSome ==
  ASSUME NEW ns, NEW bs, TreeInv(ns, bs), NEW S \in SUBSET Slots, \A s \in S : bs[s].node # None,
         NEW new, new = Flushed(ns, Picked(bs, S)),
         NEW bs2, DOMAIN bs2 = Slots, \A s \in Slots : bs2[s] = IF s \in S THEN Cleared ELSE bs[s]
  PROVE  /\ TreeInv(new, bs2) /\ StoredIn(new, bs2) = StoredIn(ns, bs)
         /\ LiveNodes(ns) \subseteq LiveNodes(new)
         /\ \A n \in LiveNodes(ns), a \in HCAddresses : \A m : Linked(ns, n, a, m) => Linked(new, n, a, m)
<1>1. PICK G : Shadow(G, ns) /\ Held(G, bs)
  BY DEF TreeInv
<1>2. Beside(G, ns, Picked(bs, S))
  BY <1>1, BesideShadow
<1>3. /\ TreeInv(new, bs2) /\ StoredIn(new, bs2) = StoredIn(G, bs)
      /\ LiveNodes(G) \subseteq LiveNodes(new)
      /\ \A n \in LiveNodes(G), a \in HCAddresses : \A m : Linked(G, n, a, m) => Linked(new, n, a, m)
  BY <1>1, <1>2, FlushHeld
<1> QED BY <1>1, <1>3, ShadowIs, ShadowStored

(* A suffix gives way to a buffer with its entry and another. *)
LEMMA SwapHeld ==
  ASSUME NEW ns, NEW bs, TreeInv(ns, bs), NEW n \in LiveNodes(ns), NEW a \in HCAddresses,
         NEW f, ns[n].cont[a] = Suffix(f), NEW e \in Entries, Leads(n, a, Key[e]), Key[f] # Key[e],
         NEW s \in Slots, bs[s].node = None,
         NEW bs2, bs2 = Filled(bs, s, n, a, f, e),
         NEW new, new = Having(ns, n, a, Buf(s))
  PROVE  /\ TreeInv(new, bs2) /\ LiveNodes(new) = LiveNodes(ns)
         /\ StoredIn(new, bs2) = StoredIn(ns, bs) \cup {e}
<1>1. PICK G : Shadow(G, ns) /\ Held(G, bs)
  BY DEF TreeInv
<1> DEFINE H == Put(G, n, a, Buf(s))
<1>2. LiveNodes(G) = LiveNodes(ns) /\ G[n].cont[a] = Suffix(f) /\ NodesTyped(G, Slots)
  BY <1>1, ShadowIs DEF Held, Sound
<1>3. Held(H, bs2) /\ LiveNodes(H) = LiveNodes(G) /\ StoredIn(H, bs2) = StoredIn(G, bs) \cup {e}
  <2>1. /\ Held(H, Filled(bs, s, n, a, f, e)) /\ LiveNodes(H) = LiveNodes(G)
        /\ StoredIn(H, Filled(bs, s, n, a, f, e)) = StoredIn(G, bs) \cup {e}
    BY <1>1, <1>2, BufferPut
  <2> QED BY <2>1
<1>4. Shadow(H, new)
  <2>1. Shadow(H, [ns EXCEPT ![n].cont[a] = Buf(s)])
    BY <1>1, <1>2, ShadowPut
  <2> QED BY <2>1 DEF Having
<1> HIDE DEF H
<1>5. LiveNodes(new) = LiveNodes(H) /\ StoredIn(new, bs2) = StoredIn(H, bs2) /\ StoredIn(ns, bs) = StoredIn(G, bs)
  BY <1>1, <1>4, ShadowIs, ShadowStored
<1>6. TreeInv(new, bs2)
  BY <1>3, <1>4 DEF TreeInv
<1> QED BY <1>2, <1>3, <1>5, <1>6

(* The nodes with a subnode for entries f and e at address a of node n. *)
Joined(ns, n, a, f, e) == Flushed(ns, {[node |-> n, addr |-> a, rows |-> <<f, e>>]})

(* createSubnodeWithExistingSuffix builds what a buffer with the two       *)
(* entries would be flushed to.                                            *)
LEMMA SubnodeHeld ==
  ASSUME NEW ns, NEW bs, TreeInv(ns, bs), \A s \in Slots : bs[s].node = None,
         NEW n \in LiveNodes(ns), NEW a \in HCAddresses,
         NEW f, ns[n].cont[a] = Suffix(f), NEW e \in Entries, Leads(n, a, Key[e]), Key[f] # Key[e],
         NEW new, new = Joined(ns, n, a, f, e)
  PROVE  /\ TreeInv(new, bs) /\ LiveNodes(ns) \subseteq LiveNodes(new)
         /\ StoredIn(new, bs) = StoredIn(ns, bs) \cup {e}
<1>1. PICK G : Shadow(G, ns) /\ Held(G, bs)
  BY DEF TreeInv
<1> DEFINE H == Put(G, n, a, Buf(0))
           b2 == [node |-> n, addr |-> a, rows |-> <<f, e>>]
           bs2 == Filled(bs, 0, n, a, f, e)
           S == {0}
<1>2. /\ LiveNodes(G) = LiveNodes(ns) /\ G[n].cont[a] = Suffix(f) /\ NodesTyped(G, Slots)
      /\ DOMAIN bs = Slots /\ 0 \in Slots /\ n \in DOMAIN G
  BY <1>1, ShadowIs, BufferAssumption DEF Held, Sound, Hung, Slots, LiveNodes
<1>3. Held(H, bs2) /\ LiveNodes(H) = LiveNodes(G) /\ StoredIn(H, bs2) = StoredIn(G, bs) \cup {e}
  BY <1>1, <1>2, BufferPut
<1>4. /\ bs2[0] = b2 /\ b2.node = n /\ b2.addr = a /\ \A s \in Slots : s # 0 => bs2[s] = bs[s]
      /\ Picked(bs2, S) = {b2} /\ S \in SUBSET Slots
  BY <1>2 DEF Picked, Filled
<1>5. Beside(H, ns, {b2})
  <2>1. /\ DOMAIN H = DOMAIN G /\ \A k \in DOMAIN G : k # n => H[k] = G[k]
        /\ H[n].prefix = G[n].prefix /\ H[n].max = G[n].max /\ H[n].removed = G[n].removed
        /\ \A b \in HCAddresses : b # a => H[n].cont[b] = G[n].cont[b]
    BY <1>2, PutIs
  <2> HIDE DEF H, b2
  <2>2. LiveNodes(ns) \subseteq DOMAIN ns
    BY DEF LiveNodes
  <2>3. ASSUME NEW k \in LiveNodes(ns)
        PROVE  /\ ns[k].prefix = H[k].prefix /\ ns[k].max = H[k].max
               /\ \A c \in HCAddresses :
                    (\A b \in {b2} : ~(b.node = k /\ b.addr = c)) => ns[k].cont[c] = H[k].cont[c]
    BY <1>1, <1>4, <2>1, <2>2 DEF Shadow
  <2>4. \A k \in DOMAIN ns : DOMAIN ns[k] = NodeFieldNames /\ (ns[k].removed <=> H[k].removed)
    BY <1>1, <2>1 DEF Shadow
  <2> QED BY <1>1, <2>1, <2>3, <2>4 DEF Beside, Shadow
<1>6. n # None
  BY <1>2, NoneNoNode
<1>7. \A s \in Slots : bs[s] = IF s \in S THEN Cleared ELSE bs2[s]
  BY <1>1, <1>4 DEF Held
<1>8. new = Flushed(ns, Picked(bs2, S)) /\ Beside(H, ns, Picked(bs2, S))
  BY <1>4, <1>5 DEF Joined
<1>9. \A s \in S : bs2[s].node # None
  BY <1>4, <1>6
<1> HIDE DEF H, b2, bs2, S
<1>10. TreeInv(new, bs) /\ StoredIn(new, bs) = StoredIn(H, bs2) /\ LiveNodes(H) \subseteq LiveNodes(new)
  <2>1. Held(H, bs2) /\ S \in SUBSET Slots /\ (\A s \in S : bs2[s].node # None) /\ DOMAIN bs = Slots
    BY <1>2, <1>3, <1>4, <1>9
  <2>2. /\ TreeInv(Flushed(ns, Picked(bs2, S)), bs)
        /\ StoredIn(Flushed(ns, Picked(bs2, S)), bs) = StoredIn(H, bs2)
        /\ LiveNodes(H) \subseteq LiveNodes(Flushed(ns, Picked(bs2, S)))
    BY <1>7, <1>8, <2>1, FlushHeld
  <2> QED BY <1>8, <2>2
<1>11. StoredIn(ns, bs) = StoredIn(G, bs)
  BY <1>1, ShadowStored
<1> QED BY <1>2, <1>3, <1>10, <1>11

(* A node on the way of an entry leads on at the entry's address.          *)
LEMMA LeadsOn ==
  ASSUME NEW ns, NEW slots, NodesTyped(ns, slots), NEW n \in LiveNodes(ns),
         NEW e \in Entries, On(n, Key[e])
  PROVE  AddressIn(e, n) \in HCAddresses /\ Leads(n, AddressIn(e, n), Key[e])
<1>1. n \in DOMAIN ns /\ n \in NodeIds /\ Len(Path(n)) < WIDTH
  BY DEF LiveNodes, NodesTyped, IdsTyped
<1>2. AddressIn(e, n) \in HCAddresses
  BY <1>1, AddressType
<1>3. Len(Key[e]) = WIDTH
  BY KeyType
<1> QED BY <1>1, <1>2, <1>3 DEF Leads, Way, On, AddressIn

(* The buffers of a replaced node go over to the node that succeeds it.    *)
LEMMA MovedHeld ==
  ASSUME NEW G, NEW bs, Held(G, bs), NEW R, Sound(R, Slots),
         NEW n, NEW N, NEW new, Succession(G, R, n, N, new),
         NEW e, SuffixEntries(R) = SuffixEntries(G) \cup {e}
  PROVE  /\ Held(R, BuffersMoved(bs, G[n], new))
         /\ StoredIn(R, BuffersMoved(bs, G[n], new)) = StoredIn(G, bs) \cup {e}
<1> DEFINE bs2 == BuffersMoved(bs, G[n], new)
<1>1. Hung(G, bs, Slots, Fields) /\ NodesTyped(G, Slots) /\ BuffersLie(bs, Slots)
  BY DEF Held, Sound
<1>2. /\ Hung(R, bs2, Slots, Fields)
      /\ \A s \in Slots :
           /\ bs2[s].node = None <=> bs[s].node = None
           /\ bs2[s].rows = bs[s].rows /\ bs2[s].addr = bs[s].addr
           /\ Path(bs2[s].node) = Path(bs[s].node)
  BY <1>1, BuffersFollow
<1>3. n \in LiveNodes(G) /\ n # None /\ DOMAIN bs = Slots
  BY <1>1, NoneNoNode DEF Succession, Hung
<1>4. ASSUME NEW s \in Slots, bs2[s].node = None
      PROVE  bs2[s] = Cleared
  <2>1. bs[s].node = None /\ bs[s] = Cleared
    BY <1>2, <1>4 DEF Held
  <2>2. ~\E a \in HCAddresses : G[n].cont[a] = Buf(s)
    BY <1>1, <1>3, <2>1 DEF Hung
  <2>3. bs2[s] = bs[s]
    BY <1>3, <2>2 DEF BuffersMoved
  <2> QED BY <2>1, <2>3
<1>5. BuffersLie(bs2, Slots)
  <2> HIDE DEF bs2
  <2> QED BY <1>1, <1>2, RowsFollow
<1>6. DOMAIN bs2 = Slots
  BY <1>3 DEF BuffersMoved
<1> HIDE DEF bs2
<1>7. ASSUME NEW f PROVE f \in StoredIn(R, bs2) <=> f \in StoredIn(G, bs) \cup {e}
  <2>1. f \in StoredIn(R, bs2) <=> f \in SuffixEntries(R) \/ \E r \in Slots : f \in DistinctRows(bs2[r].rows)
    BY <1>6, StoredIs
  <2>2. f \in StoredIn(G, bs) <=> f \in SuffixEntries(G) \/ \E r \in Slots : f \in DistinctRows(bs[r].rows)
    BY <1>3, StoredIs
  <2>3. \A r \in Slots : DistinctRows(bs2[r].rows) = DistinctRows(bs[r].rows)
    BY <1>2
  <2> QED BY <2>1, <2>2, <2>3
<1> QED BY <1>2, <1>4, <1>5, <1>7 DEF Held, bs2

(* The ids of the two nodes that replace one whose prefix is split.        *)
LEMMA SplitIds ==
  ASSUME NEW ns, NEW slots, NodesTyped(ns, slots), Tree(ns), NEW parent \in LiveNodes(ns),
         NEW e \in Entries, On(parent, Key[e]), NEW n, Linked(ns, parent, AddressIn(e, parent), n),
         SharedPrefix(e, n, ns[n].prefix) # ns[n].prefix,
         NEW upper, upper = NewId(SplitPath(ns, n, e), DOMAIN ns),
         NEW copy, copy = NewId(Path(n), DOMAIN ns)
  PROVE  /\ SharedPrefix(e, n, ns[n].prefix) < ns[n].prefix
         /\ copy \in NodeIds /\ copy \notin DOMAIN ns /\ Path(copy) = Path(n)
         /\ upper \in NodeIds /\ upper \notin DOMAIN ns
         /\ Path(upper) = SplitPath(ns, n, e) /\ upper # copy
<1> DEFINE p == SplitPath(ns, n, e)
           shared == SharedPrefix(e, n, ns[n].prefix)
<1>1. AddressIn(e, parent) \in HCAddresses
  BY LeadsOn
<1>2. /\ Len(Path(n)) = Len(Path(parent)) + 1 + ns[n].prefix /\ Len(Path(parent)) \in Nat
      /\ ns[n].prefix \in Nat /\ Path(n) \in Seq(HCAddresses)
  BY <1>1, LinkedFacts
<1>3. LET shared2 == SharedPrefix(e, n, ns[n].prefix)
          split == SplitPath(ns, n, e)
      IN  /\ shared2 \in Nat /\ shared2 <= ns[n].prefix
          /\ split \in Seq(HCAddresses) /\ Len(split) = Len(Path(parent)) + 1 + shared2
  BY WalkOn
<1>4. shared \in Nat /\ shared < ns[n].prefix /\ p \in Seq(HCAddresses) /\ Len(p) < Len(Path(n))
  BY <1>2, <1>3
<1> HIDE DEF p
<1>5. copy \in NodeIds /\ copy \notin DOMAIN ns /\ Path(copy) = Path(n)
  BY <1>2, FreshId
<1>6. upper \in NodeIds /\ upper \notin DOMAIN ns /\ Path(upper) = p
  <2> DEFINE id == NewId(p, DOMAIN ns)
  <2>1. id = upper
    BY DEF p
  <2> HIDE DEF id
  <2>2. id \in NodeIds /\ id \notin DOMAIN ns /\ Path(id) = p
    BY <1>4, FreshId DEF id
  <2> QED BY <2>1, <2>2
<1>7. Path(upper) # Path(copy)
  BY <1>2, <1>4, <1>5, <1>6
<1> QED BY <1>4, <1>5, <1>6, <1>7 DEF p

(* splitSubnodePrefix.                                                     *)
LEMMA SplitHeld ==
  ASSUME NEW ns, NEW bs, TreeInv(ns, bs), NEW parent \in LiveNodes(ns),
         NEW e \in Entries, On(parent, Key[e]), NEW n, Linked(ns, parent, AddressIn(e, parent), n),
         SharedPrefix(e, n, ns[n].prefix) # ns[n].prefix,
         NEW upper, upper = NewId(SplitPath(ns, n, e), DOMAIN ns),
         NEW copy, copy = NewId(Path(n), DOMAIN ns),
         NEW new, new = [Split(ns, n, parent, e, upper, copy) EXCEPT ![n].removed = TRUE],
         NEW bs2, bs2 = BuffersMoved(bs, ns[n], copy)
  PROVE  /\ TreeInv(new, bs2) /\ ~AtTop(n) /\ LiveNodes(ns) \ {n} \subseteq LiveNodes(new)
         /\ StoredIn(new, bs2) = StoredIn(ns, bs) \cup {e}
<1>1. PICK G : Shadow(G, ns) /\ Held(G, bs)
  BY DEF TreeInv
<1>2. /\ Sound(G, Slots) /\ NodesTyped(G, Slots) /\ Tree(G) /\ LiveNodes(G) = LiveNodes(ns)
      /\ DOMAIN G = DOMAIN ns /\ Linked(G, parent, AddressIn(e, parent), n)
  BY <1>1, ShadowIs DEF Held, Sound, Shadow
<1>3. AddressIn(e, parent) \in HCAddresses
  BY <1>2, LeadsOn
<1>4. n \in LiveNodes(G) /\ n # parent /\ ~AtTop(n)
  BY <1>2, <1>3, LinkedFacts
<1>5. ns[n].prefix = G[n].prefix /\ ns[n].cont = G[n].cont /\ SplitPath(ns, n, e) = SplitPath(G, n, e)
  BY <1>1, <1>4, ShadowIs DEF SplitPath
<1>6. /\ SharedPrefix(e, n, G[n].prefix) < G[n].prefix
      /\ copy \in NodeIds /\ copy \notin DOMAIN G /\ Path(copy) = Path(n)
      /\ upper \in NodeIds /\ upper \notin DOMAIN G
      /\ Path(upper) = SplitPath(G, n, e) /\ upper # copy
  BY <1>2, <1>5, SplitIds
<1> DEFINE R == Resplit(G, n, parent, e, upper, copy)
<1>7. Sound(R, Slots)
  BY <1>2, <1>6, ResplitSound
<1>8. Succession(G, R, n, {upper, copy}, copy)
  <2>1. Handover(G, R, n, parent, AddressIn(e, parent), upper, {upper, copy}, copy, Slots)
    BY <1>2, <1>3, <1>6, ResplitHandover
  <2> HIDE DEF R
  <2> QED BY <1>2, <2>1, HandoverSucceeds
<1>9. SuffixEntries(R) = SuffixEntries(G) \cup {e}
  <2>1. Key[e][Len(Path(upper)) + 1] \in HCAddresses
    <3>1. upper \in DOMAIN R
      BY <1>8 DEF Succession, LiveNodes
    <3> HIDE DEF R
    <3>2. Len(Path(upper)) < WIDTH
      BY <1>7, <3>1 DEF Sound, NodesTyped
    <3>3. AddressIn(e, upper) \in HCAddresses
      BY <1>6, <3>2, AddressType
    <3> QED BY <3>3 DEF AddressIn
  <2> QED BY <1>2, <1>3, <1>6, <1>7, <2>1, ResplitEntries
<1>10. Shadow(R, new)
  <2>1. NodesTyped(R, Slots)
    BY <1>7 DEF Sound
  <2>2. Shadow(R, [Split(ns, n, parent, e, upper, copy) EXCEPT ![n].removed = TRUE])
    BY <1>1, <1>2, <1>3, <1>4, <1>6, <2>1, ShadowSplit
  <2> QED BY <2>2
<1> HIDE DEF R
<1>11. bs2 = BuffersMoved(bs, G[n], copy)
  BY <1>5 DEF BuffersMoved
<1>12. Held(R, bs2) /\ StoredIn(R, bs2) = StoredIn(G, bs) \cup {e}
  <2>1. /\ Held(R, BuffersMoved(bs, G[n], copy))
        /\ StoredIn(R, BuffersMoved(bs, G[n], copy)) = StoredIn(G, bs) \cup {e}
    BY <1>1, <1>7, <1>8, <1>9, MovedHeld
  <2> QED BY <1>11, <2>1
<1>13. StoredIn(new, bs2) = StoredIn(R, bs2) /\ StoredIn(ns, bs) = StoredIn(G, bs) /\ LiveNodes(new) = LiveNodes(R)
  BY <1>1, <1>10, ShadowIs, ShadowStored
<1>14. TreeInv(new, bs2)
  BY <1>10, <1>12 DEF TreeInv
<1>15. LiveNodes(ns) \ {n} \subseteq LiveNodes(new)
  BY <1>2, <1>8, <1>13 DEF Succession
<1> QED BY <1>4, <1>12, <1>13, <1>14, <1>15

(* What is left of a tree in which node n was replaced by node new.        *)
LEMMA ReplacedDropped ==
  ASSUME NEW G, NEW bs, Held(G, bs), NEW R, Sound(R, Slots), NEW n, n \in DOMAIN R,
         NEW new, Succession(G, R, n, {new}, new),
         NEW e, SuffixEntries(R) = SuffixEntries(G) \cup {e}
  PROVE  LET bs2 == BuffersMoved(bs, G[n], new)
         IN  /\ n \notin LiveNodes(R) /\ new \in LiveNodes(R)
             /\ Held(Dropped(R, n), bs2)
             /\ StoredIn(Dropped(R, n), bs2) = StoredIn(G, bs) \cup {e}
             /\ LiveNodes(Dropped(R, n)) = (LiveNodes(G) \ {n}) \cup {new}
<1> DEFINE bs2 == BuffersMoved(bs, G[n], new)
<1>1. LiveNodes(R) = (LiveNodes(G) \ {n}) \cup {new} /\ n # new
  BY DEF Succession, LiveNodes
<1>2. Held(R, bs2) /\ StoredIn(R, bs2) = StoredIn(G, bs) \cup {e}
  BY MovedHeld
<1> HIDE DEF bs2
<1>3. n \notin LiveNodes(R) /\ new \in LiveNodes(R)
  BY <1>1
<1>4. Held(Dropped(R, n), bs2) /\ StoredIn(Dropped(R, n), bs2) = StoredIn(R, bs2)
  BY <1>2, <1>3, DroppedHeld
<1>5. LiveNodes(Dropped(R, n)) = LiveNodes(R)
  <2>1. IsDropped(R, Dropped(R, n), n, Slots)
    BY <1>2, <1>3, DroppedIs DEF Held
  <2> QED BY <2>1 DEF IsDropped
<1> QED BY <1>1, <1>2, <1>3, <1>4, <1>5 DEF bs2

(* What holds of the nodes follows from what shadows them.                 *)
LEMMA Shadowed ==
  ASSUME NEW G, NEW ns, Shadow(G, ns), NEW bs, NEW D, NEW after, Shadow(D, after), NEW bs2, Held(D, bs2)
  PROVE  /\ TreeInv(after, bs2) /\ StoredIn(after, bs2) = StoredIn(D, bs2) /\ StoredIn(ns, bs) = StoredIn(G, bs)
         /\ LiveNodes(after) = LiveNodes(D) /\ LiveNodes(ns) = LiveNodes(G)
<1>1. TreeInv(after, bs2)
  BY DEF TreeInv
<1>2. StoredIn(after, bs2) = StoredIn(D, bs2) /\ StoredIn(ns, bs) = StoredIn(G, bs)
  BY ShadowStored
<1>3. LiveNodes(after) = LiveNodes(D) /\ LiveNodes(ns) = LiveNodes(G)
  BY ShadowIs
<1> QED BY <1>1, <1>2, <1>3

(* insertSuffix into a larger copy of a node below the root.               *)
LEMMA EnlargeHeld ==
  ASSUME NEW ns, NEW bs, TreeInv(ns, bs), NEW n \in LiveNodes(ns), NEW e \in Entries, On(n, Key[e]),
         NEW a, a = AddressIn(e, n), ns[n].cont[a] = Empty, IsFull(ns[n]),
         NEW parent \in LiveNodes(ns), NEW pa \in HCAddresses, Linked(ns, parent, pa, n),
         NEW new, new = NewId(Path(n), DOMAIN ns),
         NEW after, after = Enlarged(ns, n, parent, pa, new, a, e),
         NEW bs2, bs2 = BuffersMoved(bs, ns[n], new)
  PROVE  /\ TreeInv(after, bs2) /\ ~AtTop(n) /\ LiveNodes(ns) \ {n} \subseteq LiveNodes(after)
         /\ StoredIn(after, bs2) = StoredIn(ns, bs) \cup {e}
<1>1. PICK G : Shadow(G, ns) /\ Held(G, bs)
  BY DEF TreeInv
<1>2. /\ Sound(G, Slots) /\ NodesTyped(G, Slots) /\ Tree(G) /\ LiveNodes(G) = LiveNodes(ns)
      /\ DOMAIN G = DOMAIN ns /\ Linked(G, parent, pa, n)
  BY <1>1, ShadowIs DEF Held, Sound, Shadow
<1>3. a \in HCAddresses /\ Leads(n, a, Key[e])
  BY <1>2, LeadsOn
<1>4. n # parent /\ ~AtTop(n) /\ Path(n) \in Seq(HCAddresses)
  BY <1>2, LinkedFacts
<1>5. ns[n].cont = G[n].cont /\ G[n].cont[a] = Empty /\ IsFull(G[n])
  BY <1>1, <1>2, ShadowIs DEF IsFull
<1>6. new \in NodeIds /\ new \notin DOMAIN G /\ Path(new) = Path(n)
  BY <1>2, <1>4, FreshId
<1> DEFINE R == Copied(G, n, parent, pa, new, a, e)
<1>7. Sound(R, Slots)
  BY <1>2, <1>3, <1>5, <1>6, CopiedSound
<1>8. Succession(G, R, n, {new}, new) /\ n \in DOMAIN R
  <2>1. Handover(G, R, n, parent, pa, new, {new}, new, Slots)
    BY <1>2, <1>3, <1>5, <1>6, CopiedHandover
  <2> HIDE DEF R
  <2>2. n \in DOMAIN R
    BY <2>1 DEF Handover, Replacement, LiveNodes
  <2> QED BY <1>2, <2>1, <2>2, HandoverSucceeds
<1>9. SuffixEntries(R) = SuffixEntries(G) \cup {e}
  BY <1>2, <1>3, <1>5, <1>6, <1>7, CopiedEntries
<1>10. Shadow(Dropped(R, n), after)
  <2>1. Shadow(Dropped(R, n), Enlarged(ns, n, parent, pa, new, a, e))
    BY <1>1, <1>2, <1>4, <1>6, <1>7, ShadowCopied
  <2> QED BY <2>1
<1> HIDE DEF R
<1>11. bs2 = BuffersMoved(bs, G[n], new)
  BY <1>5 DEF BuffersMoved
<1>12. /\ Held(Dropped(R, n), bs2)
       /\ StoredIn(Dropped(R, n), bs2) = StoredIn(G, bs) \cup {e}
       /\ LiveNodes(Dropped(R, n)) = (LiveNodes(G) \ {n}) \cup {new}
  BY <1>1, <1>7, <1>8, <1>9, <1>11, ReplacedDropped
<1>13. /\ TreeInv(after, bs2) /\ StoredIn(after, bs2) = StoredIn(Dropped(R, n), bs2)
       /\ StoredIn(ns, bs) = StoredIn(G, bs) /\ LiveNodes(after) = LiveNodes(Dropped(R, n))
  BY <1>1, <1>10, <1>12, Shadowed
<1> QED BY <1>2, <1>4, <1>12, <1>13

(* insertSuffix into a larger copy of the root.                            *)
LEMMA EnlargeTopHeld ==
  ASSUME NEW ns, NEW bs, TreeInv(ns, bs), NEW n \in LiveNodes(ns), AtTop(n),
         NEW e \in Entries, On(n, Key[e]),
         NEW a, a = AddressIn(e, n), ns[n].cont[a] = Empty, IsFull(ns[n]),
         NEW new, new = NewId(Path(n), DOMAIN ns),
         NEW all, all = WithNode(ns, new, LargerCopy(ns[n], a, e)),
         NEW after, after = [k \in DOMAIN all \ {n} |-> all[k]],
         NEW bs2, bs2 = BuffersMoved(bs, ns[n], new)
  PROVE  /\ TreeInv(after, bs2) /\ new \in LiveNodes(after) /\ AtTop(new)
         /\ StoredIn(after, bs2) = StoredIn(ns, bs) \cup {e}
<1>1. PICK G : Shadow(G, ns) /\ Held(G, bs)
  BY DEF TreeInv
<1>2. /\ Sound(G, Slots) /\ NodesTyped(G, Slots) /\ Tree(G) /\ LiveNodes(G) = LiveNodes(ns)
      /\ DOMAIN G = DOMAIN ns /\ n \in DOMAIN G /\ n \in NodeIds
  BY <1>1, ShadowIs DEF Held, Sound, Shadow, NodesTyped, IdsTyped
<1>3. a \in HCAddresses /\ Leads(n, a, Key[e])
  BY <1>2, LeadsOn
<1>4. Path(n) \in Seq(HCAddresses)
  BY <1>2, PathType
<1>5. /\ ns[n].prefix = G[n].prefix /\ ns[n].max = G[n].max
      /\ ns[n].cont = G[n].cont /\ G[n].cont[a] = Empty /\ IsFull(G[n])
  BY <1>1, <1>2, ShadowIs DEF IsFull
<1>6. new \in NodeIds /\ new \notin DOMAIN G /\ Path(new) = Path(n)
  BY <1>2, <1>4, FreshId
<1> DEFINE R == Topped(G, n, new, a, e)
<1>7. /\ Sound(R, Slots) /\ Succession(G, R, n, {new}, new)
      /\ SuffixEntries(R) = SuffixEntries(G) \cup {e}
      /\ n \in DOMAIN R /\ n \notin LiveNodes(R) /\ new \in LiveNodes(R)
  BY <1>2, <1>3, <1>5, <1>6, ToppedStays
<1>8. IsTopped(G, R, n, new, a, e, Slots)
  BY <1>2, <1>6, ToppedIs
<1> HIDE DEF R
<1>9. LargerCopy(ns[n], a, e) = R[new]
  BY <1>5, <1>8, LargerSame DEF IsTopped
<1> DEFINE marked == [k \in DOMAIN ns \cup {new} |->
                        IF k = new THEN R[new] ELSE IF k = n THEN R[n] ELSE ns[k]]
<1>10. Shadow(R, marked)
  <2>1. DOMAIN R = DOMAIN ns \cup {new} /\ DOMAIN marked = DOMAIN ns \cup {new}
    BY <1>2, <1>8 DEF IsTopped
  <2>2. \A k \in DOMAIN R : DOMAIN R[k] = NodeFieldNames
    BY <1>7, FieldsNamed DEF Sound, NodesTyped
  <2>3. marked[new] = R[new] /\ marked[n] = R[n]
    BY <1>2, <1>6
  <2>4. \A k \in DOMAIN ns \ {n} : marked[k] = ns[k] /\ R[k] = G[k]
    BY <1>2, <1>6, <1>8 DEF IsTopped
  <2> HIDE DEF marked
  <2>5. ASSUME NEW k \in DOMAIN ns \ {n}
        PROVE  /\ DOMAIN marked[k] = NodeFieldNames /\ (marked[k].removed <=> R[k].removed)
               /\ k \in LiveNodes(marked) =>
                    /\ marked[k].prefix = R[k].prefix /\ marked[k].max = R[k].max
                    /\ marked[k].cont = R[k].cont
    BY <1>1, <2>4 DEF Shadow, LiveNodes
  <2>6. ASSUME NEW k \in DOMAIN marked, k \notin DOMAIN ns \ {n}
        PROVE  marked[k] = R[k] /\ DOMAIN marked[k] = NodeFieldNames
    BY <2>1, <2>2, <2>3, <2>6
  <2>7. LiveNodes(marked) \subseteq DOMAIN marked
    BY DEF LiveNodes
  <2> QED BY <2>1, <2>5, <2>6, <2>7 DEF Shadow
<1>11. Shadow(Dropped(R, n), after)
  <2>1. DOMAIN all = DOMAIN ns \cup {new} /\ \A k \in DOMAIN all : all[k] = IF k = new THEN R[new] ELSE ns[k]
    BY <1>9 DEF WithNode
  <2>2. DOMAIN after = DOMAIN marked \ {n} /\ \A k \in DOMAIN after : after[k] = marked[k]
    BY <2>1
  <2> HIDE DEF marked
  <2> QED BY <1>7, <1>10, <2>2, ShadowDropped
<1>12. bs2 = BuffersMoved(bs, G[n], new)
  BY <1>5 DEF BuffersMoved
<1>13. /\ Held(Dropped(R, n), bs2)
       /\ StoredIn(Dropped(R, n), bs2) = StoredIn(G, bs) \cup {e}
       /\ LiveNodes(Dropped(R, n)) = (LiveNodes(G) \ {n}) \cup {new}
  BY <1>1, <1>7, <1>12, ReplacedDropped
<1>14. /\ TreeInv(after, bs2) /\ StoredIn(after, bs2) = StoredIn(Dropped(R, n), bs2)
       /\ StoredIn(ns, bs) = StoredIn(G, bs) /\ LiveNodes(after) = LiveNodes(Dropped(R, n))
  BY <1>1, <1>11, <1>13, Shadowed
<1> QED BY <1>6, <1>13, <1>14 DEF AtTop

(* What an address of a node holds, by its kind.                           *)
LEMMA HoldsKinds ==
  ASSUME NEW ids, NEW slots, NEW c \in Holds(ids, slots)
  PROVE  /\ c.kind = "empty" => c = Empty
         /\ c.kind = "suffix" => c = Suffix(c.entry) /\ c.entry \in Entries
         /\ c.kind = "subnode" => c = Sub(c.node)
         /\ c.kind = "buffer" => c = Buf(c.slot) /\ c.slot \in slots
<1>1. CASE c = Empty
  BY <1>1, Kinds
<1>2. CASE \E e \in Entries : c = Suffix(e)
  BY <1>2, Kinds
<1>3. CASE \E m \in ids : c = Sub(m)
  BY <1>3, Kinds
<1>4. CASE \E s \in slots : c = Buf(s)
  BY <1>4, Kinds
<1>5. \/ c = Empty
      \/ \E e \in Entries : c = Suffix(e)
      \/ \E m \in ids : c = Sub(m)
      \/ \E s \in slots : c = Buf(s)
  BY DEF Holds
<1> QED BY <1>1, <1>2, <1>3, <1>4, <1>5

(* What is known of the nodes and buffers of a tree.                       *)
LEMMA TreeFacts ==
  ASSUME NEW ns, NEW bs, TreeInv(ns, bs)
  PROVE  /\ LiveNodes(ns) \subseteq NodeIds /\ None \notin LiveNodes(ns) /\ LiveNodes(ns) \subseteq DOMAIN ns
         /\ DOMAIN bs = Slots /\ \A s \in Slots : DOMAIN bs[s] = Fields /\ (bs[s].node = None => bs[s] = Cleared)
         /\ \A f \in StoredIn(ns, bs) : f \in Entries
<1>1. PICK G : Shadow(G, ns) /\ Held(G, bs)
  BY DEF TreeInv
<1>2. Sound(G, Slots) /\ Hung(G, bs, Slots, Fields) /\ BuffersLie(bs, Slots) /\ NodesTyped(G, Slots)
  BY <1>1 DEF Held, Sound
<1>3. LiveNodes(ns) = LiveNodes(G) /\ LiveNodes(G) \subseteq DOMAIN G /\ DOMAIN G = DOMAIN ns
  BY <1>1, ShadowIs DEF Shadow
<1>4. DOMAIN G \subseteq NodeIds /\ None \notin LiveNodes(G)
  BY <1>2, NoneNoNode DEF NodesTyped, IdsTyped
<1>5. DOMAIN bs = Slots /\ \A s \in Slots : DOMAIN bs[s] = Fields
  BY <1>2 DEF Hung
<1>6. StoredIn(ns, bs) = StoredIn(G, bs)
  BY <1>1, ShadowStored
<1>7. \A f \in StoredIn(G, bs) : f \in Entries
  BY <1>2, StoredLies
<1> QED BY <1>1, <1>3, <1>4, <1>5, <1>6, <1>7 DEF Held

(* What a node of the tree has at an address; a buffer there says so. A    *)
(* suffix is stored.                                                       *)
LEMMA TreeContent ==
  ASSUME NEW ns, NEW bs, TreeInv(ns, bs), NEW n \in LiveNodes(ns), NEW a \in HCAddresses,
         NEW c, c = ns[n].cont[a]
  PROVE  /\ c.kind = "empty" => c = Empty
         /\ c.kind = "suffix" => /\ c = Suffix(c.entry) /\ c.entry \in Entries
                                 /\ c.entry \in StoredIn(ns, bs)
         /\ c.kind = "subnode" => Linked(ns, n, a, c.node)
         /\ c.kind = "buffer" => /\ c = Buf(c.slot) /\ c.slot \in Slots
                                 /\ bs[c.slot].node = n /\ bs[c.slot].addr = a
<1>1. PICK G : Shadow(G, ns) /\ Held(G, bs)
  BY DEF TreeInv
<1>2. Hung(G, bs, Slots, Fields) /\ NodesTyped(G, Slots)
  BY <1>1 DEF Held, Sound
<1>3. n \in LiveNodes(G) /\ n \in DOMAIN G /\ G[n].cont[a] = c
  BY <1>1, ShadowIs
<1>4. c \in Holds(DOMAIN G, Slots)
  <2> DEFINE H == Holds(DOMAIN G, Slots)
  <2>1. G[n].cont \in [HCAddresses -> H]
    BY <1>2, <1>3 DEF NodesTyped, NodeFields
  <2> HIDE DEF H
  <2>2. c \in H
    BY <1>3, <2>1
  <2> QED BY <2>2 DEF H
<1>5. /\ c.kind = "empty" => c = Empty
      /\ c.kind = "suffix" => c = Suffix(c.entry) /\ c.entry \in Entries
      /\ c.kind = "subnode" => c = Sub(c.node)
      /\ c.kind = "buffer" => c = Buf(c.slot) /\ c.slot \in Slots
  BY <1>4, HoldsKinds
<1>6. ASSUME c = Suffix(c.entry) PROVE c.entry \in StoredIn(ns, bs)
  <2>1. c.entry \in SuffixEntries(G)
    BY <1>2, <1>3, <1>6, SuffixEntriesAre
  <2> QED BY <1>1, <2>1, StoredIs, ShadowStored
<1>7. ASSUME c = Buf(c.slot) PROVE bs[c.slot].node = n /\ bs[c.slot].addr = a
  BY <1>2, <1>3, <1>7 DEF Hung
<1>8. ASSUME c = Sub(c.node) PROVE Linked(ns, n, a, c.node)
  BY <1>8 DEF Linked
<1> QED BY <1>5, <1>6, <1>7, <1>8

(* How an insertion walks down the tree.                                   *)
LEMMA TreeWalk ==
  ASSUME NEW ns, NEW bs, TreeInv(ns, bs), NEW n \in LiveNodes(ns), NEW e \in Entries, On(n, Key[e])
  PROVE  /\ AddressIn(e, n) \in HCAddresses /\ Leads(n, AddressIn(e, n), Key[e])
         /\ \A m : Linked(ns, n, AddressIn(e, n), m) =>
              /\ m \in LiveNodes(ns) /\ ~AtTop(m)
              /\ SharedPrefix(e, m, ns[m].prefix) = ns[m].prefix => On(m, Key[e])
<1>1. PICK G : Shadow(G, ns) /\ Held(G, bs)
  BY DEF TreeInv
<1>2. NodesTyped(G, Slots) /\ Tree(G) /\ LiveNodes(G) = LiveNodes(ns)
  BY <1>1, ShadowIs DEF Held, Sound
<1>3. AddressIn(e, n) \in HCAddresses /\ Leads(n, AddressIn(e, n), Key[e])
  BY <1>2, LeadsOn
<1>4. ASSUME NEW m, Linked(ns, n, AddressIn(e, n), m)
      PROVE  /\ m \in LiveNodes(ns) /\ ~AtTop(m)
             /\ SharedPrefix(e, m, ns[m].prefix) = ns[m].prefix => On(m, Key[e])
  <2>1. Linked(G, n, AddressIn(e, n), m)
    BY <1>1, <1>2, <1>4, ShadowIs
  <2>2. m \in LiveNodes(G) /\ ~AtTop(m)
    BY <1>2, <1>3, <2>1, LinkedFacts
  <2>3. ns[m].prefix = G[m].prefix
    BY <1>1, <2>2, ShadowIs
  <2>4. SharedPrefix(e, m, G[m].prefix) = G[m].prefix => On(m, Key[e])
    BY <1>2, <2>1, WalkOn
  <2> QED BY <1>2, <2>2, <2>3, <2>4
<1> QED BY <1>3, <1>4

Rowed(bs, s, e) == [bs EXCEPT ![s].rows = Append(@, e)]

(* EntryBuffer::insert adds a row to a buffer of the tree.                 *)
LEMMA RowHeld ==
  ASSUME NEW ns, NEW bs, TreeInv(ns, bs), NEW n \in LiveNodes(ns), NEW a \in HCAddresses,
         NEW s \in Slots, bs[s].node = n, bs[s].addr = a, NEW e \in Entries, Leads(n, a, Key[e])
  PROVE  /\ TreeInv(ns, Rowed(bs, s, e)) /\ DOMAIN Rowed(bs, s, e) = Slots
         /\ Rowed(bs, s, e)[s].node = n
         /\ \A r \in Slots \ {s} : Rowed(bs, s, e)[r] = bs[r]
         /\ \/ StoredIn(ns, Rowed(bs, s, e)) = StoredIn(ns, bs) \cup {e}
            \/ StoredIn(ns, Rowed(bs, s, e)) = StoredIn(ns, bs)
         /\ \E f \in StoredIn(ns, Rowed(bs, s, e)) : Key[f] = Key[e]
<1> DEFINE bs2 == Rowed(bs, s, e)
           b == bs[s]
           rows == b.rows
<1>1. PICK G : Shadow(G, ns) /\ Held(G, bs)
  BY DEF TreeInv
<1>2. /\ Hung(G, bs, Slots, Fields) /\ NodesTyped(G, Slots) /\ BuffersLie(bs, Slots) /\ n # None
      /\ DOMAIN bs = Slots /\ \A r \in Slots : DOMAIN bs[r] = Fields
  BY <1>1, TreeFacts DEF Held, Sound
<1>3. DOMAIN b = {"node", "addr", "rows"}
  BY <1>2, ClearedIs
<1>4. DOMAIN bs2 = Slots /\ bs2[s] = [b EXCEPT !.rows = Append(@, e)] /\ \A r \in Slots \ {s} : bs2[r] = bs[r]
  BY <1>2 DEF Rowed
<1>5. RowsLie(b) /\ b.node = n /\ b.addr = a
  BY <1>2 DEF BuffersLie
<1> HIDE DEF b, bs2
<1>6. /\ DOMAIN bs2[s] = DOMAIN b /\ bs2[s].node = b.node /\ bs2[s].addr = b.addr
      /\ bs2[s].rows = Append(b.rows, e)
  BY <1>3, <1>4
<1>7. RowsLie(bs2[s])
  <2>1. rows \in Seq(Entries) /\ Len(rows) >= 2 /\ Key[rows[1]] # Key[rows[2]]
        /\ \A i \in DOMAIN rows : Leads(n, a, Key[rows[i]])
    BY <1>5 DEF RowsLie
  <2> DEFINE more == Append(rows, e)
  <2>2. /\ more \in Seq(Entries) /\ Len(more) >= 2 /\ more[1] = rows[1] /\ more[2] = rows[2]
        /\ \A i \in DOMAIN more : more[i] = e \/ (i \in DOMAIN rows /\ more[i] = rows[i])
    <3> HIDE DEF rows
    <3> QED BY <2>1
  <2> HIDE DEF more
  <2>3. \A i \in DOMAIN more : Leads(n, a, Key[more[i]])
    BY <2>1, <2>2
  <2>4. bs2[s].rows = more /\ bs2[s].node = n /\ bs2[s].addr = a
    BY <1>5, <1>6 DEF more
  <2> QED BY <2>1, <2>2, <2>3, <2>4 DEF RowsLie
<1>8. BuffersLie(bs2, Slots)
  BY <1>2, <1>4, <1>7 DEF BuffersLie
<1>9. Hung(G, bs2, Slots, Fields)
  <2>1. \A r \in Slots : /\ DOMAIN bs2[r] = DOMAIN bs[r] /\ bs2[r].node = bs[r].node
                         /\ bs2[r].addr = bs[r].addr
    BY <1>4, <1>6 DEF b
  <2>2. SamePlaces(bs, bs2, Slots)
    BY <1>2, <1>4, <2>1 DEF SamePlaces
  <2>3. \A r \in Slots : bs[r].node = None => bs2[r].rows = bs[r].rows
    BY <1>2, <1>4
  <2> QED BY <1>2, <2>2, <2>3, HungSame
<1>10. Held(G, bs2)
  <2>1. bs2[s].node # None
    BY <1>2, <1>5, <1>6
  <2> QED BY <1>1, <1>4, <1>8, <1>9, <2>1 DEF Held
<1>11. TreeInv(ns, bs2)
  BY <1>1, <1>10 DEF TreeInv
<1>12. rows \in Seq(Entries) /\ Append(rows, e) \in Seq(Entries) /\ Append(rows, e)[Len(rows) + 1] = e
       /\ Len(rows) + 1 \in DOMAIN Append(rows, e)
  <2>1. rows \in Seq(Entries)
    BY <1>5 DEF RowsLie
  <2> HIDE DEF rows
  <2> QED BY <2>1
<1>13. \/ DistinctRows(bs2[s].rows) = DistinctRows(b.rows)
       \/ DistinctRows(bs2[s].rows) = DistinctRows(b.rows) \cup {e}
  BY <1>6, <1>12, RowAppended
<1>14. \E f \in DistinctRows(bs2[s].rows) : Key[f] = Key[e]
  <2> DEFINE more == Append(rows, e)
             i == Len(rows) + 1
  <2>1. more \in Seq(Entries) /\ i \in DOMAIN more /\ more[i] = e /\ bs2[s].rows = more
    BY <1>6, <1>12
  <2> HIDE DEF more, i
  <2>2. \E f \in DistinctRows(more) : Key[f] = Key[more[i]]
    BY <2>1, RowsKept
  <2> QED BY <2>1, <2>2
<1>15. \E f \in StoredIn(ns, bs2) : Key[f] = Key[e]
  BY <1>4, <1>14, StoredIs
<1>16. ASSUME DistinctRows(bs2[s].rows) = DistinctRows(b.rows)
       PROVE  StoredIn(ns, bs2) = StoredIn(ns, bs)
  <2>1. \A r \in Slots : DistinctRows(bs2[r].rows) = DistinctRows(bs[r].rows)
    BY <1>4, <1>16 DEF b
  <2>2. ASSUME NEW f PROVE f \in StoredIn(ns, bs2) <=> f \in StoredIn(ns, bs)
    BY <1>2, <1>4, <2>1, StoredIs
  <2> QED BY <2>2
<1>17. ASSUME DistinctRows(bs2[s].rows) = DistinctRows(b.rows) \cup {e}
       PROVE  StoredIn(ns, bs2) = StoredIn(ns, bs) \cup {e}
  <2>1. \A r \in Slots \ {s} : DistinctRows(bs2[r].rows) = DistinctRows(bs[r].rows)
    BY <1>4
  <2>2. \A f : f \in DistinctRows(bs2[s].rows) <=> f \in DistinctRows(bs[s].rows) \/ f = e
    BY <1>17 DEF b
  <2>3. ASSUME NEW f PROVE f \in StoredIn(ns, bs2) <=> f \in StoredIn(ns, bs) \cup {e}
    <3>1. f \in StoredIn(ns, bs2) <=> f \in SuffixEntries(ns) \/ \E r \in Slots : f \in DistinctRows(bs2[r].rows)
      BY <1>4, StoredIs
    <3>2. f \in StoredIn(ns, bs) <=> f \in SuffixEntries(ns) \/ \E r \in Slots : f \in DistinctRows(bs[r].rows)
      BY <1>2, StoredIs
    <3> QED BY <2>1, <2>2, <3>1, <3>2
  <2> QED BY <2>3
<1>18. bs2 = Rowed(bs, s, e) /\ b = bs[s]
  BY DEF bs2, b
<1> QED BY <1>4, <1>5, <1>6, <1>11, <1>13, <1>15, <1>16, <1>17, <1>18

-----------------------------------------------------------------------------
(* The invariant of the loop *)

Stored == StoredIn(nodes, buffer)

ControlInv ==
  /\ work \in Workloads /\ pos \in 1 .. Len(work[2]) + 1
  /\ pc \in {"next", "visit", "swap", "finished"}
  /\ pc \in {"visit", "swap"} => ~Done
  /\ pc # "swap" => slot = -1
  /\ ~Bulk => inUse = {}
  /\ pc = "finished" => Done /\ inUse = {}

(* Where the loop is, the key of its entry leads; the node it came from is *)
(* linked to the node it is at.                                            *)
WalkInv ==
  pc \in {"visit", "swap"} =>
    /\ cur \in LiveNodes(nodes) /\ On(cur, Key[Entry])
    /\ last = None => cur = root
    /\ last # None => /\ last \in LiveNodes(nodes) /\ On(last, Key[Entry])
                      /\ Linked(nodes, last, AddressIn(Entry, last), cur)

(* The buffer for a suffix is allocated and not yet in the tree.           *)
SwapInv ==
  pc = "swap" => Bulk /\ slot \in inUse /\ buffer[slot].node = None /\ Content.kind = "suffix"

(* The tree and its buffers hold the keys of the entries passed, and no    *)
(* others.                                                                 *)
KeysInv == {Key[work[2][i]] : i \in 1 .. pos - 1} = {Key[f] : f \in Stored}

IInv ==
  /\ ControlInv /\ WalkInv /\ SwapInv /\ KeysInv
  /\ TreeInv(nodes, buffer) /\ root \in LiveNodes(nodes) /\ AtTop(root)
  /\ PoolProofs!IInv

(* What the loop works on.                                                 *)
LEMMA AtEntry ==
  ASSUME IInv, pc \in {"visit", "swap"}
  PROVE  /\ Entry \in Entries /\ pos \in Nat /\ pos + 1 \in 1 .. Len(work[2]) + 1
         /\ cur \in LiveNodes(nodes) /\ cur # None /\ On(cur, Key[Entry])
         /\ Address \in HCAddresses /\ Leads(cur, Address, Key[Entry])
<1>1. work[2] \in Seq(Entries) /\ Len(work[2]) \in Nat
  BY WorkAssumption DEF IInv, ControlInv
<1>2. pos \in 1 .. Len(work[2]) /\ pos \in Nat
  BY <1>1 DEF IInv, ControlInv, Done
<1>3. Entry \in Entries
  BY <1>1, <1>2 DEF Entry
<1>4. cur \in LiveNodes(nodes) /\ On(cur, Key[Entry]) /\ TreeInv(nodes, buffer)
  BY DEF IInv, WalkInv
<1>5. cur # None
  BY <1>4, TreeFacts
<1>6. Address \in HCAddresses /\ Leads(cur, Address, Key[Entry])
  BY <1>3, <1>4, TreeWalk DEF Address
<1> QED BY <1>1, <1>2, <1>3, <1>4, <1>5, <1>6

(* The content at the place of the entry.                                  *)
LEMMA AtContent ==
  ASSUME IInv, pc \in {"visit", "swap"}
  PROVE  /\ Content = nodes[cur].cont[Address]
         /\ Content.kind = "empty" => Content = Empty
         /\ Content.kind = "suffix" => /\ Content = Suffix(Content.entry) /\ Content.entry \in Entries
                                       /\ Content.entry \in Stored
         /\ Content.kind = "subnode" => Linked(nodes, cur, Address, Content.node)
         /\ Content.kind = "buffer" => /\ Content = Buf(Content.slot) /\ Content.slot \in Slots
                                       /\ buffer[Content.slot].node = cur
                                       /\ buffer[Content.slot].addr = Address
<1>1. cur \in LiveNodes(nodes) /\ Address \in HCAddresses /\ TreeInv(nodes, buffer)
  BY AtEntry DEF IInv
<1> DEFINE c == Content
<1>2. c = nodes[cur].cont[Address]
  BY DEF Content
<1> HIDE DEF c
<1>3. /\ c.kind = "empty" => c = Empty
      /\ c.kind = "suffix" => /\ c = Suffix(c.entry) /\ c.entry \in Entries
                              /\ c.entry \in StoredIn(nodes, buffer)
      /\ c.kind = "subnode" => Linked(nodes, cur, Address, c.node)
      /\ c.kind = "buffer" => /\ c = Buf(c.slot) /\ c.slot \in Slots
                              /\ buffer[c.slot].node = cur /\ buffer[c.slot].addr = Address
  BY <1>1, <1>2, TreeContent
<1> QED BY <1>2, <1>3 DEF c, Stored

(* An iteration that deals with the entry: it is stored, or its key was    *)
(* already.                                                                *)
Dealt ==
  \/ Stored' = Stored \cup {Entry}
  \/ Stored' = Stored /\ \E f \in Stored : Key[f] = Key[Entry]

(* Such an iteration preserves the invariant if the tree, its root and the *)
(* pool stay right.                                                        *)
LEMMA DealtInv ==
  ASSUME IInv, pc \in {"visit", "swap"}, Inserted, UNCHANGED work, slot' = -1, Dealt,
         TreeInv(nodes', buffer'), root' \in LiveNodes(nodes'), AtTop(root'),
         PoolProofs!IInv', ~Bulk => inUse' = {}
  PROVE  IInv'
<1>1. pc' = "next" /\ pos' = pos + 1 /\ work' = work
  BY DEF Inserted
<1>2. pos \in Nat /\ pos + 1 \in 1 .. Len(work[2]) + 1 /\ pos >= 1
  BY AtEntry DEF IInv, ControlInv
<1>3. ControlInv'
  BY <1>1, <1>2 DEF ControlInv, IInv, Bulk, Done
<1>4. WalkInv' /\ SwapInv'
  BY <1>1 DEF WalkInv, SwapInv
<1>5. KeysInv'
  <2> DEFINE k(i) == Key[work[2][i]]
             old == {k(i) : i \in 1 .. pos - 1}
             keys == {Key[f] : f \in Stored}
  <2>1. old = keys
    BY DEF IInv, KeysInv
  <2>2. {k(i) : i \in 1 .. pos'- 1} = old \cup {k(pos)}
    <3>1. pos' - 1 = pos /\ \A i : i \in 1 .. pos <=> (i \in 1 .. pos - 1 \/ i = pos)
      BY <1>1, <1>2
    <3> HIDE DEF k
    <3> QED BY <3>1
  <2>3. {Key[f] : f \in Stored'} = keys \cup {k(pos)}
    <3>1. k(pos) = Key[Entry]
      BY DEF Entry
    <3>2. CASE Stored' = Stored \cup {Entry}
      <4> DEFINE T == Stored'
      <4>1. T = Stored \cup {Entry}
        BY <3>2
      <4> HIDE DEF T, k
      <4>2. {Key[f] : f \in T} = keys \cup {Key[Entry]}
        BY <4>1
      <4> QED BY <3>1, <4>2 DEF T
    <3>3. CASE Stored' = Stored /\ \E f \in Stored : Key[f] = Key[Entry]
      <4> DEFINE T == Stored'
      <4>1. T = Stored /\ Key[Entry] \in keys
        BY <3>3
      <4>2. {Key[f] : f \in T} = keys
        BY <4>1
      <4> HIDE DEF T, k, keys
      <4> QED BY <3>1, <4>1, <4>2 DEF T
    <3> QED BY <3>2, <3>3 DEF Dealt
  <2>4. KeysInv' <=> {k(i) : i \in 1 .. pos'- 1} = {Key[f] : f \in Stored'}
    BY <1>1 DEF KeysInv
  <2> HIDE DEF k, old, keys
  <2> QED BY <2>1, <2>2, <2>3, <2>4
<1> QED BY <1>3, <1>4, <1>5 DEF IInv

(* The same buffers are used after a node was replaced.                    *)
LEMMA MovedUsed ==
  ASSUME NEW ns, NEW bs, TreeInv(ns, bs), NEW n \in LiveNodes(ns),
         NEW new, new = NewId(Path(n), DOMAIN ns),
         NEW bs2, bs2 = BuffersMoved(bs, ns[n], new), NEW s \in Slots
  PROVE  bs2[s].node = None <=> bs[s].node = None
<1>1. PICK G : Shadow(G, ns) /\ Held(G, bs)
  BY DEF TreeInv
<1>2. /\ Hung(G, bs, Slots, Fields) /\ NodesTyped(G, Slots) /\ DOMAIN G = DOMAIN ns
      /\ n \in LiveNodes(G) /\ G[n].cont = ns[n].cont
  BY <1>1, ShadowIs DEF Held, Sound, Shadow
<1>3. n \in NodeIds /\ n # None
  BY <1>2, TreeFacts
<1>4. new \in NodeIds
  BY <1>2, <1>3, PathType, FreshId
<1>5. new # None
  BY <1>4 DEF NodeIds, None
<1>6. s \in DOMAIN bs /\ DOMAIN bs[s] = {"node", "addr", "rows"}
  BY <1>2, ClearedIs DEF Hung
<1>7. CASE \E a \in HCAddresses : ns[n].cont[a] = Buf(s)
  <2>1. bs[s].node = n
    BY <1>2, <1>7 DEF Hung
  <2>2. bs2[s] = [bs[s] EXCEPT !.node = new]
    BY <1>6, <1>7 DEF BuffersMoved
  <2>3. bs2[s].node = new
    BY <1>6, <2>2
  <2> QED BY <1>3, <1>5, <2>1, <2>3
<1>8. CASE ~\E a \in HCAddresses : ns[n].cont[a] = Buf(s)
  BY <1>6, <1>8 DEF BuffersMoved
<1> QED BY <1>7, <1>8

(* NextEntry preserves the invariant.                                      *)
LEMMA NextEntryInv == ASSUME IInv, NextEntry, UNCHANGED work PROVE IInv'
<1>1. /\ pc = "next" /\ ~Done /\ pc' = "visit" /\ cur' = root /\ last' = None /\ work' = work
      /\ UNCHANGED <<nodes, root, poolVars, buffer, pos, slot>> /\ slot = -1
  BY DEF NextEntry, IInv, ControlInv
<1>2. work[2] \in Seq(Entries) /\ pos \in 1 .. Len(work[2])
  BY <1>1, WorkAssumption DEF IInv, ControlInv, Done
<1>3. Entry \in Entries
  BY <1>2 DEF Entry
<1>4. root \in NodeIds /\ AtTop(root)
  BY TreeFacts DEF IInv
<1>5. On(root, Key[Entry])
  BY <1>3, <1>4, KeyType, TopOn
<1>6. ControlInv'
  BY <1>1, <1>2 DEF IInv, ControlInv, Done, Bulk, poolVars
<1>7. WalkInv' /\ SwapInv'
  BY <1>1, <1>5 DEF IInv, WalkInv, SwapInv, Entry
<1>8. KeysInv'
  BY <1>1 DEF IInv, KeysInv, Stored
<1>9. PoolProofs!IInv'
  BY <1>1, PoolStays DEF IInv, UsedBuffers
<1> QED BY <1>1, <1>6, <1>7, <1>8, <1>9 DEF IInv

(* Descend preserves the invariant.                                        *)
LEMMA DescendInv == ASSUME IInv, Descend, UNCHANGED work PROVE IInv'
<1>1. /\ pc = "visit" /\ Content.kind = "subnode" /\ PrefixIncluded
      /\ last' = cur /\ cur' = Content.node /\ work' = work
      /\ UNCHANGED <<nodes, root, poolVars, buffer, pos, pc, slot>>
  BY DEF Descend
<1> DEFINE m == Content.node
           e == Entry
           n == cur
<1>2. e \in Entries /\ n \in LiveNodes(nodes) /\ n # None /\ On(n, Key[e]) /\ TreeInv(nodes, buffer)
  BY <1>1, AtEntry DEF IInv
<1>3. Linked(nodes, n, AddressIn(e, n), m) /\ SharedPrefix(e, m, nodes[m].prefix) = nodes[m].prefix
  BY <1>1, AtContent DEF Address, PrefixIncluded
<1> HIDE DEF m, e, n
<1>4. m \in LiveNodes(nodes) /\ On(m, Key[e])
  BY <1>2, <1>3, TreeWalk
<1>5. ControlInv'
  BY <1>1 DEF IInv, ControlInv, Done, Bulk, poolVars
<1>6. WalkInv' /\ SwapInv'
  BY <1>1, <1>2, <1>3, <1>4 DEF WalkInv, SwapInv, Entry, m, e, n
<1>7. KeysInv'
  BY <1>1 DEF IInv, KeysInv, Stored
<1>8. PoolProofs!IInv'
  BY <1>1, PoolStays DEF IInv, UsedBuffers
<1> QED BY <1>1, <1>5, <1>6, <1>7, <1>8 DEF IInv

(* SplitPrefix preserves the invariant.                                    *)
LEMMA SplitPrefixInv == ASSUME IInv, SplitPrefix, UNCHANGED work PROVE IInv' /\ Dealt
<1> DEFINE e == Entry
           p == cur
           n == Content.node
           upper == NewId(SplitPath(nodes, n, e), DOMAIN nodes)
           copy == NewId(Path(n), DOMAIN nodes)
<1>1. /\ pc = "visit" /\ Content.kind = "subnode" /\ ~PrefixIncluded
      /\ nodes' = [Split(nodes, n, p, e, upper, copy) EXCEPT ![n].removed = TRUE]
      /\ buffer' = BuffersMoved(buffer, nodes[n], copy)
      /\ Inserted /\ UNCHANGED <<root, poolVars, slot>>
  BY DEF SplitPrefix
<1>2. e \in Entries /\ p \in LiveNodes(nodes) /\ On(p, Key[e]) /\ TreeInv(nodes, buffer)
  BY <1>1, AtEntry DEF IInv
<1>3. Linked(nodes, p, AddressIn(e, p), n) /\ SharedPrefix(e, n, nodes[n].prefix) # nodes[n].prefix
  BY <1>1, AtContent DEF Address, PrefixIncluded
<1>5. upper = NewId(SplitPath(nodes, n, e), DOMAIN nodes) /\ copy = NewId(Path(n), DOMAIN nodes)
  OBVIOUS
<1> HIDE DEF e, p, n, upper, copy
<1>6. /\ TreeInv(nodes', buffer') /\ ~AtTop(n) /\ LiveNodes(nodes) \ {n} \subseteq LiveNodes(nodes')
      /\ StoredIn(nodes', buffer') = StoredIn(nodes, buffer) \cup {e}
  BY <1>1, <1>2, <1>3, <1>5, SplitHeld
<1>7. root' \in LiveNodes(nodes') /\ AtTop(root')
  BY <1>1, <1>6 DEF IInv
<1>8. UsedBuffers' = UsedBuffers
  <2>1. n \in LiveNodes(nodes)
    BY <1>2, <1>3, TreeWalk
  <2>2. \A s \in Slots : buffer'[s].node = None <=> buffer[s].node = None
    BY <1>1, <1>2, <1>5, <2>1, MovedUsed
  <2> QED BY <2>2 DEF UsedBuffers
<1>9. PoolProofs!IInv'
  BY <1>1, <1>8, PoolStays DEF IInv
<1>10. Dealt
  BY <1>6 DEF Dealt, Stored, e
<1>11. slot' = -1 /\ (~Bulk => inUse' = {})
  BY <1>1 DEF IInv, ControlInv, poolVars
<1> QED BY <1>1, <1>6, <1>7, <1>9, <1>10, <1>11, DealtInv

(* InsertSuffix preserves the invariant.                                   *)
LEMMA InsertSuffixInv == ASSUME IInv, InsertSuffix, UNCHANGED work PROVE IInv' /\ Dealt
<1> DEFINE e == Entry
           n == cur
           a == Address
<1>1. /\ pc = "visit" /\ Content.kind = "empty" /\ ~IsFull(nodes[n])
      /\ nodes' = [nodes EXCEPT ![n].cont[a] = Suffix(e)]
      /\ Inserted /\ UNCHANGED <<root, poolVars, buffer, slot>>
  BY DEF InsertSuffix
<1>2. /\ e \in Entries /\ n \in LiveNodes(nodes) /\ a \in HCAddresses /\ Leads(n, a, Key[e])
      /\ TreeInv(nodes, buffer)
  BY <1>1, AtEntry DEF IInv
<1>3. nodes[n].cont[a] = Empty
  BY <1>1, AtContent
<1>4. /\ TreeInv(nodes', buffer) /\ LiveNodes(nodes') = LiveNodes(nodes)
      /\ StoredIn(nodes', buffer) = StoredIn(nodes, buffer) \cup {e}
  <2>1. nodes' = Having(nodes, n, a, Suffix(e)) /\ ~IsFull(nodes[n])
    BY <1>1 DEF Having
  <2> HIDE DEF e, n, a
  <2> QED BY <1>2, <1>3, <2>1, SuffixHeld
<1>5. buffer' = buffer /\ root' \in LiveNodes(nodes') /\ AtTop(root')
  BY <1>1, <1>4 DEF IInv
<1>6. PoolProofs!IInv'
  BY <1>1, PoolStays DEF IInv, UsedBuffers
<1>7. Dealt
  BY <1>4, <1>5 DEF Dealt, Stored
<1>8. slot' = -1 /\ (~Bulk => inUse' = {}) /\ TreeInv(nodes', buffer')
  BY <1>1, <1>4, <1>5 DEF IInv, ControlInv, poolVars
<1> QED BY <1>1, <1>5, <1>6, <1>7, <1>8, DealtInv

(* CreateSubnode preserves the invariant.                                  *)
LEMMA CreateSubnodeInv == ASSUME IInv, CreateSubnode, UNCHANGED work PROVE IInv' /\ Dealt
<1> DEFINE e == Entry
           n == cur
           a == Address
           f == Content.entry
<1>1. /\ pc = "visit" /\ Content.kind = "suffix" /\ ~Bulk
      /\ nodes' = IF SameKey THEN nodes
                  ELSE Flushed(nodes, {[node |-> n, addr |-> a, rows |-> <<f, e>>]})
      /\ Inserted /\ UNCHANGED <<root, poolVars, buffer, slot>>
  BY DEF CreateSubnode
<1>2. /\ e \in Entries /\ n \in LiveNodes(nodes) /\ a \in HCAddresses /\ Leads(n, a, Key[e])
      /\ TreeInv(nodes, buffer)
  BY <1>1, AtEntry DEF IInv
<1>3. nodes[n].cont[a] = Suffix(f) /\ f \in Stored
  BY <1>1, AtContent
<1>4. buffer' = buffer /\ root' = root /\ slot' = -1 /\ (~Bulk => inUse' = {})
  BY <1>1 DEF IInv, ControlInv, poolVars
<1>5. PoolProofs!IInv'
  BY <1>1, PoolStays DEF IInv, UsedBuffers
<1>6. CASE SameKey
  <2>1. nodes' = nodes
    BY <1>1, <1>6
  <2>2. Dealt
    BY <1>3, <1>4, <1>6, <2>1 DEF Dealt, Stored, SameKey
  <2>3. TreeInv(nodes', buffer') /\ root' \in LiveNodes(nodes') /\ AtTop(root')
    BY <1>4, <2>1 DEF IInv
  <2> QED BY <1>1, <1>4, <1>5, <2>2, <2>3, DealtInv
<1>7. CASE ~SameKey
  <2>1. \A s \in Slots : buffer[s].node = None
    BY <1>1, UsedHeld DEF IInv, ControlInv, UsedBuffers
  <2>2. Key[f] # Key[e] /\ nodes' = Joined(nodes, n, a, f, e)
    BY <1>1, <1>7 DEF SameKey, Joined
  <2> HIDE DEF e, n, a, f
  <2>3. /\ TreeInv(nodes', buffer) /\ LiveNodes(nodes) \subseteq LiveNodes(nodes')
        /\ StoredIn(nodes', buffer) = StoredIn(nodes, buffer) \cup {e}
    BY <1>2, <1>3, <2>1, <2>2, SubnodeHeld
  <2>4. TreeInv(nodes', buffer') /\ root' \in LiveNodes(nodes') /\ AtTop(root')
    BY <1>4, <2>3 DEF IInv
  <2>5. Dealt
    BY <1>4, <2>3 DEF Dealt, Stored, e
  <2> QED BY <1>1, <1>4, <1>5, <2>4, <2>5, DealtInv
<1> QED BY <1>6, <1>7

(* AllocateBuffer preserves the invariant.                                 *)
LEMMA AllocateBufferInv == ASSUME IInv, AllocateBuffer, UNCHANGED work PROVE IInv'
<1>1. /\ pc = "visit" /\ Content.kind = "suffix" /\ Bulk /\ Pool!Allocate
      /\ slot' = headIndex /\ pc' = "swap" /\ work' = work
      /\ UNCHANGED <<nodes, root, buffer, pos, cur, last>>
  BY DEF AllocateBuffer
<1>2. PoolProofs!IInv' /\ headIndex \in Slots \ inUse /\ inUse' = inUse \cup {headIndex}
  BY <1>1, TakeBuffer DEF IInv
<1>3. buffer[headIndex].node = None
  BY <1>2, UsedHeld DEF IInv, UsedBuffers
<1>4. ControlInv'
  BY <1>1, <1>2 DEF IInv, ControlInv, Done, Bulk
<1>5. WalkInv'
  BY <1>1 DEF IInv, WalkInv, Entry
<1>6. SwapInv'
  <2>1. Content'.kind = "suffix"
    BY <1>1 DEF Content, Address, Entry
  <2> QED BY <1>1, <1>2, <1>3, <2>1 DEF SwapInv, Bulk
<1>7. KeysInv'
  BY <1>1 DEF IInv, KeysInv, Stored
<1> QED BY <1>1, <1>2, <1>4, <1>5, <1>6, <1>7 DEF IInv

(* SwapSuffix preserves the invariant.                                     *)
LEMMA SwapSuffixInv == ASSUME IInv, SwapSuffix, UNCHANGED work PROVE IInv' /\ Dealt
<1> DEFINE e == Entry
           n == cur
           a == Address
           f == Content.entry
           s == slot
<1>1. /\ pc = "swap" /\ slot' = -1 /\ Inserted
      /\ UNCHANGED <<root, headIndex, nInitialized, nFree, inUse>>
  BY DEF SwapSuffix
<1>2. Bulk /\ s \in inUse /\ buffer[s].node = None /\ Content.kind = "suffix" /\ inUse \subseteq Slots
  BY <1>1, UsedHeld DEF IInv, SwapInv
<1>3. /\ e \in Entries /\ n \in LiveNodes(nodes) /\ a \in HCAddresses /\ Leads(n, a, Key[e])
      /\ TreeInv(nodes, buffer) /\ DOMAIN buffer = Slots /\ n # None
  BY <1>1, AtEntry, TreeFacts DEF IInv
<1>4. nodes[n].cont[a] = Suffix(f) /\ f \in Stored
  BY <1>1, <1>2, AtContent
<1>5. CASE SameKey
  <2>1. UNCHANGED <<nodes, nextIndex, buffer>>
    BY <1>5 DEF SwapSuffix
  <2>2. Dealt
    BY <1>4, <1>5, <2>1 DEF Dealt, Stored, SameKey
  <2>3. TreeInv(nodes', buffer') /\ root' \in LiveNodes(nodes') /\ AtTop(root')
    BY <1>1, <2>1 DEF IInv
  <2>4. PoolProofs!IInv'
    BY <1>1, <2>1, PoolStays DEF IInv, UsedBuffers, poolVars
  <2> QED BY <1>1, <1>2, <2>2, <2>3, <2>4, DealtInv
<1>6. CASE ~SameKey
  <2>1. /\ buffer' = Filled(buffer, s, n, a, f, e) /\ nodes' = Having(nodes, n, a, Buf(s))
        /\ nextIndex' = [nextIndex EXCEPT ![s] = 2]
    BY <1>6 DEF SwapSuffix, Filled, Having
  <2>2. Key[f] # Key[e] /\ s \in Slots
    BY <1>2, <1>6 DEF SameKey
  <2>3. UsedBuffers' \subseteq UsedBuffers \cup {s}
    BY <1>3, <2>1 DEF UsedBuffers, Filled
  <2>4. PoolProofs!IInv'
    <3>1. 2 \in Int /\ s \in inUse
      BY <1>2
    <3> QED BY <1>1, <2>1, <2>3, <3>1, CountChanged DEF IInv
  <2> HIDE DEF e, n, a, f, s
  <2>5. /\ TreeInv(nodes', buffer') /\ LiveNodes(nodes') = LiveNodes(nodes)
        /\ StoredIn(nodes', buffer') = StoredIn(nodes, buffer) \cup {e}
    BY <1>2, <1>3, <1>4, <2>1, <2>2, SwapHeld
  <2>6. root' \in LiveNodes(nodes') /\ AtTop(root')
    BY <1>1, <2>5 DEF IInv
  <2>7. Dealt
    BY <2>5 DEF Dealt, Stored, e
  <2> QED BY <1>1, <1>2, <2>4, <2>5, <2>6, <2>7, DealtInv
<1> QED BY <1>5, <1>6

(* InsertIntoBuffer preserves the invariant.                               *)
LEMMA InsertIntoBufferInv == ASSUME IInv, InsertIntoBuffer, UNCHANGED work PROVE IInv' /\ Dealt
<1> DEFINE e == Entry
           n == cur
           a == Address
           s == Content.slot
           more == Rowed(buffer, s, e)
<1>1. /\ pc = "visit" /\ Content.kind = "buffer"
      /\ nodes' = Flushed(nodes, {[buffer[s] EXCEPT !.rows = Append(@, e)]})
      /\ buffer' = [buffer EXCEPT ![s] = Cleared]
      /\ Pool!Deallocate(s) /\ Inserted /\ UNCHANGED <<root, slot>>
  BY DEF InsertIntoBuffer
<1>2. /\ e \in Entries /\ n \in LiveNodes(nodes) /\ a \in HCAddresses /\ Leads(n, a, Key[e])
      /\ TreeInv(nodes, buffer) /\ DOMAIN buffer = Slots /\ n # None
  BY <1>1, AtEntry, TreeFacts DEF IInv
<1>3. s \in Slots /\ buffer[s].node = n /\ buffer[s].addr = a
  BY <1>1, AtContent
<1>4. buffer'[s] = Cleared /\ DOMAIN buffer' = Slots /\ \A r \in Slots \ {s} : buffer'[r] = buffer[r]
  BY <1>1, <1>2, <1>3
<1>5. nodes' = Flushed(nodes, {[buffer[s] EXCEPT !.rows = Append(@, e)]})
  BY <1>1
<1> HIDE DEF e, n, a, s, more
<1>6. more[s] = [buffer[s] EXCEPT !.rows = Append(@, e)]
  BY <1>2, <1>3 DEF more, Rowed
<1>7. /\ TreeInv(nodes, more) /\ DOMAIN more = Slots /\ more[s].node = n
      /\ \A r \in Slots \ {s} : more[r] = buffer[r]
      /\ \/ StoredIn(nodes, more) = StoredIn(nodes, buffer) \cup {e}
         \/ StoredIn(nodes, more) = StoredIn(nodes, buffer)
      /\ \E f \in StoredIn(nodes, more) : Key[f] = Key[e]
  BY <1>2, <1>3, RowHeld DEF more
<1>8. /\ TreeInv(nodes', buffer') /\ StoredIn(nodes', buffer') = StoredIn(nodes, more)
      /\ LiveNodes(nodes) \subseteq LiveNodes(nodes')
  <2> DEFINE S == {s}
  <2>1. S \in SUBSET Slots /\ \A r \in S : more[r].node # None
    BY <1>2, <1>3, <1>7
  <2>2. \A r \in Slots : buffer'[r] = IF r \in S THEN Cleared ELSE more[r]
    BY <1>4, <1>7
  <2>3. Picked(more, S) = {more[s]}
    BY DEF Picked
  <2>4. nodes' = Flushed(nodes, Picked(more, S))
    BY <1>5, <1>6, <2>3
  <2> HIDE DEF S
  <2> QED BY <1>4, <1>7, <2>1, <2>2, <2>4, FlushSome
<1>9. UsedBuffers' = UsedBuffers \ {s}
  BY <1>3, <1>4, ClearedIs DEF UsedBuffers
<1>10. PoolProofs!IInv' /\ inUse' = inUse \ {s}
  BY <1>1, <1>3, <1>9, GiveBack DEF IInv, s
<1>11. root' \in LiveNodes(nodes') /\ AtTop(root') /\ slot' = -1 /\ (~Bulk => inUse' = {})
  BY <1>1, <1>8, <1>10 DEF IInv, ControlInv
<1>12. Dealt
  BY <1>7, <1>8 DEF Dealt, Stored, e
<1> QED BY <1>1, <1>8, <1>10, <1>11, <1>12, DealtInv

(* EnlargeNode preserves the invariant.                                    *)
LEMMA EnlargeNodeInv == ASSUME IInv, EnlargeNode, UNCHANGED work PROVE IInv' /\ Dealt
<1> DEFINE e == Entry
           n == cur
           a == Address
           new == NewId(Path(n), DOMAIN nodes)
           all == Replacing(new)
<1>1. /\ pc = "visit" /\ Content.kind = "empty" /\ IsFull(nodes[n])
      /\ nodes' = [k \in DOMAIN all \ {n} |-> all[k]]
      /\ buffer' = BuffersMoved(buffer, nodes[n], new)
      /\ root' = IF last = None THEN new ELSE root
      /\ Inserted /\ UNCHANGED <<poolVars, slot>>
  BY DEF EnlargeNode
<1>2. /\ e \in Entries /\ n \in LiveNodes(nodes) /\ a \in HCAddresses /\ On(n, Key[e])
      /\ TreeInv(nodes, buffer) /\ a = AddressIn(e, n)
  BY <1>1, AtEntry DEF IInv, Address
<1>3. nodes[n].cont[a] = Empty
  BY <1>1, AtContent
<1>4. UsedBuffers' = UsedBuffers
  <2>1. \A s \in Slots : buffer'[s].node = None <=> buffer[s].node = None
    <3>1. buffer' = BuffersMoved(buffer, nodes[n], new) /\ new = NewId(Path(n), DOMAIN nodes)
      BY <1>1
    <3> HIDE DEF new, n
    <3> QED BY <1>2, <3>1, MovedUsed
  <2> QED BY <2>1 DEF UsedBuffers
<1>5. PoolProofs!IInv'
  BY <1>1, <1>4, PoolStays DEF IInv
<1>6. slot' = -1 /\ (~Bulk => inUse' = {})
  BY <1>1 DEF IInv, ControlInv, poolVars
<1>7. /\ TreeInv(nodes', buffer') /\ root' \in LiveNodes(nodes') /\ AtTop(root')
      /\ StoredIn(nodes', buffer') = StoredIn(nodes, buffer) \cup {e}
  <2>1. CASE last = None
    <3> DEFINE top == WithNode(nodes, new, LargerCopy(nodes[n], a, e))
    <3>1. all = top
      BY <2>1 DEF Replacing
    <3>2. nodes' = [k \in DOMAIN top \ {n} |-> top[k]]
      BY <1>1, <3>1
    <3>3. AtTop(n) /\ root' = new
      BY <1>1, <2>1 DEF IInv, WalkInv
    <3>4. /\ buffer' = BuffersMoved(buffer, nodes[n], new) /\ new = NewId(Path(n), DOMAIN nodes)
          /\ top = WithNode(nodes, new, LargerCopy(nodes[n], a, e)) /\ IsFull(nodes[n])
      BY <1>1
    <3> HIDE DEF e, n, a, new, top
    <3>5. /\ TreeInv(nodes', buffer') /\ new \in LiveNodes(nodes') /\ AtTop(new)
          /\ StoredIn(nodes', buffer') = StoredIn(nodes, buffer) \cup {e}
      BY <1>2, <1>3, <3>2, <3>3, <3>4, EnlargeTopHeld
    <3> QED BY <3>3, <3>5
  <2>2. CASE last # None
    <3> DEFINE p == last
               pa == AddressIn(e, p)
    <3>1. p \in LiveNodes(nodes) /\ On(p, Key[e]) /\ Linked(nodes, p, pa, n)
      BY <1>1, <2>2 DEF IInv, WalkInv
    <3>2. pa \in HCAddresses
      BY <1>2, <3>1, TreeWalk
    <3>3. nodes' = Enlarged(nodes, n, p, pa, new, a, e)
      BY <1>1, <2>2 DEF Replacing, Enlarged
    <3>4. buffer' = BuffersMoved(buffer, nodes[n], new) /\ new = NewId(Path(n), DOMAIN nodes) /\ IsFull(nodes[n])
      BY <1>1
    <3> HIDE DEF e, n, a, new, p, pa
    <3>5. /\ TreeInv(nodes', buffer') /\ ~AtTop(n) /\ LiveNodes(nodes) \ {n} \subseteq LiveNodes(nodes')
          /\ StoredIn(nodes', buffer') = StoredIn(nodes, buffer) \cup {e}
      BY <1>2, <1>3, <3>1, <3>2, <3>3, <3>4, EnlargeHeld
    <3>6. root' = root
      BY <1>1, <2>2
    <3> QED BY <3>5, <3>6 DEF IInv
  <2> QED BY <2>1, <2>2
<1>8. Dealt
  BY <1>7 DEF Dealt, Stored
<1> QED BY <1>1, <1>5, <1>6, <1>7, <1>8, DealtInv

(* A full deallocation flushes the buffers in use and leaves everything    *)
(* else as it is.                                                          *)
LEMMA FlushAllKeeps ==
  ASSUME IInv, FlushAll
  PROVE  /\ TreeInv(nodes', buffer') /\ Stored' = Stored /\ inUse' = {} /\ PoolProofs!IInv'
         /\ LiveNodes(nodes) \subseteq LiveNodes(nodes')
         /\ \A n \in LiveNodes(nodes), a \in HCAddresses : \A m :
              Linked(nodes, n, a, m) => Linked(nodes', n, a, m)
<1>1. /\ \A s \in inUse : buffer[s].node # None
      /\ nodes' = Flushed(nodes, Picked(buffer, inUse))
      /\ buffer' = [s \in Slots |-> Cleared] /\ Pool!FullDeallocate
  BY DEF FlushAll, Picked
<1>2. UsedBuffers \subseteq inUse /\ inUse \subseteq Slots
  BY UsedHeld DEF IInv
<1>3. TreeInv(nodes, buffer) /\ \A s \in Slots : buffer[s].node = None => buffer[s] = Cleared
  BY TreeFacts DEF IInv
<1>4. DOMAIN buffer' = Slots /\ \A s \in Slots : buffer'[s] = IF s \in inUse THEN Cleared ELSE buffer[s]
  BY <1>1, <1>2, <1>3 DEF UsedBuffers
<1>5. /\ TreeInv(nodes', buffer') /\ StoredIn(nodes', buffer') = StoredIn(nodes, buffer)
      /\ LiveNodes(nodes) \subseteq LiveNodes(nodes')
      /\ \A n \in LiveNodes(nodes), a \in HCAddresses : \A m :
           Linked(nodes, n, a, m) => Linked(nodes', n, a, m)
  BY <1>1, <1>2, <1>3, <1>4, FlushSome
<1>6. UsedBuffers' = {}
  BY <1>1, ClearedIs DEF UsedBuffers
<1>7. PoolProofs!IInv' /\ inUse' = {}
  BY <1>1, <1>6, AllGivenBack DEF IInv
<1> QED BY <1>5, <1>7 DEF Stored

(* Drain preserves the invariant.                                          *)
LEMMA DrainInv == ASSUME IInv, Drain, UNCHANGED work PROVE IInv' /\ Stored' = Stored
<1>1. /\ pc = "visit" /\ Bulk /\ FlushAll /\ work' = work
      /\ UNCHANGED <<root, pos, pc, cur, last, slot>>
  BY DEF Drain
<1>2. /\ TreeInv(nodes', buffer') /\ Stored' = Stored /\ inUse' = {} /\ PoolProofs!IInv'
      /\ LiveNodes(nodes) \subseteq LiveNodes(nodes')
      /\ \A n \in LiveNodes(nodes), a \in HCAddresses : \A m :
           Linked(nodes, n, a, m) => Linked(nodes', n, a, m)
  BY <1>1, FlushAllKeeps
<1>3. ControlInv'
  BY <1>1, <1>2 DEF IInv, ControlInv, Done, Bulk
<1>4. WalkInv'
  <2>1. Entry' = Entry /\ Entry \in Entries
    BY <1>1, AtEntry DEF Entry
  <2>2. WalkInv /\ TreeInv(nodes, buffer)
    BY DEF IInv
  <2>3. ASSUME last # None
        PROVE  Linked(nodes', last, AddressIn(Entry, last), cur)
    <3> DEFINE e == Entry
               a == AddressIn(e, last)
    <3>1. last \in LiveNodes(nodes) /\ On(last, Key[e]) /\ Linked(nodes, last, a, cur)
      BY <1>1, <2>2, <2>3 DEF WalkInv
    <3>2. a \in HCAddresses
      <4> HIDE DEF e
      <4> QED BY <2>1, <2>2, <3>1, TreeWalk DEF e
    <3> QED BY <1>2, <3>1, <3>2
  <2>4. /\ cur \in LiveNodes(nodes') /\ On(cur, Key[Entry])
        /\ last = None => cur = root
        /\ last # None => last \in LiveNodes(nodes') /\ On(last, Key[Entry])
    BY <1>1, <1>2, <2>2 DEF WalkInv
  <2> QED BY <1>1, <2>1, <2>3, <2>4 DEF WalkInv
<1>5. SwapInv'
  BY <1>1 DEF SwapInv
<1>6. KeysInv'
  BY <1>1, <1>2 DEF IInv, KeysInv
<1>7. root' \in LiveNodes(nodes') /\ AtTop(root')
  BY <1>1, <1>2 DEF IInv
<1> QED BY <1>2, <1>3, <1>4, <1>5, <1>6, <1>7 DEF IInv

(* The end of insert preserves the invariant.                              *)
LEMMA FinishInsertInv == ASSUME IInv, FinishInsert, UNCHANGED work PROVE IInv'
<1>1. /\ pc = "next" /\ Done /\ ~Bulk /\ pc' = "finished" /\ work' = work
      /\ UNCHANGED <<nodes, root, poolVars, buffer, pos, cur, last, slot>>
  BY DEF FinishInsert
<1>2. ControlInv'
  BY <1>1 DEF IInv, ControlInv, Done, Bulk, poolVars
<1>3. WalkInv' /\ SwapInv'
  BY <1>1 DEF WalkInv, SwapInv
<1>4. KeysInv'
  BY <1>1 DEF IInv, KeysInv, Stored
<1>5. PoolProofs!IInv'
  BY <1>1, PoolStays DEF IInv, UsedBuffers
<1> QED BY <1>1, <1>2, <1>3, <1>4, <1>5 DEF IInv

(* The end of bulkInsert preserves the invariant.                          *)
LEMMA FinishBulkInv == ASSUME IInv, FinishBulk, UNCHANGED work PROVE IInv' /\ Stored' = Stored
<1>1. /\ pc = "next" /\ Done /\ Bulk /\ FlushAll /\ pc' = "finished" /\ work' = work
      /\ UNCHANGED <<root, pos, cur, last, slot>>
  BY DEF FinishBulk
<1>2. /\ TreeInv(nodes', buffer') /\ Stored' = Stored /\ inUse' = {} /\ PoolProofs!IInv'
      /\ LiveNodes(nodes) \subseteq LiveNodes(nodes')
  BY <1>1, FlushAllKeeps
<1>3. ControlInv'
  BY <1>1, <1>2 DEF IInv, ControlInv, Done, Bulk
<1>4. WalkInv' /\ SwapInv'
  BY <1>1 DEF WalkInv, SwapInv
<1>5. KeysInv'
  BY <1>1, <1>2 DEF IInv, KeysInv
<1>6. root' \in LiveNodes(nodes') /\ AtTop(root')
  BY <1>1, <1>2 DEF IInv
<1> QED BY <1>2, <1>3, <1>4, <1>5, <1>6 DEF IInv

(* A stuttering step preserves the invariant.                              *)
LEMMA StutterInv == ASSUME IInv, UNCHANGED vars PROVE IInv'
<1>1. UNCHANGED <<work, nodes, root, poolVars, buffer, pos, pc, cur, last, slot>>
  BY DEF vars
<1>2. PoolProofs!IInv'
  BY <1>1, PoolStays DEF IInv, UsedBuffers
<1>3. ControlInv'
  BY <1>1 DEF IInv, ControlInv, Done, Bulk, poolVars
<1>4. WalkInv' /\ SwapInv' /\ KeysInv'
  BY <1>1 DEF IInv, WalkInv, SwapInv, KeysInv, Stored, Entry, Bulk, Content, Address, poolVars
<1> QED BY <1>1, <1>2, <1>3, <1>4 DEF IInv

(* The tree is empty at the start.                                         *)
LEMMA InitTree ==
  ASSUME Init
  PROVE  TreeInv(nodes, buffer) /\ Stored = {} /\ root \in LiveNodes(nodes) /\ AtTop(root)
<1>1. /\ nodes = [n \in {Root} |-> [BuildNode(0, [a \in HCAddresses |-> Empty]) EXCEPT !.max = NodeCapacity(1)]]
      /\ root = Root /\ buffer = [s \in Slots |-> Cleared]
  BY DEF Init
<1>2. NodeCapacity(1) \in Nat
  <2>1. 1 \in Nat /\ 1 <= 2^DIM
    BY PowerAssumption
  <2> QED BY <2>1, CapacitySuffices
<1> DEFINE room == NodeCapacity(1)
<1>3. room \in Nat /\ nodes = [n \in {Root} |-> [BuildNode(0, [a \in HCAddresses |-> Empty]) EXCEPT !.max = room]]
  BY <1>1, <1>2
<1> HIDE DEF room
<1>4. /\ Sound(nodes, Slots) /\ DOMAIN nodes = {Root} /\ LiveNodes(nodes) = {Root} /\ AtTop(Root)
      /\ \A a \in HCAddresses : nodes[Root].cont[a] = Empty
  BY <1>3, RootSound
<1>5. Shadow(nodes, nodes)
  BY <1>4, FieldsNamed DEF Shadow, Sound, NodesTyped
<1>6. /\ DOMAIN buffer = Slots
      /\ \A s \in Slots : buffer[s] = Cleared /\ buffer[s].node = None /\ buffer[s].rows = <<>>
                          /\ DOMAIN buffer[s] = Fields
  BY <1>1, ClearedIs
<1>7. Hung(nodes, buffer, Slots, Fields)
  <2>1. \A n \in LiveNodes(nodes), a \in HCAddresses : \A s : nodes[n].cont[a] # Buf(s)
    BY <1>4, SubNotEmpty
  <2> QED BY <1>6, <2>1, ClearedIs DEF Hung
<1>8. Held(nodes, buffer)
  BY <1>4, <1>6, <1>7 DEF Held, BuffersLie
<1>9. TreeInv(nodes, buffer)
  BY <1>5, <1>8 DEF TreeInv
<1>10. \A f : f \notin SuffixEntries(nodes)
  BY <1>4, SuffixEntriesAre, SubNotEmpty DEF Sound
<1>11. \A f : f \notin StoredIn(nodes, buffer)
  BY <1>6, <1>10, FewRows, StoredIs
<1> QED BY <1>1, <1>4, <1>9, <1>11 DEF Stored

(* The invariant holds at the start.                                       *)
LEMMA InitIInv == Init => IInv
<1> SUFFICES ASSUME Init PROVE IInv
  OBVIOUS
<1>1. TreeInv(nodes, buffer) /\ Stored = {} /\ root \in LiveNodes(nodes) /\ AtTop(root)
  BY InitTree
<1>2. UsedBuffers = {}
  BY ClearedIs DEF Init, UsedBuffers
<1>3. PoolProofs!IInv /\ inUse = {}
  BY <1>2, PoolStarts DEF Init
<1>4. /\ work \in Workloads /\ pos = 1 /\ pc = "next" /\ slot = -1
  BY DEF Init
<1>5. Len(work[2]) \in Nat
  BY <1>4, WorkAssumption
<1>6. ControlInv /\ WalkInv /\ SwapInv
  BY <1>3, <1>4, <1>5 DEF ControlInv, WalkInv, SwapInv
<1>7. KeysInv
  BY <1>1, <1>4 DEF KeysInv
<1> QED BY <1>1, <1>3, <1>6, <1>7 DEF IInv

(* Every step preserves the invariant; it stores its entry, unless its key *)
(* was stored already, or nothing.                                         *)
LEMMA StepInv ==
  ASSUME IInv, Step, UNCHANGED work
  PROVE  IInv' /\ (Stored' = Stored \/ (Dealt /\ pc \in {"visit", "swap"}))
<1>1. CASE NextEntry
  <2>1. Stored' = Stored
    BY <1>1 DEF NextEntry, Stored
  <2>2. IInv'
    BY <1>1, NextEntryInv
  <2> QED BY <2>1, <2>2
<1>2. CASE Descend
  <2>1. Stored' = Stored
    BY <1>2 DEF Descend, Stored
  <2>2. IInv'
    BY <1>2, DescendInv
  <2> QED BY <2>1, <2>2
<1>3. CASE SplitPrefix
  <2>1. pc \in {"visit", "swap"}
    BY <1>3 DEF SplitPrefix
  <2>2. IInv' /\ Dealt
    BY <1>3, SplitPrefixInv
  <2> QED BY <2>1, <2>2
<1>4. CASE CreateSubnode
  <2>1. pc \in {"visit", "swap"}
    BY <1>4 DEF CreateSubnode
  <2>2. IInv' /\ Dealt
    BY <1>4, CreateSubnodeInv
  <2> QED BY <2>1, <2>2
<1>5. CASE AllocateBuffer
  <2>1. Stored' = Stored
    BY <1>5 DEF AllocateBuffer, Stored
  <2>2. IInv'
    BY <1>5, AllocateBufferInv
  <2> QED BY <2>1, <2>2
<1>6. CASE SwapSuffix
  <2>1. pc \in {"visit", "swap"}
    BY <1>6 DEF SwapSuffix
  <2>2. IInv' /\ Dealt
    BY <1>6, SwapSuffixInv
  <2> QED BY <2>1, <2>2
<1>7. CASE InsertIntoBuffer
  <2>1. pc \in {"visit", "swap"}
    BY <1>7 DEF InsertIntoBuffer
  <2>2. IInv' /\ Dealt
    BY <1>7, InsertIntoBufferInv
  <2> QED BY <2>1, <2>2
<1>8. CASE InsertSuffix
  <2>1. pc \in {"visit", "swap"}
    BY <1>8 DEF InsertSuffix
  <2>2. IInv' /\ Dealt
    BY <1>8, InsertSuffixInv
  <2> QED BY <2>1, <2>2
<1>9. CASE EnlargeNode
  <2>1. pc \in {"visit", "swap"}
    BY <1>9 DEF EnlargeNode
  <2>2. IInv' /\ Dealt
    BY <1>9, EnlargeNodeInv
  <2> QED BY <2>1, <2>2
<1>10. CASE Drain
  <2>1. IInv' /\ Stored' = Stored
    BY <1>10, DrainInv
  <2> QED BY <2>1
<1>11. CASE FinishInsert
  <2>1. Stored' = Stored
    BY <1>11 DEF FinishInsert, Stored
  <2>2. IInv'
    BY <1>11, FinishInsertInv
  <2> QED BY <2>1, <2>2
<1>12. CASE FinishBulk
  <2>1. IInv' /\ Stored' = Stored
    BY <1>12, FinishBulkInv
  <2> QED BY <2>1
<1> QED BY <1>1, <1>2, <1>3, <1>4, <1>5, <1>6, <1>7, <1>8, <1>9, <1>10, <1>11, <1>12 DEF Step

(* What holds after every step of the loop.                                *)
THEOREM Inductive == Spec => []IInv
<1>1. IInv /\ [Next]_vars => IInv'
  <2> SUFFICES ASSUME IInv, [Next]_vars PROVE IInv'
    OBVIOUS
  <2>1. CASE Step /\ UNCHANGED work
    BY <2>1, StepInv
  <2>2. CASE UNCHANGED vars
    BY <2>2, StutterInv
  <2> QED BY <2>1, <2>2 DEF Next, Terminated
<1> QED BY <1>1, InitIInv, PTL DEF Spec

-----------------------------------------------------------------------------
(* What the runs check *)

(* A tree in the shadow is a tree. *)
LEMMA ShadowTree ==
  ASSUME NEW G, NEW ns, Shadow(G, ns), NEW r, IsTree(G, r)
  PROVE  IsTree(ns, r)
<1>1. /\ LiveNodes(ns) = LiveNodes(G)
      /\ \A n \in LiveNodes(G) : ns[n].prefix = G[n].prefix /\ ns[n].cont = G[n].cont
                                /\ NContents(ns[n]) = NContents(G[n])
  BY ShadowIs
<1>2. ASSUME NEW m PROVE Parents(ns, m) = Parents(G, m)
  <2>1. \A p \in LiveNodes(G) \X HCAddresses : ns[p[1]].cont[p[2]] = G[p[1]].cont[p[2]]
    BY <1>1
  <2> QED BY <1>1, <2>1 DEF Parents
<1> QED BY <1>1, <1>2 DEF IsTree

(* What a node of the tree is. *)
LEMMA NodeTyped ==
  ASSUME NEW ns, NEW bs, TreeInv(ns, bs), NEW n \in LiveNodes(ns)
  PROVE  /\ ns[n].cont \in [HCAddresses -> {Empty} \cup {Suffix(e) : e \in Entries}
                               \cup {Sub(m) : m \in DOMAIN ns} \cup {Buf(s) : s \in Slots}]
         /\ ns[n].prefix \in 0 .. Len(Path(n))
         /\ NContents(ns[n]) <= ns[n].max
<1>1. PICK G : Shadow(G, ns) /\ Held(G, bs)
  BY DEF TreeInv
<1>2. /\ n \in DOMAIN G /\ DOMAIN G = DOMAIN ns
      /\ ns[n].cont = G[n].cont /\ ns[n].prefix = G[n].prefix /\ ns[n].max = G[n].max
      /\ NContents(ns[n]) = NContents(G[n])
  BY <1>1, ShadowIs DEF Shadow
<1>3. NodesTyped(G, Slots) /\ Room(G)
  BY <1>1 DEF Held, Sound
<1>4. G[n] \in NodeFields(n, DOMAIN ns, Slots)
  BY <1>2, <1>3 DEF NodesTyped
<1>5. G[n].cont \in [HCAddresses -> Holds(DOMAIN ns, Slots)] /\ G[n].prefix \in 0 .. Len(Path(n))
  BY <1>4 DEF NodeFields
<1>6. NContents(G[n]) <= G[n].max
  BY <1>2, <1>3 DEF Room
<1> QED BY <1>2, <1>5, <1>6 DEF Holds

(* The variables have their types. *)
LEMMA Typed == ASSUME IInv PROVE TypeOK
<1>1. TreeInv(nodes, buffer) /\ root \in LiveNodes(nodes) /\ ControlInv /\ WalkInv /\ SwapInv
  BY DEF IInv
<1>2. LiveNodes(nodes) \subseteq DOMAIN nodes
  BY DEF LiveNodes
<1>3. root \in DOMAIN nodes
  BY <1>1, <1>2
<1>4. pos \in 1 .. Len(work[2]) + 1 /\ pc \in {"next", "visit", "swap", "finished"}
  BY <1>1 DEF ControlInv
<1>5. pc \in {"visit", "swap"} => cur \in DOMAIN nodes /\ last \in DOMAIN nodes \cup {None}
  BY <1>1, <1>2 DEF WalkInv
<1>6. slot \in Slots \cup {-1}
  <2>1. inUse \subseteq Slots
    BY UsedHeld DEF IInv
  <2> QED BY <1>1, <1>4, <2>1 DEF ControlInv, SwapInv
<1> DEFINE C == [HCAddresses -> {Empty} \cup {Suffix(e) : e \in Entries}
                  \cup {Sub(m) : m \in DOMAIN nodes} \cup {Buf(s) : s \in Slots}]
<1>7. \A n \in LiveNodes(nodes) :
        nodes[n].cont \in C /\ nodes[n].prefix \in 0 .. Len(Path(n)) /\ NContents(nodes[n]) <= nodes[n].max
  BY <1>1, NodeTyped
<1>8. TypeOK <=>
        /\ root \in DOMAIN nodes
        /\ \A n \in LiveNodes(nodes) :
             nodes[n].cont \in C /\ nodes[n].prefix \in 0 .. Len(Path(n)) /\ NContents(nodes[n]) <= nodes[n].max
        /\ pos \in 1 .. Len(work[2]) + 1
        /\ pc \in {"next", "visit", "swap", "finished"}
        /\ pc \in {"visit", "swap"} => cur \in DOMAIN nodes /\ last \in DOMAIN nodes \cup {None}
        /\ slot \in Slots \cup {-1}
  BY DEF TypeOK
<1> HIDE DEF C
<1> QED BY <1>3, <1>4, <1>5, <1>6, <1>7, <1>8

(* Entries in nodes and in buffers lie where a lookup of their keys leads. *)
LEMMA LiesOnItsWay ==
  ASSUME NEW ns, NEW bs, TreeInv(ns, bs)
  PROVE  AllPlaced(ns, bs)
<1>1. PICK G : Shadow(G, ns) /\ Held(G, bs)
  BY DEF TreeInv
<1>2. /\ Sound(G, Slots) /\ NodesTyped(G, Slots) /\ Hung(G, bs, Slots, Fields) /\ BuffersLie(bs, Slots)
      /\ LiveNodes(ns) = LiveNodes(G) /\ \A n \in LiveNodes(G) : ns[n].cont = G[n].cont
  BY <1>1, ShadowIs DEF Held, Sound
<1>3. ASSUME NEW s \in DOMAIN bs, NEW i \in DOMAIN bs[s].rows
      PROVE  IsPrefix(Append(Path(bs[s].node), bs[s].addr), Key[bs[s].rows[i]])
  <2> DEFINE b == bs[s]
  <2>1. s \in Slots /\ b.node # None
    <3> DEFINE z == <<>>
    <3>1. DOMAIN z = {} /\ z = <<>>
      OBVIOUS
    <3> HIDE DEF z
    <3>2. s \in Slots /\ (b.node = None => b.rows = z)
      BY <1>2, <3>1 DEF Hung
    <3> QED BY <1>3, <3>1, <3>2
  <2>2. b.node \in LiveNodes(G) /\ b.addr \in HCAddresses /\ RowsLie(b)
    BY <1>2, <2>1 DEF Hung, BuffersLie
  <2>3. b.rows \in Seq(Entries) /\ Leads(b.node, b.addr, Key[b.rows[i]])
    BY <2>2 DEF RowsLie
  <2>4. b.rows[i] \in Entries /\ b.node \in NodeIds
    BY <1>2, <2>2, <2>3 DEF LiveNodes, NodesTyped, IdsTyped
  <2> HIDE DEF b
  <2>5. IsPrefix(Append(Path(b.node), b.addr), Key[b.rows[i]])
    BY <2>2, <2>3, <2>4, KeyType, LeadsPrefix
  <2> QED BY <2>5 DEF b
<1>4. ASSUME NEW n \in LiveNodes(ns), NEW a \in HCAddresses, ns[n].cont[a].kind = "suffix"
      PROVE  IsPrefix(Append(Path(n), a), Key[ns[n].cont[a].entry])
  <2>1. n \in LiveNodes(G) /\ ns[n].cont = G[n].cont
    BY <1>2
  <2>2. IsPrefix(Append(Path(n), a), Key[G[n].cont[a].entry])
    BY <1>2, <1>4, <2>1, SoundPlaced
  <2> QED BY <2>1, <2>2
<1> QED BY <1>3, <1>4 DEF AllPlaced

(* A used buffer is referenced from where it says and from nowhere else.   *)
LEMMA HangsOnce ==
  ASSUME NEW ns, NEW bs, TreeInv(ns, bs)
  PROVE  AllAnchored(ns, bs)
<1>1. PICK G : Shadow(G, ns) /\ Held(G, bs)
  BY DEF TreeInv
<1>2. /\ Hung(G, bs, Slots, Fields) /\ NodesTyped(G, Slots) /\ DOMAIN bs = Slots
      /\ LiveNodes(ns) = LiveNodes(G) /\ \A n \in LiveNodes(G) : ns[n].cont = G[n].cont
  BY <1>1, ShadowIs DEF Held, Sound, Hung
<1> SUFFICES ASSUME NEW s \in Slots
             PROVE  {p \in LiveNodes(ns) \X HCAddresses : ns[p[1]].cont[p[2]] = Buf(s)}
                      = IF bs[s].node = None THEN {} ELSE {<<bs[s].node, bs[s].addr>>}
  BY <1>2 DEF AllAnchored
<1>3. ASSUME NEW n \in LiveNodes(ns), NEW a \in HCAddresses, ns[n].cont[a] = Buf(s)
      PROVE  bs[s].node = n /\ bs[s].addr = a /\ n # None
  <2>1. n # None
    BY <1>2, NoneNoNode DEF LiveNodes, NodesTyped, IdsTyped
  <2>2. n \in LiveNodes(G) /\ G[n].cont[a] = Buf(s)
    BY <1>2, <1>3
  <2> QED BY <1>2, <2>1, <2>2 DEF Hung
<1>4. CASE bs[s].node = None
  BY <1>3, <1>4
<1>5. CASE bs[s].node # None
  <2>1. /\ bs[s].node \in LiveNodes(ns) /\ bs[s].addr \in HCAddresses
        /\ ns[bs[s].node].cont[bs[s].addr] = Buf(s)
    BY <1>2, <1>5 DEF Hung
  <2> QED BY <1>3, <1>5, <2>1
<1> QED BY <1>4, <1>5

(* After every step of the loop the tree is one, with every entry on its   *)
(* lookup path and every buffer hung up once.                              *)
THEOREM StaysWellFormed == Spec => []WellFormed
<1>1. IInv => WellFormed
  <2> SUFFICES ASSUME IInv PROVE WellFormed
    OBVIOUS
  <2>1. TreeInv(nodes, buffer) /\ root \in LiveNodes(nodes) /\ AtTop(root)
    BY DEF IInv
  <2>2. PICK G : Shadow(G, nodes) /\ Held(G, buffer)
    BY <2>1 DEF TreeInv
  <2>3. Sound(G, Slots) /\ root \in LiveNodes(G)
    BY <2>1, <2>2, ShadowIs DEF Held
  <2>4. IsTree(G, root)
    BY <2>1, <2>3, SoundTree
  <2>5. IsTree(nodes, root)
    BY <2>2, <2>4, ShadowTree
  <2> QED BY <2>1, <2>5, Typed, LiesOnItsWay, HangsOnce DEF WellFormed
<1> QED BY <1>1, Inductive, PTL

(* Without buffers no node refers to one. *)
LEMMA ClearedTree ==
  ASSUME NEW G, NEW bs, Held(G, bs), \A s \in Slots : bs[s] = Cleared
  PROVE  NoBuffers(G)
<1>1. \A s \in Slots : bs[s].node = None
  BY ClearedIs
<1>2. Hung(G, bs, Slots, Fields) /\ \A n \in LiveNodes(G) : n # None
  BY NoneNoNode DEF Held, Sound, NodesTyped, IdsTyped, LiveNodes
<1> QED BY <1>1, <1>2 DEF NoBuffers, Hung

(* The shape in the shadow is the shape of the tree. *)
LEMMA ShadowCanonical ==
  ASSUME NEW G, NEW ns, Shadow(G, ns), IsCanonical(G)
  PROVE  IsCanonical(ns)
<1>1. LiveNodes(ns) = LiveNodes(G) /\ SuffixEntries(ns) = SuffixEntries(G)
  BY ShadowIs, ShadowStored
<1> QED BY <1>1 DEF IsCanonical

(* When no entry is in a buffer the tree is the one that its entries have, *)
(* however they were inserted: bulkInsert builds the tree of insert.       *)
THEOREM StaysCanonical == Spec => []Canonical
<1>1. IInv => Canonical
  <2> SUFFICES ASSUME IInv, \A s \in Slots : buffer[s] = Cleared PROVE IsCanonical(nodes)
    BY DEF Canonical
  <2>1. PICK G : Shadow(G, nodes) /\ Held(G, buffer)
    BY DEF IInv, TreeInv
  <2>2. NoBuffers(G) /\ Sound(G, Slots)
    BY <2>1, ClearedTree DEF Held
  <2>3. IsCanonical(G)
    BY <2>2, SoundCanonical
  <2> QED BY <2>1, <2>3, ShadowCanonical
<1> QED BY <1>1, Inductive, PTL

(* Cleared buffers hold nothing. *)
LEMMA StoredInNodes ==
  ASSUME NEW ns, NEW bs, DOMAIN bs = Slots, \A s \in Slots : bs[s] = Cleared
  PROVE  StoredIn(ns, bs) = SuffixEntries(ns)
<1>1. \A s \in Slots : DistinctRows(bs[s].rows) = {}
  BY ClearedIs, FewRows
<1>2. \A f : f \in StoredIn(ns, bs) <=> f \in SuffixEntries(ns)
  BY <1>1, StoredIs
<1> QED BY <1>2

(* When the loop ends the nodes hold the keys of the workload, and no      *)
(* other: nothing is left in a buffer and nothing was lost.                *)
THEOREM InsertsAll == Spec => []AllInserted
<1>1. IInv => AllInserted
  <2> SUFFICES ASSUME IInv, pc = "finished"
               PROVE  {Key[work[2][i]] : i \in DOMAIN work[2]} = {Key[e] : e \in SuffixEntries(nodes)}
    BY DEF AllInserted
  <2>1. TreeInv(nodes, buffer) /\ ControlInv /\ KeysInv
    BY DEF IInv
  <2>2. Done /\ inUse = {} /\ pos \in 1 .. Len(work[2]) + 1 /\ work \in Workloads
    BY <2>1 DEF ControlInv
  <2>3. work[2] \in Seq(Entries)
    BY <2>2, WorkAssumption
  <2>4. pos - 1 = Len(work[2]) /\ DOMAIN work[2] = 1 .. Len(work[2])
    BY <2>2, <2>3 DEF Done
  <2>5. UsedBuffers = {}
    BY <2>2, UsedHeld DEF IInv
  <2>6. DOMAIN buffer = Slots /\ \A s \in Slots : buffer[s] = Cleared
    BY <2>1, <2>5, TreeFacts DEF UsedBuffers
  <2>7. Stored = SuffixEntries(nodes)
    BY <2>6, StoredInNodes DEF Stored
  <2>8. DOMAIN work[2] = 1 .. pos - 1
    BY <2>4
  <2> QED BY <2>1, <2>7, <2>8 DEF KeysInv
<1> QED BY <1>1, Inductive, PTL

(* A step adds the entry of the loop under a new key at most.              *)
LEMMA StoreStep ==
  ASSUME IInv, [Next]_vars
  PROVE  \/ Stored' = Stored
         \/ \E e \in Entries : (\A f \in Stored : Key[f] # Key[e]) /\ Stored' = Stored \cup {e}
<1>1. CASE Step /\ UNCHANGED work
  <2>1. IInv'
    BY <1>1, StepInv
  <2>2. Stored' = Stored \/ (Dealt /\ pc \in {"visit", "swap"})
    BY <1>1, StepInv
  <2> DEFINE e == Entry
             ns == nodes'
             bs == buffer'
             S == Stored
  <2> SUFFICES ASSUME pc \in {"visit", "swap"}, Stored' = S \cup {e}
               PROVE  e \in Entries /\ (Stored' = S \/ \A f \in S : Key[f] # Key[e])
    BY <2>2 DEF Dealt
  <2>3. e \in Entries
    BY AtEntry
  <2>4. TreeInv(ns, bs) /\ Stored' = StoredIn(ns, bs)
    BY <2>1 DEF IInv, Stored
  <2> HIDE DEF e, ns, bs, S
  <2>5. PICK G : Shadow(G, ns) /\ Held(G, bs)
    BY <2>4 DEF TreeInv
  <2>6. StoredIn(G, bs) = S \cup {e}
    BY <2>4, <2>5, ShadowStored
  <2>7. Sound(G, Slots) /\ Hung(G, bs, Slots, Fields) /\ BuffersLie(bs, Slots)
    BY <2>5 DEF Held
  <2>8. StoredIn(G, bs) = S \/ \A f \in S : Key[f] # Key[e]
    BY <2>6, <2>7, NewKey
  <2> QED BY <2>3, <2>6, <2>8
<1>2. CASE UNCHANGED vars
  BY <1>2 DEF vars, Stored
<1> QED BY <1>1, <1>2 DEF Next, Terminated

(* The tree with its buffers implements the store of KeyStore.             *)
THEOREM StoreImplemented == Spec => ImplementsStore
<1>1. Init => Store!Init
  BY InitTree DEF Store!Init, Stored
<1>2. IInv /\ [Next]_vars => [Store!Next]_Stored
  <2> SUFFICES ASSUME IInv, [Next]_vars
               PROVE  [Store!Next]_Stored
    OBVIOUS
  <2>1. ASSUME NEW e \in Entries, \A f \in Stored : Key[f] # Key[e], Stored' = Stored \cup {e}
        PROVE  Store!Insert(e)
    BY <2>1 DEF Store!Insert, Store!Keys, Stored
  <2> QED BY <2>1, StoreStep DEF Store!Next
<1> QED BY <1>1, <1>2, Inductive, PTL DEF Spec, ImplementsStore, Store!Spec, Stored
=============================================================================
