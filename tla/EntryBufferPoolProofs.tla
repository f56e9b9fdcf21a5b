------------------------ MODULE EntryBufferPoolProofs ------------------------
(***************************************************************************)
(* Proofs about the buffer pool, for every capacity and every number of    *)
(* threads.  The inductive invariant IInv adds to the properties what the  *)
(* slots beyond nInitialized_ and the chunks still to be flushed look like.*)
(***************************************************************************)
EXTENDS EntryBufferPool, DataLemmas, FiniteSetTheorems, TLAPS

(* Slots allocate has not linked yet are untouched. *)
TailInv == \A i \in Slots : i >= nInitialized => Cleared(i) /\ i \notin inUse

(* During a full deallocation every slot that is in use or not cleared     *)
(* belongs to a chunk still to be done.                                    *)
FlushInv ==
  phase = "flushing" =>
    \A i \in Slots : i \in inUse \/ ~Cleared(i) => \E p \in pending : i \in Chunk(p)

IInv == TypeOK /\ FreeListInv /\ TailInv /\ FlushInv

-----------------------------------------------------------------------------
(* T chunks of c slots cover 0 .. c*T - 1. *)
LEMMA ChunkOf ==
  ASSUME NEW c \in Nat \ {0}, NEW T \in Nat \ {0}, NEW i \in Nat, i < c * T
  PROVE  \E p \in 0 .. T - 1 : c * p <= i /\ i < c * (p + 1)
<1> DEFINE p == i \div c
<1>1. p \in Nat /\ i % c \in 0 .. c - 1 /\ i = c * p + (i % c)
  BY DivMod
<1> HIDE DEF p
<1>2. p < T
  <2>1. SUFFICES ASSUME p >= T PROVE FALSE
    BY <1>1
  <2>2. c * T <= c * p
    BY <2>1, <1>1, MulMonotone
  <2>3. QED BY <2>2, <1>1
<1>3. c * (p + 1) = c * p + c
  BY <1>1, MulSucc
<1>4. c * p <= i /\ i < c * (p + 1)
  BY <1>1, <1>3
<1>5. p \in 0 .. T - 1
  BY <1>1, <1>2
<1>6. QED BY <1>4, <1>5, Zenon

(* Chunks of size 1 + n \div T cover 0 .. n-1 in T parts: no initialised   *)
(* buffer is left out of a full deallocation.                              *)
LEMMA ChunksCover ==
  ASSUME NEW n \in Nat, NEW T \in Nat \ {0}, NEW i \in 0 .. n - 1
  PROVE  \E p \in 0 .. T - 1 :
           (1 + n \div T) * p <= i /\ i < (1 + n \div T) * (p + 1)
<1> DEFINE c == 1 + n \div T
<1>1. n = T * (n \div T) + (n % T) /\ n % T \in 0 .. T - 1 /\ n \div T \in Nat
  BY DivMod
<1>2. c \in Nat \ {0} /\ c * T = T * (n \div T) + T
  BY <1>1
<1>3. i \in Nat /\ i < c * T
  BY <1>1, <1>2
<1>4. T \in Nat \ {0}
  OBVIOUS
<1> HIDE DEF c
<1>5. \E p \in 0 .. T - 1 : c * p <= i /\ i < c * (p + 1)
  BY <1>2, <1>3, <1>4, ChunkOf, Zenon
<1>6. QED BY <1>5 DEF c

-----------------------------------------------------------------------------
(* allocate takes the top of the list. *)
LEMMA AllocateInv == ASSUME IInv, phase = "operating", Allocate,
                            UNCHANGED <<filled, phase, pending>>
                     PROVE  IInv'
<1> USE PoolAssumption
<1> DEFINE n == nInitialized
<1>1. PICK f \in [1 .. nFree -> Slots] : IsFreeList(f)
  BY DEF IInv, FreeListInv
<1> DEFINE h == f[nFree]
           g == [k \in 1 .. nFree - 1 |-> f[k]]
<1>2. /\ nFree \in Nat /\ nFree > 0 /\ nFree <= Capacity
      /\ n \in 0 .. Capacity /\ Capacity - n <= nFree
      /\ nextIndex \in [Slots -> Int]
  BY DEF IInv, TypeOK, FreeListInv, Allocate
<1>3. /\ \A j, k \in 1 .. nFree : f[j] = f[k] => j = k
      /\ \A i \in Slots : i \notin inUse <=> \E k \in 1 .. nFree : f[k] = i
  BY <1>1 DEF IsFreeList
<1>4. \A k \in 1 .. nFree : IF k <= Capacity - n
                              THEN f[k] = Capacity - k
                              ELSE f[k] < n
  BY <1>1 DEF IsFreeList
<1>5. \A k \in 2 .. nFree : k > Capacity - n => nextIndex[f[k]] = f[k - 1]
  BY <1>1 DEF IsFreeList
<1>6. headIndex = h /\ h \in Slots /\ h \notin inUse
  BY <1>1, <1>2, <1>3 DEF IsFreeList
<1>7. /\ nInitialized' = IF n < Capacity THEN n + 1 ELSE n
      /\ nFree' = nFree - 1
      /\ nextIndex' = [Linked EXCEPT ![h] = 0]
      /\ inUse' = inUse \cup {h}
      /\ headIndex' = IF nFree > 1 THEN Linked[h] ELSE None
  BY <1>6 DEF Allocate, NowInitialized
<1>8. /\ Linked \in [Slots -> Int]
      /\ \A i \in Slots : Linked[i] = IF i = n THEN n + 1 ELSE nextIndex[i]
  BY <1>2 DEF Linked, Slots
<1> HIDE DEF h, n
<1>9. h < nInitialized' /\ Capacity - nInitialized' <= nFree'
  BY <1>2, <1>4, <1>6, <1>7 DEF h, Slots
<1>10. nFree > 1 => Linked[h] = f[nFree - 1]
  <2>1. CASE nFree = Capacity - n
    BY <2>1, <1>2, <1>4, <1>6, <1>8 DEF h
  <2>2. CASE nFree > Capacity - n
    <3>1. h < n
      BY <2>2, <1>2, <1>4 DEF h
    <3>2. QED BY <2>2, <3>1, <1>2, <1>5, <1>6, <1>8 DEF h, Slots
  <2>3. QED BY <2>1, <2>2, <1>2
<1>11. g \in [1 .. nFree' -> Slots]
  BY <1>1, <1>2, <1>7
<1>12. headIndex' = IF nFree' = 0 THEN None ELSE g[nFree']
  BY <1>2, <1>7, <1>10
<1>13. TypeOK'
  <2>1. headIndex' \in Slots \cup {None}
    BY <1>2, <1>7, <1>11, <1>12
  <2>2. nextIndex' \in [Slots -> Int]
    BY <1>6, <1>7, <1>8
  <2>3. nFree' \in 0 .. Capacity /\ nInitialized' \in 0 .. Capacity
    BY <1>2, <1>7
  <2>4. inUse' \subseteq Slots /\ filled' \subseteq inUse'
    BY <1>6, <1>7 DEF IInv, TypeOK
  <2>5. QED BY <2>1, <2>2, <2>3, <2>4 DEF IInv, TypeOK, Slots, Parts
<1>14. \A j, k \in 1 .. nFree' : g[j] = g[k] => j = k
  BY <1>2, <1>3, <1>7
<1>15. \A i \in Slots : i \notin inUse' <=> \E k \in 1 .. nFree' : g[k] = i
  <2> TAKE i \in Slots
  <2>1. ASSUME i \notin inUse' PROVE \E k \in 1 .. nFree' : g[k] = i
    <3>1. i \notin inUse /\ i # h
      BY <2>1, <1>7
    <3>2. PICK k \in 1 .. nFree : f[k] = i
      BY <3>1, <1>3
    <3>3. k \in 1 .. nFree' /\ g[k] = i
      BY <3>1, <3>2, <1>2, <1>7 DEF h
    <3>4. QED BY <3>3
  <2>2. ASSUME NEW k \in 1 .. nFree', g[k] = i PROVE i \notin inUse'
    <3>1. k \in 1 .. nFree /\ k # nFree /\ f[k] = i
      BY <2>2, <1>2, <1>7
    <3>2. i \notin inUse
      BY <3>1, <1>3
    <3>3. i # h
      BY <3>1, <1>2, <1>3 DEF h
    <3>4. QED BY <3>2, <3>3, <1>7
  <2>3. QED BY <2>1, <2>2
<1>16. \A k \in 1 .. nFree' : IF k <= Capacity - nInitialized'
                                THEN g[k] = Capacity - k
                                ELSE g[k] < nInitialized'
  <2> TAKE k \in 1 .. nFree'
  <2>1. k \in 1 .. nFree /\ g[k] = f[k] /\ f[k] \in Slots
    BY <1>2, <1>7
  <2>2. QED BY <2>1, <1>2, <1>4, <1>7 DEF Slots
<1>17. \A k \in 2 .. nFree' : k > Capacity - nInitialized' => nextIndex'[g[k]] = g[k - 1]
  <2> SUFFICES ASSUME NEW k \in 2 .. nFree', k > Capacity - nInitialized'
               PROVE  nextIndex'[g[k]] = g[k - 1]
    OBVIOUS
  <2>1. /\ k \in 2 .. nFree /\ k \in 1 .. nFree /\ k # nFree /\ k - 1 \in 1 .. nFree
        /\ g[k] = f[k] /\ g[k - 1] = f[k - 1] /\ f[k] \in Slots
    BY <1>2, <1>7
  <2>2. f[k] # h
    BY <2>1, <1>2, <1>3 DEF h
  <2>3. nextIndex'[f[k]] = Linked[f[k]]
    BY <2>1, <2>2, <1>7, <1>8
  <2>4. Linked[f[k]] = f[k - 1]
    <3>1. CASE k > Capacity - n
      <4>1. f[k] < n /\ nextIndex[f[k]] = f[k - 1]
        BY <3>1, <2>1, <1>2, <1>4, <1>5
      <4>2. QED BY <4>1, <2>1, <1>2, <1>8 DEF Slots
    <3>2. CASE k = Capacity - n
      <4>1. f[k] = n /\ f[k - 1] = n + 1
        BY <3>2, <2>1, <1>2, <1>4
      <4>2. QED BY <4>1, <2>1, <1>8
    <3>3. QED BY <3>1, <3>2, <2>1, <1>2, <1>7
  <2>5. QED BY <2>1, <2>3, <2>4
<1> HIDE DEF g
<1>18. PICK e \in [1 .. nFree' -> Slots] : e = g
  BY <1>11
<1>19. FreeListInv'
  <2>1. IsFreeList(e)'
    BY <1>12, <1>14, <1>15, <1>16, <1>17, <1>18 DEF IsFreeList, Slots, None
  <2>2. QED BY <1>9, <1>18, <2>1, Zenon DEF FreeListInv, Slots
<1>20. TailInv'
  <2> SUFFICES ASSUME NEW i \in Slots, i >= nInitialized'
               PROVE  Cleared(i)' /\ i \notin inUse'
    BY DEF TailInv, Slots
  <2>1. i # h /\ i >= n /\ i # n
    BY <1>2, <1>6, <1>7, <1>9 DEF Slots
  <2>2. nextIndex[i] = 0 /\ i \notin filled /\ i \notin inUse
    BY <2>1 DEF IInv, TailInv, Cleared, n
  <2>3. nextIndex'[i] = 0
    BY <2>1, <2>2, <1>7, <1>8
  <2>4. QED BY <2>1, <2>2, <2>3, <1>7 DEF Cleared
<1>21. FlushInv'
  BY DEF FlushInv
<1>22. QED BY <1>13, <1>19, <1>20, <1>21 DEF IInv

(* allocate on an exhausted pool changes nothing: all slots are linked.    *)
LEMMA AllocateNullInv == ASSUME IInv, phase = "operating", AllocateNull,
                                UNCHANGED <<filled, phase, pending>>
                         PROVE  UNCHANGED vars
<1>1. Capacity - nInitialized <= 0 /\ nInitialized \in 0 .. Capacity
  BY DEF IInv, FreeListInv, AllocateNull, TypeOK
<1>2. ~ (nInitialized < Capacity)
  BY <1>1, PoolAssumption
<1>3. QED BY <1>2 DEF AllocateNull, Linked, NowInitialized, vars, poolVars

(* Somebody holds a slot, so the list of free slots is not full            *)
(* (pigeonhole).                                                           *)
LEMMA ListNotFull == ASSUME TypeOK, NEW i \in Slots, i \in inUse,
                            NEW f \in [1 .. nFree -> Slots], IsFreeList(f)
                     PROVE  nFree < Capacity
<1> USE PoolAssumption
<1>1. SUFFICES ASSUME nFree = Capacity PROVE FALSE
  BY DEF TypeOK
<1> DEFINE S == 1 .. Capacity
           T == Slots \ {i}
<1>2. f \in [S -> T]
  BY <1>1 DEF IsFreeList
<1>3. IsFiniteSet(S) /\ Cardinality(S) = Capacity
  BY FS_Interval
<1>4. IsFiniteSet(Slots) /\ Cardinality(Slots) = Capacity
  BY FS_Interval DEF Slots
<1>5. IsFiniteSet(T) /\ Cardinality(T) = Capacity - 1
  BY <1>4, FS_RemoveElement
<1>6. Cardinality(T) < Cardinality(S)
  BY <1>3, <1>5
<1> HIDE DEF S, T
<1>7. f \in Injection(S, T)
  <2>1. \A x, y \in S : f[x] = f[y] => x = y
    BY <1>1 DEF IsFreeList, S
  <2>2. QED BY <1>2, <2>1 DEF Injection, IsInjective
<1>8. Cardinality(S) <= Cardinality(T)
  BY <1>5, <1>7, FS_Injection
<1>9. QED BY <1>3, <1>5, <1>8

(* deallocate puts a held slot, which is empty now, on top of the list.    *)
LEMMA DeallocateInv == ASSUME IInv, phase = "operating",
                              NEW i \in Slots, Deallocate(i), filled' = filled \ {i},
                              UNCHANGED <<phase, pending>>
                       PROVE  IInv'
<1> USE PoolAssumption
<1>1. PICK f \in [1 .. nFree -> Slots] : IsFreeList(f)
  BY DEF IInv, FreeListInv
<1>2. /\ i \in inUse
      /\ inUse' = inUse \ {i}
      /\ nextIndex' = [nextIndex EXCEPT ![i] = headIndex]
      /\ headIndex' = i
      /\ nFree' = nFree + 1
      /\ nInitialized' = nInitialized
  BY DEF Deallocate
<1>3. /\ nFree \in Nat /\ nInitialized \in 0 .. Capacity
      /\ Capacity - nInitialized <= nFree
      /\ nextIndex \in [Slots -> Int] /\ headIndex \in Int
  BY DEF IInv, TypeOK, FreeListInv, Slots, None
<1>4. nFree < Capacity
  BY <1>1, <1>2, ListNotFull DEF IInv
<1>5. /\ \A j, k \in 1 .. nFree : f[j] = f[k] => j = k
      /\ \A s \in Slots : s \notin inUse <=> \E k \in 1 .. nFree : f[k] = s
  BY <1>1 DEF IsFreeList
<1>6. /\ \A k \in 1 .. nFree : IF k <= Capacity - nInitialized
                                 THEN f[k] = Capacity - k
                                 ELSE f[k] < nInitialized
      /\ \A k \in 2 .. nFree : k > Capacity - nInitialized => nextIndex[f[k]] = f[k - 1]
      /\ nFree > 0 => headIndex = f[nFree]
  BY <1>1, <1>3 DEF IsFreeList
<1>7. i < nInitialized
  BY <1>2, <1>3 DEF IInv, TailInv, Slots
<1> DEFINE g == [k \in 1 .. nFree + 1 |-> IF k = nFree + 1 THEN i ELSE f[k]]
<1>8. /\ g \in [1 .. nFree' -> Slots]
      /\ g[nFree'] = i
      /\ \A k \in 1 .. nFree : g[k] = f[k] /\ f[k] \in Slots /\ f[k] # i
  BY <1>1, <1>2, <1>3, <1>5
<1> HIDE DEF g
<1>9. PICK e \in [1 .. nFree' -> Slots] : e = g
  BY <1>8
<1>10. TypeOK'
  <2>1. nextIndex' \in [Slots -> Int]
    BY <1>2, <1>3
  <2>2. filled' \subseteq inUse' /\ inUse' \subseteq Slots
    BY <1>2 DEF IInv, TypeOK
  <2>3. QED BY <1>2, <1>3, <1>4, <2>1, <2>2 DEF IInv, TypeOK, Slots, Parts
<1>11. IsFreeList(e)'
  <2>1. \A j, k \in 1 .. nFree' : e[j] = e[k] => j = k
    BY <1>2, <1>3, <1>5, <1>8, <1>9
  <2>2. \A s \in Slots : s \notin inUse' <=> \E k \in 1 .. nFree' : e[k] = s
    <3> TAKE s \in Slots
    <3>1. ASSUME s \notin inUse' PROVE \E k \in 1 .. nFree' : e[k] = s
      <4>1. CASE s = i
        BY <4>1, <1>2, <1>3, <1>8, <1>9
      <4>2. CASE s # i
        <5>1. PICK k \in 1 .. nFree : f[k] = s
          BY <4>2, <3>1, <1>2, <1>5
        <5>2. k \in 1 .. nFree' /\ e[k] = s
          BY <5>1, <1>2, <1>3, <1>8, <1>9
        <5>3. QED BY <5>2
      <4>3. QED BY <4>1, <4>2
    <3>2. ASSUME NEW k \in 1 .. nFree', e[k] = s PROVE s \notin inUse'
      <4>1. CASE k = nFree'
        BY <4>1, <3>2, <1>2, <1>8, <1>9
      <4>2. CASE k \in 1 .. nFree
        BY <4>2, <3>2, <1>2, <1>5, <1>8, <1>9
      <4>3. QED BY <4>1, <4>2, <1>2, <1>3
    <3>3. QED BY <3>1, <3>2
  <2>3. \A k \in 1 .. nFree' : IF k <= Capacity - nInitialized'
                                THEN e[k] = Capacity - k
                                ELSE e[k] < nInitialized'
    <3> TAKE k \in 1 .. nFree'
    <3>1. CASE k = nFree'
      BY <3>1, <1>2, <1>3, <1>7, <1>8, <1>9
    <3>2. CASE k \in 1 .. nFree
      BY <3>2, <1>2, <1>3, <1>6, <1>8, <1>9
    <3>3. QED BY <3>1, <3>2, <1>2, <1>3
  <2>4. \A k \in 2 .. nFree' : k > Capacity - nInitialized' => nextIndex'[e[k]] = e[k - 1]
    <3> SUFFICES ASSUME NEW k \in 2 .. nFree', k > Capacity - nInitialized'
                 PROVE  nextIndex'[e[k]] = e[k - 1]
      OBVIOUS
    <3>1. CASE k = nFree'
      <4>1. k - 1 = nFree /\ nFree > 0 /\ e[k - 1] = f[nFree] /\ e[k] = i
        BY <3>1, <1>2, <1>3, <1>8, <1>9
      <4>2. QED BY <4>1, <1>2, <1>3, <1>6
    <3>2. CASE k \in 2 .. nFree
      <4>1. e[k] = f[k] /\ e[k - 1] = f[k - 1] /\ f[k] # i /\ f[k] \in Slots
        BY <3>2, <1>3, <1>8, <1>9
      <4>2. QED BY <3>2, <4>1, <1>2, <1>3, <1>6
    <3>3. QED BY <3>1, <3>2, <1>2, <1>3
  <2>5. headIndex' = IF nFree' = 0 THEN None ELSE e[nFree']
    BY <1>2, <1>3, <1>8, <1>9
  <2>6. QED BY <2>1, <2>2, <2>3, <2>4, <2>5 DEF IsFreeList, Slots, None
<1>12. FreeListInv'
  <2>1. Capacity - nInitialized' <= nFree'
    BY <1>2, <1>3
  <2>2. QED BY <2>1, <1>11, Zenon DEF FreeListInv, Slots
<1>13. TailInv'
  BY <1>2, <1>3, <1>7 DEF IInv, TailInv, Cleared, Slots
<1>14. FlushInv'
  BY DEF FlushInv
<1>15. QED BY <1>10, <1>12, <1>13, <1>14 DEF IInv

-----------------------------------------------------------------------------
(* A slot in use is not in the free list, so its rows do not disturb it.   *)
LEMMA CountInv == ASSUME IInv, phase = "operating", NEW i \in inUse, NEW v \in Int,
                         nextIndex' = [nextIndex EXCEPT ![i] = v],
                         filled' \subseteq filled \cup {i},
                         UNCHANGED <<headIndex, nInitialized, nFree, inUse, phase, pending>>
                  PROVE  IInv'
<1> USE PoolAssumption
<1>1. i \in Slots
  BY DEF IInv, TypeOK
<1>3. TypeOK'
  <2>1. nextIndex' \in [Slots -> Int]
    BY DEF IInv, TypeOK
  <2>2. filled' \subseteq inUse'
    BY DEF IInv, TypeOK
  <2>3. QED BY <2>1, <2>2 DEF IInv, TypeOK, Slots, Parts
<1>4. FreeListInv'
  <2>1. PICK f \in [1 .. nFree -> Slots] : IsFreeList(f)
    BY DEF IInv, FreeListInv
  <2>2. nFree \in Nat /\ nextIndex \in [Slots -> Int]
    BY DEF IInv, TypeOK
  <2>3. \A k \in 1 .. nFree : f[k] \in Slots /\ f[k] # i
    BY <1>1, <2>1, <2>2 DEF IsFreeList
  <2>4. \A k \in 1 .. nFree : nextIndex'[f[k]] = nextIndex[f[k]]
    BY <2>2, <2>3
  <2>5. IsFreeList(f)'
    BY <2>1, <2>2, <2>4 DEF IsFreeList, Slots, None
  <2>6. Capacity - nInitialized' <= nFree' /\ f \in [1 .. nFree' -> Slots]
    BY <2>1 DEF IInv, FreeListInv
  <2>7. QED BY <2>5, <2>6, Zenon DEF FreeListInv, Slots
<1>5. TailInv'
  BY <1>1 DEF IInv, TypeOK, TailInv, Cleared, Slots
<1>6. FlushInv'
  BY DEF FlushInv
<1>7. QED BY <1>3, <1>4, <1>5, <1>6 DEF IInv

LEMMA UseInv == ASSUME IInv, phase = "operating",
                       NEW i \in Slots, InitBuffer(i) \/ InsertRow(i) \/ Flush(i),
                       UNCHANGED <<phase, pending>>
                PROVE  IInv'
<1>1. PICK v \in Int : nextIndex' = [nextIndex EXCEPT ![i] = v]
  BY DEF InitBuffer, InsertRow, Flush, IInv, TypeOK
<1>2. /\ i \in inUse /\ filled' \subseteq filled \cup {i}
      /\ UNCHANGED <<headIndex, nInitialized, nFree, inUse, phase, pending>>
  BY DEF InitBuffer, InsertRow, Flush
<1> QED BY <1>1, <1>2, CountInv

-----------------------------------------------------------------------------
(* At the start of a full deallocation every slot in use has been linked   *)
(* before, hence lies in one of the chunks.                                *)
LEMMA PrepareInv == ASSUME IInv, PrepareFullDeallocate PROVE IInv'
<1> USE PoolAssumption, TotalAssumption
<1>1. phase = "operating" /\ phase' = "flushing" /\ pending' = Parts
      /\ UNCHANGED <<poolVars, filled>>
  BY DEF PrepareFullDeallocate
<1>2. TypeOK' /\ TailInv'
  BY <1>1 DEF IInv, TypeOK, TailInv, poolVars, Cleared, Slots, Parts
<1>3. FreeListInv'
  BY <1>1 DEF FreeListInv
<1>4. FlushInv'
  <2> SUFFICES ASSUME NEW i \in Slots, i \in inUse \/ ~Cleared(i)
               PROVE  \E p \in Parts : i \in Chunk(p)
    BY <1>1 DEF FlushInv, poolVars, Cleared, Chunk, ChunkSize, Slots
  <2>1. i \in 0 .. nInitialized - 1 /\ nInitialized \in Nat
    BY DEF IInv, TypeOK, TailInv, Slots
  <2>2. \E p \in 0 .. Total - 1 :
          (1 + nInitialized \div Total) * p <= i
          /\ i < (1 + nInitialized \div Total) * (p + 1)
    BY <2>1, ChunksCover
  <2>3. QED BY <2>1, <2>2, Zenon DEF Parts, Chunk, ChunkSize
<1>5. QED BY <1>2, <1>3, <1>4 DEF IInv

(* A part clears its own chunk and leaves the others to their parts.       *)
LEMMA PartInv == ASSUME IInv, NEW p \in Parts, DoFullDeallocatePart(p) PROVE IInv'
<1> USE PoolAssumption
<1> DEFINE C == Chunk(p)
<1>1. /\ phase = "flushing" /\ phase' = "flushing"
      /\ nextIndex' = [i \in Slots |-> IF i \in C THEN 0 ELSE nextIndex[i]]
      /\ inUse' = inUse \ C /\ filled' = filled \ C
      /\ pending' = pending \ {p}
      /\ UNCHANGED <<headIndex, nInitialized, nFree>>
  BY DEF DoFullDeallocatePart, FlushChunk
<1> HIDE DEF C
<1>2. TypeOK'
  <2>1. nextIndex' \in [Slots -> Int]
    BY <1>1 DEF IInv, TypeOK
  <2>2. QED BY <2>1, <1>1 DEF IInv, TypeOK, Slots, Parts
<1>3. FreeListInv'
  BY <1>1 DEF FreeListInv
<1>4. TailInv'
  BY <1>1 DEF IInv, TypeOK, TailInv, Cleared, Slots
<1>5. FlushInv'
  <2> SUFFICES ASSUME NEW i \in Slots, i \in inUse' \/ ~Cleared(i)'
               PROVE  \E q \in pending' : i \in Chunk(q)'
    BY <1>1 DEF FlushInv, Slots
  <2>1. i \notin C
    BY <1>1 DEF Cleared
  <2>2. i \in inUse \/ ~Cleared(i)
    BY <1>1, <2>1 DEF Cleared
  <2>3. PICK q \in pending : i \in Chunk(q)
    BY <1>1, <2>2 DEF IInv, FlushInv
  <2>4. q \in pending' /\ Chunk(q)' = Chunk(q)
    BY <1>1, <2>1, <2>3 DEF C, Chunk, ChunkSize
  <2>5. QED BY <2>3, <2>4
<1>6. QED BY <1>2, <1>3, <1>4, <1>5 DEF IInv

(* A pool in which nothing is in use and nothing linked: the untouched     *)
(* slots, last slot first, are a free list.                                *)
LEMMA ResetInv == ASSUME IInv, Reset, nextIndex' \in [Slots -> Int],
                         \A i \in Slots : i \notin inUse' /\ Cleared(i)',
                         inUse' = {}, filled' = {}, phase' = "operating", UNCHANGED pending
                  PROVE  IInv'
<1> USE PoolAssumption
<1>1. nFree' = Capacity /\ headIndex' = 0 /\ nInitialized' = 0
  BY DEF Reset
<1>3. TypeOK'
  BY <1>1 DEF IInv, TypeOK, Slots, Parts
<1>4. FreeListInv'
  <2> DEFINE g == [k \in 1 .. Capacity |-> Capacity - k]
  <2>1. /\ g \in [1 .. Capacity -> Slots]
        /\ \A k \in 1 .. Capacity : g[k] = Capacity - k
    BY DEF Slots
  <2> HIDE DEF g
  <2>2. PICK e \in [1 .. nFree' -> Slots] : e = g
    BY <1>1, <2>1
  <2>3. \A j, k \in 1 .. Capacity : e[j] = e[k] => j = k
    BY <2>1, <2>2
  <2>4. ASSUME NEW i \in Slots PROVE \E k \in 1 .. Capacity : e[k] = i
    <3>1. Capacity - i \in 1 .. Capacity /\ e[Capacity - i] = i
      BY <2>1, <2>2 DEF Slots
    <3>2. QED BY <3>1
  <2>5. IsFreeList(e)'
    BY <1>1, <2>1, <2>2, <2>3, <2>4 DEF IsFreeList, Slots, None
  <2>6. Capacity - nInitialized' <= nFree'
    BY <1>1
  <2>7. QED BY <2>5, <2>6, Zenon DEF FreeListInv, Slots
<1>5. TailInv'
  BY <1>1 DEF TailInv, Cleared, Slots
<1>6. FlushInv'
  BY DEF FlushInv
<1>7. QED BY <1>3, <1>4, <1>5, <1>6 DEF IInv

(* After the last part nothing is in use. *)
LEMMA FinishInv == ASSUME IInv, FinishFullDeallocate PROVE IInv'
<1>1. /\ phase = "flushing" /\ pending = {} /\ phase' = "operating" /\ Reset
      /\ UNCHANGED <<nextIndex, inUse, filled, pending>>
  BY DEF FinishFullDeallocate
<1>2. \A i \in Slots : i \notin inUse /\ Cleared(i)
  BY <1>1 DEF IInv, FlushInv
<1>3. \A i \in Slots : i \notin inUse' /\ Cleared(i)'
  BY <1>1, <1>2 DEF Cleared
<1>4. inUse' = {} /\ filled' = {} /\ nextIndex' \in [Slots -> Int]
  BY <1>1, <1>2 DEF IInv, TypeOK
<1> QED BY <1>1, <1>3, <1>4, ResetInv

(* A full deallocation by one thread, after all buffers were emptied.      *)
LEMMA FullDeallocateInv == ASSUME IInv, phase = "operating", FullDeallocate, filled' = {},
                                  UNCHANGED <<phase, pending>>
                           PROVE  IInv' /\ inUse' = {}
<1>1. /\ inUse' = inUse \ (0 .. nInitialized - 1)
      /\ nextIndex' = [i \in Slots |-> IF i < nInitialized THEN 0 ELSE nextIndex[i]]
      /\ Reset
  BY DEF FullDeallocate
<1>2. \A i \in Slots : i \notin 0 .. nInitialized - 1 => nextIndex[i] = 0 /\ i \notin inUse
  BY PoolAssumption DEF IInv, TypeOK, TailInv, Cleared, Slots
<1>3. \A i \in Slots : i \notin inUse' /\ Cleared(i)'
  <2> SUFFICES ASSUME NEW i \in Slots PROVE i \notin inUse' /\ nextIndex'[i] = 0 /\ i \notin filled'
    BY DEF Cleared
  <2> QED BY <1>1, <1>2, PoolAssumption DEF Slots, IInv, TypeOK
<1>4. inUse' = {} /\ nextIndex' \in [Slots -> Int]
  BY <1>1, <1>3 DEF IInv, TypeOK
<1> QED BY <1>1, <1>3, <1>4, ResetInv

-----------------------------------------------------------------------------
(* The pool starts with every slot untouched. *)
LEMMA InitInv == Init => IInv
<1> USE PoolAssumption
<1> SUFFICES ASSUME Init PROVE IInv
  OBVIOUS
<1>1. /\ headIndex = 0 /\ nInitialized = 0 /\ nFree = Capacity
      /\ nextIndex = [i \in Slots |-> 0]
      /\ inUse = {} /\ filled = {} /\ phase = "operating" /\ pending = {}
  BY DEF Init, PoolInit
<1>2. TypeOK /\ TailInv /\ FlushInv
  BY <1>1 DEF TypeOK, TailInv, FlushInv, Cleared, Slots
<1>3. FreeListInv
  <2> DEFINE g == [k \in 1 .. Capacity |-> Capacity - k]
  <2>1. /\ g \in [1 .. nFree -> Slots]
        /\ \A k \in 1 .. nFree : g[k] = Capacity - k
    BY <1>1 DEF Slots
  <2> HIDE DEF g
  <2>2. ASSUME NEW i \in Slots PROVE \E k \in 1 .. nFree : g[k] = i
    <3>1. Capacity - i \in 1 .. nFree /\ g[Capacity - i] = i
      BY <1>1, <2>1 DEF Slots
    <3>2. QED BY <3>1
  <2>3. IsFreeList(g)
    BY <1>1, <2>1, <2>2 DEF IsFreeList
  <2>4. Capacity - nInitialized <= nFree
    BY <1>1
  <2>5. QED BY <2>1, <2>3, <2>4 DEF FreeListInv
<1>4. QED BY <1>2, <1>3 DEF IInv

(* Every step preserves the inductive invariant. *)
LEMMA NextInv == IInv /\ [Next]_vars => IInv'
<1> SUFFICES ASSUME IInv, [Next]_vars PROVE IInv'
  OBVIOUS
<1>0. ASSUME UNCHANGED vars PROVE IInv'
  BY <1>0 DEF IInv, TypeOK, FreeListInv, IsFreeList, TailInv, FlushInv, Cleared,
              Chunk, ChunkSize, vars, poolVars, Slots, Parts, None
<1>1. CASE Serve
  <2>1. CASE Allocate
    BY <1>1, <2>1, AllocateInv DEF Serve
  <2>2. CASE AllocateNull
    BY <1>0, <1>1, <2>2, AllocateNullInv DEF Serve
  <2>3. CASE \E i \in Slots : Cleared(i) /\ Deallocate(i)
    <3>1. PICK i \in Slots : Cleared(i) /\ Deallocate(i)
      BY <2>3
    <3>2. filled' = filled \ {i}
      BY <1>1, <3>1 DEF Serve, Cleared
    <3> QED BY <1>1, <3>1, <3>2, DeallocateInv DEF Serve
  <2>4. QED BY <1>1, <2>1, <2>2, <2>3 DEF Serve
<1>2. CASE Use
  BY <1>2, UseInv DEF Use
<1>3. CASE PrepareFullDeallocate
  BY <1>3, PrepareInv
<1>4. CASE \E p \in Parts : DoFullDeallocatePart(p)
  BY <1>4, PartInv
<1>5. CASE FinishFullDeallocate
  BY <1>5, FinishInv
<1>6. QED BY <1>0, <1>1, <1>2, <1>3, <1>4, <1>5 DEF Next

(* IInv holds in every reachable state. *)
THEOREM Inductive == Spec => []IInv
  BY InitInv, NextInv, PTL DEF Spec

-----------------------------------------------------------------------------
(* The fields of the pool keep their ranges: in particular the counters of *)
(* free and of initialised slots never leave 0 .. capacity_, however often *)
(* buffers are allocated, returned and fully deallocated.                  *)
THEOREM TypeCorrect == Spec => []TypeOK
  BY Inductive, PTL DEF IInv

(* The free list that allocate and deallocate thread through nextIndex_    *)
(* holds exactly the slots not in use, each of them once.                  *)
THEOREM FreeListCorrect == Spec => []FreeListInv
  BY Inductive, PTL DEF IInv

(* With IInv allocate finds an unused buffer. *)
LEMMA UnusedBuffer == IInv => AllocatesUnusedBuffer
<1> SUFFICES ASSUME IInv, phase = "operating"
             PROVE  /\ nFree > 0 => headIndex \in Slots \ (inUse \cup filled)
                    /\ nInitialized < Capacity => Cleared(nInitialized)
                                                  /\ nInitialized \notin inUse
  BY DEF AllocatesUnusedBuffer
<1>1. nFree > 0 => headIndex \in Slots \ inUse
  BY DEF IInv, TypeOK, FreeListInv, IsFreeList
<1>2. filled \subseteq inUse
  BY DEF IInv, TypeOK
<1>3. nInitialized < Capacity => nInitialized \in Slots
  BY PoolAssumption DEF IInv, TypeOK, Slots
<1>4. nInitialized < Capacity => Cleared(nInitialized) /\ nInitialized \notin inUse
  BY <1>3 DEF IInv, TypeOK, TailInv
<1>5. QED BY <1>1, <1>2, <1>4

(* The assertions of allocate: the buffer it hands out, and the one it     *)
(* links, are cleared and held by nobody.                                  *)
THEOREM AllocationExclusive == Spec => []AllocatesUnusedBuffer
  BY UnusedBuffer, Inductive, PTL

(* No buffer survives a full deallocation, whatever the number of threads  *)
(* that share it: the chunks cover the pool.                               *)
THEOREM FullDeallocationComplete == Spec => []DrainedWhenDone
<1>1. IInv => DrainedWhenDone
  BY DEF IInv, TypeOK, FlushInv, DrainedWhenDone
<1>2. QED BY <1>1, Inductive, PTL
=============================================================================
