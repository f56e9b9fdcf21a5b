-------------------------- MODULE ThreadPoolProofs --------------------------
(***************************************************************************)
(* The threads of InsertionThreadPool, for every number of threads and     *)
(* entries, every size of a block and every number of rounds the barrier   *)
(* can count.  First their synchronisation phases: the threads are always  *)
(* between the same two waits.  Then how processNext deals out the         *)
(* entries: the ranges of range_per_thread partition them, and in each     *)
(* order every entry is inserted once.  Then how the threads use the pool  *)
(* of buffers: every behaviour of theirs is one of EntryBufferPool, so     *)
(* that its theorems hold below them.  Last the threads of                 *)
(* RangeQueryThreadPool: they share the ranges among them, and what they   *)
(* store in their blocks are the answers, for every number of threads and  *)
(* every size of a block.                                                  *)
(***************************************************************************)
EXTENDS InsertionThreadPool, DataLemmas, FiniteSetTheorems, TLAPS

-----------------------------------------------------------------------------
(* The synchronisation phases *)

(* The threads that the barrier has counted in its current round, and those*)
(* it has let through that did not wake up yet.                            *)
Blocked == {t \in Threads : sync[t].blocked /\ sync[t].gen = generation}
Released(t) == sync[t].blocked /\ sync[t].gen # generation

(* The labels between two waits, with the one at the end.                  *)
Outside   == {"take", "entry", "insert", "init", "return", "failed", "done", "check",
              "finished", "gather"}
Preparing == {"prepare", "ready"}
Emptying  == {"part", "settle", "flushed"}
Finishing == {"finish", "restart"}

(* A thread is behind wait w, where it may not have woken up yet.          *)
Behind(t, w, labels) == IF Released(t) THEN pc[t] = w ELSE pc[t] \in labels

AllOutside == \A t \in Threads : Behind(t, "restart", Outside)
AllBehind(w, labels) ==
  \E r \in Threads : \A t \in Threads : /\ Behind(t, w, labels)
                                        /\ sync[t].responsible <=> t = r

SameStage ==
  \/ AllOutside
  \/ AllBehind("gather", Preparing)
  \/ AllBehind("ready", Emptying)
  \/ AllBehind("flushed", Finishing)

Sync == [responsible : BOOLEAN, lastFlush : BOOLEAN, done : BOOLEAN,
         blocked : BOOLEAN, gen : 0 .. Generations - 1]

BarrierType ==
  /\ generation \in 0 .. Generations - 1
  /\ count = NThreads - Cardinality(Blocked)
  /\ pc \in [Threads -> Labels]
  /\ sync \in [Threads -> Sync]
  /\ \A t \in Threads : sync[t].blocked => pc[t] \in Waits
  /\ \A t \in Threads : pc[t] \in {"prepare", "finish"} => sync[t].responsible
  /\ \A t \in Threads : pc[t] = "gather" => ~sync[t].responsible

BarrierInv == BarrierType /\ SameStage

-----------------------------------------------------------------------------
(* There are NThreads threads.                                             *)
LEMMA ThreadsFinite ==
  IsFiniteSet(Threads) /\ Cardinality(Threads) = NThreads
<1>1. 0 \in Int /\ NThreads - 1 \in Int /\ ~(0 > NThreads - 1) /\ (NThreads - 1) - 0 + 1 = NThreads
  BY ThreadsAssumption
<1>2. QED BY <1>1, FS_Interval DEF Threads

(* The threads start between the same two waits.                           *)
LEMMA InitBarrier == Init => BarrierInv
<1> SUFFICES ASSUME Init PROVE BarrierInv
  OBVIOUS
<1>1. Blocked = {}
  BY DEF Init, Blocked, NoSync
<1>2. Cardinality(Blocked) = 0
  BY <1>1, FS_EmptySet
<1>3. NoSync \in Sync
  BY GenerationsAssumption DEF NoSync, Sync
<1>4. BarrierType
  BY <1>2, <1>3, ThreadsAssumption, GenerationsAssumption
     DEF Init, BarrierType, Labels, Waits, NoSync
<1>5. AllOutside
  BY DEF Init, AllOutside, Behind, Released, Outside, NoSync
<1>6. QED BY <1>4, <1>5 DEF BarrierInv, SameStage

-----------------------------------------------------------------------------
(* A step of one thread that is not at a wait and does not go behind one.  *)
LEMMA LocalStep ==
  ASSUME BarrierInv, NEW t \in Threads, NEW l, ~sync[t].blocked,
         generation' = generation, count' = count, sync' = sync,
         pc' = [pc EXCEPT ![t] = l],
         \/ pc[t] \in Outside /\ l \in Outside \ {"gather"}
         \/ pc[t] \in Preparing /\ l = "ready"
         \/ pc[t] \in Emptying /\ l \in Emptying
         \/ pc[t] \in Finishing /\ l = "restart"
  PROVE  BarrierInv'
<1> USE DEF BarrierInv, BarrierType
<1>1. Blocked' = Blocked
  BY DEF Blocked
<1>2. pc' \in [Threads -> Labels]
  BY DEF Labels, Waits, Outside, Emptying
<1>3. BarrierType'
  BY <1>1, <1>2 DEF Outside, Emptying
<1>4. \A u \in Threads : (Released(u))' <=> Released(u)
  BY DEF Released
<1>5. ~Released(t)
  BY DEF Released
<1>6. ASSUME AllOutside PROVE AllOutside'
  <2>1. pc[t] \in Outside
    BY <1>5, <1>6 DEF AllOutside, Behind
  <2>2. l \in Outside \ {"gather"}
    BY <2>1 DEF Outside, Preparing, Emptying, Finishing
  <2>3. QED BY <1>4, <1>5, <1>6, <2>2 DEF AllOutside, Behind
<1>7. ASSUME NEW w, NEW labels, l \in labels, AllBehind(w, labels)
      PROVE  AllBehind(w, labels)'
  BY <1>4, <1>5, <1>7 DEF AllBehind, Behind
<1>8. CASE AllBehind("gather", Preparing)
  <2>1. pc[t] \in Preparing
    BY <1>5, <1>8 DEF AllBehind, Behind
  <2>2. l \in Preparing
    BY <2>1 DEF Outside, Preparing, Emptying, Finishing
  <2>3. QED BY <1>3, <1>7, <1>8, <2>2 DEF SameStage
<1>9. CASE AllBehind("ready", Emptying)
  <2>1. pc[t] \in Emptying
    BY <1>5, <1>9 DEF AllBehind, Behind
  <2>2. l \in Emptying
    BY <2>1 DEF Outside, Preparing, Emptying, Finishing
  <2>3. QED BY <1>3, <1>7, <1>9, <2>2 DEF SameStage
<1>10. CASE AllBehind("flushed", Finishing)
  <2>1. pc[t] \in Finishing
    BY <1>5, <1>10 DEF AllBehind, Behind
  <2>2. l \in Finishing
    BY <2>1 DEF Outside, Preparing, Emptying, Finishing
  <2>3. QED BY <1>3, <1>7, <1>10, <2>2 DEF SameStage
<1>11. QED BY <1>3, <1>6, <1>8, <1>9, <1>10 DEF SameStage

(* A thread goes to the first wait.                                        *)
LEMMA GatherStep ==
  ASSUME BarrierInv, NEW t \in Threads, pc[t] \in Outside \ {"gather"},
         NEW lastFlush \in BOOLEAN, NEW done \in BOOLEAN, Gather(t, lastFlush, done),
         generation' = generation, count' = count
  PROVE  BarrierInv'
<1> USE DEF BarrierInv, BarrierType
<1>1. ~sync[t].blocked
  BY DEF Outside, Waits
<1> DEFINE s == [NoSync EXCEPT !.lastFlush = lastFlush, !.done = done]
<1>2. /\ s \in Sync /\ ~s.blocked /\ ~s.responsible
  <2>1. NoSync \in Sync /\ ~NoSync.blocked /\ ~NoSync.responsible
    BY GenerationsAssumption DEF NoSync, Sync
  <2>2. QED BY <2>1 DEF Sync
<1>3. sync' = [sync EXCEPT ![t] = s] /\ pc' = [pc EXCEPT ![t] = "gather"]
  BY DEF Gather, GoTo
<1> HIDE DEF s
<1>4. \A u \in Threads : (Released(u))' <=> Released(u)
  BY <1>1, <1>2, <1>3 DEF Released
<1>5. Blocked' = Blocked
  BY <1>1, <1>2, <1>3 DEF Blocked
<1>6. pc' \in [Threads -> Labels] /\ sync' \in [Threads -> Sync]
  BY <1>2, <1>3 DEF Labels, Waits
<1>7. BarrierType'
  BY <1>2, <1>3, <1>5, <1>6
<1>8. ~Released(t)
  BY <1>1 DEF Released
<1>9. AllOutside
  BY <1>8 DEF SameStage, AllOutside, AllBehind, Behind, Outside, Preparing, Emptying, Finishing
<1>10. AllOutside'
  BY <1>2, <1>3, <1>4, <1>8, <1>9 DEF AllOutside, Behind, Outside
<1>11. QED BY <1>7, <1>10 DEF SameStage

(* A thread that is not the last one waits.                                *)
LEMMA BlockStep ==
  ASSUME BarrierInv, NEW t \in Threads, Arrive(t), ~LastToArrive
  PROVE  BarrierInv'
<1> USE DEF BarrierInv, BarrierType
<1> DEFINE s == [sync[t] EXCEPT !.blocked = TRUE, !.gen = generation]
<1>1. /\ pc[t] \in Waits /\ ~sync[t].blocked
      /\ count' = count - 1 /\ sync' = [sync EXCEPT ![t] = s]
      /\ generation' = generation /\ pc' = pc
  BY DEF Arrive
<1>2. /\ s \in Sync /\ s.blocked /\ s.gen = generation /\ s.responsible = sync[t].responsible
  BY DEF Sync
<1> HIDE DEF s
<1>3. \A u \in Threads : (Released(u))' <=> Released(u)
  BY <1>1, <1>2 DEF Released
<1>4. \A u \in Threads : sync'[u].responsible = sync[u].responsible
  BY <1>1, <1>2
<1>5. Blocked' = Blocked \cup {t} /\ t \notin Blocked /\ Blocked \subseteq Threads
  BY <1>1, <1>2 DEF Blocked
<1>6. IsFiniteSet(Blocked) /\ Cardinality(Blocked) \in Nat
  BY <1>5, ThreadsFinite, FS_Subset, FS_CardinalityType
<1>7. Cardinality(Blocked') = Cardinality(Blocked) + 1
  BY <1>5, <1>6, FS_AddElement
<1>8. count' = NThreads - Cardinality(Blocked')
  BY <1>1, <1>6, <1>7, ThreadsAssumption
<1>9. BarrierType'
  BY <1>1, <1>2, <1>4, <1>8
<1>10. AllOutside => AllOutside'
  BY <1>1, <1>3, <1>4 DEF AllOutside, Behind
<1>11. ASSUME NEW w, NEW labels, AllBehind(w, labels) PROVE AllBehind(w, labels)'
  BY <1>1, <1>3, <1>4, <1>11 DEF AllBehind, Behind
<1>12. QED BY <1>9, <1>10, <1>11 DEF SameStage

(* A thread goes on behind the wait it is at.                              *)
LEMMA PassedStep ==
  ASSUME BarrierType, NEW t \in Threads, pc[t] \in Waits, NEW last \in BOOLEAN,
         Passed(t, pc[t], last)
  PROVE  /\ sync' \in [Threads -> Sync] /\ ~sync'[t].blocked
         /\ sync'[t].responsible = IF pc[t] = "gather" THEN last ELSE sync[t].responsible
         /\ sync'[t].done = sync[t].done /\ sync'[t].lastFlush = sync[t].lastFlush
         /\ \A u \in Threads \ {t} : sync'[u] = sync[u] /\ pc'[u] = pc[u]
         /\ pc' \in [Threads -> Labels]
         /\ pc[t] = "gather" => pc'[t] = IF last THEN "prepare" ELSE "ready"
         /\ pc[t] = "ready" => pc'[t] = "part"
         /\ pc[t] = "flushed" => pc'[t] = IF sync[t].responsible THEN "finish" ELSE "restart"
         /\ pc[t] = "restart" => pc'[t] = IF sync[t].done THEN "check" ELSE "insert"
<1> USE DEF BarrierType
<1> DEFINE r == IF pc[t] = "gather" THEN last ELSE sync[t].responsible
           s == [sync[t] EXCEPT !.blocked = FALSE, !.responsible = r]
<1>1. sync' = [sync EXCEPT ![t] = s]
  BY DEF Passed, Sync
<1>2. r \in BOOLEAN
  BY DEF Sync
<1>3. /\ s \in Sync /\ ~s.blocked /\ s.responsible = r
      /\ s.done = sync[t].done /\ s.lastFlush = sync[t].lastFlush
  <2> HIDE DEF r
  <2>1. QED BY <1>2 DEF Sync
<1> HIDE DEF s
<1>4. /\ sync' \in [Threads -> Sync] /\ ~sync'[t].blocked
      /\ sync'[t].responsible = r
      /\ sync'[t].done = sync[t].done /\ sync'[t].lastFlush = sync[t].lastFlush
      /\ \A u \in Threads \ {t} : sync'[u] = sync[u]
  BY <1>1, <1>3
<1>5. PICK l : /\ pc' = [pc EXCEPT ![t] = l]
               /\ pc[t] = "gather" => l = IF last THEN "prepare" ELSE "ready"
               /\ pc[t] = "ready" => l = "part"
               /\ pc[t] = "flushed" => l = IF sync[t].responsible THEN "finish" ELSE "restart"
               /\ pc[t] = "restart" => l = IF sync[t].done THEN "check" ELSE "insert"
  <2> DEFINE m == CASE pc[t] = "gather"  -> IF last THEN "prepare" ELSE "ready"
                    [] pc[t] = "ready"   -> "part"
                    [] pc[t] = "flushed" -> IF sync[t].responsible THEN "finish" ELSE "restart"
                    [] pc[t] = "restart" -> IF sync[t].done THEN "check" ELSE "insert"
  <2>1. pc' = [pc EXCEPT ![t] = m]
    BY DEF Passed, GoTo
  <2>2. /\ pc[t] = "gather" => m = IF last THEN "prepare" ELSE "ready"
        /\ pc[t] = "ready" => m = "part"
        /\ pc[t] = "flushed" => m = IF sync[t].responsible THEN "finish" ELSE "restart"
        /\ pc[t] = "restart" => m = IF sync[t].done THEN "check" ELSE "insert"
    OBVIOUS
  <2> HIDE DEF m
  <2>3. QED BY <2>1, <2>2
<1>6. pc' \in [Threads -> Labels] /\ \A u \in Threads \ {t} : pc'[u] = pc[u]
  BY <1>5 DEF Waits, Labels
<1>7. QED BY <1>4, <1>5, <1>6

(* The last thread lets the others through, which wait behind it.          *)
LEMMA OpenStep ==
  ASSUME BarrierInv, NEW t \in Threads, Arrive(t), LastToArrive
  PROVE  BarrierInv'
<1> USE DEF BarrierInv, BarrierType
<1> DEFINE w == pc[t]
<1>1. /\ w \in Waits /\ ~sync[t].blocked
      /\ generation' = (generation + 1) % Generations /\ count' = NThreads
      /\ Passed(t, w, TRUE)
  BY DEF Arrive
<1>2. Blocked = Threads \ {t}
  <2>1. Blocked \subseteq Threads \ {t}
    BY <1>1 DEF Blocked
  <2>2. IsFiniteSet(Threads \ {t}) /\ Cardinality(Threads \ {t}) = NThreads - 1
    BY ThreadsFinite, FS_RemoveElement
  <2>3. IsFiniteSet(Blocked) /\ Cardinality(Blocked) \in Nat
    BY <2>1, <2>2, FS_Subset, FS_CardinalityType
  <2>4. Cardinality(Blocked) = NThreads - 1
    BY <2>3, ThreadsAssumption DEF LastToArrive
  <2>5. QED BY <2>1, <2>2, <2>4, FS_Subset
<1>3. generation' \in 0 .. Generations - 1 /\ generation' # generation
  <2>1. generation + 1 \in Nat /\ Generations \in Nat \ {0} /\ Generations > 1
    BY GenerationsAssumption
  <2>2. CASE generation + 1 < Generations
    BY <1>1, <2>1, <2>2, SMT
  <2>3. CASE generation + 1 = Generations
    BY <1>1, <2>1, <2>3, SMT
  <2>4. QED BY <2>1, <2>2, <2>3
<1> DEFINE r == IF w = "gather" THEN TRUE ELSE sync[t].responsible
           l == pc'[t]
<1>4. /\ sync' \in [Threads -> Sync] /\ ~sync'[t].blocked /\ sync'[t].responsible = r
      /\ pc' \in [Threads -> Labels]
  BY <1>1, PassedStep
<1>6. /\ w = "gather" => l = "prepare"
      /\ w = "ready" => l = "part"
      /\ w = "flushed" => l = IF r THEN "finish" ELSE "restart"
      /\ w = "restart" => l \in {"check", "insert"}
  BY <1>1, PassedStep
<1>7. \A u \in Threads \ {t} : sync'[u] = sync[u] /\ pc'[u] = pc[u]
  BY <1>1, PassedStep
<1>8. \A u \in Threads \ {t} : sync[u].blocked /\ sync[u].gen = generation
  BY <1>2 DEF Blocked
<1>9. (\A u \in Threads \ {t} : Released(u)') /\ ~Released(t)'
  BY <1>3, <1>4, <1>7, <1>8 DEF Released
<1>10. Blocked' = {}
  BY <1>3, <1>4, <1>7, <1>8 DEF Blocked
<1>11. \A u \in Threads : ~Released(u)
  BY <1>1, <1>8 DEF Released
<1>12. BarrierType'
  <2>1. count' = NThreads - Cardinality(Blocked')
    BY <1>1, <1>10, FS_EmptySet, ThreadsAssumption
  <2>2. \A u \in Threads : sync'[u].blocked => pc'[u] \in Waits
    BY <1>4, <1>7
  <2>3. \A u \in Threads : pc'[u] \in {"prepare", "finish"} => sync'[u].responsible
    BY <1>1, <1>4, <1>6, <1>7 DEF Waits
  <2>4. \A u \in Threads : pc'[u] = "gather" => ~sync'[u].responsible
    BY <1>1, <1>6, <1>7 DEF Waits
  <2>5. QED BY <1>3, <1>4, <2>1, <2>2, <2>3, <2>4
<1> HIDE DEF l
<1>13. CASE AllOutside
  <2>1. w = "gather" /\ r /\ l = "prepare"
    BY <1>1, <1>6, <1>11, <1>13 DEF AllOutside, Behind, Outside, Waits
  <2>2. \A u \in Threads \ {t} : pc[u] = "gather" /\ ~sync[u].responsible
    BY <1>8, <1>11, <1>13 DEF AllOutside, Behind, Outside, Waits
  <2>3. \A u \in Threads : sync'[u].responsible <=> u = t
    BY <1>4, <1>7, <2>1, <2>2
  <2>4. \A u \in Threads : Behind(u, "gather", Preparing)'
    BY <1>4, <1>7, <1>9, <2>1, <2>2 DEF Behind, Preparing, l
  <2>5. AllBehind("gather", Preparing)'
    BY <2>3, <2>4 DEF AllBehind
  <2>6. QED BY <1>12, <2>5 DEF SameStage
<1>14. CASE AllBehind("gather", Preparing)
  <2>1. w = "ready" /\ l = "part" /\ \A u \in Threads \ {t} : pc[u] = "ready"
    BY <1>1, <1>6, <1>8, <1>11, <1>14 DEF AllBehind, Behind, Preparing, Waits
  <2>2. \A u \in Threads : sync'[u].responsible = sync[u].responsible
    BY <1>4, <1>7, <2>1
  <2>3. \A u \in Threads : Behind(u, "ready", Emptying)'
    BY <1>4, <1>7, <1>9, <2>1 DEF Behind, Emptying, l
  <2>4. AllBehind("ready", Emptying)'
    BY <1>14, <2>2, <2>3 DEF AllBehind
  <2>5. QED BY <1>12, <2>4 DEF SameStage
<1>15. CASE AllBehind("ready", Emptying)
  <2>1. w = "flushed" /\ l \in Finishing /\ \A u \in Threads \ {t} : pc[u] = "flushed"
    BY <1>1, <1>6, <1>8, <1>11, <1>15 DEF AllBehind, Behind, Emptying, Finishing, Waits
  <2>2. \A u \in Threads : sync'[u].responsible = sync[u].responsible
    BY <1>4, <1>7, <2>1
  <2>3. \A u \in Threads : Behind(u, "flushed", Finishing)'
    BY <1>4, <1>7, <1>9, <2>1 DEF Behind, l
  <2>4. AllBehind("flushed", Finishing)'
    BY <1>15, <2>2, <2>3 DEF AllBehind
  <2>5. QED BY <1>12, <2>4 DEF SameStage
<1>16. CASE AllBehind("flushed", Finishing)
  <2>1. w = "restart" /\ l \in {"check", "insert"} /\ \A u \in Threads \ {t} : pc[u] = "restart"
    BY <1>1, <1>6, <1>8, <1>11, <1>16 DEF AllBehind, Behind, Finishing, Waits
  <2>2. AllOutside'
    BY <1>4, <1>7, <1>9, <2>1 DEF AllOutside, Behind, Outside, l
  <2>3. QED BY <1>12, <2>2 DEF SameStage
<1>17. QED BY <1>13, <1>14, <1>15, <1>16 DEF SameStage

(* A thread that was let through wakes up.                                 *)
LEMMA WakeStep ==
  ASSUME BarrierInv, NEW t \in Threads, WakeUp(t)
  PROVE  BarrierInv'
<1> USE DEF BarrierInv, BarrierType
<1> DEFINE w == pc[t]
           l == pc'[t]
<1>1. /\ w \in Waits /\ Released(t) /\ Passed(t, w, FALSE)
      /\ generation' = generation /\ count' = count
  BY DEF WakeUp, Released
<1>2. /\ sync' \in [Threads -> Sync] /\ ~sync'[t].blocked /\ pc' \in [Threads -> Labels]
      /\ \A u \in Threads \ {t} : sync'[u] = sync[u] /\ pc'[u] = pc[u]
  BY <1>1, PassedStep
<1>3. sync'[t].responsible = sync[t].responsible
  <2>1. sync'[t].responsible = IF w = "gather" THEN FALSE ELSE sync[t].responsible
    BY <1>1, PassedStep
  <2>2. w = "gather" => sync[t].responsible = FALSE
    BY DEF Sync
  <2>3. QED BY <2>1, <2>2
<1>4. /\ w = "gather" => l = "ready"
      /\ w = "ready" => l = "part"
      /\ w = "flushed" => l = IF sync[t].responsible THEN "finish" ELSE "restart"
      /\ w = "restart" => l \in {"check", "insert"}
  BY <1>1, PassedStep
<1> HIDE DEF l
<1>5. Blocked' = Blocked
  BY <1>1, <1>2 DEF Blocked, Released
<1>6. ~Released(t)' /\ \A u \in Threads \ {t} : (Released(u))' <=> Released(u)
  BY <1>1, <1>2 DEF Released
<1>7. BarrierType'
  <2>1. l \in {"prepare", "finish"} => sync[t].responsible
    BY <1>1, <1>4 DEF Waits
  <2>2. l # "gather"
    BY <1>1, <1>4 DEF Waits
  <2>3. QED BY <1>1, <1>2, <1>3, <1>5, <2>1, <2>2 DEF l
<1>8. CASE AllOutside
  <2>1. l \in {"check", "insert"}
    BY <1>1, <1>4, <1>8 DEF AllOutside, Behind
  <2>2. AllOutside'
    BY <1>2, <1>6, <1>8, <2>1 DEF AllOutside, Behind, Outside, l
  <2>3. QED BY <1>7, <2>2 DEF SameStage
<1>9. ASSUME NEW from, NEW labels, l \in labels, AllBehind(from, labels)
      PROVE  AllBehind(from, labels)'
  <2>1. \A u \in Threads : sync'[u].responsible = sync[u].responsible
    BY <1>2, <1>3
  <2>2. \A u \in Threads : Behind(u, from, labels) => Behind(u, from, labels)'
    BY <1>2, <1>6, <1>9 DEF Behind, l
  <2>3. QED BY <1>9, <2>1, <2>2 DEF AllBehind
<1>10. CASE AllBehind("gather", Preparing)
  <2>1. l \in Preparing
    BY <1>1, <1>4, <1>10 DEF AllBehind, Behind, Preparing
  <2>2. QED BY <1>7, <1>9, <1>10, <2>1 DEF SameStage
<1>11. CASE AllBehind("ready", Emptying)
  <2>1. l \in Emptying
    BY <1>1, <1>4, <1>11 DEF AllBehind, Behind, Emptying
  <2>2. QED BY <1>7, <1>9, <1>11, <2>1 DEF SameStage
<1>12. CASE AllBehind("flushed", Finishing)
  <2>1. l \in Finishing
    BY <1>1, <1>4, <1>12 DEF AllBehind, Behind, Finishing
  <2>2. QED BY <1>7, <1>9, <1>12, <2>1 DEF SameStage
<1>13. QED BY <1>8, <1>10, <1>11, <1>12 DEF SameStage

-----------------------------------------------------------------------------
(* Every step of a thread keeps the threads together.                      *)
LEMMA StepBarrier ==
  ASSUME BarrierInv, NEW t \in Threads, Step(t)
  PROVE  BarrierInv'
<1>1. pc[t] \notin Waits => ~sync[t].blocked
  BY DEF BarrierInv, BarrierType
<1>2. pc \in [Threads -> Labels] /\ sync \in [Threads -> Sync]
  BY DEF BarrierInv, BarrierType
<1>3. ASSUME \/ Take(t) \/ ParallelInsert(t)
             \/ InsertDirectly(t) \/ InsertRow(t) \/ TakeBuffer(t) \/ FillBuffer(t)
             \/ FlushBuffer(t) \/ ReturnBuffer(t) \/ NoBuffer(t) \/ Fail(t)
      PROVE  BarrierInv'
  <2>1. /\ pc[t] \in Outside \ {"gather"}
        /\ generation' = generation /\ count' = count /\ sync' = sync
    BY <1>3 DEF Take, ParallelInsert, InsertDirectly, InsertRow, TakeBuffer, FillBuffer,
                FlushBuffer, ReturnBuffer, NoBuffer, Fail, insertUnchanged, Outside
  <2>2. \E l \in Outside \ {"gather"} : pc' = [pc EXCEPT ![t] = l]
    BY <1>3 DEF Take, ParallelInsert, InsertDirectly, InsertRow, TakeBuffer, FillBuffer,
                FlushBuffer, ReturnBuffer, NoBuffer, Fail, Assign, Advance, GoTo, Outside
  <2>3. QED BY <1>1, <2>1, <2>2, LocalStep DEF Outside, Waits
<1>4. CASE BeginEntry(t)
  <2>1. CASE Gather(t, FALSE, FALSE)
    BY <1>4, <2>1, GatherStep DEF BeginEntry, Outside
  <2>2. CASE GoTo(t, "insert") /\ UNCHANGED sync
    BY <1>1, <1>4, <2>2, LocalStep DEF BeginEntry, GoTo, Outside, Waits
  <2>3. QED BY <1>4, <2>1, <2>2 DEF BeginEntry
<1>5. CASE Arrive(t)
  BY <1>5, BlockStep, OpenStep
<1>6. CASE WakeUp(t)
  BY <1>6, WakeStep
<1>7. CASE Prepare(t)
  BY <1>1, <1>7, LocalStep DEF Prepare, GoTo, Preparing, Waits
<1>8. CASE FlushPart(t)
  BY <1>1, <1>8, LocalStep DEF FlushPart, GoTo, Emptying, Waits
<1>9. CASE Settle(t)
  BY <1>1, <1>9, LocalStep DEF Settle, GoTo, Emptying, Waits
<1>10. CASE FinishFlush(t)
  BY <1>1, <1>10, LocalStep DEF FinishFlush, GoTo, Finishing, Waits
<1>11. CASE Done(t)
  <2>1. CASE Gather(t, TRUE, TRUE)
    BY <1>11, <2>1, GatherStep DEF Done, Outside
  <2>2. CASE GoTo(t, "finished") /\ UNCHANGED sync
    BY <1>1, <1>11, <2>2, LocalStep DEF Done, GoTo, Outside, Waits
  <2>3. QED BY <1>11, <2>1, <2>2 DEF Done
<1>12. CASE Check(t)
  <2>1. CASE Gather(t, FALSE, TRUE)
    BY <1>12, <2>1, GatherStep DEF Check, Outside
  <2>2. CASE GoTo(t, "finished") /\ UNCHANGED sync
    BY <1>1, <1>12, <2>2, LocalStep DEF Check, GoTo, Outside, Waits
  <2>3. QED BY <1>12, <2>1, <2>2 DEF Check
<1>13. QED BY <1>3, <1>4, <1>5, <1>6, <1>7, <1>8, <1>9, <1>10, <1>11, <1>12 DEF Step

(* They stay between the same two waits.                                   *)
LEMMA NextBarrier == BarrierInv /\ [Next]_vars => BarrierInv'
<1> SUFFICES ASSUME BarrierInv, [Next]_vars PROVE BarrierInv'
  OBVIOUS
<1>1. CASE \E t \in Threads : Step(t)
  BY <1>1, StepBarrier
<1>2. CASE UNCHANGED vars
  BY <1>2 DEF vars, BarrierInv, BarrierType, Blocked, SameStage, AllOutside, AllBehind,
              Behind, Released
<1>3. QED BY <1>1, <1>2 DEF Next, Terminated

(* They are always between the same two waits.                             *)
LEMMA BarrierAlways == Spec => []BarrierInv
<1>1. QED BY InitBarrier, NextBarrier, PTL DEF Spec

-----------------------------------------------------------------------------
(* However many threads there are, no thread is inside an insertion while  *)
(* another one flushes, settles or resets the pool.                        *)
THEOREM InsertionsExcluded == Spec => []PhaseExclusive
<1>1. BarrierInv => PhaseExclusive
  <2> SUFFICES ASSUME BarrierInv PROVE PhaseExclusive
    OBVIOUS
  <2>1. \A t \in Threads : Released(t) => pc[t] \in Waits
    BY DEF BarrierInv, BarrierType, Released
  <2>2. AllOutside => PhaseExclusive
    BY <2>1 DEF AllOutside, Behind, Outside, Waits, PhaseExclusive
  <2>3. ASSUME NEW w \in {"gather", "ready", "flushed"},
               NEW labels \in {Preparing, Emptying, Finishing}, AllBehind(w, labels)
        PROVE  PhaseExclusive
    BY <2>3 DEF AllBehind, Behind, Preparing, Emptying, Finishing, PhaseExclusive
  <2>4. QED BY <2>2, <2>3 DEF BarrierInv, SameStage
<1>2. QED BY <1>1, BarrierAlways, PTL

(* In every phase one thread prepares and resets the pool, and the others  *)
(* flush their parts between the two.                                      *)
THEOREM SingleResponsible == Spec => []OneResponsible
<1>1. BarrierInv => OneResponsible
  <2> SUFFICES ASSUME BarrierInv PROVE OneResponsible
    OBVIOUS
  <2> DEFINE R == {t \in Threads : Prepared(t) \/ pc[t] = "prepare"}
  <2>1. \A t \in R : sync[t].responsible
    BY DEF BarrierInv, BarrierType, Prepared
  <2>2. \E r : R \subseteq {r}
    <3>1. CASE AllOutside
      <4>1. R = {}
        BY <3>1 DEF BarrierInv, BarrierType, AllOutside, Behind, Released, Outside, Prepared, Waits
      <4>2. QED BY <4>1
    <3>2. CASE \E w, labels : AllBehind(w, labels)
      BY <2>1, <3>2 DEF AllBehind
    <3>3. QED BY <3>1, <3>2 DEF BarrierInv, SameStage
  <2>3. Cardinality(R) <= 1
    <3>1. PICK r : R \subseteq {r}
      BY <2>2
    <3>2. IsFiniteSet({r}) /\ Cardinality({r}) = 1
      BY FS_Singleton
    <3>3. QED BY <3>1, <3>2, FS_Subset
  <2>4. ASSUME NEW t \in Threads, pc[t] \in {"part", "settle"} PROVE Flushing
    <3>1. ~Released(t)
      BY <2>4 DEF BarrierInv, BarrierType, Released, Waits
    <3>2. AllBehind("ready", Emptying)
      BY <2>4, <3>1 DEF BarrierInv, SameStage, AllOutside, AllBehind, Behind, Outside,
                        Preparing, Emptying, Finishing
    <3>3. QED BY <3>2 DEF AllBehind, Behind, Emptying, Flushing, Prepared
  <2>5. QED BY <2>3, <2>4 DEF OneResponsible
<1>2. QED BY <1>1, BarrierAlways, PTL

(* A request for a phase is only taken back by the responsible thread of   *)
(* a phase, which all threads have joined.                                 *)
THEOREM RequestsKept == Spec => RequestKept
<1>1. BarrierInv /\ [Next]_vars =>
        [syncPhaseRequired /\ ~syncPhaseRequired' =>
           \A t \in Threads : pc[t] \in {"ready", "part", "settle", "flushed"}]_vars
  <2> SUFFICES ASSUME BarrierInv, [Next]_vars, syncPhaseRequired, ~syncPhaseRequired'
               PROVE  \A t \in Threads : pc[t] \in {"ready", "part", "settle", "flushed"}
    OBVIOUS
  <2>1. PICK t \in Threads : Step(t)
    BY DEF Next, Terminated, vars
  <2>2. Settle(t)
    BY <2>1 DEF Step, Take, BeginEntry, MustSync, ParallelInsert, InsertDirectly, InsertRow,
                TakeBuffer, FillBuffer, FlushBuffer, ReturnBuffer, NoBuffer, Fail, Arrive,
                WakeUp, Prepare, FlushPart, FinishFlush, Done, Check
  <2>3. pc[t] = "settle" /\ ~Released(t)
    BY <2>2 DEF Settle, BarrierInv, BarrierType, Released, Waits
  <2>4. AllBehind("ready", Emptying)
    BY <2>3 DEF BarrierInv, SameStage, AllOutside, AllBehind, Behind, Outside, Preparing,
                Emptying, Finishing
  <2>5. QED BY <2>4 DEF AllBehind, Behind, Emptying
<1>2. QED BY <1>1, BarrierAlways, PTL DEF Spec, RequestKept

-----------------------------------------------------------------------------
(* How the threads leave: nRemaining counts the threads that have not yet  *)
(* settled a phase they entered with nothing left to insert.               *)
Phase == {"gather", "prepare", "ready", "part", "settle", "flushed", "finish", "restart"}
Inserting == {"take", "entry", "insert", "init", "return", "failed", "done"}

Counted(t) ==
  \/ pc[t] = "finished"
  \/ /\ sync[t].done
     /\ sync[t].lastFlush => pc[t] \in {"flushed", "finish", "restart", "check"}
Uncounted == {t \in Threads : ~Counted(t)}

Leaving(t) ==
  /\ pc[t] \in Phase \cup {"check"} => approach = "buffered_bulk"
  /\ pc[t] \in Inserting => ~sync[t].done
  /\ sync[t].lastFlush => sync[t].done
  /\ pc[t] = "check" => sync[t].done
  /\ pc[t] = "gather" => nRemaining > 0
  /\ pc[t] = "finished" /\ approach = "buffered_bulk" => nRemaining = 0

LeaveInv ==
  /\ approach \in {"buffered_bulk", "optimistic_locking"}
  /\ nRemaining = Cardinality(Uncounted)
  /\ \A t \in Threads : Leaving(t)

(* The threads still to be counted are finitely many.                      *)
LEMMA UncountedFinite ==
  IsFiniteSet(Uncounted) /\ Cardinality(Uncounted) \in Nat /\ (Cardinality(Uncounted) = 0 <=> Uncounted = {})
<1>1. Uncounted \subseteq Threads
  BY DEF Uncounted
<1>2. QED BY <1>1, ThreadsFinite, FS_Subset, FS_CardinalityType, FS_EmptySet

(* No thread has left at the start.                                        *)
LEMMA InitLeave == Init => LeaveInv
<1> SUFFICES ASSUME Init PROVE LeaveInv
  OBVIOUS
<1>1. \A t \in Threads : /\ pc[t] = "take" /\ sync[t] = NoSync
                         /\ ~sync[t].done /\ ~sync[t].lastFlush
  BY DEF Init, NoSync
<1>2. Uncounted = Threads
  BY <1>1 DEF Uncounted, Counted
<1>3. nRemaining = Cardinality(Uncounted)
  BY <1>2, ThreadsFinite DEF Init
<1>4. approach \in {"buffered_bulk", "optimistic_locking"}
  BY StrategyAssumption DEF Init
<1>5. QED BY <1>1, <1>3, <1>4 DEF LeaveInv, Leaving, Phase, Inserting

(* A step after which the same threads remain.                             *)
LEMMA SameRemain ==
  ASSUME LeaveInv, NEW t \in Threads, approach' = approach, nRemaining' = nRemaining,
         \A u \in Threads \ {t} : pc'[u] = pc[u] /\ sync'[u] = sync[u],
         Counted(t)' <=> Counted(t), Leaving(t)'
  PROVE  LeaveInv'
<1>1. \A u \in Threads : Counted(u)' <=> Counted(u)
  BY DEF Counted
<1>2. Uncounted' = Uncounted
  BY <1>1 DEF Uncounted
<1>3. \A u \in Threads \ {t} : Leaving(u)'
  BY DEF LeaveInv, Leaving
<1>4. QED BY <1>2, <1>3 DEF LeaveInv

(* A thread is counted down.                                               *)
LEMMA OneLess ==
  ASSUME LeaveInv, NEW t \in Threads, approach' = approach, nRemaining' = nRemaining - 1,
         \A u \in Threads \ {t} : pc'[u] = pc[u] /\ sync'[u] = sync[u],
         ~Counted(t), Counted(t)', Leaving(t)',
         \A u \in Threads : pc[u] # "gather",
         approach = "buffered_bulk" => \A u \in Threads : pc[u] # "finished"
  PROVE  LeaveInv'
<1>1. \A u \in Threads \ {t} : Counted(u)' <=> Counted(u)
  BY DEF Counted
<1>2. Uncounted' = Uncounted \ {t} /\ t \in Uncounted
  BY <1>1 DEF Uncounted
<1>3. Cardinality(Uncounted') = Cardinality(Uncounted) - 1
  BY <1>2, UncountedFinite, FS_RemoveElement
<1>4. \A u \in Threads \ {t} : Leaving(u)'
  BY DEF LeaveInv, Leaving
<1>5. QED BY <1>3, <1>4 DEF LeaveInv

(* A thread goes to the first wait while some thread remains.              *)
LEMMA GatherRemain ==
  ASSUME BarrierInv, LeaveInv, NEW t \in Threads, approach = "buffered_bulk",
         approach' = approach, nRemaining' = nRemaining, nRemaining > 0,
         NEW lastFlush \in BOOLEAN, NEW done \in BOOLEAN, Gather(t, lastFlush, done),
         lastFlush => done, Counted(t) <=> done /\ ~lastFlush
  PROVE  LeaveInv'
<1> DEFINE s == [NoSync EXCEPT !.lastFlush = lastFlush, !.done = done]
<1>1. s.lastFlush = lastFlush /\ s.done = done
  BY DEF NoSync
<1>2. sync' = [sync EXCEPT ![t] = s] /\ pc' = [pc EXCEPT ![t] = "gather"]
  BY DEF Gather, GoTo
<1> HIDE DEF s
<1>3. sync \in [Threads -> Sync] /\ pc \in [Threads -> Labels]
  BY DEF BarrierInv, BarrierType
<1>4. /\ pc'[t] = "gather" /\ sync'[t] = s
      /\ \A u \in Threads \ {t} : pc'[u] = pc[u] /\ sync'[u] = sync[u]
  BY <1>2, <1>3
<1>5. Counted(t)' <=> Counted(t)
  BY <1>1, <1>4 DEF Counted
<1>6. Leaving(t)'
  BY <1>1, <1>4 DEF Leaving, Inserting
<1>7. QED BY <1>4, <1>5, <1>6, SameRemain

(* The steps that go behind a wait.                                        *)
LEMMA PassedRemain ==
  ASSUME BarrierInv, LeaveInv, NEW t \in Threads, pc[t] \in Waits, NEW last \in BOOLEAN,
         Passed(t, pc[t], last), approach' = approach, nRemaining' = nRemaining
  PROVE  LeaveInv'
<1>1. /\ \A u \in Threads \ {t} : sync'[u] = sync[u] /\ pc'[u] = pc[u]
      /\ sync'[t].done = sync[t].done /\ sync'[t].lastFlush = sync[t].lastFlush
      /\ pc[t] = "gather" => pc'[t] = IF last THEN "prepare" ELSE "ready"
      /\ pc[t] = "ready" => pc'[t] = "part"
      /\ pc[t] = "flushed" => pc'[t] = IF sync[t].responsible THEN "finish" ELSE "restart"
      /\ pc[t] = "restart" => pc'[t] = IF sync[t].done THEN "check" ELSE "insert"
  BY PassedStep DEF BarrierInv
<1>2. Leaving(t)
  BY DEF LeaveInv
<1>3. Counted(t)' <=> Counted(t)
  BY <1>1, <1>2 DEF Counted, Leaving, Waits
<1>4. Leaving(t)'
  BY <1>1, <1>2 DEF Leaving, Phase, Inserting, Waits
<1>5. QED BY <1>1, <1>3, <1>4, SameRemain

(* Every step counts the threads that leave.                               *)
LEMMA StepLeave ==
  ASSUME BarrierInv, LeaveInv, NEW t \in Threads, Step(t)
  PROVE  LeaveInv'
<1>1. pc \in [Threads -> Labels] /\ sync \in [Threads -> Sync] /\ Leaving(t)
  BY DEF BarrierInv, BarrierType, LeaveInv
<1>2. approach' = approach
  BY DEF Step
<1>3. nRemaining \in Nat /\ (~Counted(t) => nRemaining > 0)
  <2>1. ~Counted(t) => Uncounted # {}
    BY DEF Uncounted
  <2>2. QED BY <2>1, UncountedFinite DEF LeaveInv
<1>4. ASSUME \/ Take(t) \/ ParallelInsert(t)
             \/ InsertDirectly(t) \/ InsertRow(t) \/ TakeBuffer(t) \/ FillBuffer(t)
             \/ FlushBuffer(t) \/ ReturnBuffer(t) \/ NoBuffer(t) \/ Fail(t)
      PROVE  LeaveInv'
  <2>1. pc[t] \in Inserting /\ sync' = sync /\ nRemaining' = nRemaining
    BY <1>4 DEF Take, ParallelInsert, InsertDirectly, InsertRow, TakeBuffer, FillBuffer,
                FlushBuffer, ReturnBuffer, NoBuffer, Fail, insertUnchanged, Inserting
  <2>2. \E l \in Inserting : pc' = [pc EXCEPT ![t] = l]
    BY <1>4 DEF Take, ParallelInsert, InsertDirectly, InsertRow, TakeBuffer, FillBuffer,
                FlushBuffer, ReturnBuffer, NoBuffer, Fail, Assign, Advance, GoTo, Inserting
  <2>3. pc'[t] \in Inserting /\ \A u \in Threads \ {t} : pc'[u] = pc[u]
    BY <1>1, <2>2
  <2>4. Counted(t)' <=> Counted(t)
    BY <1>1, <2>1, <2>3 DEF Counted, Leaving, Inserting
  <2>5. Leaving(t)'
    BY <1>1, <2>1, <2>3 DEF Leaving, Inserting, Phase
  <2>6. QED BY <1>2, <2>1, <2>3, <2>4, <2>5, SameRemain
<1>5. CASE BeginEntry(t)
  <2>1. pc[t] = "entry" /\ approach = "buffered_bulk" /\ nRemaining' = nRemaining
    BY <1>5 DEF BeginEntry
  <2>2. ~Counted(t)
    BY <1>1, <2>1 DEF Counted, Leaving, Inserting
  <2>3. CASE Gather(t, FALSE, FALSE)
    BY <1>2, <1>3, <2>1, <2>2, <2>3, GatherRemain
  <2>4. CASE GoTo(t, "insert") /\ UNCHANGED sync
    <3>1. pc'[t] = "insert" /\ \A u \in Threads \ {t} : pc'[u] = pc[u]
      BY <1>1, <2>4 DEF GoTo
    <3>2. Counted(t)' <=> Counted(t)
      BY <2>2, <2>1, <2>4, <3>1 DEF Counted
    <3>3. Leaving(t)'
      BY <1>1, <2>1, <2>4, <3>1 DEF Leaving, Inserting, Phase
    <3>4. QED BY <1>2, <2>1, <2>4, <3>1, <3>2, <3>3, SameRemain
  <2>5. QED BY <1>5, <2>3, <2>4 DEF BeginEntry
<1>6. CASE Arrive(t)
  <2>1. pc[t] \in Waits /\ nRemaining' = nRemaining
    BY <1>6 DEF Arrive
  <2>2. CASE LastToArrive
    BY <1>2, <1>6, <2>1, <2>2, PassedRemain DEF Arrive
  <2>3. CASE ~LastToArrive
    <3>1. /\ pc' = pc
          /\ sync'[t].done = sync[t].done /\ sync'[t].lastFlush = sync[t].lastFlush
          /\ \A u \in Threads \ {t} : sync'[u] = sync[u]
      BY <1>1, <1>6, <2>3 DEF Arrive, Sync
    <3>2. (Counted(t)' <=> Counted(t)) /\ Leaving(t)'
      BY <1>1, <1>2, <2>1, <3>1 DEF Counted, Leaving
    <3>3. QED BY <1>2, <2>1, <3>1, <3>2, SameRemain
  <2>4. QED BY <2>2, <2>3
<1>7. CASE WakeUp(t)
  BY <1>2, <1>7, PassedRemain DEF WakeUp
<1>8. CASE Prepare(t) \/ FlushPart(t) \/ FinishFlush(t)
  <2>1. sync' = sync /\ nRemaining' = nRemaining
    BY <1>8 DEF Prepare, FlushPart, FinishFlush
  <2>2. /\ \A u \in Threads \ {t} : pc'[u] = pc[u]
        /\ \/ pc[t] = "prepare" /\ pc'[t] = "ready"
           \/ pc[t] = "part" /\ pc'[t] = "settle"
           \/ pc[t] = "finish" /\ pc'[t] = "restart"
    BY <1>1, <1>8 DEF Prepare, FlushPart, FinishFlush, GoTo
  <2>3. Counted(t)' <=> Counted(t)
    BY <2>1, <2>2 DEF Counted
  <2>4. Leaving(t)'
    BY <1>1, <1>2, <2>1, <2>2 DEF Leaving, Phase, Inserting
  <2>5. QED BY <1>2, <2>1, <2>2, <2>3, <2>4, SameRemain
<1>9. CASE Settle(t)
  <2>1. /\ pc[t] = "settle" /\ sync' = sync /\ nRemaining' = Remaining(t)
        /\ pc'[t] = "flushed" /\ \A u \in Threads \ {t} : pc'[u] = pc[u]
    BY <1>1, <1>9 DEF Settle, GoTo
  <2>2. \A u \in Threads : pc[u] # "gather" /\ pc[u] # "finished"
    <3>1. ~Released(t)
      BY <2>1 DEF BarrierInv, BarrierType, Released, Waits
    <3>2. AllBehind("ready", Emptying)
      BY <2>1, <3>1 DEF BarrierInv, SameStage, AllOutside, AllBehind, Behind, Outside,
                        Preparing, Emptying, Finishing
    <3>3. QED BY <3>2 DEF AllBehind, Behind, Emptying
  <2>3. Leaving(t)'
    BY <1>1, <1>2, <2>1 DEF Leaving, Phase, Inserting
  <2>4. CASE sync[t].lastFlush
    <3>1. nRemaining' = nRemaining - 1 /\ ~Counted(t) /\ Counted(t)'
      BY <1>1, <2>1, <2>4 DEF Remaining, Counted, Leaving
    <3>2. QED BY <1>2, <2>1, <2>2, <2>3, <3>1, OneLess
  <2>5. CASE ~sync[t].lastFlush
    <3>1. nRemaining' = nRemaining /\ (Counted(t)' <=> Counted(t))
      BY <2>1, <2>5 DEF Remaining, Counted
    <3>2. QED BY <1>2, <2>1, <2>3, <3>1, SameRemain
  <2>6. QED BY <2>4, <2>5
<1>10. CASE Done(t)
  <2>1. pc[t] = "done" /\ ~Counted(t)
    BY <1>1, <1>10 DEF Done, Counted, Leaving, Inserting
  <2>2. CASE approach = "buffered_bulk"
    BY <1>2, <1>3, <1>10, <2>1, <2>2, GatherRemain DEF Done
  <2>3. CASE approach # "buffered_bulk"
    <3>1. /\ nRemaining' = nRemaining - 1 /\ sync' = sync /\ pc'[t] = "finished"
          /\ \A u \in Threads \ {t} : pc'[u] = pc[u]
      BY <1>1, <1>10, <2>3 DEF Done, GoTo
    <3>2. \A u \in Threads : pc[u] # "gather"
      BY <2>3 DEF LeaveInv, Leaving, Phase
    <3>3. Counted(t)' /\ Leaving(t)'
      BY <1>1, <1>2, <2>3, <3>1 DEF Counted, Leaving, Phase, Inserting
    <3>4. QED BY <1>2, <2>1, <2>3, <3>1, <3>2, <3>3, OneLess
  <2>4. QED BY <2>2, <2>3
<1>11. CASE Check(t)
  <2>1. pc[t] = "check" /\ nRemaining' = nRemaining /\ approach = "buffered_bulk" /\ Counted(t)
    BY <1>1, <1>11 DEF Check, Leaving, Counted
  <2>2. CASE ThreadsRemain(t)
    BY <1>2, <1>11, <2>1, <2>2, GatherRemain DEF Check, ThreadsRemain
  <2>3. CASE ~ThreadsRemain(t)
    <3>1. /\ sync' = sync /\ pc'[t] = "finished"
          /\ \A u \in Threads \ {t} : pc'[u] = pc[u]
      BY <1>1, <1>11, <2>3 DEF Check, GoTo
    <3>2. nRemaining = 0
      BY <1>3, <2>3 DEF ThreadsRemain
    <3>3. Counted(t)' /\ Leaving(t)'
      BY <1>1, <1>2, <2>1, <3>1, <3>2 DEF Counted, Leaving, Phase, Inserting
    <3>4. QED BY <1>2, <2>1, <3>1, <3>3, SameRemain
  <2>4. QED BY <2>2, <2>3
<1>12. QED BY <1>4, <1>5, <1>6, <1>7, <1>8, <1>9, <1>10, <1>11 DEF Step

(* The threads that leave are always counted.                              *)
LEMMA LeaveAlways == Spec => []LeaveInv
<1>1. BarrierInv /\ LeaveInv /\ [Next]_vars => LeaveInv'
  <2> SUFFICES ASSUME BarrierInv, LeaveInv, [Next]_vars PROVE LeaveInv'
    OBVIOUS
  <2>1. CASE \E t \in Threads : Step(t)
    BY <2>1, StepLeave
  <2>2. CASE UNCHANGED vars
    BY <2>2 DEF vars, LeaveInv, Leaving, Uncounted, Counted
  <2>3. QED BY <2>1, <2>2 DEF Next, Terminated
<1>2. QED BY <1>1, InitLeave, BarrierAlways, PTL DEF Spec

(* However many threads there are, nRemainingThreads_ is 0 at the end, and *)
(* no thread leaves while another one would wait for it at the barrier.    *)
THEOREM ThreadsLeaveTogether == Spec => []LeaveTogether
<1>1. BarrierInv /\ LeaveInv => LeaveTogether
  <2> SUFFICES ASSUME BarrierInv, LeaveInv PROVE LeaveTogether
    OBVIOUS
  <2>1. ASSUME Joined PROVE nRemaining = 0
    <3>1. Uncounted = {}
      BY <2>1 DEF Joined, Uncounted, Counted
    <3>2. QED BY <3>1, UncountedFinite DEF LeaveInv
  <2>2. ASSUME approach = "buffered_bulk", NEW t \in Threads, pc[t] = "finished",
               NEW u \in Threads
        PROVE  pc[u] \in {"restart", "check", "finished"}
    <3>1. nRemaining = 0
      BY <2>2 DEF LeaveInv, Leaving
    <3>2. Counted(u)
      BY <3>1, UncountedFinite DEF LeaveInv, Uncounted
    <3>3. ~Released(t)
      BY <2>2 DEF BarrierInv, BarrierType, Released, Waits
    <3>4. AllOutside
      BY <2>2, <3>3 DEF BarrierInv, SameStage, AllOutside, AllBehind, Behind, Outside,
                        Preparing, Emptying, Finishing
    <3>5. pc[u] = "restart" \/ pc[u] \in Outside
      BY <3>4 DEF AllOutside, Behind
    <3>6. pc[u] # "gather"
      BY <3>1 DEF LeaveInv, Leaving
    <3>7. pc[u] \notin Inserting
      BY <3>2 DEF LeaveInv, Leaving, Counted, Inserting
    <3>8. QED BY <3>5, <3>6, <3>7 DEF Outside, Inserting
  <2>3. QED BY <2>1, <2>2 DEF LeaveTogether
<1>2. QED BY <1>1, BarrierAlways, LeaveAlways, PTL

-----------------------------------------------------------------------------
(* The entries dealt out *)

InRange(e, t) == RangeStart(t) <= e /\ e < RangeStart(t + 1)

(* The range of t ends behind e if N*(e + 1) <= Size*(t + 1), and starts   *)
(* at or before e if Size*t < N*(e + 1).                                   *)
LEMMA StartsBefore ==
  ASSUME NEW e \in EntryIndices, NEW t \in Nat
  PROVE  RangeStart(t) <= e <=> Size * t < NThreads * (e + 1)
<1> USE ThreadsAssumption
<1>1. e \in Nat /\ Size * t \in Nat
  BY SMT DEF EntryIndices
<1>2. Size * t < NThreads * (e + 1) <=> RangeStart(t) < e + 1
  BY <1>1, QuotientBelow DEF RangeStart
<1>3. RangeStart(t) \in Nat
  BY <1>1, DivMod DEF RangeStart
<1>4. QED BY <1>1, <1>2, <1>3

(* Every entry lies in the range of some thread: none is missed at the end *)
(* when the size is not a multiple of the number of threads.               *)
THEOREM RangesCover ==
  \A e \in EntryIndices : \E t \in Threads : InRange(e, t)
<1> USE ThreadsAssumption
<1> SUFFICES ASSUME NEW e \in EntryIndices PROVE \E t \in Threads : InRange(e, t)
  OBVIOUS
<1> DEFINE m == NThreads * (e + 1) - 1
           t == m \div Size
<1>1. e \in Nat /\ e + 1 \in Nat /\ e + 1 <= Size
  BY DEF EntryIndices
<1>2. NThreads * (e + 1) = NThreads * e + NThreads /\ NThreads * e \in Nat
  BY <1>1, MulSucc, SMT
<1>3. m \in Nat /\ NThreads * (e + 1) = m + 1
  BY <1>2
<1> HIDE DEF m
<1>4. t \in Nat /\ m % Size \in 0 .. Size - 1 /\ m = Size * t + (m % Size)
  BY <1>3, DivMod
<1>5. t < NThreads
  <2>1. NThreads * (e + 1) <= NThreads * Size
    BY <1>1, MulMonotone
  <2>2. NThreads * Size = Size * NThreads /\ Size * NThreads \in Nat
    BY SMT
  <2>3. m < Size * NThreads
    BY <2>1, <2>2, <1>3
  <2>4. QED BY <2>3, <1>3, QuotientBelow
<1> HIDE DEF t
<1>6. Size * t \in Nat /\ Size * (t + 1) = Size * t + Size
  BY <1>4, MulSucc, SMT
<1>7. RangeStart(t) <= e
  BY <1>3, <1>4, <1>6, StartsBefore
<1>8. ~(RangeStart(t + 1) <= e)
  <2>1. ~(Size * (t + 1) < NThreads * (e + 1))
    BY <1>3, <1>4, <1>6
  <2>2. t + 1 \in Nat
    BY <1>4
  <2>3. QED BY <2>1, <2>2, StartsBefore
<1>9. RangeStart(t + 1) \in Nat
  <2>1. Size * (t + 1) \in Nat
    BY <1>6
  <2>2. QED BY <2>1, DivMod DEF RangeStart
<1>10. InRange(e, t)
  BY <1>1, <1>7, <1>8, <1>9 DEF InRange
<1>11. t \in Threads
  BY <1>4, <1>5 DEF Threads
<1>12. QED BY <1>10, <1>11

(* No entry lies in the ranges of two threads, and no range is cut off by  *)
(* the number of entries.                                                  *)
THEOREM RangesDisjoint ==
  /\ \A e \in EntryIndices : \A t, u \in Threads : InRange(e, t) /\ InRange(e, u) => t = u
  /\ \A t \in Threads : RangeStart(t + 1) <= Size
<1> USE ThreadsAssumption
<1>1. ASSUME NEW e \in EntryIndices, NEW t \in Threads, NEW u \in Threads,
             InRange(e, t), InRange(e, u), t < u
      PROVE  FALSE
  <2>1. t \in Nat /\ u \in Nat /\ t + 1 \in Nat /\ t + 1 <= u /\ e \in Nat
    BY <1>1 DEF Threads, EntryIndices
  <2>2. Size * u < NThreads * (e + 1)
    BY <2>1, <1>1, StartsBefore DEF InRange
  <2>3. ~(Size * (t + 1) < NThreads * (e + 1))
    <3>1. RangeStart(t + 1) \in Nat
      <4>1. Size * (t + 1) \in Nat
        BY <2>1, SMT
      <4>2. QED BY <4>1, DivMod DEF RangeStart
    <3>2. ~(RangeStart(t + 1) <= e)
      BY <3>1, <2>1, <1>1 DEF InRange
    <3>3. QED BY <3>2, <2>1, StartsBefore
  <2>4. Size * (t + 1) <= Size * u
    BY <2>1, MulMonotone
  <2>5. Size * (t + 1) \in Nat /\ Size * u \in Nat /\ NThreads * (e + 1) \in Nat
    BY <2>1, SMT
  <2>6. QED BY <2>2, <2>3, <2>4, <2>5
<1>2. \A t, u \in Threads : t < u \/ u < t \/ t = u
  BY DEF Threads
<1>3. ASSUME NEW t \in Threads PROVE RangeStart(t + 1) <= Size
  <2>1. t + 1 \in Nat /\ t + 1 <= NThreads
    BY DEF Threads
  <2>2. Size * (t + 1) <= Size * NThreads
    BY <2>1, MulMonotone
  <2>3. Size * (t + 1) \in Nat /\ Size * NThreads = NThreads * Size /\ Size * NThreads \in Nat
    BY <2>1, SMT
  <2>4. NThreads * (Size + 1) = NThreads * Size + NThreads
    BY MulSucc
  <2>5. Size * (t + 1) < NThreads * (Size + 1)
    BY <2>2, <2>3, <2>4
  <2>6. RangeStart(t + 1) < Size + 1
    BY <2>3, <2>5, QuotientBelow DEF RangeStart
  <2>7. RangeStart(t + 1) \in Nat
    BY <2>3, DivMod DEF RangeStart
  <2>8. QED BY <2>6, <2>7
<1>4. QED BY <1>1, <1>2, <1>3

-----------------------------------------------------------------------------
(* Where an entry is: not dealt out yet, or in what a thread still has.    *)
Undealt(e) ==
  \/ order = "sequential_entries" /\ e >= i
  \/ order = "sequential_ranges" /\ e >= i * FixRange
  \/ order = "range_per_thread" /\ \E t \in Threads : pc[t] = "take" /\ InRange(e, t)
HasEntry(t, e) == range[t].at <= e /\ e < range[t].end

(* A thread is in the loop of its range, or has left the outer loop; in a  *)
(* phase it is the one or the other by the loop it came from.              *)
Busy(t) ==
  \/ pc[t] \in {"entry", "insert", "init", "return", "failed"}
  \/ pc[t] \in Phase /\ ~sync[t].done
Left(t) ==
  \/ pc[t] \in {"done", "check", "finished"}
  \/ pc[t] \in Phase /\ sync[t].done

DealType ==
  /\ order \in {"sequential_entries", "sequential_ranges", "range_per_thread"}
  /\ i \in Nat
  /\ range \in [Threads -> [at : Nat, end : Nat]]
  /\ taken \in [EntryIndices -> 0 .. 1]

DealInv ==
  /\ DealType
  /\ \A e \in EntryIndices : taken[e] = 0 <=> Undealt(e) \/ \E t \in Threads : HasEntry(t, e)
  /\ \A e \in EntryIndices, t \in Threads : HasEntry(t, e) => ~Undealt(e)
  /\ \A e \in EntryIndices, t, u \in Threads : HasEntry(t, e) /\ HasEntry(u, e) => t = u
  /\ \A t \in Threads : /\ range[t].end <= Size
                        /\ Busy(t) <=> range[t].at < range[t].end
  /\ \A t \in Threads, e \in EntryIndices :
       Left(t) => ~(order \in {"sequential_entries", "sequential_ranges"} /\ Undealt(e))

(* A thread takes entries, is busy with some or has left.                  *)
LEMMA Classes ==
  ASSUME BarrierInv, NEW t \in Threads
  PROVE  /\ pc[t] = "take" \/ Busy(t) \/ Left(t)
         /\ ~(Busy(t) /\ Left(t)) /\ (pc[t] = "take" => ~Busy(t) /\ ~Left(t))
<1>1. pc[t] \in Labels
  BY DEF BarrierInv, BarrierType
<1>2. QED BY <1>1 DEF Labels, Waits, Busy, Left, Phase

(* A range starts at a number.                                             *)
LEMMA RangeStartNat ==
  ASSUME NEW t \in Nat
  PROVE  RangeStart(t) \in Nat
<1>1. Size * t \in Nat
  BY ThreadsAssumption, SMT
<1>2. QED BY <1>1, ThreadsAssumption, DivMod DEF RangeStart

(* Nothing is dealt out at the start.                                      *)
LEMMA InitDeal == Init => DealInv
<1> SUFFICES ASSUME Init PROVE DealInv
  OBVIOUS
<1>1. DealType
  BY StrategyAssumption DEF Init, DealType
<1>2. \A t \in Threads : pc[t] = "take" /\ range[t].at = 0 /\ range[t].end = 0
  BY DEF Init
<1>3. \A e \in EntryIndices : e \in Nat /\ taken[e] = 0 /\ Undealt(e)
  <2> SUFFICES ASSUME NEW e \in EntryIndices
               PROVE  e \in Nat /\ taken[e] = 0 /\ Undealt(e)
    OBVIOUS
  <2>1. e \in Nat /\ e >= 0 /\ taken[e] = 0 /\ i = 0 /\ 0 * FixRange = 0
    BY RangeAssumption, SMT DEF Init, EntryIndices
  <2>2. PICK t \in Threads : InRange(e, t)
    BY RangesCover
  <2>3. QED BY <1>1, <1>2, <2>1, <2>2 DEF Undealt, DealType
<1>4. \A t \in Threads : ~Busy(t) /\ ~Left(t)
  BY <1>2 DEF Busy, Left, Phase
<1>5. \A t \in Threads, e \in EntryIndices : ~HasEntry(t, e)
  BY <1>2, <1>3 DEF HasEntry
<1>6. QED BY <1>1, <1>2, <1>3, <1>4, <1>5, ThreadsAssumption DEF DealInv

-----------------------------------------------------------------------------
(* The steps that neither deal out nor finish an entry.                    *)
LEMMA KeepStep ==
  ASSUME DealInv, NEW t \in Threads, pc[t] # "take", pc'[t] # "take",
         Busy(t)' <=> Busy(t), Left(t)' => Left(t),
         \A u \in Threads \ {t} : pc'[u] = pc[u] /\ sync'[u] = sync[u],
         order' = order, i' = i, range' = range, taken' = taken
  PROVE  DealInv'
<1>1. \A u \in Threads : /\ pc'[u] = "take" <=> pc[u] = "take"
                         /\ (Busy(u)' <=> Busy(u)) /\ (Left(u)' => Left(u))
  BY DEF Busy, Left
<1>2. \A e \in EntryIndices : Undealt(e)' <=> Undealt(e)
  BY <1>1 DEF Undealt, InRange, RangeStart
<1>3. \A u \in Threads, e \in EntryIndices : HasEntry(u, e)' <=> HasEntry(u, e)
  BY DEF HasEntry
<1>4. QED BY <1>1, <1>2, <1>3 DEF DealInv, DealType

(* The entries from start to end - 1 are dealt out to t.                   *)
LEMMA DealStep ==
  ASSUME BarrierInv, DealInv, NEW t \in Threads, pc[t] = "take",
         NEW start \in Nat, NEW end \in Nat, end <= Size, Assign(t, start, end),
         order' = order, i' \in Nat, taken' = taken, sync' = sync,
         \A e \in EntryIndices :
           /\ Undealt(e) <=> Undealt(e)' \/ (start <= e /\ e < end)
           /\ ~(Undealt(e)' /\ start <= e /\ e < end),
         start < end \/ order = "range_per_thread" \/ \A e \in EntryIndices : ~Undealt(e)'
  PROVE  DealInv'
<1>1. pc \in [Threads -> Labels]
  BY DEF BarrierInv, BarrierType
<1>2. \A u \in Threads \ {t} : pc'[u] = pc[u] /\ range'[u] = range[u]
  BY <1>1 DEF Assign, GoTo, DealInv, DealType
<1>3. \A u \in Threads \ {t} : (Busy(u)' <=> Busy(u)) /\ (Left(u)' <=> Left(u))
  BY <1>2 DEF Busy, Left
<1>4. \A u \in Threads \ {t}, e \in EntryIndices : HasEntry(u, e)' <=> HasEntry(u, e)
  BY <1>2 DEF HasEntry
<1>5. ~Busy(t) /\ \A e \in EntryIndices : ~HasEntry(t, e)
  <2>1. ~Busy(t)
    BY DEF Busy, Phase
  <2>2. range[t].at \in Nat /\ range[t].end \in Nat /\ range[t].at >= range[t].end
    BY <2>1 DEF DealInv, DealType
  <2>3. QED BY <2>1, <2>2 DEF HasEntry, EntryIndices
<1>6. CASE start < end
  <2>1. /\ range' = [range EXCEPT ![t] = [at |-> start, end |-> end]]
        /\ pc' = [pc EXCEPT ![t] = "entry"]
    BY <1>6 DEF Assign, GoTo
  <2>2. range'[t].at = start /\ range'[t].end = end /\ pc'[t] = "entry"
    BY <1>1, <2>1 DEF DealInv, DealType
  <2>3. DealType'
    BY <2>1 DEF DealInv, DealType
  <2>4. Busy(t)' /\ ~Left(t)'
    BY <2>2 DEF Busy, Left, Phase
  <2>5. \A e \in EntryIndices : HasEntry(t, e)' <=> start <= e /\ e < end
    BY <2>2 DEF HasEntry
  <2>6. \A e \in EntryIndices : taken'[e] = 0 <=> Undealt(e)' \/ (\E u \in Threads : HasEntry(u, e)')
    BY <1>4, <1>5, <2>5 DEF DealInv
  <2>7. \A e \in EntryIndices, u \in Threads : HasEntry(u, e)' => ~Undealt(e)'
    BY <1>4, <2>5 DEF DealInv
  <2>8. \A e \in EntryIndices, u, v \in Threads : HasEntry(u, e)' /\ HasEntry(v, e)' => u = v
    BY <1>4, <2>5 DEF DealInv
  <2>9. \A u \in Threads : range'[u].end <= Size /\ (Busy(u)' <=> range'[u].at < range'[u].end)
    BY <1>2, <1>3, <1>6, <2>2, <2>4 DEF DealInv
  <2>10. \A u \in Threads, e \in EntryIndices :
           Left(u)' => ~(order' \in {"sequential_entries", "sequential_ranges"} /\ Undealt(e)')
    BY <1>3, <2>4 DEF DealInv
  <2>11. QED BY <2>3, <2>6, <2>7, <2>8, <2>9, <2>10 DEF DealInv
<1>7. CASE ~(start < end)
  <2>1. range' = range /\ pc' = [pc EXCEPT ![t] = "done"]
    BY <1>7 DEF Assign, GoTo
  <2>2. pc'[t] = "done"
    BY <1>1, <2>1
  <2>3. DealType'
    BY <2>1 DEF DealInv, DealType
  <2>4. ~Busy(t)'
    BY <2>2 DEF Busy, Phase
  <2>5. \A e \in EntryIndices : Undealt(e)' <=> Undealt(e)
    BY <1>7 DEF EntryIndices
  <2>6. \A u \in Threads, e \in EntryIndices : HasEntry(u, e)' <=> HasEntry(u, e)
    BY <2>1 DEF HasEntry
  <2>7. \A u \in Threads : Busy(u)' <=> Busy(u)
    BY <1>3, <1>5, <2>4
  <2>8. \A u \in Threads, e \in EntryIndices :
           Left(u)' => ~(order' \in {"sequential_entries", "sequential_ranges"} /\ Undealt(e)')
    BY <1>3, <1>7, <2>5 DEF DealInv
  <2>9. QED BY <2>1, <2>3, <2>5, <2>6, <2>7, <2>8 DEF DealInv
<1>8. QED BY <1>6, <1>7

(* A thread takes the next entries.                                        *)
LEMMA TakeStep ==
  ASSUME BarrierInv, DealInv, NEW t \in Threads, Take(t), order' = order
  PROVE  DealInv'
<1> USE ThreadsAssumption, RangeAssumption
<1>1. /\ pc[t] = "take" /\ sync' = sync /\ taken' = taken
      /\ i \in Nat /\ t \in Nat /\ t + 1 \in Nat
      /\ \A e \in EntryIndices : e \in Nat /\ e < Size
  BY DEF Take, DealInv, DealType, Threads, EntryIndices
<1>2. CASE order = "sequential_entries"
  <2>1. i' = i + 1 /\ Assign(t, i, Min2(i + 1, Size))
    BY <1>2 DEF Take
  <2>2. Min2(i + 1, Size) \in Nat /\ Min2(i + 1, Size) <= Size
    BY <1>1 DEF Min2
  <2>3. \A e \in EntryIndices :
          /\ Undealt(e) <=> e >= i
          /\ Undealt(e)' <=> e >= i + 1
    BY <1>2, <2>1 DEF Undealt
  <2>4. \A e \in EntryIndices :
          /\ Undealt(e) <=> Undealt(e)' \/ (i <= e /\ e < Min2(i + 1, Size))
          /\ ~(Undealt(e)' /\ i <= e /\ e < Min2(i + 1, Size))
    BY <1>1, <2>3 DEF Min2
  <2>5. i < Min2(i + 1, Size) \/ \A e \in EntryIndices : ~Undealt(e)'
    BY <1>1, <2>3 DEF Min2
  <2>6. QED BY <1>1, <2>1, <2>2, <2>4, <2>5, DealStep
<1>3. CASE order = "sequential_ranges"
  <2> DEFINE b == i * FixRange
  <2>1. i' = i + 1 /\ Assign(t, b, BlockEnd(i))
    BY <1>3 DEF Take
  <2>2. b \in Nat /\ (i + 1) * FixRange = b + FixRange
    BY <1>1, SMT
  <2>3. BlockEnd(i) = Min2(b + FixRange, Size)
    BY DEF BlockEnd
  <2>4. \A e \in EntryIndices :
          /\ Undealt(e) <=> e >= b
          /\ Undealt(e)' <=> e >= b + FixRange
    BY <1>3, <2>1, <2>2 DEF Undealt
  <2> HIDE DEF b
  <2>5. BlockEnd(i) \in Nat /\ BlockEnd(i) <= Size
    BY <2>2, <2>3 DEF Min2
  <2>6. \A e \in EntryIndices :
          /\ Undealt(e) <=> Undealt(e)' \/ (b <= e /\ e < BlockEnd(i))
          /\ ~(Undealt(e)' /\ b <= e /\ e < BlockEnd(i))
    BY <1>1, <2>2, <2>3, <2>4 DEF Min2
  <2>7. b < BlockEnd(i) \/ \A e \in EntryIndices : ~Undealt(e)'
    BY <1>1, <2>2, <2>3, <2>4 DEF Min2
  <2>8. QED BY <1>1, <2>1, <2>2, <2>5, <2>6, <2>7, DealStep
<1>4. CASE order = "range_per_thread"
  <2> DEFINE a == RangeStart(t)
             b == RangeStart(t + 1)
  <2>1. i' = i /\ Assign(t, a, Min2(b, Size))
    BY <1>4 DEF Take
  <2>2. a \in Nat /\ b \in Nat /\ b <= Size
    BY <1>1, RangeStartNat, RangesDisjoint
  <2>3. Min2(b, Size) = b
    BY <2>2 DEF Min2
  <2>4. \A u \in Threads : pc'[u] = "take" <=> pc[u] = "take" /\ u # t
    BY <1>1, <2>1 DEF Assign, GoTo, BarrierInv, BarrierType
  <2>5. \A e \in EntryIndices :
          /\ Undealt(e) <=> \E u \in Threads : pc[u] = "take" /\ InRange(e, u)
          /\ Undealt(e)' <=> \E u \in Threads : pc'[u] = "take" /\ InRange(e, u)
    BY <1>4 DEF Undealt, InRange, RangeStart
  <2>6. \A e \in EntryIndices :
          /\ Undealt(e) <=> Undealt(e)' \/ InRange(e, t)
          /\ ~(Undealt(e)' /\ InRange(e, t))
    BY <1>1, <2>4, <2>5, RangesDisjoint
  <2>7. \A e \in EntryIndices : InRange(e, t) <=> a <= e /\ e < b
    BY DEF InRange
  <2> HIDE DEF a, b
  <2>8. QED BY <1>1, <1>4, <2>1, <2>2, <2>3, <2>6, <2>7, DealStep
<1>5. QED BY <1>2, <1>3, <1>4 DEF DealInv, DealType

(* The insertion of an entry returns.                                      *)
LEMMA AdvanceStep ==
  ASSUME BarrierInv, DealInv, NEW t \in Threads, Advance(t),
         pc[t] \in {"entry", "insert", "init", "return", "failed"},
         order' = order, i' = i, sync' = sync
  PROVE  DealInv'
<1> DEFINE at == range[t].at
           end == range[t].end
<1>1. pc \in [Threads -> Labels]
  BY DEF BarrierInv, BarrierType
<1>2. /\ at \in Nat /\ end \in Nat /\ at < end /\ end <= Size
      /\ at \in EntryIndices /\ HasEntry(t, at)
  <2>1. Busy(t)
    BY DEF Busy
  <2>2. at \in Nat /\ end \in Nat /\ at < end /\ end <= Size
    BY <2>1 DEF DealInv, DealType
  <2>3. QED BY <2>2, ThreadsAssumption DEF EntryIndices, HasEntry
<1>3. taken[at] = 0 /\ ~Undealt(at)
  BY <1>2 DEF DealInv
<1>4. /\ taken' = [taken EXCEPT ![at] = taken[at] + 1]
      /\ range' = [range EXCEPT ![t].at = at + 1]
  BY DEF Advance
<1>5. taken'[at] = 1 /\ \A e \in EntryIndices \ {at} : taken'[e] = taken[e]
  BY <1>2, <1>3, <1>4 DEF DealInv, DealType
<1>6. /\ range'[t].at = at + 1 /\ range'[t].end = end
      /\ \A u \in Threads \ {t} : range'[u] = range[u]
  BY <1>4 DEF DealInv, DealType
<1>7. DealType'
  <2>1. taken' \in [EntryIndices -> 0 .. 1]
    <3>1. taken' = [taken EXCEPT ![at] = 1]
      BY <1>3, <1>4
    <3>2. taken \in [EntryIndices -> 0 .. 1] /\ 1 \in 0 .. 1
      BY DEF DealInv, DealType
    <3>3. QED BY <3>1, <3>2
  <2>2. range' \in [Threads -> [at : Nat, end : Nat]]
    BY <1>2, <1>4 DEF DealInv, DealType
  <2>3. QED BY <2>1, <2>2 DEF DealInv, DealType
<1>8. /\ \A u \in Threads \ {t} : pc'[u] = pc[u]
      /\ pc'[t] = IF at + 1 < end THEN "entry"
                  ELSE IF order = "range_per_thread" THEN "done" ELSE "take"
  BY <1>1 DEF Advance, GoTo
<1>9. \A e \in EntryIndices : Undealt(e)' <=> Undealt(e)
  <2>1. order = "range_per_thread" => \A u \in Threads : pc'[u] = "take" <=> pc[u] = "take"
    BY <1>8
  <2>2. QED BY <2>1 DEF Undealt, InRange, RangeStart
<1>10. \A e \in EntryIndices, u \in Threads :
         HasEntry(u, e)' <=> HasEntry(u, e) /\ (u = t => e # at)
  BY <1>2, <1>6 DEF HasEntry, EntryIndices
<1>11. /\ \A u \in Threads \ {t} : (Busy(u)' <=> Busy(u)) /\ (Left(u)' <=> Left(u))
       /\ Busy(t)' <=> at + 1 < end
       /\ Left(t)' => order = "range_per_thread"
  BY <1>2, <1>8 DEF Busy, Left, Phase
<1> HIDE DEF at, end
<1>12. \A e \in EntryIndices : taken'[e] = 0 <=> Undealt(e)' \/ (\E u \in Threads : HasEntry(u, e)')
  <2> SUFFICES ASSUME NEW e \in EntryIndices
               PROVE  taken'[e] = 0 <=> Undealt(e)' \/ (\E u \in Threads : HasEntry(u, e)')
    OBVIOUS
  <2>1. CASE e = at
    BY <1>2, <1>3, <1>5, <1>9, <1>10, <2>1 DEF DealInv
  <2>2. CASE e # at
    BY <1>5, <1>9, <1>10, <2>2 DEF DealInv
  <2>3. QED BY <2>1, <2>2
<1>13. \A u \in Threads : range'[u].end <= Size /\ (Busy(u)' <=> range'[u].at < range'[u].end)
  BY <1>2, <1>6, <1>11 DEF DealInv
<1>14. \A u \in Threads, e \in EntryIndices :
         Left(u)' => ~(order' \in {"sequential_entries", "sequential_ranges"} /\ Undealt(e)')
  BY <1>9, <1>11 DEF DealInv
<1>15. QED BY <1>7, <1>9, <1>10, <1>12, <1>13, <1>14 DEF DealInv

(* Every step keeps each entry dealt out once.                             *)
LEMMA StepDeal ==
  ASSUME BarrierInv, LeaveInv, DealInv, NEW t \in Threads, Step(t)
  PROVE  DealInv'
<1>1. pc \in [Threads -> Labels] /\ sync \in [Threads -> Sync] /\ order' = order /\ Leaving(t)
  BY DEF BarrierInv, BarrierType, Step, LeaveInv
<1>2. CASE Take(t)
  BY <1>1, <1>2, TakeStep
<1>3. ASSUME ParallelInsert(t) \/ InsertDirectly(t) \/ InsertRow(t) \/ FillBuffer(t)
      PROVE  DealInv'
  <2>1. /\ Advance(t)
        /\ pc[t] \in {"entry", "insert", "init"} /\ i' = i /\ sync' = sync
    BY <1>3 DEF ParallelInsert, InsertDirectly, InsertRow, FillBuffer, insertUnchanged
  <2>2. QED BY <1>1, <2>1, AdvanceStep
<1>4. ASSUME TakeBuffer(t) \/ FlushBuffer(t) \/ ReturnBuffer(t) \/ NoBuffer(t) \/ Fail(t)
      PROVE  DealInv'
  <2>1. /\ i' = i /\ range' = range /\ taken' = taken /\ sync' = sync
        /\ pc[t] \in {"insert", "init", "return", "failed"}
        /\ \E l \in {"entry", "insert", "init", "return", "failed"} : pc' = [pc EXCEPT ![t] = l]
    BY <1>4 DEF TakeBuffer, FlushBuffer, ReturnBuffer, NoBuffer, Fail, GoTo, insertUnchanged
  <2>2. /\ pc'[t] \in {"entry", "insert", "init", "return", "failed"}
        /\ \A u \in Threads \ {t} : pc'[u] = pc[u]
    BY <1>1, <2>1
  <2>3. Busy(t)' /\ Busy(t) /\ ~Left(t)'
    BY <2>1, <2>2 DEF Busy, Left, Phase
  <2>4. QED BY <1>1, <2>1, <2>2, <2>3, KeepStep
<1>5. ASSUME NEW d \in BOOLEAN, NEW f \in BOOLEAN, Gather(t, f, d),
             i' = i, range' = range, taken' = taken,
             pc[t] # "take", d => Left(t), ~d => Busy(t)
      PROVE  DealInv'
  <2> DEFINE s == [NoSync EXCEPT !.lastFlush = f, !.done = d]
  <2>1. s.done = d
    BY DEF NoSync
  <2>2. sync' = [sync EXCEPT ![t] = s] /\ pc' = [pc EXCEPT ![t] = "gather"]
    BY <1>5 DEF Gather, GoTo
  <2> HIDE DEF s
  <2>3. /\ pc'[t] = "gather" /\ sync'[t].done = d
        /\ \A u \in Threads \ {t} : pc'[u] = pc[u] /\ sync'[u] = sync[u]
    BY <1>1, <2>1, <2>2
  <2>4. (Busy(t)' <=> Busy(t)) /\ (Left(t)' => Left(t))
    BY <1>5, <2>3, Classes DEF Busy, Left, Phase
  <2>5. QED BY <1>1, <1>5, <2>3, <2>4, KeepStep
<1>6. CASE BeginEntry(t)
  <2>1. pc[t] = "entry" /\ i' = i /\ range' = range /\ taken' = taken /\ Busy(t)
    BY <1>6 DEF BeginEntry, Busy
  <2>2. CASE Gather(t, FALSE, FALSE)
    BY <1>5, <2>1, <2>2
  <2>3. CASE GoTo(t, "insert") /\ UNCHANGED sync
    <3>1. pc'[t] = "insert" /\ \A u \in Threads \ {t} : pc'[u] = pc[u]
      BY <1>1, <2>3 DEF GoTo
    <3>2. Busy(t)' /\ ~Left(t)'
      BY <3>1 DEF Busy, Left, Phase
    <3>3. QED BY <1>1, <2>1, <2>3, <3>1, <3>2, KeepStep
  <2>4. QED BY <1>6, <2>2, <2>3 DEF BeginEntry
<1>7. CASE Done(t)
  <2>1. pc[t] = "done" /\ i' = i /\ range' = range /\ taken' = taken /\ Left(t)
    BY <1>7 DEF Done, Left
  <2>2. CASE Gather(t, TRUE, TRUE)
    BY <1>5, <2>1, <2>2
  <2>3. CASE GoTo(t, "finished") /\ UNCHANGED sync
    <3>1. pc'[t] = "finished" /\ \A u \in Threads \ {t} : pc'[u] = pc[u]
      BY <1>1, <2>3 DEF GoTo
    <3>2. ~Busy(t)' /\ ~Busy(t)
      BY <2>1, <3>1 DEF Busy, Phase
    <3>3. QED BY <1>1, <2>1, <2>3, <3>1, <3>2, KeepStep
  <2>4. QED BY <1>7, <2>2, <2>3 DEF Done
<1>8. CASE Check(t)
  <2>1. pc[t] = "check" /\ i' = i /\ range' = range /\ taken' = taken /\ Left(t)
    BY <1>8 DEF Check, Left
  <2>2. CASE Gather(t, FALSE, TRUE)
    BY <1>5, <2>1, <2>2
  <2>3. CASE GoTo(t, "finished") /\ UNCHANGED sync
    <3>1. pc'[t] = "finished" /\ \A u \in Threads \ {t} : pc'[u] = pc[u]
      BY <1>1, <2>3 DEF GoTo
    <3>2. ~Busy(t)' /\ ~Busy(t)
      BY <2>1, <3>1 DEF Busy, Phase
    <3>3. QED BY <1>1, <2>1, <2>3, <3>1, <3>2, KeepStep
  <2>4. QED BY <1>8, <2>2, <2>3 DEF Check
<1>9. ASSUME pc[t] \in Waits, NEW last \in BOOLEAN, Passed(t, pc[t], last),
             i' = i, range' = range, taken' = taken
      PROVE  DealInv'
  <2>1. /\ \A u \in Threads \ {t} : sync'[u] = sync[u] /\ pc'[u] = pc[u]
        /\ sync'[t].done = sync[t].done
        /\ pc[t] = "gather" => pc'[t] = IF last THEN "prepare" ELSE "ready"
        /\ pc[t] = "ready" => pc'[t] = "part"
        /\ pc[t] = "flushed" => pc'[t] = IF sync[t].responsible THEN "finish" ELSE "restart"
        /\ pc[t] = "restart" => pc'[t] = IF sync[t].done THEN "check" ELSE "insert"
    BY <1>9, PassedStep DEF BarrierInv
  <2>2. pc[t] # "take" /\ pc'[t] # "take" /\ (Busy(t)' <=> Busy(t)) /\ (Left(t)' <=> Left(t))
    BY <1>9, <2>1 DEF Busy, Left, Phase, Waits
  <2>3. QED BY <1>1, <1>9, <2>1, <2>2, KeepStep
<1>10. CASE Arrive(t)
  <2>1. pc[t] \in Waits /\ i' = i /\ range' = range /\ taken' = taken
    BY <1>10 DEF Arrive
  <2>2. CASE LastToArrive
    BY <1>9, <1>10, <2>1, <2>2 DEF Arrive
  <2>3. CASE ~LastToArrive
    <3>1. pc' = pc /\ sync'[t].done = sync[t].done /\ \A u \in Threads \ {t} : sync'[u] = sync[u]
      BY <1>1, <1>10, <2>3 DEF Arrive, Sync
    <3>2. (Busy(t)' <=> Busy(t)) /\ (Left(t)' <=> Left(t)) /\ pc[t] # "take"
      BY <2>1, <3>1 DEF Busy, Left, Waits
    <3>3. QED BY <1>1, <2>1, <3>1, <3>2, KeepStep
  <2>4. QED BY <2>2, <2>3
<1>11. CASE WakeUp(t)
  BY <1>9, <1>11 DEF WakeUp
<1>12. CASE Prepare(t) \/ FlushPart(t) \/ Settle(t) \/ FinishFlush(t)
  <2>1. sync' = sync /\ i' = i /\ range' = range /\ taken' = taken
    BY <1>12 DEF Prepare, FlushPart, Settle, FinishFlush
  <2>2. /\ \A u \in Threads \ {t} : pc'[u] = pc[u]
        /\ pc[t] \in Phase /\ pc'[t] \in Phase
    BY <1>1, <1>12 DEF Prepare, FlushPart, Settle, FinishFlush, GoTo, Phase
  <2>3. (Busy(t)' <=> Busy(t)) /\ (Left(t)' <=> Left(t)) /\ pc[t] # "take" /\ pc'[t] # "take"
    BY <2>1, <2>2 DEF Busy, Left, Phase
  <2>4. QED BY <1>1, <2>1, <2>2, <2>3, KeepStep
<1>13. QED BY <1>2, <1>3, <1>4, <1>6, <1>7, <1>8, <1>10, <1>11, <1>12 DEF Step

(* In each order of dealing them out, however many threads and entries     *)
(* there are, every entry is inserted at most once, and once at the end.   *)
THEOREM EntriesOnce == Spec => []EachEntryOnce
<1>1. BarrierInv /\ LeaveInv /\ DealInv /\ [Next]_vars => DealInv'
  <2> SUFFICES ASSUME BarrierInv, LeaveInv, DealInv, [Next]_vars PROVE DealInv'
    OBVIOUS
  <2>1. CASE \E t \in Threads : Step(t)
    BY <2>1, StepDeal
  <2>2. CASE UNCHANGED vars
    BY <2>2 DEF vars, DealInv, DealType, Undealt, HasEntry, Busy, Left, InRange, RangeStart
  <2>3. QED BY <2>1, <2>2 DEF Next, Terminated
<1>2. BarrierInv /\ DealInv => EachEntryOnce
  <2> SUFFICES ASSUME BarrierInv, DealInv, NEW e \in EntryIndices
               PROVE  taken[e] <= 1 /\ (Joined => taken[e] = 1)
    BY DEF EachEntryOnce
  <2>1. taken[e] \in 0 .. 1
    BY DEF DealInv, DealType
  <2>2. ASSUME Joined PROVE taken[e] # 0
    <3>1. 0 \in Threads
      BY ThreadsAssumption DEF Threads
    <3>2. \A t \in Threads : pc[t] = "finished" /\ Left(t) /\ ~Busy(t)
      BY <2>2 DEF Joined, Left, Busy, Phase
    <3>3. \A t \in Threads : ~HasEntry(t, e)
      <4> SUFFICES ASSUME NEW t \in Threads PROVE ~HasEntry(t, e)
        OBVIOUS
      <4>1. range[t].at \in Nat /\ range[t].end \in Nat /\ ~(range[t].at < range[t].end)
        BY <3>2 DEF DealInv, DealType
      <4>2. QED BY <4>1 DEF HasEntry, EntryIndices
    <3>4. ~Undealt(e)
      BY <3>1, <3>2 DEF DealInv, DealType, Undealt
    <3>5. QED BY <3>3, <3>4 DEF DealInv
  <2>3. QED BY <2>1, <2>2
<1>3. QED BY <1>1, <1>2, InitDeal, BarrierAlways, LeaveAlways, PTL DEF Spec

-----------------------------------------------------------------------------
(* The pool under the threads: its invariants are those of the pool alone, *)
(* once every step of a thread is one of the pool's.                       *)
Proofs == INSTANCE EntryBufferPoolProofs WITH
            Total <- NThreads,
            phase <- IF Flushing THEN "flushing" ELSE "operating",
            pending <- Pending

(* The steps of the pool in this module and of the pool the lemmas of      *)
(* EntryBufferPoolProofs are about: both instances have the same arguments. *)
LEMMA SamePool ==
  /\ Pool!Init <=> Proofs!Init
  /\ [Pool!Next]_Pool!vars <=> [Proofs!Next]_Proofs!vars
  BY DEF Pool!Init, Pool!PoolInit, Pool!Next, Pool!vars, Pool!poolVars, Pool!Serve, Pool!Use,
    Pool!PrepareFullDeallocate, Pool!DoFullDeallocatePart, Pool!FinishFullDeallocate,
    Pool!Allocate, Pool!AllocateNull, Pool!Deallocate, Pool!InitBuffer, Pool!InsertRow,
    Pool!Flush, Pool!FlushChunk, Pool!Reset, Pool!Chunk, Pool!ChunkSize, Pool!Parts,
    Pool!Slots, Pool!None, Pool!Cleared, Pool!Linked, Pool!NowInitialized,
    Proofs!Init, Proofs!PoolInit, Proofs!Next, Proofs!vars, Proofs!poolVars, Proofs!Serve,
    Proofs!Use, Proofs!PrepareFullDeallocate, Proofs!DoFullDeallocatePart,
    Proofs!FinishFullDeallocate, Proofs!Allocate, Proofs!AllocateNull, Proofs!Deallocate,
    Proofs!InitBuffer, Proofs!InsertRow, Proofs!Flush, Proofs!FlushChunk, Proofs!Reset,
    Proofs!Chunk, Proofs!ChunkSize, Proofs!Parts, Proofs!Slots, Proofs!None,
    Proofs!Cleared, Proofs!Linked, Proofs!NowInitialized

(* A thread that took a buffer and did not fill it yet, or flushed one and *)
(* did not return it yet.                                                  *)
Holding(t) == pc[t] \in {"init", "return"}

(* The buffers that are in use and not filled are those the threads hold,  *)
(* each of them one and cleared.                                           *)
HeldInv ==
  /\ held \in [Threads -> Int]
  /\ \A t \in Threads : Holding(t) =>
       /\ held[t] \in inUse \ filled /\ nextIndex[held[t]] = 0
       /\ \A u \in Threads : Holding(u) /\ held[u] = held[t] => u = t
  /\ \A s \in inUse \ filled : \E t \in Threads : Holding(t) /\ held[t] = s

(* What the steps need to know of the pool. *)
PoolFacts ==
  /\ nInitialized \in 0 .. Capacity /\ nFree \in 0 .. Capacity
  /\ nextIndex \in [Pool!Slots -> Int]
  /\ inUse \subseteq Pool!Slots /\ filled \subseteq inUse
  /\ ~Flushing => Pool!AllocatesUnusedBuffer

(* What PoolFacts says follows from the inductive invariant of the pool.   *)
LEMMA PoolKnown == Proofs!IInv => PoolFacts
<1> SUFFICES ASSUME Proofs!IInv PROVE PoolFacts
  OBVIOUS
<1>1. Proofs!AllocatesUnusedBuffer
  BY Proofs!UnusedBuffer, PoolAssumption, ThreadsAssumption
<1>2. Pool!AllocatesUnusedBuffer
  BY <1>1 DEF Pool!AllocatesUnusedBuffer, Pool!Cleared, Pool!Slots,
              Proofs!AllocatesUnusedBuffer, Proofs!Cleared, Proofs!Slots
<1>3. Proofs!TypeOK
  BY DEF Proofs!IInv
<1> QED BY <1>2, <1>3 DEF PoolFacts, Proofs!TypeOK, Proofs!Slots, Pool!Slots

(* A thread inside or between insertions: no full deallocation is under    *)
(* way.                                                                    *)
LEMMA OutsideOperating ==
  ASSUME BarrierInv, NEW t \in Threads, ~Released(t), pc[t] \in Outside
  PROVE  AllOutside /\ ~Flushing
<1>1. AllOutside
  BY DEF BarrierInv, SameStage, AllBehind, Behind, Outside, Preparing, Emptying, Finishing
<1>2. \A u \in Threads : Released(u) => pc[u] = "restart"
  BY <1>1 DEF AllOutside, Behind
<1>3. ~Flushing
  BY <1>1, <1>2 DEF AllOutside, Behind, Outside, Flushing, Prepared
<1> QED BY <1>1, <1>3

(* The phase of the pool changes only with Prepared, and its pending parts *)
(* with the labels of the threads.                                         *)
LEMMA PhaseKept ==
  ASSUME \A t \in Threads : Prepared(t)' <=> Prepared(t),
         ~Flushing \/ \A t \in Threads : pc'[t] \in {"gather", "ready", "part"}
                                           <=> pc[t] \in {"gather", "ready", "part"}
  PROVE  Flushing' = Flushing /\ Pending' = Pending
<1>1. Flushing' <=> Flushing
  BY DEF Flushing
<1>2. Pending' = Pending
  BY <1>1 DEF Pending
<1> QED BY <1>1, <1>2 DEF Flushing

(* A step that leaves the pool and the phase alone is a stutter of the pool. *)
LEMMA PoolUnchanged ==
  ASSUME Flushing' = Flushing, Pending' = Pending, UNCHANGED poolVars
  PROVE  [Pool!Next]_Pool!vars
  BY DEF poolVars, Pool!vars, Pool!poolVars

(* What the operations of the pool do to the buffers held. *)
LEMMA KeepsHeld ==
  ASSUME HeldInv, UNCHANGED <<nextIndex, inUse, filled, held>>,
         \A u \in Threads : Holding(u)' <=> Holding(u)
  PROVE  HeldInv'
  BY DEF HeldInv

(* The steps of an insertion that call no operation of the pool.           *)
LEMMA InsideStep ==
  ASSUME BarrierInv, PoolFacts, HeldInv, NEW t \in Threads,
         \/ Take(t) \/ BeginEntry(t) \/ ParallelInsert(t) \/ InsertDirectly(t) \/ Fail(t)
         \/ Done(t) \/ Check(t)
  PROVE  [Pool!Next]_Pool!vars /\ HeldInv'
<1>1. /\ pc[t] \in Outside \ {"gather", "init", "return"}
      /\ pc \in [Threads -> Labels] /\ sync \in [Threads -> Sync]
      /\ ~Released(t)
  BY DEF BarrierInv, BarrierType, Released, Waits, Take, BeginEntry, ParallelInsert,
         InsertDirectly, Fail, Done, Check, Outside
<1>2. /\ \A u \in Threads \ {t} : pc'[u] = pc[u] /\ sync'[u] = sync[u]
      /\ pc'[t] \in Outside \ {"init", "return"}
  BY <1>1 DEF Take, BeginEntry, ParallelInsert, InsertDirectly, Fail, Done, Check, Assign,
              Advance, GoTo, Gather, Outside, insertUnchanged
<1>3. ~Flushing /\ AllOutside
  BY <1>1, OutsideOperating
<1>4. UNCHANGED <<poolVars, held>>
  BY DEF Take, BeginEntry, ParallelInsert, InsertDirectly, Fail, Done, Check
<1>5. Flushing' = Flushing /\ Pending' = Pending
  <2>1. \A u \in Threads : Prepared(u)' <=> Prepared(u)
    BY <1>1, <1>2 DEF Prepared, Outside
  <2> QED BY <1>3, <2>1, PhaseKept
<1>6. HeldInv'
  <2>1. \A u \in Threads : Holding(u)' <=> Holding(u)
    BY <1>1, <1>2 DEF Holding
  <2> QED BY <1>4, <2>1, KeepsHeld DEF poolVars
<1> QED BY <1>4, <1>5, <1>6, PoolUnchanged

(* A call of the pool inside an insertion. *)
LEMMA CallPhase ==
  ASSUME BarrierInv, NEW t \in Threads, NEW l \in Outside \ {"gather"},
         pc[t] \in {"insert", "init", "return"}, pc' = [pc EXCEPT ![t] = l], sync' = sync
  PROVE  /\ ~Flushing /\ ~Flushing' /\ Pending' = Pending
         /\ pc'[t] = l /\ \A u \in Threads \ {t} : pc'[u] = pc[u]
<1>1. pc \in [Threads -> Labels] /\ ~Released(t)
  BY DEF BarrierInv, BarrierType, Released, Waits
<1>2. pc'[t] = l /\ \A u \in Threads \ {t} : pc'[u] = pc[u]
  BY <1>1
<1>3. ~Flushing
  BY <1>1, OutsideOperating DEF Outside
<1>4. \A u \in Threads : Prepared(u)' <=> Prepared(u)
  BY <1>2 DEF Prepared, Outside
<1> QED BY <1>2, <1>3, <1>4, PhaseKept

(* allocate hands out a buffer nobody holds: the pool says it is not in use. *)
LEMMA AllocateStep ==
  ASSUME BarrierInv, PoolFacts, HeldInv, NEW t \in Threads, TakeBuffer(t)
  PROVE  [Pool!Next]_Pool!vars /\ HeldInv'
<1>1. /\ ~Flushing /\ ~Flushing' /\ Pending' = Pending
      /\ pc'[t] = "init" /\ \A u \in Threads \ {t} : pc'[u] = pc[u]
  BY CallPhase DEF TakeBuffer, GoTo, insertUnchanged, Outside
<1>2. Pool!Allocate /\ filled' = filled /\ held' = [held EXCEPT ![t] = headIndex]
  BY DEF TakeBuffer
<1>3. [Pool!Next]_Pool!vars
  BY <1>1, <1>2 DEF Pool!Next, Pool!Serve
<1>4. /\ headIndex \in Pool!Slots \ (inUse \cup filled)
      /\ nInitialized < Capacity => nInitialized \notin inUse
  BY <1>1, <1>2 DEF PoolFacts, Pool!AllocatesUnusedBuffer, Pool!Allocate
<1>5. /\ inUse' = inUse \cup {headIndex} /\ nextIndex'[headIndex] = 0
      /\ \A s \in inUse : nextIndex'[s] = nextIndex[s]
  BY <1>2, <1>4 DEF PoolFacts, Pool!Allocate, Pool!Linked
<1>6. /\ held'[t] = headIndex /\ \A u \in Threads \ {t} : held'[u] = held[u]
      /\ held' \in [Threads -> Int]
  BY <1>2, <1>4 DEF HeldInv, Pool!Slots
<1>7. /\ Holding(t)' /\ ~Holding(t)
      /\ \A u \in Threads \ {t} : Holding(u)' <=> Holding(u)
  BY <1>1 DEF Holding, TakeBuffer
<1>8. HeldInv'
  BY <1>2, <1>4, <1>5, <1>6, <1>7 DEF HeldInv
<1> QED BY <1>3, <1>8

(* allocate returns null, but may link in the buffers it tried.            *)
LEMMA NoneFreeStep ==
  ASSUME BarrierInv, PoolFacts, HeldInv, NEW t \in Threads, NoBuffer(t)
  PROVE  [Pool!Next]_Pool!vars /\ HeldInv'
<1>1. /\ ~Flushing /\ ~Flushing' /\ Pending' = Pending
      /\ pc'[t] = "failed" /\ \A u \in Threads \ {t} : pc'[u] = pc[u]
  BY CallPhase DEF NoBuffer, GoTo, insertUnchanged, Outside
<1>2. Pool!AllocateNull /\ filled' = filled /\ held' = held
  BY DEF NoBuffer
<1>3. [Pool!Next]_Pool!vars
  BY <1>1, <1>2 DEF Pool!Next, Pool!Serve
<1>4. nInitialized < Capacity => nInitialized \notin inUse
  BY <1>1 DEF PoolFacts, Pool!AllocatesUnusedBuffer
<1>5. inUse' = inUse /\ \A s \in inUse : nextIndex'[s] = nextIndex[s]
  BY <1>2, <1>4 DEF PoolFacts, Pool!AllocateNull, Pool!Linked
<1>6. \A u \in Threads : Holding(u)' <=> Holding(u)
  BY <1>1 DEF Holding, NoBuffer
<1>7. HeldInv'
  BY <1>2, <1>5, <1>6 DEF HeldInv
<1> QED BY <1>3, <1>7

(* Rows are inserted into, and flushed from, buffers nobody holds.         *)
LEMMA RowStep ==
  ASSUME BarrierInv, PoolFacts, HeldInv, NEW t \in Threads, InsertRow(t)
  PROVE  [Pool!Next]_Pool!vars /\ HeldInv'
<1>1. PICK l \in Outside \ {"gather", "init", "return"} : pc' = [pc EXCEPT ![t] = l]
  BY DEF InsertRow, Advance, GoTo, Outside
<1>2. /\ ~Flushing /\ ~Flushing' /\ Pending' = Pending
      /\ pc'[t] = l /\ \A u \in Threads \ {t} : pc'[u] = pc[u]
  BY <1>1, CallPhase DEF InsertRow, insertUnchanged
<1>3. PICK s \in filled : Pool!InsertRow(s)
  BY DEF InsertRow
<1>4. s \in Pool!Slots
  BY DEF PoolFacts
<1>5. [Pool!Next]_Pool!vars
  BY <1>2, <1>3, <1>4 DEF Pool!Next, Pool!Use
<1>6. /\ inUse' = inUse /\ filled' = filled /\ held' = held
      /\ \A r \in inUse \ filled : nextIndex'[r] = nextIndex[r]
  BY <1>3 DEF Pool!InsertRow, InsertRow, PoolFacts
<1>7. \A u \in Threads : Holding(u)' <=> Holding(u)
  BY <1>2 DEF Holding, InsertRow
<1>8. HeldInv'
  BY <1>6, <1>7 DEF HeldInv
<1> QED BY <1>5, <1>8

(* A full buffer is flushed: the thread holds it until it returns it.      *)
LEMMA FlushStep ==
  ASSUME BarrierInv, PoolFacts, HeldInv, NEW t \in Threads, FlushBuffer(t)
  PROVE  [Pool!Next]_Pool!vars /\ HeldInv'
<1>1. /\ ~Flushing /\ ~Flushing' /\ Pending' = Pending
      /\ pc'[t] = "return" /\ \A u \in Threads \ {t} : pc'[u] = pc[u]
  BY CallPhase DEF FlushBuffer, GoTo, insertUnchanged, Outside
<1>2. PICK s \in filled : Pool!Flush(s) /\ held' = [held EXCEPT ![t] = s]
  BY DEF FlushBuffer
<1>3. s \in Pool!Slots /\ s \in inUse
  BY DEF PoolFacts
<1>4. [Pool!Next]_Pool!vars
  BY <1>1, <1>2, <1>3 DEF Pool!Next, Pool!Use
<1>5. /\ inUse' = inUse /\ filled' = filled \ {s} /\ nextIndex'[s] = 0
      /\ \A r \in inUse \ filled : nextIndex'[r] = nextIndex[r]
  BY <1>2, <1>3 DEF Pool!Flush, PoolFacts
<1>6. /\ held'[t] = s /\ \A u \in Threads \ {t} : held'[u] = held[u]
      /\ held' \in [Threads -> Int]
  BY <1>2, <1>3 DEF HeldInv, Pool!Slots
<1>7. /\ Holding(t)' /\ ~Holding(t)
      /\ \A u \in Threads \ {t} : Holding(u)' <=> Holding(u)
  BY <1>1 DEF Holding, FlushBuffer
<1>8. HeldInv'
  BY <1>3, <1>5, <1>6, <1>7 DEF HeldInv
<1> QED BY <1>4, <1>8

(* A buffer held is filled or returned, and held no longer.                *)
LEMMA ReleaseStep ==
  ASSUME BarrierInv, PoolFacts, HeldInv, NEW t \in Threads, FillBuffer(t) \/ ReturnBuffer(t)
  PROVE  [Pool!Next]_Pool!vars /\ HeldInv'
<1>1. PICK l \in Outside \ {"gather", "init", "return"} : pc' = [pc EXCEPT ![t] = l]
  BY DEF FillBuffer, ReturnBuffer, Advance, GoTo, Outside
<1>2. /\ ~Flushing /\ ~Flushing' /\ Pending' = Pending
      /\ pc'[t] = l /\ \A u \in Threads \ {t} : pc'[u] = pc[u]
  BY <1>1, CallPhase DEF FillBuffer, ReturnBuffer, insertUnchanged
<1> DEFINE s == held[t]
<1>3. s \in inUse \ filled /\ nextIndex[s] = 0 /\ s \in Pool!Slots
  BY DEF HeldInv, Holding, FillBuffer, ReturnBuffer, PoolFacts
<1>4. \/ Pool!InitBuffer(s)
      \/ Pool!Deallocate(s) /\ filled' = filled
  BY DEF FillBuffer, ReturnBuffer
<1>5. [Pool!Next]_Pool!vars
  BY <1>2, <1>3, <1>4 DEF Pool!Next, Pool!Use, Pool!Serve, Pool!Cleared
<1>6. /\ inUse' \ filled' = (inUse \ filled) \ {s}
      /\ \A r \in inUse \ {s} : nextIndex'[r] = nextIndex[r]
  BY <1>3, <1>4 DEF Pool!InitBuffer, Pool!Deallocate, PoolFacts
<1>7. \A u \in Threads \ {t} : held'[u] = held[u]
  BY DEF FillBuffer, ReturnBuffer, HeldInv
<1>8. held' \in [Threads -> Int]
  BY DEF FillBuffer, ReturnBuffer, HeldInv
<1>9. /\ ~Holding(t)' /\ Holding(t)
      /\ \A u \in Threads \ {t} : Holding(u)' <=> Holding(u)
  BY <1>2 DEF Holding, FillBuffer, ReturnBuffer
<1>10. HeldInv'
  BY <1>3, <1>6, <1>7, <1>8, <1>9 DEF HeldInv
<1> QED BY <1>5, <1>10

-----------------------------------------------------------------------------
(* The steps of a phase. *)

(* Passing a wait changes neither the phase of the pool nor its parts.     *)
LEMMA PassStep ==
  ASSUME BarrierInv, NEW t \in Threads, NEW last \in BOOLEAN, pc[t] \in Waits,
         Passed(t, pc[t], last), UNCHANGED <<poolVars, held>>, HeldInv,
         pc[t] = "gather" /\ last => ~Flushing
  PROVE  [Pool!Next]_Pool!vars /\ HeldInv'
<1>1. pc \in [Threads -> Labels] /\ sync \in [Threads -> Sync]
  BY DEF BarrierInv, BarrierType
<1>2. /\ \A u \in Threads \ {t} : pc'[u] = pc[u] /\ sync'[u] = sync[u]
      /\ sync'[t].responsible = IF pc[t] = "gather" THEN last ELSE sync[t].responsible
      /\ pc[t] = "gather" => pc'[t] = IF last THEN "prepare" ELSE "ready"
      /\ pc[t] = "ready" => pc'[t] = "part"
      /\ pc[t] = "flushed" => pc'[t] = IF sync[t].responsible THEN "finish" ELSE "restart"
      /\ pc[t] = "restart" => pc'[t] = IF sync[t].done THEN "check" ELSE "insert"
  BY <1>1 DEF Passed, GoTo, Sync, Waits
<1>3. \A u \in Threads : Prepared(u)' <=> Prepared(u)
  BY <1>2 DEF Prepared, Waits
<1>4. ~Flushing \/ \A u \in Threads : pc'[u] \in {"gather", "ready", "part"}
                                        <=> pc[u] \in {"gather", "ready", "part"}
  BY <1>2 DEF Waits
<1>5. \A u \in Threads : Holding(u)' <=> Holding(u)
  BY <1>2 DEF Holding, Waits
<1>6. HeldInv'
  BY <1>5, KeepsHeld DEF poolVars
<1> QED BY <1>3, <1>4, <1>6, PhaseKept, PoolUnchanged

(* A thread arrives at a wait, or wakes up there.                          *)
LEMMA WaitStep ==
  ASSUME BarrierInv, HeldInv, NEW t \in Threads, Arrive(t) \/ WakeUp(t)
  PROVE  [Pool!Next]_Pool!vars /\ HeldInv'
<1>1. CASE WakeUp(t)
  BY <1>1, PassStep DEF WakeUp
<1>2. CASE Arrive(t) /\ LastToArrive
  <2>1. ASSUME pc[t] = "gather" PROVE ~Flushing
    BY <1>2, <2>1, OutsideOperating DEF Arrive, Released, Outside
  <2> QED BY <1>2, <2>1, PassStep DEF Arrive
<1>3. CASE Arrive(t) /\ ~LastToArrive
  <2>1. /\ pc' = pc /\ UNCHANGED <<poolVars, held>>
        /\ \A u \in Threads : sync'[u].responsible = sync[u].responsible
    BY <1>3 DEF Arrive, BarrierInv, BarrierType, Sync
  <2>2. \A u \in Threads : (Prepared(u)' <=> Prepared(u)) /\ (Holding(u)' <=> Holding(u))
    BY <2>1 DEF Prepared, Holding
  <2> QED BY <2>1, <2>2, PhaseKept, KeepsHeld, PoolUnchanged DEF poolVars
<1> QED BY <1>1, <1>2, <1>3

(* Where the threads are during a phase: nobody holds a buffer. *)
LEMMA NoneHolding ==
  ASSUME BarrierInv, HeldInv, NEW t \in Threads,
         pc[t] \in {"prepare", "part", "settle", "finish"}
  PROVE  (\A u \in Threads : ~Holding(u)) /\ inUse \subseteq filled
<1>1. ~Released(t)
  BY DEF BarrierInv, BarrierType, Released, Waits
<1>2. \A u \in Threads : Released(u) => pc[u] \in Waits
  BY DEF BarrierInv, BarrierType, Released
<1>3. \A u \in Threads : ~Holding(u)
  BY <1>1, <1>2 DEF BarrierInv, SameStage, AllOutside, AllBehind, Behind, Outside, Preparing,
                    Emptying, Finishing, Holding, Waits
<1> QED BY <1>3 DEF HeldInv

(* The responsible thread starts the full deallocation: everyone else waits. *)
LEMMA PrepareStep ==
  ASSUME BarrierInv, HeldInv, NEW t \in Threads, Prepare(t)
  PROVE  [Pool!Next]_Pool!vars /\ HeldInv'
<1>1. /\ pc[t] = "prepare" /\ sync' = sync /\ UNCHANGED <<poolVars, held>>
      /\ pc'[t] = "ready" /\ \A u \in Threads \ {t} : pc'[u] = pc[u]
      /\ sync[t].responsible /\ ~Released(t)
  BY DEF Prepare, GoTo, BarrierInv, BarrierType, Released, Waits
<1>2. AllBehind("gather", Preparing)
  BY <1>1 DEF BarrierInv, SameStage, AllOutside, AllBehind, Behind, Outside, Preparing,
              Emptying, Finishing
<1>3. \A u \in Threads \ {t} : ~sync[u].responsible /\ pc[u] \in {"gather", "ready"}
  <2>1. \A u \in Threads \ {t} : ~sync[u].responsible
    BY <1>1, <1>2 DEF AllBehind
  <2>2. \A u \in Threads : pc[u] = "prepare" => sync[u].responsible
    BY DEF BarrierInv, BarrierType
  <2> QED BY <1>2, <2>1, <2>2 DEF AllBehind, Behind, Preparing
<1>4. ~Flushing
  BY <1>1, <1>3 DEF Flushing, Prepared
<1>5. Flushing' /\ Pending' = Threads
  <2>1. Prepared(t)'
    BY <1>1 DEF Prepared
  <2>2. \A u \in Threads : pc'[u] \in {"gather", "ready", "part"}
    BY <1>1, <1>3
  <2>3. Flushing'
    BY <2>1 DEF Flushing
  <2> QED BY <2>2, <2>3 DEF Pending
<1>6. Pool!PrepareFullDeallocate
  BY <1>1, <1>4, <1>5, NoneHolding
     DEF Pool!PrepareFullDeallocate, Pool!Parts, Threads, poolVars, Pool!poolVars
<1>7. \A u \in Threads : Holding(u)' <=> Holding(u)
  BY <1>1 DEF Holding
<1> QED BY <1>1, <1>6, <1>7, KeepsHeld DEF Pool!Next, poolVars

(* The threads between the second and the third wait. *)
LEMMA PartPhase ==
  ASSUME BarrierInv, NEW t \in Threads, pc[t] \in {"part", "settle"}
  PROVE  Flushing /\ \A u \in Threads : pc[u] \in {"ready", "part", "settle", "flushed"}
<1>1. ~Released(t)
  BY DEF BarrierInv, BarrierType, Released, Waits
<1>2. AllBehind("ready", Emptying)
  BY <1>1 DEF BarrierInv, SameStage, AllOutside, AllBehind, Behind, Outside, Preparing,
              Emptying, Finishing
<1> QED BY <1>2 DEF AllBehind, Behind, Emptying, Flushing, Prepared

(* Each thread flushes its own part of the buffers.                        *)
LEMMA PartStep ==
  ASSUME BarrierInv, HeldInv, NEW t \in Threads, FlushPart(t)
  PROVE  [Pool!Next]_Pool!vars /\ HeldInv'
<1>1. /\ pc[t] = "part" /\ sync' = sync /\ held' = held /\ Pool!FlushChunk(t)
      /\ pc'[t] = "settle" /\ \A u \in Threads \ {t} : pc'[u] = pc[u]
  BY DEF FlushPart, GoTo, BarrierInv, BarrierType
<1>2. Flushing
  BY <1>1, PartPhase
<1>3. \A u \in Threads : Prepared(u)' <=> Prepared(u)
  BY <1>1 DEF Prepared
<1>4. Flushing'
  BY <1>2, <1>3 DEF Flushing
<1>5. t \in Pending /\ Pending' = Pending \ {t}
  BY <1>1, <1>2, <1>4 DEF Pending
<1>6. Pool!DoFullDeallocatePart(t)
  BY <1>1, <1>2, <1>4, <1>5 DEF Pool!DoFullDeallocatePart
<1>7. [Pool!Next]_Pool!vars
  BY <1>6 DEF Pool!Next, Pool!Parts, Threads
<1>8. HeldInv'
  <2>1. \A u \in Threads : ~Holding(u)'
    BY <1>1, NoneHolding DEF Holding
  <2>2. inUse' \subseteq filled'
    BY <1>1, NoneHolding DEF Pool!FlushChunk
  <2> QED BY <1>1, <2>1, <2>2 DEF HeldInv
<1> QED BY <1>7, <1>8

(* What the thread does after its part does not touch the pool.            *)
LEMMA SettleStep ==
  ASSUME BarrierInv, HeldInv, NEW t \in Threads, Settle(t)
  PROVE  [Pool!Next]_Pool!vars /\ HeldInv'
<1>1. /\ pc[t] = "settle" /\ sync' = sync /\ UNCHANGED <<poolVars, held>>
      /\ pc'[t] = "flushed" /\ \A u \in Threads \ {t} : pc'[u] = pc[u]
  BY DEF Settle, GoTo, BarrierInv, BarrierType
<1>2. \A u \in Threads : /\ Prepared(u)' <=> Prepared(u)
                         /\ Holding(u)' <=> Holding(u)
                         /\ pc'[u] \in {"gather", "ready", "part"}
                              <=> pc[u] \in {"gather", "ready", "part"}
  BY <1>1 DEF Prepared, Holding
<1> QED BY <1>1, <1>2, PhaseKept, KeepsHeld, PoolUnchanged DEF poolVars

(* The responsible thread resets the pool when no part is pending.         *)
LEMMA FinishStep ==
  ASSUME BarrierInv, HeldInv, NEW t \in Threads, FinishFlush(t)
  PROVE  [Pool!Next]_Pool!vars /\ HeldInv'
<1>1. /\ pc[t] = "finish" /\ sync' = sync /\ held' = held /\ Pool!Reset
      /\ UNCHANGED <<nextIndex, inUse, filled>>
      /\ pc'[t] = "restart" /\ \A u \in Threads \ {t} : pc'[u] = pc[u]
      /\ sync[t].responsible /\ ~Released(t)
  BY DEF FinishFlush, GoTo, BarrierInv, BarrierType, Released, Waits
<1>2. AllBehind("flushed", Finishing)
  BY <1>1 DEF BarrierInv, SameStage, AllOutside, AllBehind, Behind, Outside, Preparing,
              Emptying, Finishing
<1>3. \A u \in Threads : /\ pc[u] \in {"flushed", "finish", "restart"}
                         /\ sync[u].responsible => u = t
  BY <1>1, <1>2 DEF AllBehind, Behind, Finishing
<1>4. Flushing /\ Pending = {}
  BY <1>1, <1>3 DEF Flushing, Prepared, Pending
<1>5. ~Flushing'
  BY <1>1, <1>3 DEF Flushing, Prepared
<1>6. Pending' = {}
  BY <1>5 DEF Pending
<1>7. Pool!FinishFullDeallocate
  BY <1>1, <1>4, <1>5, <1>6 DEF Pool!FinishFullDeallocate
<1>8. \A u \in Threads : Holding(u)' <=> Holding(u)
  BY <1>1 DEF Holding
<1> QED BY <1>1, <1>7, <1>8, KeepsHeld DEF Pool!Next

-----------------------------------------------------------------------------
(* Every step of a thread is a step of the pool, or leaves it alone.       *)
LEMMA StepPool ==
  ASSUME BarrierInv, PoolFacts, HeldInv, NEW t \in Threads, Step(t)
  PROVE  [Pool!Next]_Pool!vars /\ HeldInv'
  BY InsideStep, AllocateStep, NoneFreeStep, RowStep, FlushStep, ReleaseStep, WaitStep,
     PrepareStep, PartStep, SettleStep, FinishStep DEF Step

(* The invariants of the threads and of the pool are inductive together.   *)
LEMMA NextPool ==
  BarrierInv /\ Proofs!IInv /\ HeldInv /\ [Next]_vars
    => [Pool!Next]_Pool!vars /\ Proofs!IInv' /\ HeldInv'
<1> SUFFICES ASSUME BarrierInv, Proofs!IInv, HeldInv, [Next]_vars
             PROVE  [Pool!Next]_Pool!vars /\ Proofs!IInv' /\ HeldInv'
  OBVIOUS
<1>1. [Pool!Next]_Pool!vars /\ HeldInv'
  <2>1. CASE \E t \in Threads : Step(t)
    BY <2>1, StepPool, PoolKnown
  <2>2. CASE UNCHANGED vars
    <3>1. pc' = pc /\ sync' = sync /\ UNCHANGED <<poolVars, held>>
      BY <2>2 DEF vars
    <3>2. \A u \in Threads : (Prepared(u)' <=> Prepared(u)) /\ (Holding(u)' <=> Holding(u))
      BY <3>1 DEF Prepared, Holding
    <3> QED BY <3>1, <3>2, PhaseKept, KeepsHeld, PoolUnchanged DEF poolVars
  <2> QED BY <2>1, <2>2 DEF Next, Terminated
<1>2. Proofs!IInv'
  BY <1>1, SamePool, Proofs!NextInv, PoolAssumption, ThreadsAssumption
<1> QED BY <1>1, <1>2

(* The pool starts as the constructor leaves it, and nobody holds a buffer. *)
LEMMA InitPool == Init => Pool!Init /\ Proofs!IInv /\ HeldInv
<1> SUFFICES ASSUME Init PROVE Pool!Init /\ Proofs!IInv /\ HeldInv
  OBVIOUS
<1>1. ~Flushing /\ Pending = {}
  BY DEF Init, Flushing, Prepared, Pending
<1>2. Pool!Init
  BY <1>1 DEF Init, Pool!Init
<1>3. Proofs!IInv
  BY <1>2, SamePool, Proofs!InitInv, PoolAssumption, ThreadsAssumption
<1>4. HeldInv
  BY DEF Init, HeldInv, Holding, Pool!PoolInit
<1> QED BY <1>2, <1>3, <1>4

(* The invariant of the pool holds below the threads.                      *)
LEMMA PoolAlways == Spec => [](Proofs!IInv /\ HeldInv)
  BY InitPool, NextPool, BarrierAlways, PTL DEF Spec

(* The threads use the pool as it is meant to be used: what they do to it, *)
(* in whatever order, is a behaviour of EntryBufferPool.                   *)
THEOREM PoolUsedCorrectly == Spec => UsesPoolCorrectly
  BY InitPool, NextPool, PoolAlways, BarrierAlways, PTL DEF Spec, UsesPoolCorrectly, Pool!Spec

(* What is proved of the pool alone holds below the threads: the buffer    *)
(* allocate hands out is used by no thread, the free list is intact and a  *)
(* full deallocation leaves no buffer behind.                              *)
THEOREM PoolSoundUnderThreads ==
  Spec => [](Proofs!FreeListInv /\ Proofs!AllocatesUnusedBuffer /\ Proofs!DrainedWhenDone)
<1>1. Proofs!IInv => Proofs!FreeListInv /\ Proofs!AllocatesUnusedBuffer
  BY Proofs!UnusedBuffer, PoolAssumption, ThreadsAssumption DEF Proofs!IInv
<1>2. Proofs!IInv => Proofs!DrainedWhenDone
  BY DEF Proofs!IInv, Proofs!TypeOK, Proofs!FlushInv, Proofs!DrainedWhenDone
<1> QED BY <1>1, <1>2, PoolAlways, PTL

-----------------------------------------------------------------------------
(* The threads of RangeQueryThreadPool.  First: the ranges given to them   *)
(* are each queried once, whatever the queries return.                     *)
CONSTANTS CAPACITY, Half, MaxValue, RangeLists, Rect, InOrder(_)
VARIABLES stored, phase, type, ranges, queryPc, index, hits, storage, blocks

Queries == INSTANCE RangeQueryThreadPool WITH pc <- queryPc

(* Range k, counted from 0, is in the chunk of thread t. *)
InChunk(k, t) == Queries!Start(t) <= k /\ k < Queries!End(t)

(* Chunks of size 1 + n \div T: the one of range k is found by division,   *)
(* and the last thread with a range is one of the pool.                    *)
LEMMA ChunkOf ==
  ASSUME NThreads \in Nat \ {0}, Len(ranges) \in Nat, NEW k \in 0 .. Len(ranges) - 1
  PROVE  /\ \E t \in Queries!Threads : InChunk(k, t)
         /\ \A t \in Queries!Threads : InChunk(k, t) => t = k \div Queries!ChunkSize
<1> DEFINE n == Len(ranges)
           q == n \div NThreads
           C == Queries!ChunkSize
           o == k \div C
<1>1. q \in Nat /\ n % NThreads \in 0 .. NThreads - 1 /\ n = NThreads * q + (n % NThreads)
  BY DivMod
<1>2. C = q + 1 /\ C \in Nat \ {0}
  BY <1>1 DEF Queries!ChunkSize
<1> HIDE DEF q, C
<1>3. C * NThreads = NThreads * q + NThreads /\ NThreads * q \in Nat
  <2>1. NThreads * (q + 1) = NThreads * q + NThreads
    BY <1>1, MulSucc
  <2>2. C * NThreads = NThreads * C /\ NThreads * q \in Nat
    BY <1>1, <1>2, SMT
  <2>3. QED BY <2>1, <2>2, <1>2
<1>4. k \in Nat /\ k < C * NThreads
  BY <1>1, <1>3
<1>5. \A b \in Nat : k < C * b <=> o < b
  BY <1>2, <1>4, QuotientBelow
<1>6. o \in Nat
  BY <1>2, <1>4, DivMod
<1> HIDE DEF o
<1>7. o \in Queries!Threads
  BY <1>4, <1>5, <1>6 DEF Queries!Threads
<1>8. \A t \in Queries!Threads : C * t \in Nat /\ C * (t + 1) \in Nat
  BY <1>2, SMT DEF Queries!Threads
<1>9. \A t \in Queries!Threads : InChunk(k, t) <=> C * t <= k /\ k < C * (t + 1)
  BY <1>4, <1>8 DEF InChunk, Queries!Start, Queries!End, C
<1>10. \A t \in Queries!Threads : InChunk(k, t) <=> t = o
  <2>1. SUFFICES ASSUME NEW t \in Queries!Threads PROVE InChunk(k, t) <=> t = o
    OBVIOUS
  <2>2. t \in Nat /\ t + 1 \in Nat
    BY DEF Queries!Threads
  <2>3. k < C * t <=> o < t
    BY <1>5, <2>2
  <2>4. k < C * (t + 1) <=> o < t + 1
    BY <1>5, <2>2
  <2>5. QED BY <1>4, <1>6, <1>8, <1>9, <2>2, <2>3, <2>4
<1>11. QED BY <1>7, <1>10 DEF o, C

-----------------------------------------------------------------------------
(* Each thread goes through its chunk from start to end; one that starts   *)
(* behind the last range stays there.                                      *)
IndexInv ==
  /\ Len(ranges) \in Nat
  /\ queryPc \in [Queries!Threads -> {"next", "iterate", "done"}]
  /\ index \in [Queries!Threads -> Nat]
  /\ phase = "none" => \A t \in Queries!Threads : queryPc[t] = "next"
  /\ phase = "running" => \A t \in Queries!Threads :
       /\ Queries!Start(t) <= index[t]
       /\ index[t] <= Queries!Start(t) \/ index[t] <= Queries!End(t)
       /\ queryPc[t] = "iterate" => index[t] < Queries!End(t)
       /\ queryPc[t] = "done" => index[t] >= Queries!End(t)

(* The bounds of a chunk are numbers.                                      *)
LEMMA StartNat ==
  ASSUME NThreads \in Nat \ {0}, Len(ranges) \in Nat
  PROVE  \A t \in Queries!Threads : Queries!Start(t) \in Nat /\ Queries!End(t) \in Nat
<1>1. Len(ranges) \div NThreads \in Nat
  BY DivMod
<1>2. Queries!ChunkSize \in Nat
  BY <1>1 DEF Queries!ChunkSize
<1>3. \A t \in Queries!Threads : Queries!ChunkSize * t \in Nat /\ Queries!ChunkSize * (t + 1) \in Nat
  BY <1>2, SMT DEF Queries!Threads
<1>4. QED BY <1>3 DEF Queries!Start, Queries!End

(* No thread has started at first.                                         *)
LEMMA InitIndex ==
  ASSUME Queries!Init PROVE IndexInv
  BY Zenon DEF Queries!Init, IndexInv

(* A new pool has each thread at the start of its chunk.                   *)
LEMMA CreateIndex ==
  ASSUME NThreads \in Nat \ {0}, \A l \in RangeLists : Len(l) \in Nat, IndexInv, Queries!CreatePool
  PROVE  IndexInv'
<1>1. Len(ranges') \in Nat /\ Len(ranges)' \in Nat
  BY DEF Queries!CreatePool
<1>2. (\A t \in Queries!Threads : Queries!Start(t) \in Nat /\ Queries!End(t) \in Nat)'
  <2>1. (Len(ranges') \div NThreads) \in Nat
    BY <1>1, DivMod
  <2>2. Queries!ChunkSize' \in Nat
    BY <2>1 DEF Queries!ChunkSize
  <2>3. \A t \in Queries!Threads : Queries!ChunkSize' * t \in Nat /\ Queries!ChunkSize' * (t + 1) \in Nat
    <3>1. \A c \in Nat : \A t \in Queries!Threads : c * t \in Nat /\ c * (t + 1) \in Nat
      BY SMT DEF Queries!Threads
    <3>2. QED BY <2>2, <3>1
  <2>4. QED BY <1>1, <2>3 DEF Queries!Start, Queries!End
<1>3. \A t \in Queries!Threads : index'[t] = Queries!Start(t)' /\ queryPc'[t] = "next"
  BY DEF Queries!CreatePool, IndexInv
<1>4. index' \in [Queries!Threads -> Nat] /\ queryPc' \in [Queries!Threads -> {"next", "iterate", "done"}]
  BY <1>2 DEF Queries!CreatePool, IndexInv
<1>5. phase' = "running"
  BY DEF Queries!CreatePool
<1>6. QED BY <1>1, <1>2, <1>3, <1>4, <1>5 DEF IndexInv

(* No step leads a thread behind its chunk.                                *)
LEMMA ProceedIndex ==
  ASSUME NThreads \in Nat \ {0}, IndexInv, Queries!Proceed
  PROVE  IndexInv'
<1>1. \A t \in Queries!Threads : Queries!Start(t) \in Nat /\ Queries!End(t) \in Nat
  BY StartNat DEF IndexInv
<1>2. /\ ranges' = ranges
      /\ \A t \in Queries!Threads :
           Queries!Start(t)' = Queries!Start(t) /\ Queries!End(t)' = Queries!End(t)
  BY DEF Queries!Proceed, Queries!Query, Queries!Delete, Queries!NextRange, Queries!Add,
         Queries!EndRange, Queries!Finish, Queries!Start, Queries!End, Queries!ChunkSize
<1>3. CASE Queries!Delete
  BY <1>2, <1>3 DEF Queries!Delete, IndexInv
<1>4. ASSUME NEW t \in Queries!Threads, Queries!Query(t) PROVE IndexInv'
  <2>1. CASE Queries!NextRange(t)
    BY <1>1, <1>2, <2>1 DEF Queries!NextRange, IndexInv
  <2>2. CASE Queries!Add(t)
    BY <1>1, <1>2, <2>2 DEF Queries!Add, IndexInv
  <2>3. CASE Queries!EndRange(t)
    BY <1>1, <1>2, <2>3 DEF Queries!EndRange, IndexInv
  <2>4. CASE Queries!Finish(t)
    BY <1>1, <1>2, <2>4 DEF Queries!Finish, IndexInv
  <2>5. QED BY <1>4, <2>1, <2>2, <2>3, <2>4 DEF Queries!Query
<1>5. QED BY <1>3, <1>4 DEF Queries!Proceed

(* Every step keeps the threads in their chunks.                           *)
LEMMA NextIndex ==
  ASSUME NThreads \in Nat \ {0}, \A l \in RangeLists : Len(l) \in Nat,
         IndexInv, [Queries!Next]_Queries!queryPoolVars
  PROVE  IndexInv'
<1>1. CASE Queries!CreatePool
  BY <1>1, CreateIndex
<1>2. CASE Queries!Proceed
  BY <1>2, ProceedIndex
<1>3. CASE UNCHANGED Queries!queryPoolVars
  BY <1>3 DEF Queries!queryPoolVars, IndexInv, Queries!Start, Queries!End, Queries!ChunkSize
<1> QED BY <1>1, <1>2, <1>3 DEF Queries!Next

(* When all threads are done what they have gone through are their chunks. *)
LEMMA IndexOnce ==
  ASSUME NThreads \in Nat \ {0}, IndexInv
  PROVE  Queries!EachRangeOnce
<1> SUFFICES ASSUME Queries!AllDone, NEW k \in 0 .. Len(ranges) - 1
             PROVE  /\ \E t \in Queries!Threads : Queries!Start(t) <= k /\ k < index[t]
                    /\ \A t, u \in Queries!Threads :
                      (/\ Queries!Start(t) <= k /\ k < index[t]
                       /\ Queries!Start(u) <= k /\ k < index[u]) => t = u
  BY DEF Queries!EachRangeOnce
<1>1. Len(ranges) \in Nat /\ k \in Int
  BY DEF IndexInv
<1>2. \A t \in Queries!Threads : Queries!Start(t) \in Nat /\ Queries!End(t) \in Nat /\ index[t] \in Nat
  BY <1>1, StartNat DEF IndexInv
<1>3. \A t \in Queries!Threads :
        /\ index[t] >= Queries!End(t)
        /\ index[t] <= Queries!Start(t) \/ index[t] <= Queries!End(t)
  BY DEF Queries!AllDone, IndexInv
<1>4. \A t \in Queries!Threads : (Queries!Start(t) <= k /\ k < index[t]) <=> InChunk(k, t)
  <2>1. QED BY <1>1, <1>2, <1>3 DEF InChunk
<1>5. /\ \E t \in Queries!Threads : InChunk(k, t)
      /\ \A t \in Queries!Threads : InChunk(k, t) => t = k \div Queries!ChunkSize
  BY <1>1, ChunkOf
<1>6. QED BY <1>4, <1>5, Zenon

(* Chunks of 1 + ranges / threads give every range to one thread, although *)
(* the last threads may start behind the last range                        *)
(* (RangeQueryThreadPool::processNext).                                    *)
THEOREM RangesPartitioned ==
  ASSUME NThreads \in Nat \ {0}, \A l \in RangeLists : Len(l) \in Nat
  PROVE  Queries!Spec => []Queries!EachRangeOnce
<1>1. Queries!Init => IndexInv
  BY InitIndex
<1>2. IndexInv /\ [Queries!Next]_Queries!queryPoolVars => IndexInv'
  BY NextIndex
<1>3. IndexInv => Queries!EachRangeOnce
  BY IndexOnce
<1>4. QED BY <1>1, <1>2, <1>3, PTL DEF Queries!Spec

-----------------------------------------------------------------------------
(* The sequences in which results and answers are put together *)

(* f[j] is what S lists up to j. *)
UpTo(f, n, S) == f = [j \in 0 .. n |-> IF j = 0 THEN S[0] ELSE f[j - 1] \o S[j]]

(* There is such a function ...                                            *)
LEMMA UpToExists ==
  ASSUME NEW n \in Nat, NEW E, NEW S \in [0 .. n -> Seq(E)]
  PROVE  \E f \in [0 .. n -> Seq(E)] : UpTo(f, n, S)
<1> DEFINE P(m) == \E f \in [0 .. m -> Seq(E)] : UpTo(f, m, S)
           bad == {m \in Nat : m <= n /\ ~P(m)}
<1>1. P(0)
  <2> DEFINE f == [j \in 0 .. 0 |-> S[0]]
  <2>1. f \in [0 .. 0 -> Seq(E)] /\ f = [j \in 0 .. 0 |-> IF j = 0 THEN S[0] ELSE f[j - 1] \o S[j]]
    OBVIOUS
  <2> QED BY <2>1 DEF UpTo
<1>2. ASSUME NEW m \in Nat, m + 1 <= n, P(m) PROVE P(m + 1)
  <2>1. PICK f \in [0 .. m -> Seq(E)] : UpTo(f, m, S)
    BY <1>2
  <2> DEFINE g == [j \in 0 .. m + 1 |-> IF j = m + 1 THEN f[m] \o S[m + 1] ELSE f[j]]
  <2>2. m \in 0 .. m /\ f[m] \in Seq(E) /\ S[m + 1] \in Seq(E)
    BY <1>2
  <2>3. f[m] \o S[m + 1] \in Seq(E)
    BY <2>2, ConcatProperties
  <2>4. g \in [0 .. m + 1 -> Seq(E)]
    BY <1>2, <2>3
  <2>5. \A j \in 0 .. m : f[j] = IF j = 0 THEN S[0] ELSE f[j - 1] \o S[j]
    BY <2>1 DEF UpTo
  <2>6. \A j \in 0 .. m : g[j] = f[j] /\ j \in 0 .. m + 1
    OBVIOUS
  <2>7. g[m + 1] = f[m] \o S[m + 1]
    OBVIOUS
  <2>8. DOMAIN g = 0 .. m + 1 /\ g = [j \in 0 .. m + 1 |-> g[j]]
    OBVIOUS
  <2> HIDE DEF g
  <2>9. \A j \in 0 .. m + 1 : g[j] = IF j = 0 THEN S[0] ELSE g[j - 1] \o S[j]
    <3> SUFFICES ASSUME NEW j \in 0 .. m + 1 PROVE g[j] = IF j = 0 THEN S[0] ELSE g[j - 1] \o S[j]
      OBVIOUS
    <3>1. CASE j = m + 1
      <4>1. j # 0 /\ j - 1 = m /\ g[m] = f[m]
        BY <2>2, <2>6, <3>1
      <4> QED BY <2>7, <3>1, <4>1
    <3>2. CASE j # m + 1
      <4>1. j \in 0 .. m /\ (j # 0 => j - 1 \in 0 .. m)
        BY <3>2
      <4>2. g[j] = f[j] /\ (j # 0 => g[j - 1] = f[j - 1])
        BY <2>6, <4>1
      <4> QED BY <2>2, <2>5, <2>6, <4>1, <4>2
    <3> QED BY <3>1, <3>2
  <2>10. g = [j \in 0 .. m + 1 |-> IF j = 0 THEN S[0] ELSE g[j - 1] \o S[j]]
    BY <2>8, <2>9
  <2> QED BY <2>4, <2>10 DEF UpTo
<1> HIDE DEF P
<1>3. ASSUME bad # {} PROVE FALSE
  <2>1. PICK m \in bad : \A k \in bad : m <= k
    BY <1>3, LeastNatural
  <2>2. m # 0 /\ m - 1 \in Nat /\ m - 1 <= n
    <3>1. m \in Nat /\ m <= n /\ ~P(m)
      BY <2>1
    <3>2. m # 0
      BY <1>1, <3>1
    <3> QED BY <3>1, <3>2
  <2>3. P(m - 1)
    <3>1. ~(m <= m - 1)
      BY <2>1
    <3>2. m - 1 \notin bad
      BY <2>1, <3>1
    <3> QED BY <2>2, <3>2
  <2>4. m \in Nat /\ (m - 1) + 1 <= n /\ (m - 1) + 1 = m
    BY <2>1
  <2>5. P((m - 1) + 1)
    BY <1>2, <2>2, <2>3, <2>4
  <2>6. P(m)
    BY <2>4, <2>5
  <2> QED BY <2>1, <2>6
<1>4. n \notin bad
  BY <1>3
<1>5. P(n)
  BY <1>4
<1> QED BY <1>5 DEF P

(* ... and only one.                                                       *)
LEMMA UpToUnique ==
  ASSUME NEW n \in Nat, NEW S, NEW f, NEW g, UpTo(f, n, S), UpTo(g, n, S)
  PROVE  f = g
<1>1. /\ DOMAIN f = 0 .. n /\ f = [j \in DOMAIN f |-> f[j]]
      /\ \A j \in 0 .. n : f[j] = IF j = 0 THEN S[0] ELSE f[j - 1] \o S[j]
  <2> DEFINE F == [j \in 0 .. n |-> IF j = 0 THEN S[0] ELSE f[j - 1] \o S[j]]
  <2>1. DOMAIN F = 0 .. n /\ F = [j \in DOMAIN F |-> F[j]]
        /\ \A j \in 0 .. n : F[j] = IF j = 0 THEN S[0] ELSE f[j - 1] \o S[j]
    OBVIOUS
  <2>2. f = F
    BY DEF UpTo
  <2> HIDE DEF F
  <2> QED BY <2>1, <2>2
<1>2. /\ DOMAIN g = 0 .. n /\ g = [j \in DOMAIN g |-> g[j]]
      /\ \A j \in 0 .. n : g[j] = IF j = 0 THEN S[0] ELSE g[j - 1] \o S[j]
  <2> DEFINE F == [j \in 0 .. n |-> IF j = 0 THEN S[0] ELSE g[j - 1] \o S[j]]
  <2>1. DOMAIN F = 0 .. n /\ F = [j \in DOMAIN F |-> F[j]]
        /\ \A j \in 0 .. n : F[j] = IF j = 0 THEN S[0] ELSE g[j - 1] \o S[j]
    OBVIOUS
  <2>2. g = F
    BY DEF UpTo
  <2> HIDE DEF F
  <2> QED BY <2>1, <2>2
<1> DEFINE bad == {j \in Nat : j <= n /\ f[j] # g[j]}
<1>3. ASSUME bad # {} PROVE FALSE
  <2>1. PICK j \in bad : \A k \in bad : j <= k
    BY <1>3, LeastNatural
  <2>2. j # 0
    BY <1>1, <1>2, <2>1
  <2>3. j - 1 \in Nat /\ j - 1 <= n /\ j - 1 \notin bad /\ j \in 0 .. n
    BY <2>1, <2>2
  <2>4. f[j - 1] = g[j - 1]
    BY <2>3
  <2> QED BY <1>1, <1>2, <2>1, <2>2, <2>3, <2>4
<1>4. \A j \in 0 .. n : f[j] = g[j]
  BY <1>3
<1> QED BY <1>1, <1>2, <1>4

(* f[b] is what the blocks list from block b on. *)
ListedFrom(f) ==
  f = [b \in DOMAIN blocks |->
         blocks[b].entries \o IF blocks[b].next = Queries!NULL THEN <<>> ELSE f[blocks[b].next]]

(* In blocks that are linked upwards there is only one such function.      *)
LEMMA ListedUnique ==
  ASSUME NEW n \in Nat, DOMAIN blocks = 0 .. n - 1,
         \A b \in DOMAIN blocks : blocks[b].next # Queries!NULL =>
                                    blocks[b].next \in DOMAIN blocks /\ blocks[b].next > b,
         NEW f, NEW g, ListedFrom(f), ListedFrom(g)
  PROVE  f = g
<1> DEFINE L(h) == /\ DOMAIN h = DOMAIN blocks /\ h = [b \in DOMAIN h |-> h[b]]
                   /\ \A b \in DOMAIN blocks :
                        h[b] = blocks[b].entries \o IF blocks[b].next = Queries!NULL THEN <<>>
                                                    ELSE h[blocks[b].next]
<1>1. ASSUME NEW h, ListedFrom(h) PROVE L(h)
  <2> DEFINE F == [b \in DOMAIN blocks |->
                     blocks[b].entries \o IF blocks[b].next = Queries!NULL THEN <<>>
                                          ELSE h[blocks[b].next]]
  <2>1. L(h) <=> /\ DOMAIN h = DOMAIN blocks /\ h = [b \in DOMAIN h |-> h[b]]
                 /\ \A b \in DOMAIN blocks : h[b] = F[b]
    OBVIOUS
  <2>2. DOMAIN F = DOMAIN blocks /\ F = [b \in DOMAIN F |-> F[b]]
    OBVIOUS
  <2>3. h = F
    BY <1>1 DEF ListedFrom
  <2> HIDE DEF F, L
  <2> QED BY <2>1, <2>2, <2>3
<1>2. L(f) /\ L(g)
  BY <1>1
<1> DEFINE bad == {j \in Nat : j < n /\ f[n - 1 - j] # g[n - 1 - j]}
<1>3. ASSUME bad # {} PROVE FALSE
  <2>1. PICK j \in bad : \A k \in bad : j <= k
    BY <1>3, LeastNatural
  <2> DEFINE b == n - 1 - j
             m == blocks[b].next
  <2>2. j \in Nat /\ j < n /\ b \in DOMAIN blocks /\ f[b] # g[b]
    BY <2>1
  <2>3. CASE m = Queries!NULL
    BY <1>2, <2>2, <2>3
  <2>4. CASE m # Queries!NULL
    <3>1. m \in 0 .. n - 1 /\ m > b
      BY <2>2, <2>4
    <3> HIDE DEF m
    <3>2. n - 1 - m \in Nat /\ n - 1 - m < j /\ n - 1 - (n - 1 - m) = m
      BY <2>2, <3>1
    <3>3. n - 1 - m \notin bad
      BY <2>1, <2>2, <3>2
    <3>4. f[m] = g[m]
      BY <2>2, <3>2, <3>3
    <3> QED BY <1>2, <2>2, <2>4, <3>4 DEF m
  <2> QED BY <2>3, <2>4
<1>4. \A b \in DOMAIN blocks : f[b] = g[b]
  <2> SUFFICES ASSUME NEW b \in DOMAIN blocks, f[b] # g[b] PROVE FALSE
    OBVIOUS
  <2>1. n - 1 - b \in Nat /\ n - 1 - b < n /\ n - 1 - (n - 1 - b) = b
    OBVIOUS
  <2> QED BY <1>3, <2>1
<1> QED BY <1>2, <1>4

(* Results is that function.                                               *)
LEMMA ResultsAre ==
  ASSUME NEW f, ListedFrom(f), \A g : ListedFrom(g) => g = f, NEW t
  PROVE  Queries!Results(t) = f[t]
<1>1. ListedFrom(CHOOSE g : ListedFrom(g))
  BY Zenon
<1>2. f = CHOOSE g : ListedFrom(g)
  BY <1>1, Zenon
<1>3. Queries!Results(t) = (CHOOSE g : ListedFrom(g))[t]
  BY Zenon DEF Queries!Results, ListedFrom
<1> QED BY <1>2, <1>3

-----------------------------------------------------------------------------
(* The blocks of results *)

(* The entries in the tree the ranges are asked of. *)
CONSTANT Tree

NULL == Queries!NULL

(* The ranges and the entries are rectangles, those of the entries with    *)
(* their lower corner first (PHTree::insertHyperRect asserts it), and the  *)
(* iterator returns entries of the set it is to return.                    *)
QueriesAssumption ==
  /\ NThreads \in Nat \ {0} /\ CAPACITY \in Nat \ {0}
  /\ Half \in Nat \ {0} /\ MaxValue \in Nat
  /\ RangeLists \subseteq Seq([Queries!Dims -> 0 .. MaxValue])
  /\ \A e \in Tree : /\ Rect[e] \in [Queries!Dims -> 0 .. MaxValue]
                     /\ \A k \in 1 .. Half : Rect[e][k] <= Rect[e][Half + k]
  /\ \A es \in SUBSET Tree : InOrder(es) \in Seq(es)

(* Blocks are numbered as they are allocated. *)
Numbered == \E n \in Nat : NThreads <= n /\ DOMAIN blocks = 0 .. n - 1

(* Each block belongs to a thread.  The blocks of a thread are linked      *)
(* upwards from its first one to the one it stores in, which is the only   *)
(* one with room.                                                          *)
Chains(own) ==
  /\ Numbered
  /\ blocks \in [DOMAIN blocks -> [entries : Seq(Tree), next : Int]]
  /\ storage \in [Queries!Threads -> DOMAIN blocks]
  /\ own \in [DOMAIN blocks -> Queries!Threads]
  /\ \A b \in DOMAIN blocks :
       /\ Len(blocks[b].entries) <= CAPACITY
       /\ blocks[b].next # NULL <=> Len(blocks[b].entries) = CAPACITY
       /\ blocks[b].next # NULL => /\ blocks[b].next \in DOMAIN blocks /\ blocks[b].next > b
                                   /\ own[blocks[b].next] = own[b]
       /\ blocks[b].next = NULL => b = storage[own[b]]
       /\ b \in Queries!Threads \/ \E c \in DOMAIN blocks : blocks[c].next = b
  /\ \A t \in Queries!Threads :
       own[t] = t /\ own[storage[t]] = t /\ blocks[storage[t]].next = NULL

(* R is what the blocks list. *)
Listed(R) == R \in [DOMAIN blocks -> Seq(Tree)] /\ ListedFrom(R)

(* The first blocks of the threads are theirs.                             *)
LEMMA ThreadBlocks ==
  ASSUME NThreads \in Nat \ {0}, Numbered
  PROVE  /\ Queries!Threads \subseteq DOMAIN blocks
         /\ \A b \in DOMAIN blocks : b \in Nat
         /\ NULL \notin DOMAIN blocks
         /\ IsFiniteSet(DOMAIN blocks)
         /\ Queries!NewBlock \in Nat /\ NThreads <= Queries!NewBlock
         /\ DOMAIN blocks = 0 .. Queries!NewBlock - 1
<1>1. PICK n \in Nat : NThreads <= n /\ DOMAIN blocks = 0 .. n - 1
  BY DEF Numbered
<1>2. IsFiniteSet(0 .. n - 1) /\ Cardinality(0 .. n - 1) = n
  BY FS_Interval
<1>3. Queries!NewBlock = n
  <2>1. Queries!NewBlock = Cardinality(DOMAIN blocks)
    BY SMT DEF Queries!NewBlock, Queries!Cardinality, Cardinality
  <2> QED BY <1>1, <1>2, <2>1
<1>4. Queries!Threads \subseteq 0 .. n - 1 /\ NULL \notin 0 .. n - 1
  BY <1>1 DEF Queries!Threads, NULL, Queries!NULL
<1> HIDE DEF Queries!NewBlock
<1> QED BY <1>1, <1>2, <1>3, <1>4

(* A new pool has an empty block for each thread.                          *)
LEMMA CreateChains ==
  ASSUME QueriesAssumption, Queries!CreatePool
  PROVE  \E own, R : /\ Chains(own)' /\ Listed(R)'
                     /\ \A t \in Queries!Threads : R[t] = <<>>
<1> DEFINE T == Queries!Threads
           own == [t \in T |-> t]
           R == [t \in T |-> <<>>]
<1>1. blocks' = [b \in T |-> Queries!NewStorage] /\ storage' = [t \in T |-> t]
  BY DEF Queries!CreatePool
<1>2. /\ Queries!NewStorage \in [entries : Seq(Tree), next : Int]
      /\ Queries!NewStorage.entries = <<>> /\ Queries!NewStorage.next = NULL
      /\ <<>> \in Seq(Tree) /\ Len(<<>>) = 0 /\ <<>> \o <<>> = <<>>
  <2>1. <<>> \in Seq(Tree) /\ Len(<<>>) = 0 /\ NULL \in Int
    BY DEF NULL, Queries!NULL
  <2>2. <<>> \o <<>> = <<>>
    BY <2>1, ConcatEmptySeq
  <2> QED BY <2>1, <2>2 DEF Queries!NewStorage, NULL, Queries!NULL
<1>3. T = 0 .. NThreads - 1 /\ NThreads \in Nat /\ DOMAIN blocks' = T
  BY <1>1 DEF QueriesAssumption, Queries!Threads
<1>4. \A b \in T : /\ blocks'[b] \in [entries : Seq(Tree), next : Int]
                   /\ blocks'[b].entries = <<>> /\ blocks'[b].next = NULL
                   /\ storage'[b] = b /\ own[b] = b
  BY <1>1, <1>2
<1>5. blocks' \in [DOMAIN blocks' -> [entries : Seq(Tree), next : Int]]
  BY <1>1, <1>2, <1>3
<1>6. Numbered'
  BY <1>3 DEF Numbered
<1>7. Chains(own)'
  <2>1. /\ storage' \in [T -> DOMAIN blocks'] /\ own \in [DOMAIN blocks' -> T]
    BY <1>1, <1>3
  <2>2. \A b \in DOMAIN blocks' :
          /\ Len(blocks'[b].entries) <= CAPACITY
          /\ blocks'[b].next # NULL <=> Len(blocks'[b].entries) = CAPACITY
          /\ blocks'[b].next # NULL => /\ blocks'[b].next \in DOMAIN blocks' /\ blocks'[b].next > b
                                       /\ own[blocks'[b].next] = own[b]
          /\ blocks'[b].next = NULL => b = storage'[own[b]]
          /\ b \in T
    BY <1>2, <1>3, <1>4 DEF QueriesAssumption
  <2>3. \A t \in T : own[t] = t /\ own[storage'[t]] = t /\ blocks'[storage'[t]].next = NULL
    BY <1>4
  <2>4. NULL' = NULL
    BY DEF NULL, Queries!NULL
  <2> HIDE DEF own
  <2> QED BY <1>5, <1>6, <2>1, <2>2, <2>3, <2>4 DEF Chains
<1>8. Listed(R)'
  <2>1. R \in [DOMAIN blocks' -> Seq(Tree)]
    BY <1>2, <1>3
  <2>2. \A b \in DOMAIN blocks' :
          R[b] = blocks'[b].entries \o IF blocks'[b].next = NULL THEN <<>> ELSE R[blocks'[b].next]
    BY <1>2, <1>3, <1>4
  <2>3. R = [b \in DOMAIN blocks' |-> R[b]]
    BY <1>3
  <2> HIDE DEF R
  <2>4. R = [b \in DOMAIN blocks' |->
               blocks'[b].entries \o IF blocks'[b].next = NULL THEN <<>> ELSE R[blocks'[b].next]]
    BY <2>2, <2>3
  <2> QED BY <2>1, <2>4 DEF Listed, ListedFrom, NULL
<1>9. \A t \in Queries!Threads : R[t] = <<>>
  OBVIOUS
<1> HIDE DEF own, R
<1> QED BY <1>7, <1>8, <1>9

(* A thread that adds an entry appends it to its own list and to no other, *)
(* whether or not its block is full then.                                  *)
LEMMA AddChains ==
  ASSUME QueriesAssumption, NEW t \in Queries!Threads, Queries!Add(t),
         NEW own, NEW R, Chains(own), Listed(R), Head(hits[t]) \in Tree
  PROVE  \E ownB, S : /\ Chains(ownB)' /\ Listed(S)'
                      /\ S[t] = Append(R[t], Head(hits[t]))
                      /\ \A u \in Queries!Threads \ {t} : S[u] = R[u]
<1> DEFINE T == Queries!Threads
           N == Queries!NewBlock
           D == DOMAIN blocks
           s == storage[t]
           x == Head(hits[t])
           es == Append(blocks[s].entries, x)
           Full == Len(es) = CAPACITY
           DB == IF Full THEN D \cup {N} ELSE D
           ownB == [b \in DB |-> IF b = N THEN t ELSE own[b]]
           S == [b \in DB |-> IF b = N THEN <<>>
                              ELSE IF own[b] = t THEN Append(R[b], x) ELSE R[b]]
           EntriesOf(b) == IF b = s THEN es ELSE blocks[b].entries
           NextOf(b) == IF b = s /\ Full THEN N ELSE blocks[b].next
<1>1. /\ T \subseteq D /\ (\A b \in D : b \in Nat /\ b < N) /\ NULL \notin D /\ N \in Nat /\ NThreads <= N
      /\ D = 0 .. N - 1 /\ N \notin D /\ NULL # N
  <2>1. Numbered
    BY DEF Chains
  <2>2. NThreads \in Nat \ {0}
    BY DEF QueriesAssumption
  <2>3. NULL = -1
    BY DEF NULL, Queries!NULL
  <2> HIDE DEF T
  <2> QED BY <2>1, <2>2, <2>3, ThreadBlocks DEF T
<1>2. s \in D /\ own[s] = t /\ blocks[s].next = NULL /\ CAPACITY \in Nat \ {0}
  BY DEF Chains, QueriesAssumption
<1>3. \A b \in D : /\ blocks[b] \in [entries : Seq(Tree), next : Int]
                   /\ blocks[b].entries \in Seq(Tree) /\ Len(blocks[b].entries) \in Nat
                   /\ blocks[b].next \in Int
  <2>1. \A b \in D : blocks[b] \in [entries : Seq(Tree), next : Int]
    BY DEF Chains
  <2> QED BY <2>1
<1>4. es \in Seq(Tree) /\ Len(es) = Len(blocks[s].entries) + 1 /\ Len(es) <= CAPACITY
  <2>1. blocks[s].entries \in Seq(Tree) /\ x \in Tree
    BY <1>2, <1>3
  <2>2. es \in Seq(Tree) /\ Len(es) = Len(blocks[s].entries) + 1
    BY <2>1, AppendProperties
  <2>3. Len(blocks[s].entries) <= CAPACITY /\ Len(blocks[s].entries) # CAPACITY
    BY <1>2 DEF Chains
  <2> QED BY <1>2, <1>3, <2>2, <2>3
<1> HIDE DEF es, N, x
<1>5. /\ Full => /\ blocks' = [b \in D \cup {N} |->
                                IF b = s THEN [entries |-> es, next |-> N]
                                ELSE IF b = N THEN Queries!NewStorage ELSE blocks[b]]
                 /\ storage' = [storage EXCEPT ![t] = N]
      /\ ~Full => blocks' = [blocks EXCEPT ![s].entries = es] /\ storage' = storage
  BY DEF Queries!Add, es, N, x
<1>6. Queries!NewStorage = [entries |-> <<>>, next |-> NULL] /\ <<>> \in Seq(Tree) /\ NULL \in Int
      /\ Len(<<>>) = 0
  BY DEF Queries!NewStorage, NULL, Queries!NULL
<1>7. DOMAIN blocks' = DB /\ DB = 0 .. (IF Full THEN N ELSE N - 1)
  <2>1. CASE Full
    BY <1>1, <1>5, <2>1
  <2>2. CASE ~Full
    BY <1>1, <1>5, <2>2
  <2> QED BY <2>1, <2>2
<1>8. \A b \in D : /\ blocks'[b] = [entries |-> EntriesOf(b), next |-> NextOf(b)]
                   /\ blocks'[b].entries = EntriesOf(b) /\ blocks'[b].next = NextOf(b)
  <2> SUFFICES ASSUME NEW b \in D PROVE blocks'[b] = [entries |-> EntriesOf(b), next |-> NextOf(b)]
    OBVIOUS
  <2>1. blocks[b] = [entries |-> blocks[b].entries, next |-> blocks[b].next]
    BY <1>3
  <2>2. CASE Full
    BY <1>1, <1>5, <2>1, <2>2
  <2>3. CASE ~Full
    <3>1. CASE b = s
      BY <1>2, <1>5, <2>1, <2>3, <3>1
    <3>2. CASE b # s
      BY <1>5, <2>1, <2>3, <3>2
    <3> QED BY <3>1, <3>2
  <2> QED BY <2>2, <2>3
<1>9. Full => /\ blocks'[N] = [entries |-> <<>>, next |-> NULL]
              /\ blocks'[N].entries = <<>> /\ blocks'[N].next = NULL
  BY <1>1, <1>2, <1>5, <1>6
<1>10. \A b \in D : /\ EntriesOf(b) \in Seq(Tree) /\ NextOf(b) \in Int
                    /\ Len(EntriesOf(b)) <= CAPACITY
                    /\ NextOf(b) # NULL <=> Len(EntriesOf(b)) = CAPACITY
  <2> SUFFICES ASSUME NEW b \in D
               PROVE  /\ EntriesOf(b) \in Seq(Tree) /\ NextOf(b) \in Int
                      /\ Len(EntriesOf(b)) <= CAPACITY
                      /\ NextOf(b) # NULL <=> Len(EntriesOf(b)) = CAPACITY
    OBVIOUS
  <2>1. /\ Len(blocks[b].entries) <= CAPACITY
        /\ blocks[b].next # NULL <=> Len(blocks[b].entries) = CAPACITY
    BY DEF Chains
  <2>2. CASE b = s
    BY <1>1, <1>2, <1>3, <1>4, <2>2
  <2>3. CASE b # s
    BY <1>3, <2>1, <2>3
  <2> QED BY <2>2, <2>3
<1>11. blocks' \in [DB -> [entries : Seq(Tree), next : Int]]
  <2>1. \A b \in DB : blocks'[b] \in [entries : Seq(Tree), next : Int]
    <3> SUFFICES ASSUME NEW b \in DB PROVE blocks'[b] \in [entries : Seq(Tree), next : Int]
      OBVIOUS
    <3>1. CASE b \in D
      <4>1. blocks'[b] = [entries |-> EntriesOf(b), next |-> NextOf(b)]
            /\ EntriesOf(b) \in Seq(Tree) /\ NextOf(b) \in Int
        BY <1>8, <1>10, <3>1
      <4> HIDE DEF EntriesOf, NextOf
      <4> QED BY <4>1
    <3>2. CASE b \notin D
      <4>1. Full /\ b = N
        BY <3>2
      <4>2. blocks'[b] = [entries |-> <<>>, next |-> NULL]
        BY <1>9, <4>1
      <4> HIDE DEF DB, Full
      <4> QED BY <1>6, <4>2
    <3> QED BY <3>1, <3>2
  <2>2. blocks' = [b \in DB |-> blocks'[b]]
    <3>1. CASE Full
      BY <1>5, <3>1
    <3>2. CASE ~Full
      <4>1. blocks = [b \in D |-> blocks[b]]
        BY DEF Chains
      <4> QED BY <1>5, <3>2, <4>1
    <3> QED BY <3>1, <3>2
  <2> HIDE DEF DB
  <2> QED BY <2>1, <2>2
<1>12. \A u \in T : storage'[u] = IF u = t /\ Full THEN N ELSE storage[u]
  BY <1>5 DEF Chains
<1>13. storage' \in [T -> DB]
  <2>1. storage \in [T -> D]
    BY DEF Chains
  <2> QED BY <1>5, <1>7, <2>1
<1>14. ownB \in [DB -> T] /\ \A b \in D : ownB[b] = own[b]
  <2>1. \A b \in D : own[b] \in T
    BY DEF Chains
  <2> QED BY <1>1, <2>1
<1>15. Full => N \in DB /\ ownB[N] = t
  OBVIOUS
<1>16. Numbered'
  <2>1. CASE Full
    <3>1. N + 1 \in Nat /\ NThreads <= N + 1 /\ DOMAIN blocks' = 0 .. (N + 1) - 1
      BY <1>1, <1>7, <2>1 DEF QueriesAssumption
    <3> QED BY <3>1 DEF Numbered
  <2>2. CASE ~Full
    BY <1>1, <1>7, <2>2 DEF Numbered
  <2> QED BY <2>1, <2>2
<1>17. \A b \in DB :
         /\ Len(blocks'[b].entries) <= CAPACITY
         /\ blocks'[b].next # NULL <=> Len(blocks'[b].entries) = CAPACITY
         /\ blocks'[b].next # NULL => /\ blocks'[b].next \in DB /\ blocks'[b].next > b
                                      /\ ownB[blocks'[b].next] = ownB[b]
         /\ blocks'[b].next = NULL => b = storage'[ownB[b]]
         /\ b \in T \/ \E c \in DB : blocks'[c].next = b
  <2> SUFFICES ASSUME NEW b \in DB
               PROVE  /\ Len(blocks'[b].entries) <= CAPACITY
                      /\ blocks'[b].next # NULL <=> Len(blocks'[b].entries) = CAPACITY
                      /\ blocks'[b].next # NULL =>
                           /\ blocks'[b].next \in DB /\ blocks'[b].next > b
                           /\ ownB[blocks'[b].next] = ownB[b]
                      /\ blocks'[b].next = NULL => b = storage'[ownB[b]]
                      /\ b \in T \/ \E c \in DB : blocks'[c].next = b
    OBVIOUS
  <2>1. CASE b \notin D
    <3>1. Full /\ b = N
      BY <2>1
    <3>2. blocks'[b].next = NULL /\ Len(blocks'[b].entries) = 0
      BY <1>6, <1>9, <3>1
    <3>3. storage'[t] = N /\ ownB[b] = t
      BY <1>12, <1>15, <3>1
    <3>4. s \in DB /\ blocks'[s].next = b
      BY <1>2, <1>8, <3>1
    <3> QED BY <1>2, <3>1, <3>2, <3>3, <3>4
  <2>2. CASE b \in D
    <3>1. blocks'[b].entries = EntriesOf(b) /\ blocks'[b].next = NextOf(b) /\ ownB[b] = own[b] /\ own[b] \in T
      BY <1>8, <1>14, <2>2 DEF Chains
    <3>2. Len(blocks'[b].entries) <= CAPACITY
          /\ (blocks'[b].next # NULL <=> Len(blocks'[b].entries) = CAPACITY)
      BY <1>10, <2>2, <3>1
    <3>3. ASSUME NextOf(b) # NULL
          PROVE  NextOf(b) \in DB /\ NextOf(b) > b /\ ownB[NextOf(b)] = ownB[b]
      <4>1. CASE b = s /\ Full
        BY <1>1, <1>2, <1>15, <2>2, <3>1, <4>1
      <4>2. CASE ~(b = s /\ Full)
        <5>1. /\ blocks[b].next \in D /\ blocks[b].next > b /\ own[blocks[b].next] = own[b]
          BY <2>2, <3>3, <4>2 DEF Chains
        <5> QED BY <1>14, <3>1, <4>2, <5>1
      <4> QED BY <4>1, <4>2
    <3>4. ASSUME NextOf(b) = NULL PROVE b = storage'[ownB[b]]
      <4>1. ~(b = s /\ Full) /\ blocks[b].next = NULL
        BY <1>1, <3>4
      <4>2. b = storage[own[b]]
        BY <2>2, <4>1 DEF Chains
      <4> QED BY <1>12, <3>1, <4>1, <4>2
    <3>5. b \in T \/ \E c \in DB : blocks'[c].next = b
      <4>1. SUFFICES ASSUME b \notin T PROVE \E c \in DB : blocks'[c].next = b
        OBVIOUS
      <4>2. PICK c \in D : blocks[c].next = b
        BY <2>2, <4>1 DEF Chains
      <4>3. c # s
        BY <1>1, <1>2, <2>2, <4>2
      <4>4. blocks'[c].next = b
        BY <1>8, <4>2, <4>3
      <4> QED BY <4>4
    <3> HIDE DEF DB, ownB, NextOf, EntriesOf
    <3> QED BY <3>1, <3>2, <3>3, <3>4, <3>5
  <2> QED BY <2>1, <2>2
<1>18. \A u \in T : ownB[u] = u /\ ownB[storage'[u]] = u /\ blocks'[storage'[u]].next = NULL
  <2> SUFFICES ASSUME NEW u \in T
               PROVE  ownB[u] = u /\ ownB[storage'[u]] = u /\ blocks'[storage'[u]].next = NULL
    OBVIOUS
  <2>1. own[u] = u /\ own[storage[u]] = u /\ blocks[storage[u]].next = NULL /\ storage[u] \in D /\ u \in D
    BY <1>1 DEF Chains
  <2>2. ownB[u] = u
    BY <1>14, <2>1
  <2>3. CASE u = t /\ Full
    BY <1>9, <1>12, <1>15, <2>2, <2>3
  <2>4. CASE ~(u = t /\ Full)
    <3>1. storage'[u] = storage[u]
      BY <1>12, <2>4
    <3>2. ~(storage[u] = s /\ Full)
      BY <1>2, <2>1, <2>4
    <3>3. blocks'[storage[u]].next = NULL
      BY <1>8, <2>1, <3>2
    <3> QED BY <1>14, <2>1, <2>2, <3>1, <3>3
  <2> QED BY <2>3, <2>4
<1> PICK o : o = ownB
  OBVIOUS
<1>19. Chains(o)'
  <2>1. NULL' = NULL
    BY DEF NULL, Queries!NULL
  <2> HIDE DEF DB, ownB, Full
  <2> QED BY <1>7, <1>11, <1>13, <1>14, <1>16, <1>17, <1>18, <2>1 DEF Chains
<1>20. \A b \in D : R[b] \in Seq(Tree) /\ Append(R[b], x) \in Seq(Tree)
  <2>1. \A b \in D : R[b] \in Seq(Tree)
    BY DEF Listed
  <2>2. x \in Tree
    BY DEF x
  <2> QED BY <2>1, <2>2, AppendProperties
<1>21. \A b \in D : R[b] = blocks[b].entries \o IF blocks[b].next = NULL THEN <<>> ELSE R[blocks[b].next]
  <2> DEFINE F == [b \in D |-> blocks[b].entries \o IF blocks[b].next = NULL THEN <<>>
                                                    ELSE R[blocks[b].next]]
  <2>1. \A b \in D : F[b] = blocks[b].entries \o IF blocks[b].next = NULL THEN <<>>
                                                 ELSE R[blocks[b].next]
    OBVIOUS
  <2>2. R = F
    BY DEF Listed, ListedFrom, NULL
  <2> HIDE DEF F
  <2> QED BY <2>1, <2>2
<1>22. \A b \in D : S[b] = IF own[b] = t THEN Append(R[b], x) ELSE R[b]
  BY <1>1
<1>23. \A b \in DB : S[b] = blocks'[b].entries \o IF blocks'[b].next = NULL THEN <<>> ELSE S[blocks'[b].next]
  <2> SUFFICES ASSUME NEW b \in DB
               PROVE  S[b] = blocks'[b].entries \o IF blocks'[b].next = NULL THEN <<>>
                                                   ELSE S[blocks'[b].next]
    OBVIOUS
  <2>1. CASE b \notin D
    <3>1. Full /\ b = N
      BY <2>1
    <3>2. S[b] = <<>>
      BY <3>1
    <3>3. <<>> \o <<>> = <<>>
      BY <1>6, ConcatEmptySeq
    <3> QED BY <1>9, <3>1, <3>2, <3>3
  <2>2. CASE b = s
    <3>1. R[s] = blocks[s].entries
      BY <1>2, <1>3, <1>21, ConcatEmptySeq
    <3>2. S[s] = es
      BY <1>2, <1>22, <3>1 DEF es
    <3>3. CASE Full
      <4>1. blocks'[s].entries = es /\ blocks'[s].next = N /\ S[N] = <<>> /\ N # NULL
        BY <1>1, <1>2, <1>8, <3>3
      <4>2. es \o <<>> = es
        BY <1>4, ConcatEmptySeq
      <4> QED BY <2>2, <3>2, <4>1, <4>2
    <3>4. CASE ~Full
      <4>1. blocks'[s].entries = es /\ blocks'[s].next = NULL
        BY <1>2, <1>8, <3>4
      <4>2. es \o <<>> = es
        BY <1>4, ConcatEmptySeq
      <4> QED BY <2>2, <3>2, <4>1, <4>2
    <3> QED BY <3>3, <3>4
  <2>3. CASE b \in D /\ b # s
    <3> DEFINE m == blocks[b].next
               pre == blocks[b].entries
    <3>1. blocks'[b].entries = pre /\ blocks'[b].next = m /\ pre \in Seq(Tree)
      BY <1>3, <1>8, <2>3
    <3>2. R[b] = pre \o IF m = NULL THEN <<>> ELSE R[m]
      BY <1>21, <2>3
    <3>3. m # NULL => m \in D /\ own[m] = own[b]
      BY <2>3 DEF Chains
    <3>4. m = NULL => own[b] # t
      BY <2>3 DEF Chains
    <3> HIDE DEF m, pre, S
    <3>5. CASE own[b] # t
      BY <1>22, <2>3, <3>1, <3>2, <3>3, <3>5
    <3>6. CASE own[b] = t
      <4>1. m # NULL /\ S[m] = Append(R[m], x) /\ S[b] = Append(R[b], x) /\ R[b] = pre \o R[m]
        BY <1>22, <2>3, <3>2, <3>3, <3>4, <3>6
      <4>2. R[m] \in Seq(Tree) /\ R[b] \in Seq(Tree) /\ x \in Tree
        BY <1>20, <2>3, <3>3, <4>1 DEF x
      <4>3. Append(R[m], x) = R[m] \o <<x>> /\ Append(R[b], x) = R[b] \o <<x>> /\ <<x>> \in Seq(Tree)
        <5>1. \A sq \in Seq(Tree) : Append(sq, x) = sq \o <<x>>
          BY <4>2, AppendIsConcat
        <5>2. <<x>> \in Seq(Tree)
          BY <4>2
        <5> QED BY <4>2, <5>1, <5>2
      <4>4. (pre \o R[m]) \o <<x>> = pre \o (R[m] \o <<x>>)
        <5>1. \A p, q, r \in Seq(Tree) : (p \o q) \o r = p \o (q \o r)
          BY ConcatAssociative
        <5> QED BY <3>1, <4>2, <4>3, <5>1
      <4> QED BY <3>1, <4>1, <4>3, <4>4
    <3> QED BY <3>5, <3>6
  <2> QED BY <2>1, <2>2, <2>3
<1>24. S \in [DB -> Seq(Tree)] /\ S = [b \in DB |-> S[b]]
  <2>1. \A b \in DB : b = N \/ b \in D
    OBVIOUS
  <2> QED BY <1>6, <1>20, <2>1
<1> PICK Q : Q = S
  OBVIOUS
<1>25. Listed(Q)'
  <2> HIDE DEF S, DB
  <2>1. S = [b \in DB |-> blocks'[b].entries \o IF blocks'[b].next = NULL THEN <<>>
                                                ELSE S[blocks'[b].next]]
    BY <1>23, <1>24
  <2>2. Q \in [DB -> Seq(Tree)]
    BY <1>24
  <2>3. Q = [b \in DB |-> blocks'[b].entries \o IF blocks'[b].next = NULL THEN <<>>
                                                ELSE Q[blocks'[b].next]]
    BY <2>1, Zenon
  <2>4. DB = DOMAIN blocks'
    BY <1>7
  <2>5. ListedFrom(Q)'
    BY <2>3, <2>4, Zenon DEF ListedFrom, NULL
  <2> QED BY <2>2, <2>4, <2>5 DEF Listed
<1>26. S[t] = Append(R[t], x) /\ \A u \in T \ {t} : S[u] = R[u]
  <2>1. \A u \in T : own[u] = u /\ u \in D
    BY <1>1 DEF Chains
  <2> QED BY <1>22, <2>1
<1> HIDE DEF S, ownB
<1>27. Q[t] = Append(R[t], Head(hits[t])) /\ \A u \in Queries!Threads \ {t} : Q[u] = R[u]
  BY <1>26 DEF x
<1> QED BY <1>19, <1>25, <1>27

-----------------------------------------------------------------------------
(* The answers *)

(* A[j] is the answer to the first j ranges. *)
Given(A) ==
  /\ A \in [0 .. Len(ranges) -> Seq(Tree)]
  /\ \A j \in 0 .. Len(ranges) : A[j] = IF j = 0 THEN <<>> ELSE A[j - 1] \o InOrder(Queries!Asking(j))

(* There is such a function.                                               *)
LEMMA AnswersExist ==
  ASSUME NEW n \in Nat, NEW W \in [0 .. n -> Seq(Tree)]
  PROVE  \E A \in [0 .. n -> Seq(Tree)] :
           \A j \in 0 .. n : A[j] = IF j = 0 THEN <<>> ELSE A[j - 1] \o W[j]
<1> DEFINE S == [j \in 0 .. n |-> IF j = 0 THEN <<>> ELSE W[j]]
<1>1. S \in [0 .. n -> Seq(Tree)]
  OBVIOUS
<1>2. PICK A \in [0 .. n -> Seq(Tree)] : UpTo(A, n, S)
  BY <1>1, UpToExists
<1>3. \A j \in 0 .. n : A[j] = IF j = 0 THEN S[0] ELSE A[j - 1] \o S[j]
  BY <1>2 DEF UpTo
<1>4. \A j \in 0 .. n : S[j] = IF j = 0 THEN <<>> ELSE W[j]
  OBVIOUS
<1>5. 0 \in 0 .. n
  OBVIOUS
<1> HIDE DEF S
<1>6. \A j \in 0 .. n : A[j] = IF j = 0 THEN <<>> ELSE A[j - 1] \o W[j]
  BY <1>3, <1>4, <1>5
<1> QED BY <1>6

(* Answers is its last value.                                              *)
LEMMA AnswersAre ==
  ASSUME Len(ranges) \in Nat, NEW A, Given(A)
  PROVE  Queries!Answers = A[Len(ranges)]
<1> DEFINE n == Len(ranges)
           S == [j \in 0 .. n |-> IF j = 0 THEN <<>> ELSE InOrder(Queries!Asking(j))]
           G(f) == f = [j \in 0 .. n |-> IF j = 0 THEN <<>> ELSE f[j - 1] \o InOrder(Queries!Asking(j))]
<1>1. \A f : G(f) <=> UpTo(f, n, S)
  <2> SUFFICES ASSUME NEW f PROVE G(f) <=> UpTo(f, n, S)
    OBVIOUS
  <2>1. \A j \in 0 .. n : S[j] = IF j = 0 THEN <<>> ELSE InOrder(Queries!Asking(j))
    OBVIOUS
  <2>2. 0 \in 0 .. n
    OBVIOUS
  <2> HIDE DEF S
  <2>3. \A j \in 0 .. n : (IF j = 0 THEN <<>> ELSE f[j - 1] \o InOrder(Queries!Asking(j)))
                          = IF j = 0 THEN S[0] ELSE f[j - 1] \o S[j]
    BY <2>1, <2>2
  <2>4. [j \in 0 .. n |-> IF j = 0 THEN <<>> ELSE f[j - 1] \o InOrder(Queries!Asking(j))]
        = [j \in 0 .. n |-> IF j = 0 THEN S[0] ELSE f[j - 1] \o S[j]]
    BY <2>3
  <2> QED BY <2>4, Zenon DEF UpTo
<1>2. G(A)
  <2>1. A = [j \in 0 .. n |-> A[j]]
    BY DEF Given
  <2> QED BY <2>1 DEF Given
<1>3. \A f : G(f) => f = A
  <2> HIDE DEF G, S, n
  <2>1. n \in Nat
    BY DEF n
  <2> QED BY <1>1, <1>2, <2>1, UpToUnique
<1>4. Queries!Answers = (CHOOSE f : G(f))[n]
  BY Zenon DEF Queries!Answers
<1> HIDE DEF G
<1>5. (CHOOSE f : G(f)) = A
  BY <1>2, <1>3, Zenon
<1> QED BY <1>4, <1>5

(* Remainders of numbers below twice the divisor.                          *)
LEMMA ModSmall ==
  ASSUME NEW d \in Nat \ {0}, NEW j \in 0 .. d - 1
  PROVE  j % d = j /\ (d + j) % d = j
<1>1. j \in Nat /\ d + j \in Nat /\ j < d * 1 /\ d * 2 = d + d /\ d * 1 = d /\ d * 0 = 0
  BY SMT
<1>2. j \div d = 0
  <2>1. j \div d < 1 /\ j \div d \in Nat
    BY <1>1, QuotientBelow, DivMod
  <2> QED BY <2>1
<1>3. (d + j) \div d = 1
  <2>1. d + j < d * 2 /\ ~(d + j < d * 1)
    BY <1>1
  <2>2. (d + j) \div d < 2 /\ ~((d + j) \div d < 1) /\ (d + j) \div d \in Nat
    BY <1>1, <2>1, QuotientBelow, DivMod
  <2> QED BY <2>2
<1>4. j = d * (j \div d) + (j % d) /\ j % d \in Int
  BY <1>1, DivMod
<1>5. d + j = d * ((d + j) \div d) + ((d + j) % d) /\ (d + j) % d \in Int
  BY <1>1, DivMod
<1>6. j = 0 + (j % d)
  BY <1>1, <1>2, <1>4
<1>7. d + j = d + ((d + j) % d)
  BY <1>1, <1>3, <1>5
<1> QED BY <1>4, <1>5, <1>6, <1>7

(* What the iterator of a range returns is what was asked for: an          *)
(* inclusion query compares all corners, but those of a rectangle are in   *)
(* order.                                                                  *)
LEMMA WindowAsks ==
  ASSUME QueriesAssumption, stored = Tree, ranges \in Seq([Queries!Dims -> 0 .. MaxValue]),
         NEW j \in 1 .. Len(ranges)
  PROVE  Queries!RangeQuery(ranges[j]) = Queries!Asking(j)
<1> DEFINE r == ranges[j]
           H == Half
<1>1. r \in [1 .. 2 * H -> 0 .. MaxValue] /\ H \in Nat \ {0} /\ MaxValue \in Nat
  BY DEF QueriesAssumption, Queries!Dims
<1> HIDE DEF r, H
<1>2. \A k \in 1 .. H : /\ k \in 1 .. 2 * H /\ H + k \in 1 .. 2 * H
                        /\ r[k] \in 0 .. MaxValue /\ r[H + k] \in 0 .. MaxValue
                        /\ k + H = H + k /\ (H + k) - H = k /\ k <= H /\ ~(H + k <= H)
  BY <1>1
<1>3. \A d \in 1 .. 2 * H : d \in 1 .. H \/ \E k \in 1 .. H : d = H + k
  <2> SUFFICES ASSUME NEW d \in 1 .. 2 * H, d \notin 1 .. H PROVE \E k \in 1 .. H : d = H + k
    OBVIOUS
  <2>1. d - H \in 1 .. H /\ d = H + (d - H)
    BY <1>1
  <2> QED BY <2>1
<1>4. \A k \in 1 .. H : (k - 1) % H = k - 1 /\ ((H + k) - 1) % H = k - 1
  <2> SUFFICES ASSUME NEW k \in 1 .. H PROVE (k - 1) % H = k - 1 /\ ((H + k) - 1) % H = k - 1
    OBVIOUS
  <2>1. k - 1 \in 0 .. H - 1 /\ (H + k) - 1 = H + (k - 1)
    BY <1>1
  <2>2. (k - 1) % H = k - 1 /\ (H + (k - 1)) % H = k - 1
    BY <1>1, <2>1, ModSmall
  <2> QED BY <2>1, <2>2
<1>5. ASSUME NEW e \in Tree
      PROVE  (\A d \in Queries!Dims : /\ Queries!LowerLeft(r)[d] <= Rect[e][d]
                                      /\ Rect[e][d] <= Queries!UpperRight(r)[d])
             <=> \A k \in 1 .. H :
                   IF type = "inclusion"
                     THEN r[k] <= Rect[e][k] /\ Rect[e][H + k] <= r[H + k]
                     ELSE Rect[e][k] <= r[H + k] /\ r[k] <= Rect[e][H + k]
  <2> DEFINE x == Rect[e]
             lo == Queries!LowerLeft(r)
             up == Queries!UpperRight(r)
  <2>1. /\ x \in [1 .. 2 * H -> 0 .. MaxValue]
        /\ \A k \in 1 .. H : x[k] <= x[H + k]
    BY DEF QueriesAssumption, Queries!Dims, H
  <2> HIDE DEF x
  <2>2. \A k \in 1 .. H : x[k] \in 0 .. MaxValue /\ x[H + k] \in 0 .. MaxValue
    BY <1>2, <2>1
  <2>3. CASE type = "inclusion"
    <3>1. \A k \in 1 .. H : lo[k] = r[k] /\ lo[H + k] = r[k] /\ up[k] = r[H + k] /\ up[H + k] = r[H + k]
      <4> SUFFICES ASSUME NEW k \in 1 .. H
                   PROVE  lo[k] = r[k] /\ lo[H + k] = r[k] /\ up[k] = r[H + k] /\ up[H + k] = r[H + k]
        OBVIOUS
      <4> DEFINE Rem(d) == (d - 1) % H
      <4>1. \A d \in 1 .. 2 * H : lo[d] = r[1 + Rem(d)] /\ up[d] = r[H + 1 + Rem(d)]
        BY <2>3 DEF Queries!LowerLeft, Queries!UpperRight, Queries!Dims, H
      <4>2. Rem(k) = k - 1 /\ Rem(H + k) = k - 1
        BY <1>4
      <4> HIDE DEF lo, up, Rem
      <4>3. k \in 1 .. 2 * H /\ H + k \in 1 .. 2 * H
        BY <1>2
      <4>4. 1 + (k - 1) = k /\ H + 1 + (k - 1) = H + k
        BY <1>1
      <4>5. lo[k] = r[1 + Rem(k)] /\ up[k] = r[H + 1 + Rem(k)]
            /\ lo[H + k] = r[1 + Rem(H + k)] /\ up[H + k] = r[H + 1 + Rem(H + k)]
        BY <4>1, <4>3, Zenon
      <4> QED BY <4>2, <4>4, <4>5
    <3> HIDE DEF lo, up
    <3>2. (\A d \in Queries!Dims : lo[d] <= x[d] /\ x[d] <= up[d])
          <=> \A k \in 1 .. H : r[k] <= x[k] /\ x[H + k] <= r[H + k]
      <4>1. ASSUME \A d \in 1 .. 2 * H : lo[d] <= x[d] /\ x[d] <= up[d], NEW k \in 1 .. H
            PROVE  r[k] <= x[k] /\ x[H + k] <= r[H + k]
        BY <1>2, <3>1, <4>1
      <4>2. ASSUME \A k \in 1 .. H : r[k] <= x[k] /\ x[H + k] <= r[H + k], NEW k \in 1 .. H
            PROVE  /\ lo[k] <= x[k] /\ x[k] <= up[k]
                   /\ lo[H + k] <= x[H + k] /\ x[H + k] <= up[H + k]
        <5>1. r[k] <= x[k] /\ x[H + k] <= r[H + k] /\ x[k] <= x[H + k]
          BY <2>1, <4>2
        <5> QED BY <1>2, <2>2, <3>1, <5>1
      <4> QED BY <1>3, <4>1, <4>2 DEF Queries!Dims, H
    <3> QED BY <2>3, <3>2 DEF lo, up, x
  <2>4. CASE type # "inclusion"
    <3>1. \A k \in 1 .. H : lo[k] = 0 /\ lo[H + k] = r[k] /\ up[k] = r[H + k] /\ up[H + k] = MaxValue
      <4>1. \A d \in 1 .. 2 * H : /\ lo[d] = IF d <= H THEN 0 ELSE r[d - H]
                                  /\ up[d] = IF d <= H THEN r[d + H] ELSE MaxValue
        BY <2>4 DEF Queries!LowerLeft, Queries!UpperRight, Queries!Dims, H
      <4> HIDE DEF lo, up
      <4> SUFFICES ASSUME NEW k \in 1 .. H
                   PROVE  lo[k] = 0 /\ lo[H + k] = r[k] /\ up[k] = r[H + k] /\ up[H + k] = MaxValue
        OBVIOUS
      <4>2. /\ k \in 1 .. 2 * H /\ H + k \in 1 .. 2 * H
            /\ k + H = H + k /\ (H + k) - H = k /\ k <= H /\ ~(H + k <= H)
        BY <1>2
      <4>3. lo[k] = 0 /\ up[k] = r[k + H]
        BY <4>1, <4>2, Zenon
      <4>4. lo[H + k] = r[(H + k) - H] /\ up[H + k] = MaxValue
        BY <4>1, <4>2, Zenon
      <4> QED BY <4>2, <4>3, <4>4
    <3> HIDE DEF lo, up
    <3>2. (\A d \in Queries!Dims : lo[d] <= x[d] /\ x[d] <= up[d])
          <=> \A k \in 1 .. H : x[k] <= r[H + k] /\ r[k] <= x[H + k]
      <4>1. ASSUME \A d \in 1 .. 2 * H : lo[d] <= x[d] /\ x[d] <= up[d], NEW k \in 1 .. H
            PROVE  x[k] <= r[H + k] /\ r[k] <= x[H + k]
        BY <1>2, <3>1, <4>1
      <4>2. ASSUME \A k \in 1 .. H : x[k] <= r[H + k] /\ r[k] <= x[H + k], NEW k \in 1 .. H
            PROVE  /\ lo[k] <= x[k] /\ x[k] <= up[k]
                   /\ lo[H + k] <= x[H + k] /\ x[H + k] <= up[H + k]
        <5>1. x[k] <= r[H + k] /\ r[k] <= x[H + k]
          BY <4>2
        <5>2. 0 <= x[k] /\ x[H + k] <= MaxValue
          <6>1. x[k] \in 0 .. MaxValue /\ x[H + k] \in 0 .. MaxValue /\ MaxValue \in Int
            BY <1>1, <2>2
          <6> QED BY <6>1
        <5> QED BY <3>1, <5>1, <5>2
      <4> QED BY <1>3, <4>1, <4>2 DEF Queries!Dims, H
    <3> QED BY <2>4, <3>2 DEF lo, up, x
  <2> QED BY <2>3, <2>4
<1> QED BY <1>5 DEF Queries!RangeQuery, Queries!Asking, r, H

(* The chunks of the threads reach the last range.                         *)
LEMMA ChunksReach ==
  ASSUME NThreads \in Nat \ {0}, Len(ranges) \in Nat
  PROVE  Queries!ChunkSize \in Nat /\ Len(ranges) < Queries!ChunkSize * NThreads
<1> DEFINE n == Len(ranges)
           q == n \div NThreads
           C == Queries!ChunkSize
<1>1. q \in Nat /\ n % NThreads \in 0 .. NThreads - 1 /\ n = NThreads * q + (n % NThreads)
  BY DivMod
<1>2. C = q + 1
  BY <1>1 DEF Queries!ChunkSize
<1> HIDE DEF q, C
<1>3. NThreads * (q + 1) = NThreads * q + NThreads /\ NThreads * q \in Nat
  <2>1. NThreads * q \in Nat
    BY <1>1, SMT
  <2> QED BY <1>1, <2>1, MulSucc
<1>4. C * NThreads = NThreads * C
  BY <1>1, <1>2, SMT
<1> QED BY <1>1, <1>2, <1>3, <1>4 DEF C

-----------------------------------------------------------------------------
(* What a thread has stored, with what its iterator has yet to return,     *)
(* answers the ranges of its chunk it has been through.                    *)
Progress(t, R, A) ==
  /\ hits[t] \in Seq(Tree)
  /\ IF Queries!Start(t) >= Len(ranges) THEN R[t] = <<>>
     ELSE IF queryPc[t] = "iterate"
       THEN A[index[t] + 1] = (A[Queries!Start(t)] \o R[t]) \o hits[t]
       ELSE A[index[t]] = A[Queries!Start(t)] \o R[t]

(* While the threads run. *)
Stage == \E own, R, A : /\ Chains(own) /\ Listed(R) /\ Given(A)
                        /\ \A t \in Queries!Threads : Progress(t, R, A)

ResultInv ==
  /\ phase \in {"none", "running", "deleted"}
  /\ ranges \in Seq([Queries!Dims -> 0 .. MaxValue])
  /\ hits \in [Queries!Threads -> Seq(Tree)]
  /\ phase # "running" => blocks = <<>>
  /\ phase = "running" => Stage

(* The part of the specification that ResultInv needs of a chunk: a thread *)
(* between its start and its end is in the list of ranges.                 *)
LEMMA InList ==
  ASSUME QueriesAssumption, IndexInv, phase = "running", NEW t \in Queries!Threads
  PROVE  /\ Queries!Start(t) \in Nat /\ index[t] \in Nat /\ Queries!End(t) \in Nat
         /\ Queries!Start(t) <= index[t] /\ Queries!End(t) <= Len(ranges)
         /\ Queries!Start(t) < Len(ranges) => Queries!Start(t) <= Queries!End(t)
         /\ queryPc[t] = "iterate" \/ index[t] < Queries!End(t) =>
              /\ Queries!Start(t) < Len(ranges)
              /\ index[t] + 1 \in 1 .. Len(ranges) /\ index[t] \in 0 .. Len(ranges)
<1>1. Len(ranges) \in Nat /\ NThreads \in Nat \ {0}
  BY DEF IndexInv, QueriesAssumption
<1>2. Queries!Start(t) \in Nat /\ Queries!End(t) \in Nat /\ index[t] \in Nat
  BY <1>1, StartNat DEF IndexInv
<1> DEFINE C == Queries!ChunkSize
<1>3. C \in Nat
  BY <1>1, ChunksReach
<1>4. C * (t + 1) = C * t + C /\ C * t \in Nat /\ C * (t + 1) \in Nat
  <2>1. t \in Nat
    BY DEF Queries!Threads
  <2> HIDE DEF C
  <2>2. C * t \in Nat
    BY <1>3, <2>1, SMT
  <2> QED BY <1>3, <2>1, <2>2, MulSucc
<1> HIDE DEF C
<1>5. /\ Queries!Start(t) = C * t
      /\ Queries!End(t) = IF C * (t + 1) < Len(ranges) THEN C * (t + 1) ELSE Len(ranges)
  BY DEF C, Queries!Start, Queries!End
<1>6. Queries!End(t) <= Len(ranges) /\ (Queries!Start(t) < Len(ranges) => Queries!Start(t) <= Queries!End(t))
  BY <1>1, <1>3, <1>4, <1>5
<1>7. Queries!Start(t) <= index[t] /\ (queryPc[t] = "iterate" => index[t] < Queries!End(t))
  BY DEF IndexInv
<1> QED BY <1>1, <1>2, <1>6, <1>7

(* Blocks and answers are untouched by a step that leaves the blocks and   *)
(* the list alone.                                                         *)
LEMMA StageStays ==
  ASSUME UNCHANGED <<blocks, storage, ranges, type, stored>>,
         NEW own, NEW R, NEW A, Chains(own), Listed(R), Given(A)
  PROVE  Chains(own)' /\ Listed(R)' /\ Given(A)'
<1>1. Chains(own)'
  BY DEF Chains, Numbered, NULL, Queries!NULL
<1>2. Listed(R)'
  BY DEF Listed, ListedFrom, Queries!NULL
<1>3. Given(A)'
  <2>1. \A j : Queries!Asking(j)' = Queries!Asking(j)
    BY DEF Queries!Asking
  <2> QED BY <2>1 DEF Given
<1> QED BY <1>1, <1>2, <1>3

(* Nothing is stored before the pool is created.                           *)
LEMMA InitResults ==
  ASSUME Queries!Init PROVE ResultInv
<1>1. <<>> \in Seq([Queries!Dims -> 0 .. MaxValue]) /\ <<>> \in Seq(Tree)
  OBVIOUS
<1>2. phase = "none" /\ ranges = <<>> /\ blocks = <<>> /\ hits = [t \in Queries!Threads |-> <<>>]
  BY Zenon DEF Queries!Init
<1>3. hits \in [Queries!Threads -> Seq(Tree)]
  BY <1>1, <1>2, Zenon
<1> QED BY <1>1, <1>2, <1>3, Zenon DEF ResultInv

(* A new pool has nothing stored, and every thread is before its ranges.   *)
LEMMA CreateResults ==
  ASSUME QueriesAssumption, IndexInv, IndexInv', ResultInv, Queries!CreatePool, stored' = Tree
  PROVE  ResultInv'
<1>1. /\ phase' = "running" /\ ranges' \in RangeLists /\ hits' = hits
      /\ index' = [t \in Queries!Threads |-> Queries!Start(t)']
      /\ queryPc' = queryPc /\ phase = "none"
  BY DEF Queries!CreatePool
<1>2. ranges' \in Seq([Queries!Dims -> 0 .. MaxValue])
  BY <1>1 DEF QueriesAssumption
<1>3. PICK own, R : /\ Chains(own)' /\ Listed(R)' /\ \A t \in Queries!Threads : R[t] = <<>>
  BY CreateChains
<1>4. PICK A : Given(A)'
  <2> DEFINE n == Len(ranges')
             W == [j \in 0 .. n |-> InOrder(Queries!Asking(j)')]
  <2>1. n \in Nat
    BY <1>2
  <2>2. \A j \in 0 .. n : InOrder(Queries!Asking(j)') \in Seq(Tree)
    <3> SUFFICES ASSUME NEW j \in 0 .. n PROVE InOrder(Queries!Asking(j)') \in Seq(Tree)
      OBVIOUS
    <3>1. Queries!Asking(j)' \in SUBSET Tree
      BY DEF Queries!Asking
    <3> HIDE DEF Queries!Asking
    <3>2. InOrder(Queries!Asking(j)') \in Seq(Queries!Asking(j)')
      BY <3>1 DEF QueriesAssumption
    <3> QED BY <3>1, <3>2
  <2>3. W \in [0 .. n -> Seq(Tree)] /\ \A j \in 0 .. n : W[j] = InOrder(Queries!Asking(j)')
    BY <2>2
  <2> HIDE DEF W, n
  <2>4. PICK A \in [0 .. n -> Seq(Tree)] :
          \A j \in 0 .. n : A[j] = IF j = 0 THEN <<>> ELSE A[j - 1] \o W[j]
    BY <2>1, <2>3, AnswersExist
  <2>5. \A j \in 0 .. n : A[j] = IF j = 0 THEN <<>> ELSE A[j - 1] \o InOrder(Queries!Asking(j)')
    BY <2>3, <2>4
  <2>6. Given(A)'
    BY <2>4, <2>5 DEF Given, n
  <2> QED BY <2>6
<1>5. \A t \in Queries!Threads : Progress(t, R, A)'
  <2> SUFFICES ASSUME NEW t \in Queries!Threads PROVE Progress(t, R, A)'
    OBVIOUS
  <2>1. hits'[t] \in Seq(Tree) /\ R[t] = <<>> /\ queryPc'[t] = "next" /\ index'[t] = Queries!Start(t)'
    BY <1>1, <1>3 DEF ResultInv, IndexInv
  <2>2. Queries!Start(t)' \in Nat /\ Len(ranges') \in Nat
    BY <2>1 DEF IndexInv
  <2>3. ASSUME ~(Queries!Start(t)' >= Len(ranges'))
        PROVE  A[Queries!Start(t)'] = A[Queries!Start(t)'] \o <<>>
    <3>1. Queries!Start(t)' \in 0 .. Len(ranges')
      BY <2>2, <2>3
    <3>2. A[Queries!Start(t)'] \in Seq(Tree)
      BY <1>4, <3>1 DEF Given
    <3> QED BY <3>2, ConcatEmptySeq
  <2> QED BY <2>1, <2>3 DEF Progress
<1>6. Stage'
  BY <1>3, <1>4, <1>5 DEF Stage
<1> QED BY <1>1, <1>2, <1>6 DEF ResultInv

(* The steps of a thread.                                                  *)
LEMMA QueryResults ==
  ASSUME QueriesAssumption, IndexInv, ResultInv, stored = Tree, stored' = Tree,
         NEW t \in Queries!Threads, Queries!Query(t)
  PROVE  ResultInv'
<1> DEFINE T == Queries!Threads
<1>1. phase = "running" /\ phase' = "running" /\ ranges' = ranges /\ type' = type /\ Stage
  BY DEF Queries!Query, Queries!NextRange, Queries!Add, Queries!EndRange, Queries!Finish, ResultInv
<1>2. PICK own, R, A : /\ Chains(own) /\ Listed(R) /\ Given(A)
                       /\ \A u \in T : Progress(u, R, A)
  BY <1>1 DEF Stage
<1>3. \A u \in T : /\ Queries!Start(u)' = Queries!Start(u)
                   /\ hits[u] \in Seq(Tree) /\ Progress(u, R, A)
  BY <1>1, <1>2 DEF Queries!Start, Queries!ChunkSize, Progress
<1>4. /\ Queries!Start(t) \in Nat /\ index[t] \in Nat /\ Queries!Start(t) <= index[t]
      /\ queryPc[t] = "iterate" \/ index[t] < Queries!End(t) =>
           /\ Queries!Start(t) < Len(ranges)
           /\ index[t] + 1 \in 1 .. Len(ranges) /\ index[t] \in 0 .. Len(ranges)
  BY <1>1, InList
<1>5. Len(ranges) \in Nat /\ index \in [T -> Nat] /\ queryPc \in [T -> {"next", "iterate", "done"}]
      /\ hits \in [T -> Seq(Tree)]
  BY DEF IndexInv, ResultInv
<1>6. T \subseteq DOMAIN blocks /\ \A u \in T : R[u] \in Seq(Tree)
  BY <1>2, ThreadBlocks DEF Chains, Listed, QueriesAssumption
<1>7. \A j \in 0 .. Len(ranges) : A[j] \in Seq(Tree)
  BY <1>2 DEF Given
<1>8. ASSUME hits' \in [T -> Seq(Tree)], NEW o, NEW S, Chains(o)', Listed(S)', Given(A)',
             \A u \in T \ {t} : S[u] = R[u] /\ hits'[u] = hits[u] /\ index'[u] = index[u]
                                /\ queryPc'[u] = queryPc[u],
             Progress(t, S, A)'
      PROVE  ResultInv'
  <2>1. \A u \in T : Progress(u, S, A)'
    <3> SUFFICES ASSUME NEW u \in T \ {t} PROVE Progress(u, S, A)'
      BY <1>8
    <3>1. Progress(u, R, A) /\ Queries!Start(u)' = Queries!Start(u)
      BY <1>3
    <3> QED BY <1>1, <1>8, <3>1 DEF Progress
  <2>2. Stage'
    BY <1>8, <2>1 DEF Stage
  <2> QED BY <1>1, <1>8, <2>2 DEF ResultInv
<1>9. CASE Queries!NextRange(t)
  <2> DEFINE j == index[t]
             new == InOrder(Queries!RangeQuery(ranges[j + 1]))
  <2>1. /\ queryPc[t] = "next" /\ j < Queries!End(t)
        /\ hits' = [hits EXCEPT ![t] = new] /\ queryPc' = [queryPc EXCEPT ![t] = "iterate"]
        /\ UNCHANGED <<index, storage, blocks>>
    BY <1>9 DEF Queries!NextRange
  <2>2. Queries!RangeQuery(ranges[j + 1]) = Queries!Asking(j + 1)
    BY <1>4, <2>1, WindowAsks DEF ResultInv
  <2>3. new \in Seq(Tree) /\ new = InOrder(Queries!Asking(j + 1))
    <3>1. Queries!Asking(j + 1) \in SUBSET Tree
      BY DEF Queries!Asking
    <3> HIDE DEF Queries!Asking
    <3>2. InOrder(Queries!Asking(j + 1)) \in Seq(Queries!Asking(j + 1))
      BY <3>1 DEF QueriesAssumption
    <3>3. InOrder(Queries!Asking(j + 1)) \in Seq(Tree)
      BY <3>1, <3>2
    <3> QED BY <2>2, <3>3
  <2> HIDE DEF new
  <2>4. A[j + 1] = A[j] \o new
    <3>1. j + 1 \in 0 .. Len(ranges) /\ j + 1 # 0 /\ (j + 1) - 1 = j
      BY <1>4, <2>1
    <3>2. A[j + 1] = IF j + 1 = 0 THEN <<>> ELSE A[(j + 1) - 1] \o InOrder(Queries!Asking(j + 1))
      BY <1>2, <3>1 DEF Given
    <3> QED BY <2>3, <3>1, <3>2
  <2>5. Chains(own)' /\ Listed(R)' /\ Given(A)'
    BY <1>1, <1>2, <2>1, StageStays
  <2>6. Progress(t, R, A)'
    <3>1. Queries!Start(t) < Len(ranges)
      BY <1>4, <2>1
    <3>2. ~(Queries!Start(t) >= Len(ranges)) /\ queryPc[t] # "iterate"
      BY <1>4, <1>5, <2>1, <3>1
    <3>3. A[j] = A[Queries!Start(t)] \o R[t]
      BY <1>3, <3>2 DEF Progress
    <3>4. hits'[t] = new /\ queryPc'[t] = "iterate" /\ index'[t] = j
      BY <1>5, <2>1
    <3> QED BY <1>1, <1>3, <2>3, <2>4, <3>2, <3>3, <3>4 DEF Progress
  <2>7. hits' \in [T -> Seq(Tree)]
    BY <1>5, <2>1, <2>3
  <2> QED BY <1>8, <2>1, <2>5, <2>6, <2>7
<1>10. CASE Queries!Add(t)
  <2> DEFINE h == hits[t]
             x == Head(h)
  <2>1. /\ queryPc[t] = "iterate" /\ h # <<>> /\ hits' = [hits EXCEPT ![t] = Tail(h)]
        /\ UNCHANGED <<queryPc, index>>
    BY <1>10 DEF Queries!Add
  <2>2. h \in Seq(Tree) /\ x \in Tree /\ Tail(h) \in Seq(Tree) /\ <<x>> \in Seq(Tree) /\ h = <<x>> \o Tail(h)
    <3>1. h \in Seq(Tree)
      BY <1>3
    <3> HIDE DEF h
    <3>2. x \in Tree /\ Tail(h) \in Seq(Tree)
      BY <2>1, <3>1, HeadTailProperties
    <3>3. <<x>> \in Seq(Tree)
      BY <3>2
    <3>4. h = <<x>> \o Tail(h)
      BY <2>1, <3>1
    <3> QED BY <3>1, <3>2, <3>3, <3>4
  <2>3. PICK o, S : /\ Chains(o)' /\ Listed(S)' /\ S[t] = Append(R[t], x)
                    /\ \A u \in T \ {t} : S[u] = R[u]
    BY <1>2, <1>10, <2>2, AddChains
  <2> HIDE DEF h, x
  <2>4. Given(A)'
    <3>1. \A j : Queries!Asking(j)' = Queries!Asking(j)
      BY <1>1 DEF Queries!Asking
    <3> QED BY <1>1, <1>2, <3>1 DEF Given
  <2>5. Progress(t, S, A)'
    <3> DEFINE a == A[Queries!Start(t)]
               r == R[t]
               l == Tail(h)
    <3>1. Queries!Start(t) < Len(ranges) /\ ~(Queries!Start(t) >= Len(ranges))
          /\ Queries!Start(t) \in 0 .. Len(ranges)
      BY <1>4, <1>5, <2>1
    <3>2. A[index[t] + 1] = (a \o r) \o h
      BY <1>3, <2>1, <3>1 DEF Progress, h
    <3>3. a \in Seq(Tree) /\ r \in Seq(Tree) /\ l \in Seq(Tree) /\ <<x>> \in Seq(Tree)
      BY <1>6, <1>7, <2>2, <3>1
    <3> HIDE DEF a, r, l
    <3>4. (a \o r) \o (<<x>> \o l) = (a \o (r \o <<x>>)) \o l
      <4>1. \A p, q, s \in Seq(Tree) : (p \o q) \o s = p \o (q \o s) /\ p \o q \in Seq(Tree)
        BY ConcatAssociative, ConcatProperties
      <4>2. a \o r \in Seq(Tree) /\ r \o <<x>> \in Seq(Tree)
        BY <3>3, <4>1
      <4>3. (a \o r) \o (<<x>> \o l) = ((a \o r) \o <<x>>) \o l
        BY <3>3, <4>1, <4>2
      <4>4. (a \o r) \o <<x>> = a \o (r \o <<x>>)
        BY <3>3, <4>1
      <4> QED BY <4>3, <4>4
    <3>5. S[t] = r \o <<x>>
      <4>1. \A p \in Seq(Tree) : Append(p, x) = p \o <<x>>
        BY <2>2, AppendIsConcat
      <4> QED BY <2>3, <3>3, <4>1 DEF r
    <3>6. A[index[t] + 1] = (a \o S[t]) \o l
      BY <2>2, <3>2, <3>4, <3>5 DEF l
    <3>7. hits'[t] = l /\ queryPc'[t] = "iterate" /\ index'[t] = index[t]
      BY <1>5, <2>1 DEF l
    <3> QED BY <1>1, <1>3, <3>1, <3>3, <3>6, <3>7 DEF Progress, a
  <2>6. hits' \in [T -> Seq(Tree)]
    BY <1>5, <2>1, <2>2
  <2> QED BY <1>5, <1>8, <2>1, <2>3, <2>4, <2>5, <2>6
<1>11. CASE Queries!EndRange(t)
  <2>1. /\ queryPc[t] = "iterate" /\ hits[t] = <<>> /\ hits' = hits
        /\ index' = [index EXCEPT ![t] = @ + 1] /\ queryPc' = [queryPc EXCEPT ![t] = "next"]
        /\ UNCHANGED <<storage, blocks>>
    BY <1>11 DEF Queries!EndRange
  <2>2. Chains(own)' /\ Listed(R)' /\ Given(A)'
    BY <1>1, <1>2, <2>1, StageStays
  <2>3. Progress(t, R, A)'
    <3>1. Queries!Start(t) < Len(ranges) /\ ~(Queries!Start(t) >= Len(ranges))
          /\ Queries!Start(t) \in 0 .. Len(ranges)
      BY <1>4, <1>5, <2>1
    <3>2. A[index[t] + 1] = (A[Queries!Start(t)] \o R[t]) \o <<>>
      BY <1>3, <2>1, <3>1 DEF Progress
    <3>3. A[Queries!Start(t)] \o R[t] \in Seq(Tree)
      BY <1>6, <1>7, <3>1, ConcatProperties
    <3>4. A[index[t] + 1] = A[Queries!Start(t)] \o R[t]
      BY <3>2, <3>3, ConcatEmptySeq
    <3>5. hits'[t] \in Seq(Tree) /\ queryPc'[t] = "next" /\ index'[t] = index[t] + 1
      BY <1>5, <2>1
    <3> QED BY <1>1, <1>3, <3>1, <3>4, <3>5 DEF Progress
  <2>4. \A u \in T \ {t} : hits'[u] = hits[u] /\ index'[u] = index[u] /\ queryPc'[u] = queryPc[u]
    BY <1>5, <2>1
  <2> QED BY <1>5, <1>8, <2>1, <2>2, <2>3, <2>4
<1>12. CASE Queries!Finish(t)
  <2>1. /\ queryPc[t] = "next" /\ hits' = hits /\ index' = index
        /\ queryPc' = [queryPc EXCEPT ![t] = "done"] /\ UNCHANGED <<storage, blocks>>
    BY <1>12 DEF Queries!Finish
  <2>2. Chains(own)' /\ Listed(R)' /\ Given(A)'
    BY <1>1, <1>2, <2>1, StageStays
  <2>3. queryPc'[t] = "done"
    BY <1>5, <2>1
  <2>4. Progress(t, R, A)'
    BY <1>1, <1>3, <2>1, <2>3 DEF Progress
  <2>5. \A u \in T \ {t} : hits'[u] = hits[u] /\ index'[u] = index[u] /\ queryPc'[u] = queryPc[u]
    BY <1>5, <2>1
  <2> QED BY <1>5, <1>8, <2>1, <2>2, <2>4, <2>5
<1> QED BY <1>9, <1>10, <1>11, <1>12 DEF Queries!Query

(* The pool is deleted with all its blocks: each is the first one of a     *)
(* thread or linked to.                                                    *)
LEMMA DeleteResults ==
  ASSUME QueriesAssumption, ResultInv, Queries!Delete
  PROVE  ResultInv'
<1>1. /\ phase = "running" /\ phase' = "deleted" /\ ranges' = ranges /\ hits' = hits
      /\ blocks' = [b \in DOMAIN blocks \ (Queries!Threads \cup Queries!Linked) |-> blocks[b]]
  BY DEF Queries!Delete, Queries!AllDone
<1>2. PICK own : Chains(own)
  BY <1>1 DEF ResultInv, Stage
<1>3. NULL \notin DOMAIN blocks
  BY <1>2, ThreadBlocks DEF Chains, QueriesAssumption
<1>4. \A b \in DOMAIN blocks : b \in Queries!Threads \/ b \in Queries!Linked
  <2>1. \A b \in DOMAIN blocks : b \in Queries!Threads \/ \E c \in DOMAIN blocks : blocks[c].next = b
    BY <1>2 DEF Chains
  <2> QED BY <1>3, <2>1 DEF Queries!Linked, NULL
<1>5. DOMAIN blocks \ (Queries!Threads \cup Queries!Linked) = {}
  BY <1>4
<1>6. blocks' = [b \in {} |-> blocks[b]]
  BY <1>1, <1>5
<1>7. blocks' = <<>>
  BY <1>6
<1> QED BY <1>1, <1>7 DEF ResultInv

(* The results of the threads in a row are the answers in a row.           *)
LEMMA ResultsAnswer ==
  ASSUME QueriesAssumption, IndexInv, ResultInv, Queries!AllDone
  PROVE  Queries!AllResults = Queries!Answers
<1> DEFINE T == Queries!Threads
           n == Len(ranges)
           C == Queries!ChunkSize
<1>1. phase = "running" /\ (\A t \in T : queryPc[t] = "done") /\ n \in Nat /\ NThreads \in Nat \ {0}
  BY DEF Queries!AllDone, IndexInv, QueriesAssumption
<1>2. PICK own, R, A : Chains(own) /\ Listed(R) /\ Given(A) /\ \A t \in T : Progress(t, R, A)
  BY <1>1 DEF ResultInv, Stage
<1>3. Queries!Answers = A[n]
  BY <1>1, <1>2, AnswersAre
<1>4. \A t \in T : Queries!Results(t) = R[t] /\ R[t] \in Seq(Tree)
  <2>1. PICK m \in Nat : DOMAIN blocks = 0 .. m - 1
    BY <1>2 DEF Chains, Numbered
  <2>2. \A b \in DOMAIN blocks : blocks[b].next # Queries!NULL =>
                                   blocks[b].next \in DOMAIN blocks /\ blocks[b].next > b
    BY <1>2 DEF Chains, NULL
  <2>3. ListedFrom(R)
    BY <1>2 DEF Listed
  <2>4. \A g : ListedFrom(g) => g = R
    BY <2>1, <2>2, <2>3, ListedUnique
  <2>5. \A t \in T : Queries!Results(t) = R[t]
    BY <2>3, <2>4, ResultsAre
  <2>6. T \subseteq DOMAIN blocks
    BY <1>1, <1>2, ThreadBlocks DEF Chains
  <2> QED BY <1>2, <2>5, <2>6 DEF Listed
<1>5. \A j \in 0 .. n : A[j] \in Seq(Tree)
  BY <1>2 DEF Given
<1>6. A[0] = <<>>
  BY <1>1, <1>2 DEF Given
<1>7. C \in Nat /\ n < C * NThreads
  BY <1>1, ChunksReach
<1>8. \A t \in Nat : C * (t + 1) = C * t + C /\ C * t \in Nat /\ C * 0 = 0
  <2> SUFFICES ASSUME NEW t \in Nat PROVE C * (t + 1) = C * t + C /\ C * t \in Nat /\ C * 0 = 0
    OBVIOUS
  <2> HIDE DEF C
  <2>1. C * t \in Nat /\ C * 0 = 0
    BY <1>7, SMT
  <2> QED BY <1>7, <2>1, MulSucc
<1>9. \A t \in T : /\ Queries!Start(t) = C * t
                   /\ Queries!End(t) = IF C * (t + 1) < n THEN C * (t + 1) ELSE n
  BY DEF Queries!Start, Queries!End
<1>10. T = 0 .. NThreads - 1
  BY DEF Queries!Threads
<1> HIDE DEF C, T
<1>11. \A t \in T : Queries!End(t) \in 0 .. n /\
         \/ Queries!Start(t) >= n /\ Queries!End(t) = n /\ R[t] = <<>>
         \/ Queries!Start(t) < n /\ A[Queries!End(t)] = A[Queries!Start(t)] \o R[t]
  <2> SUFFICES ASSUME NEW t \in T
               PROVE  Queries!End(t) \in 0 .. n /\
                        \/ Queries!Start(t) >= n /\ Queries!End(t) = n /\ R[t] = <<>>
                        \/ Queries!Start(t) < n /\ A[Queries!End(t)] = A[Queries!Start(t)] \o R[t]
    OBVIOUS
  <2>1. /\ Queries!Start(t) \in Nat /\ index[t] \in Nat /\ Queries!End(t) \in Nat
        /\ Queries!Start(t) <= index[t] /\ Queries!End(t) <= n
        /\ Queries!Start(t) < n => Queries!Start(t) <= Queries!End(t)
    BY <1>1, InList DEF T
  <2>2. /\ index[t] <= Queries!Start(t) \/ index[t] <= Queries!End(t)
        /\ index[t] >= Queries!End(t)
    BY <1>1 DEF IndexInv, T
  <2>3. Progress(t, R, A) /\ queryPc[t] # "iterate"
    BY <1>1, <1>2
  <2>4. CASE Queries!Start(t) >= n
    <3>1. Queries!End(t) = n
      <4>1. t \in Nat
        BY <1>1, <1>10
      <4> QED BY <1>1, <1>7, <1>8, <1>9, <2>4, <4>1
    <3>2. R[t] = <<>>
      BY <2>3, <2>4 DEF Progress
    <3> QED BY <1>1, <2>4, <3>1, <3>2
  <2>5. CASE ~(Queries!Start(t) >= n)
    <3>1. Queries!Start(t) < n /\ index[t] = Queries!End(t)
      BY <1>1, <2>1, <2>2, <2>5
    <3>2. A[index[t]] = A[Queries!Start(t)] \o R[t]
      BY <2>3, <2>5 DEF Progress
    <3> QED BY <1>1, <2>1, <3>1, <3>2
  <2> QED BY <2>4, <2>5
<1> DEFINE S == [t \in 0 .. NThreads - 1 |-> Queries!Results(t)]
           G(f) == f = [t \in T |-> IF t = 0 THEN Queries!Results(0)
                                    ELSE f[t - 1] \o Queries!Results(t)]
<1>12. \A f : G(f) <=> UpTo(f, NThreads - 1, S)
  <2> SUFFICES ASSUME NEW f PROVE G(f) <=> UpTo(f, NThreads - 1, S)
    OBVIOUS
  <2>1. \A t \in T : S[t] = Queries!Results(t) /\ 0 \in T
    BY <1>1, <1>10
  <2> HIDE DEF S
  <2>2. [t \in T |-> IF t = 0 THEN Queries!Results(0) ELSE f[t - 1] \o Queries!Results(t)]
        = [t \in T |-> IF t = 0 THEN S[0] ELSE f[t - 1] \o S[t]]
    BY <2>1
  <2> QED BY <1>10, <2>2, Zenon DEF UpTo
<1>13. S \in [0 .. NThreads - 1 -> Seq(Tree)]
  BY <1>4, <1>10
<1>14. NThreads - 1 \in Nat
  BY <1>1
<1>15. PICK U : UpTo(U, NThreads - 1, S)
  <2> HIDE DEF S
  <2> QED BY <1>13, <1>14, UpToExists
<1>16. \A f : G(f) => f = U
  <2> HIDE DEF G, S
  <2> QED BY <1>12, <1>14, <1>15, UpToUnique
<1>17. Queries!AllResults = (CHOOSE f : G(f))[NThreads - 1]
  BY Zenon DEF Queries!AllResults, T
<1>18. (CHOOSE f : G(f)) = U
  <2> HIDE DEF G, S
  <2>1. G(U)
    BY <1>12, <1>15
  <2> QED BY <1>16, <2>1, Zenon
<1>19. \A t \in T : U[t] = IF t = 0 THEN R[0] ELSE U[t - 1] \o R[t]
  <2>1. G(U)
    BY <1>12, <1>15, Zenon
  <2>2. \A t \in T : U[t] = IF t = 0 THEN Queries!Results(0) ELSE U[t - 1] \o Queries!Results(t)
    <3> DEFINE F == [t \in T |-> IF t = 0 THEN Queries!Results(0) ELSE U[t - 1] \o Queries!Results(t)]
    <3>1. \A t \in T : F[t] = IF t = 0 THEN Queries!Results(0) ELSE U[t - 1] \o Queries!Results(t)
      OBVIOUS
    <3>2. U = F
      BY <2>1, Zenon
    <3> HIDE DEF F
    <3> QED BY <3>1, <3>2
  <2>3. 0 \in T
    BY <1>1, <1>10
  <2> QED BY <1>4, <2>2, <2>3
<1> HIDE DEF G, S
<1>20. \A t \in T : U[t] = A[Queries!End(t)]
  <2> DEFINE bad == {t \in Nat : t < NThreads /\ U[t] # A[Queries!End(t)]}
  <2>1. SUFFICES ASSUME bad # {} PROVE FALSE
    BY <1>1, <1>10
  <2>2. PICK t \in bad : \A u \in bad : t <= u
    BY <2>1, LeastNatural
  <2>3. t \in Nat /\ t \in T /\ U[t] # A[Queries!End(t)]
    BY <1>1, <1>10, <2>2
  <2>4. R[t] \in Seq(Tree) /\ \A s \in Seq(Tree) : s \o <<>> = s /\ <<>> \o s = s
    BY <1>4, <2>3, ConcatEmptySeq
  <2>5. /\ Queries!Start(t) >= n => Queries!End(t) = n /\ R[t] = <<>>
        /\ Queries!Start(t) < n => A[Queries!End(t)] = A[Queries!Start(t)] \o R[t]
        /\ Queries!Start(t) \in Nat
    <3>1. \/ Queries!Start(t) >= n /\ Queries!End(t) = n /\ R[t] = <<>>
          \/ Queries!Start(t) < n /\ A[Queries!End(t)] = A[Queries!Start(t)] \o R[t]
      BY <1>11, <2>3, Zenon
    <3>2. Queries!Start(t) \in Nat /\ n \in Nat
      BY <1>1, <1>8, <1>9, <2>3
    <3>3. ~(Queries!Start(t) >= n /\ Queries!Start(t) < n)
      BY <3>2
    <3> QED BY <3>1, <3>2, <3>3, Zenon
  <2>6. CASE t = 0
    <3>1. U[t] = R[t]
      <4>1. U[t] = R[0] /\ R[0] = R[t]
        BY <1>19, <2>3, <2>6, Zenon
      <4> QED BY <4>1
    <3>2. Queries!Start(t) = 0
      <4>1. C * t = 0
        BY <1>8, <2>6
      <4> QED BY <1>9, <2>3, <4>1
    <3>3. CASE n = 0
      <4>1. R[t] = <<>> /\ Queries!End(t) = 0
        <5>1. Queries!Start(t) >= n
          BY <3>2, <3>3
        <5> QED BY <2>5, <3>3, <5>1, Zenon
      <4>2. A[Queries!End(t)] = A[0]
        BY <4>1
      <4> QED BY <1>6, <2>3, <3>1, <4>1, <4>2, Zenon
    <3>4. CASE n # 0
      <4>1. A[Queries!End(t)] = A[0] \o R[t]
        <5>1. Queries!Start(t) < n
          BY <1>1, <3>2, <3>4
        <5> QED BY <2>5, <3>2, <5>1, Zenon
      <4>2. A[0] \o R[t] = R[t]
        BY <1>6, <2>4, Zenon
      <4> QED BY <2>3, <3>1, <4>1, <4>2, Zenon
    <3> QED BY <3>3, <3>4
  <2>7. CASE t # 0
    <3> DEFINE p == t - 1
    <3>1. p \in Nat /\ p \in T /\ p + 1 = t /\ ~(t <= p) /\ p < NThreads
      BY <1>1, <1>10, <2>3, <2>7
    <3>2. p \notin bad
      BY <2>2, <3>1
    <3>3. U[p] = A[Queries!End(p)]
      BY <3>1, <3>2
    <3>4. U[t] = A[Queries!End(p)] \o R[t]
      BY <1>19, <2>3, <2>7, <3>3
    <3>5. Queries!End(p) = IF C * t < n THEN C * t ELSE n
      BY <1>9, <3>1
    <3>6. Queries!Start(t) = C * t /\ C * t \in Nat
      BY <1>8, <1>9, <2>3
    <3>7. CASE Queries!Start(t) < n
      <4>1. Queries!End(p) = Queries!Start(t)
        BY <3>5, <3>6, <3>7
      <4>2. A[Queries!End(t)] = A[Queries!Start(t)] \o R[t]
        BY <2>5, <3>7, Zenon
      <4> QED BY <2>3, <3>4, <4>1, <4>2
    <3>8. CASE ~(Queries!Start(t) < n)
      <4>1. Queries!End(p) = n /\ Queries!End(t) = n /\ R[t] = <<>>
        BY <1>1, <1>11, <2>3, <3>5, <3>6, <3>8
      <4>2. A[n] \in Seq(Tree)
        BY <1>1, <1>5
      <4>3. A[Queries!End(p)] = A[n] /\ A[Queries!End(t)] = A[n]
        BY <4>1
      <4>4. U[t] = A[n] \o <<>>
        BY <3>4, <4>1, <4>3
      <4>5. A[n] \o <<>> = A[n]
        BY <2>4, <4>2, Zenon
      <4> QED BY <2>3, <4>3, <4>4, <4>5, Zenon
    <3> QED BY <3>7, <3>8
  <2> QED BY <2>6, <2>7
<1>21. U[NThreads - 1] = A[n]
  <2>1. NThreads - 1 \in T /\ (NThreads - 1) + 1 = NThreads /\ C * NThreads \in Nat
    BY <1>1, <1>8, <1>10
  <2>2. Queries!End(NThreads - 1) = n
    BY <1>1, <1>7, <1>9, <2>1
  <2> QED BY <1>20, <2>1, <2>2
<1> QED BY <1>3, <1>17, <1>18, <1>21

(* The invariant says what is to be shown.                                 *)
LEMMA ResultsRight ==
  ASSUME QueriesAssumption, IndexInv, ResultInv
  PROVE  Queries!RangesAnswered
<1>1. Queries!AllDone => Queries!AllResults = Queries!Answers
  BY ResultsAnswer
<1>2. \A b \in DOMAIN blocks :
        /\ Len(blocks[b].entries) <= CAPACITY
        /\ blocks[b].next # Queries!NULL <=> Len(blocks[b].entries) = CAPACITY
  <2>1. CASE phase = "running"
    <3>1. PICK own : Chains(own)
      BY <2>1 DEF ResultInv, Stage
    <3> QED BY <3>1 DEF Chains, NULL
  <2>2. CASE phase # "running"
    <3>1. DOMAIN blocks = {}
      BY <2>2 DEF ResultInv
    <3> QED BY <3>1
  <2> QED BY <2>1, <2>2
<1>3. phase = "deleted" => blocks = <<>>
  BY DEF ResultInv
<1> QED BY <1>1, <1>2, <1>3 DEF Queries!RangesAnswered

(* As long as the tree does not change while the threads run, their        *)
(* results are, in the order of the ranges, the rectangles each of them    *)
(* asks for, for every number of threads and every CAPACITY; every block   *)
(* but the last one of a thread is full, and none is left when the pool is *)
(* deleted (RangeQueryThreadPool.h, ResultStorage.h).                      *)
THEOREM RangesAnsweredAlways ==
  ASSUME QueriesAssumption
  PROVE  Queries!Spec /\ [](phase = "running" => stored = Tree)
           => [](Queries!EachRangeOnce /\ Queries!RangesAnswered)
<1>1. NThreads \in Nat \ {0} /\ \A l \in RangeLists : Len(l) \in Nat
  BY DEF QueriesAssumption
<1>2. Queries!Init => IndexInv /\ ResultInv
  BY InitIndex, InitResults
<1>3. IndexInv /\ [Queries!Next]_Queries!queryPoolVars => IndexInv'
  BY <1>1, NextIndex
<1> DEFINE Fixed == phase = "running" => stored = Tree
<1>4. IndexInv /\ IndexInv' /\ ResultInv /\ Fixed /\ Fixed' /\ [Queries!Next]_Queries!queryPoolVars
      => ResultInv'
  <2> SUFFICES ASSUME IndexInv, IndexInv', ResultInv, Fixed, Fixed',
                      [Queries!Next]_Queries!queryPoolVars
               PROVE  ResultInv'
    OBVIOUS
  <2>1. CASE Queries!CreatePool
    <3>1. phase' = "running"
      BY <2>1 DEF Queries!CreatePool
    <3>2. stored' = Tree
      BY <3>1
    <3> QED BY <2>1, <3>2, CreateResults
  <2>2. CASE Queries!Delete
    BY <2>2, DeleteResults
  <2>3. ASSUME NEW t \in Queries!Threads, Queries!Query(t) PROVE ResultInv'
    <3>1. phase = "running" /\ phase' = "running"
      BY <2>3 DEF Queries!Query, Queries!NextRange, Queries!Add, Queries!EndRange, Queries!Finish
    <3>2. stored = Tree /\ stored' = Tree
      BY <3>1
    <3> QED BY <2>3, <3>2, QueryResults
  <2>4. CASE UNCHANGED Queries!queryPoolVars
    <3>1. UNCHANGED <<phase, type, ranges, queryPc, index, hits, storage, blocks>>
      BY <2>4 DEF Queries!queryPoolVars
    <3>2. ASSUME phase = "running", NEW own, NEW R, NEW A, Chains(own), Listed(R), Given(A)
          PROVE  Chains(own)' /\ Listed(R)' /\ Given(A)'
      <4>1. stored' = stored
        BY <3>1, <3>2
      <4> QED BY <3>1, <3>2, <4>1, StageStays
    <3>3. \A t, R, A : Progress(t, R, A)' <=> Progress(t, R, A)
      BY <3>1 DEF Progress, Queries!Start, Queries!ChunkSize
    <3>4. phase = "running" /\ Stage => Stage'
      BY <3>2, <3>3 DEF Stage
    <3> QED BY <3>1, <3>4 DEF ResultInv
  <2> QED BY <2>1, <2>2, <2>3, <2>4 DEF Queries!Next, Queries!Proceed
<1>5. IndexInv /\ ResultInv => Queries!EachRangeOnce /\ Queries!RangesAnswered
  BY <1>1, IndexOnce, ResultsRight
<1> QED BY <1>2, <1>3, <1>4, <1>5, PTL DEF Queries!Spec
=============================================================================
