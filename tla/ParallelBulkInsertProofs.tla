-------------------------- MODULE ParallelBulkInsertProofs --------------------------
(***************************************************************************)
(* The parallel bulk insertion, proved for every number of threads, every  *)
(* workload and every size of pool, buffer and list of replaced nodes.     *)
(***************************************************************************)
EXTENDS ParallelBulkInsert, PHTreeNodesProofs

(* The read locks a thread holds at a label and the node it may hold a     *)
(* write lock of.                                                          *)
ReadLocks(t) ==
  IF pc[t] = "visit" THEN {local[t].cur, local[t].last} \ {None}
  ELSE IF pc[t] \in {"lockchild", "reserve", "fill", "compare"} THEN {local[t].cur} \ {None}
  ELSE {}

WriteLocks(t) ==
  IF pc[t] \in {"recheck", "flushing"} THEN {local[t].cur}
  ELSE IF pc[t] \in {"split", "copy"} THEN {local[t].last}
  ELSE {}

Fields == DOMAIN NoLocal

Shaped ==
  /\ pc \in [Thread -> Labels]
  /\ DOMAIN local = Thread /\ \A t \in Thread : DOMAIN local[t] = Fields
  /\ DOMAIN pos = Thread /\ DOMAIN entryMap = Thread /\ DOMAIN deleted = Thread

(* The local variables a label does not use are unset.                     *)
LocalsUnset ==
  \A t \in Thread :
    /\ pc[t] \in {"next", "synced", "start", "barrier", "finished"} => local[t] = NoLocal
    /\ pc[t] \notin {"visit", "copy", "split"} => local[t].last = None
    /\ pc[t] # "lockchild" => local[t].child = None

(* A node somebody writes to is locked by nobody else. *)
LocksExclusive ==
  \A t, u \in Thread : \A n : t # u /\ <<t, n>> \in writers => <<u, n>> \notin readers \cup writers

Locks(ls) == \A l \in ls : \E t \in Thread : \E n : l = <<t, n>>

LockInv ==
  /\ Locks(readers) /\ Locks(writers)
  /\ \A t \in Thread : \A n : <<t, n>> \in readers <=> n \in ReadLocks(t)
  /\ \A t \in Thread : \A n : <<t, n>> \in writers => n \in WriteLocks(t)
  /\ \A t \in Thread : pc[t] \in {"recheck", "flushing"} => <<t, local[t].cur>> \in writers
  /\ LocksExclusive

(* What a step of one thread leaves alone of the others. *)
OthersKept(t) ==
  \A u \in Thread \ {t} :
    /\ pc'[u] = pc[u] /\ local'[u] = local[u] /\ pos'[u] = pos[u]
    /\ entryMap'[u] = entryMap[u] /\ deleted'[u] = deleted[u]

(* A step keeps the shape of the threads' variables and does not touch the *)
(* other threads'.                                                         *)
LEMMA StepShape ==
  ASSUME Shaped, NEW t \in Thread, Step(t)
  PROVE  Shaped' /\ OthersKept(t)
<1> USE DEF Shaped, Labels
<1>1. Fields = {"cur", "last", "child", "slot", "row", "seen", "seenLast"}
  BY DEF Fields, NoLocal
<1>2. ASSUME NEW c, NEW l, NEW h, NEW s, NEW x, NEW y
      PROVE  /\ DOMAIN NoLocal = Fields
             /\ DOMAIN [NoLocal EXCEPT !.cur = c] = Fields
             /\ DOMAIN [NoLocal EXCEPT !.cur = c, !.last = l] = Fields
             /\ DOMAIN [NoLocal EXCEPT !.cur = c, !.slot = s] = Fields
             /\ DOMAIN [NoLocal EXCEPT !.cur = c, !.seen = x] = Fields
             /\ DOMAIN [NoLocal EXCEPT !.cur = c, !.slot = s, !.seen = x] = Fields
             /\ DOMAIN [NoLocal EXCEPT !.cur = c, !.last = l, !.seen = x, !.seenLast = y] = Fields
  BY DEF Fields
<1>3. ASSUME NEW c, NEW l, NEW h, NEW s, NEW x, NEW y
      PROVE  /\ DOMAIN [local[t] EXCEPT !.last = l, !.child = h] = Fields
             /\ DOMAIN [local[t] EXCEPT !.row = x] = Fields
  OBVIOUS
<1> HIDE DEF Fields
<1>4. CASE NextEntry(t)
  BY <1>2, <1>3, <1>4 DEF NextEntry, GoTo, SetLocal, Restart, Finish, AwaitWriteLock, AwaitBothWriteLocks, Downgrade, Replaced, OthersKept
<1>5. CASE NoMoreEntries(t)
  BY <1>2, <1>3, <1>5 DEF NoMoreEntries, GoTo, SetLocal, Restart, Finish, AwaitWriteLock, AwaitBothWriteLocks, Downgrade, Replaced, OthersKept
<1>6. CASE Start(t)
  BY <1>2, <1>3, <1>6 DEF Start, GoTo, SetLocal, Restart, Finish, AwaitWriteLock, AwaitBothWriteLocks, Downgrade, Replaced, OthersKept
<1>7. CASE LockStart(t)
  BY <1>2, <1>3, <1>7 DEF LockStart, GoTo, SetLocal, Restart, Finish, AwaitWriteLock, AwaitBothWriteLocks, Downgrade, Replaced, OthersKept
<1>8. CASE VisitSubnode(t)
  BY <1>2, <1>3, <1>8 DEF VisitSubnode, GoTo, SetLocal, Restart, Finish, AwaitWriteLock, AwaitBothWriteLocks, Downgrade, Replaced, OthersKept
<1>9. CASE LockChild(t)
  BY <1>2, <1>3, <1>9, ZenonT(30) DEF LockChild, GoTo, SetLocal, Restart, Finish, AwaitWriteLock, AwaitBothWriteLocks, Downgrade, Replaced, OthersKept
<1>10. CASE VisitFullBuffer(t)
  BY <1>2, <1>3, <1>10 DEF VisitFullBuffer, GoTo, SetLocal, Restart, Finish, AwaitWriteLock, AwaitBothWriteLocks, Downgrade, Replaced, OthersKept
<1>11. CASE VisitBuffer(t)
  BY <1>2, <1>3, <1>11 DEF VisitBuffer, GoTo, SetLocal, Restart, Finish, AwaitWriteLock, AwaitBothWriteLocks, Downgrade, Replaced, OthersKept
<1>12. CASE VisitSuffixNoBuffer(t)
  BY <1>2, <1>3, <1>12 DEF VisitSuffixNoBuffer, GoTo, SetLocal, Restart, Finish, AwaitWriteLock, AwaitBothWriteLocks, Downgrade, Replaced, OthersKept
<1>13. CASE VisitSuffix(t)
  BY <1>2, <1>3, <1>13 DEF VisitSuffix, GoTo, SetLocal, Restart, Finish, AwaitWriteLock, AwaitBothWriteLocks, Downgrade, Replaced, OthersKept
<1>14. CASE VisitFullNode(t)
  BY <1>2, <1>3, <1>14, ZenonT(30) DEF VisitFullNode, GoTo, SetLocal, Restart, Finish, AwaitWriteLock, AwaitBothWriteLocks, Downgrade, Replaced, OthersKept
<1>15. CASE VisitRoom(t)
  BY <1>2, <1>3, <1>15 DEF VisitRoom, GoTo, SetLocal, Restart, Finish, AwaitWriteLock, AwaitBothWriteLocks, Downgrade, Replaced, OthersKept
<1>16. CASE Reserve(t)
  BY <1>2, <1>3, <1>16 DEF Reserve, GoTo, SetLocal, Restart, Finish, AwaitWriteLock, AwaitBothWriteLocks, Downgrade, Replaced, OthersKept
<1>17. CASE Fill(t)
  BY <1>2, <1>3, <1>17 DEF Fill, GoTo, SetLocal, Restart, Finish, AwaitWriteLock, AwaitBothWriteLocks, Downgrade, Replaced, OthersKept
<1>18. CASE Compare(t)
  BY <1>2, <1>3, <1>18 DEF Compare, GoTo, SetLocal, Restart, Finish, AwaitWriteLock, AwaitBothWriteLocks, Downgrade, Replaced, OthersKept
<1>19. CASE InsertSuffix(t)
  BY <1>2, <1>3, <1>19 DEF InsertSuffix, GoTo, SetLocal, Restart, Finish, AwaitWriteLock, AwaitBothWriteLocks, Downgrade, Replaced, OthersKept
<1>20. CASE SwapSuffix(t)
  BY <1>2, <1>3, <1>20 DEF SwapSuffix, GoTo, SetLocal, Restart, Finish, AwaitWriteLock, AwaitBothWriteLocks, Downgrade, Replaced, OthersKept
<1>21. CASE LockFlush(t)
  BY <1>2, <1>3, <1>21 DEF LockFlush, GoTo, SetLocal, Restart, Finish, AwaitWriteLock, AwaitBothWriteLocks, Downgrade, Replaced, OthersKept
<1>22. CASE Recheck(t)
  BY <1>2, <1>3, <1>22, ZenonT(30) DEF Recheck, GoTo, SetLocal, Restart, Finish, AwaitWriteLock, AwaitBothWriteLocks, Downgrade, Replaced, OthersKept
<1>23. CASE FlushSubtree(t)
  BY <1>2, <1>3, <1>23 DEF FlushSubtree, GoTo, SetLocal, Restart, Finish, AwaitWriteLock, AwaitBothWriteLocks, Downgrade, Replaced, OthersKept
<1>24. CASE LockDowngraded(t)
  BY <1>2, <1>3, <1>24 DEF LockDowngraded, GoTo, SetLocal, Restart, Finish, AwaitWriteLock, AwaitBothWriteLocks, Downgrade, Replaced, OthersKept
<1>25. CASE LockParent(t)
  BY <1>2, <1>3, <1>25 DEF LockParent, GoTo, SetLocal, Restart, Finish, AwaitWriteLock, AwaitBothWriteLocks, Downgrade, Replaced, OthersKept
<1>26. CASE CopyNode(t)
  BY <1>2, <1>3, <1>26, ZenonT(30) DEF CopyNode, GoTo, SetLocal, Restart, Finish, AwaitWriteLock, AwaitBothWriteLocks, Downgrade, Replaced, OthersKept
<1>27. CASE SplitPrefix(t)
  BY <1>2, <1>3, <1>27, ZenonT(30) DEF SplitPrefix, GoTo, SetLocal, Restart, Finish, AwaitWriteLock, AwaitBothWriteLocks, Downgrade, Replaced, OthersKept
<1> QED BY <1>4, <1>5, <1>6, <1>7, <1>8, <1>9, <1>10, <1>11, <1>12, <1>13, <1>14, <1>15, <1>16, <1>17, <1>18, <1>19, <1>20, <1>21, <1>22, <1>23, <1>24, <1>25, <1>26, <1>27 DEF Step

(* A step leaves the local variables unset that its new label does not     *)
(* use.                                                                    *)
LEMMA StepUnset ==
  ASSUME Shaped, LocalsUnset, NEW t \in Thread, Step(t)
  PROVE  LocalsUnset'
<1> USE DEF Shaped
<1> DEFINE Own == /\ pc'[t] \in {"next", "synced", "start", "barrier", "finished"} => local'[t] = NoLocal
                  /\ pc'[t] \notin {"visit", "copy", "split"} => local'[t].last = None
                  /\ pc'[t] # "lockchild" => local'[t].child = None
<1> SUFFICES Own
  BY StepShape DEF OthersKept, LocalsUnset
<1>1. Fields = {"cur", "last", "child", "slot", "row", "seen", "seenLast"}
  BY DEF Fields, NoLocal
<1>2. Restart(t) => Own
  BY DEF Restart, GoTo, SetLocal, NoLocal, Labels
<1>3. Finish(t) => Own
  BY DEF Finish, GoTo, SetLocal, NoLocal, Labels
<1>4. Downgrade(t) => Own
  BY <1>1 DEF Downgrade, GoTo, SetLocal, NoLocal, Labels
<1>5. ASSUME NEW label \in {"insert", "swap", "flush"}, NEW s
      PROVE  AwaitWriteLock(t, label, s) => Own
  BY <1>1 DEF AwaitWriteLock, GoTo, SetLocal, NoLocal, Labels
<1>6. ASSUME NEW label \in {"split", "copy"}, NEW n, NEW m
      PROVE  AwaitBothWriteLocks(t, n, m, label) => Own
  BY <1>1 DEF AwaitBothWriteLocks, GoTo, SetLocal, NoLocal, Labels
<1>10. CASE NextEntry(t)
  BY <1>1, <1>10 DEF NextEntry, GoTo, SetLocal, Restart, Finish, AwaitWriteLock, AwaitBothWriteLocks, Downgrade, LocalsUnset, NoLocal
<1>11. CASE NoMoreEntries(t)
  BY <1>1, <1>11 DEF NoMoreEntries, GoTo, SetLocal, Restart, Finish, AwaitWriteLock, AwaitBothWriteLocks, Downgrade, LocalsUnset, NoLocal
<1>12. CASE Start(t)
  BY <1>1, <1>12 DEF Start, GoTo, SetLocal, Restart, Finish, AwaitWriteLock, AwaitBothWriteLocks, Downgrade, LocalsUnset, NoLocal
<1>13. CASE LockStart(t)
  BY <1>1, <1>13 DEF LockStart, GoTo, SetLocal, Restart, Finish, AwaitWriteLock, AwaitBothWriteLocks, Downgrade, LocalsUnset, NoLocal
<1>14. CASE VisitSubnode(t)
  BY <1>1, <1>14 DEF VisitSubnode, GoTo, SetLocal, Restart, Finish, AwaitWriteLock, AwaitBothWriteLocks, Downgrade, LocalsUnset, NoLocal
<1>15. CASE LockChild(t)
  <2>1. CASE GoTo(t, "visit")
    <3>1. pc'[t] = "visit"
      BY <2>1 DEF GoTo
    <3>2. ~Restart(t) /\ ~AwaitBothWriteLocks(t, local[t].cur, local[t].child, "split")
      BY <3>1 DEF Restart, AwaitBothWriteLocks, GoTo
    <3>3. SetLocal(t, [NoLocal EXCEPT !.cur = local[t].child, !.last = local[t].cur])
      BY <1>15, <3>2 DEF LockChild
    <3> QED BY <1>1, <3>1, <3>3 DEF SetLocal, NoLocal
  <2> HIDE DEF Own
  <2> QED BY <1>2, <1>6, <1>15, <2>1 DEF LockChild
<1>16. CASE VisitFullBuffer(t)
  BY <1>1, <1>16 DEF VisitFullBuffer, GoTo, SetLocal, Restart, Finish, AwaitWriteLock, AwaitBothWriteLocks, Downgrade, LocalsUnset, NoLocal
<1>17. CASE VisitBuffer(t)
  BY <1>1, <1>17 DEF VisitBuffer, GoTo, SetLocal, Restart, Finish, AwaitWriteLock, AwaitBothWriteLocks, Downgrade, LocalsUnset, NoLocal
<1>18. CASE VisitSuffixNoBuffer(t)
  BY <1>1, <1>18 DEF VisitSuffixNoBuffer, GoTo, SetLocal, Restart, Finish, AwaitWriteLock, AwaitBothWriteLocks, Downgrade, LocalsUnset, NoLocal
<1>19. CASE VisitSuffix(t)
  BY <1>1, <1>19 DEF VisitSuffix, GoTo, SetLocal, Restart, Finish, AwaitWriteLock, AwaitBothWriteLocks, Downgrade, LocalsUnset, NoLocal
<1>20. CASE VisitFullNode(t)
  <2> HIDE DEF Own
  <2> QED BY <1>2, <1>6, <1>20 DEF VisitFullNode
<1>21. CASE VisitRoom(t)
  BY <1>1, <1>21 DEF VisitRoom, GoTo, SetLocal, Restart, Finish, AwaitWriteLock, AwaitBothWriteLocks, Downgrade, LocalsUnset, NoLocal
<1>22. CASE Reserve(t)
  BY <1>1, <1>22 DEF Reserve, GoTo, SetLocal, Restart, Finish, AwaitWriteLock, AwaitBothWriteLocks, Downgrade, LocalsUnset, NoLocal
<1>23. CASE Fill(t)
  BY <1>1, <1>23 DEF Fill, GoTo, SetLocal, Restart, Finish, AwaitWriteLock, AwaitBothWriteLocks, Downgrade, LocalsUnset, NoLocal
<1>24. CASE Compare(t)
  BY <1>1, <1>24 DEF Compare, GoTo, SetLocal, Restart, Finish, AwaitWriteLock, AwaitBothWriteLocks, Downgrade, LocalsUnset, NoLocal
<1>25. CASE InsertSuffix(t)
  BY <1>1, <1>25 DEF InsertSuffix, GoTo, SetLocal, Restart, Finish, AwaitWriteLock, AwaitBothWriteLocks, Downgrade, LocalsUnset, NoLocal
<1>26. CASE SwapSuffix(t)
  BY <1>1, <1>26 DEF SwapSuffix, GoTo, SetLocal, Restart, Finish, AwaitWriteLock, AwaitBothWriteLocks, Downgrade, LocalsUnset, NoLocal
<1>27. CASE LockFlush(t)
  BY <1>1, <1>27 DEF LockFlush, GoTo, SetLocal, Restart, Finish, AwaitWriteLock, AwaitBothWriteLocks, Downgrade, LocalsUnset, NoLocal
<1>28. CASE Recheck(t)
  <2>1. CASE GoTo(t, "flushing") /\ UNCHANGED local
    BY <1>1, <1>28, <2>1 DEF Recheck, GoTo, LocalsUnset, Labels
  <2> HIDE DEF Own
  <2> QED BY <1>4, <1>28, <2>1 DEF Recheck
<1>29. CASE FlushSubtree(t)
  BY <1>1, <1>29 DEF FlushSubtree, GoTo, SetLocal, Restart, Finish, AwaitWriteLock, AwaitBothWriteLocks, Downgrade, LocalsUnset, NoLocal
<1>30. CASE LockDowngraded(t)
  BY <1>1, <1>30 DEF LockDowngraded, GoTo, SetLocal, Restart, Finish, AwaitWriteLock, AwaitBothWriteLocks, Downgrade, LocalsUnset, NoLocal
<1>31. CASE LockParent(t)
  BY <1>1, <1>31 DEF LockParent, GoTo, SetLocal, Restart, Finish, AwaitWriteLock, AwaitBothWriteLocks, Downgrade, LocalsUnset, NoLocal
<1>32. CASE CopyNode(t)
  BY <1>1, <1>32 DEF CopyNode, GoTo, SetLocal, Restart, Finish, AwaitWriteLock, AwaitBothWriteLocks, Downgrade, LocalsUnset, NoLocal
<1>33. CASE SplitPrefix(t)
  BY <1>1, <1>33 DEF SplitPrefix, GoTo, SetLocal, Restart, Finish, AwaitWriteLock, AwaitBothWriteLocks, Downgrade, LocalsUnset, NoLocal
<1> QED
  BY <1>10, <1>11, <1>12, <1>13, <1>14, <1>15, <1>16, <1>17, <1>18, <1>19, <1>20, <1>21, <1>22, <1>23, <1>24, <1>25, <1>26, <1>27, <1>28, <1>29, <1>30, <1>31, <1>32, <1>33 DEF Step

(* The locks of the other threads stay. *)
OtherLocksKept(t) ==
  /\ Locks(readers)' /\ Locks(writers)'
  /\ \A u \in Thread \ {t} : \A n : /\ <<u, n>> \in readers' <=> <<u, n>> \in readers
                                    /\ <<u, n>> \in writers' <=> <<u, n>> \in writers

(* The locks of the thread are those of its label, and it took only locks  *)
(* that were free.                                                         *)
OwnLocks(t) ==
  /\ \A n : <<t, n>> \in readers' <=> n \in ReadLocks(t)'
  /\ \A n : <<t, n>> \in writers' => n \in WriteLocks(t)'
  /\ pc'[t] \in {"recheck", "flushing"} => <<t, local'[t].cur>> \in writers'
  /\ \A n : <<t, n>> \in readers' => <<t, n>> \in readers \/ NoWriter(n)
  /\ \A n : <<t, n>> \in writers' => <<t, n>> \in writers \/ Unlocked(n)

(* A step that takes only locks that are free keeps the locks exclusive.   *)
LEMMA LocksKept ==
  ASSUME LockInv, NEW t \in Thread, OthersKept(t), OtherLocksKept(t), OwnLocks(t)
  PROVE  LockInv'
<1>1. \A u \in Thread \ {t} : ReadLocks(u)' = ReadLocks(u) /\ WriteLocks(u)' = WriteLocks(u)
  BY DEF OthersKept, ReadLocks, WriteLocks
<1>2. \A u \in Thread \ {t} : pc'[u] = pc[u] /\ local'[u] = local[u]
  BY DEF OthersKept
<1>3. \A u \in Thread : \A n : <<u, n>> \in readers' <=> n \in ReadLocks(u)'
  BY <1>1, ZenonT(30) DEF LockInv, OtherLocksKept, OwnLocks
<1>4. \A u \in Thread : \A n : <<u, n>> \in writers' => n \in WriteLocks(u)'
  BY <1>1 DEF LockInv, OtherLocksKept, OwnLocks
<1>5. \A u \in Thread : pc'[u] \in {"recheck", "flushing"} => <<u, local'[u].cur>> \in writers'
  BY <1>2 DEF LockInv, OtherLocksKept, OwnLocks
<1>6. LocksExclusive'
  <2> SUFFICES ASSUME NEW u \in Thread, NEW v \in Thread, NEW n, u # v, <<u, n>> \in writers'
               PROVE  <<v, n>> \notin readers' \cup writers'
    BY DEF LocksExclusive
  <2>1. CASE u # t /\ v # t
    BY <2>1 DEF LockInv, LocksExclusive, OtherLocksKept
  <2>2. CASE u = t
    <3>1. <<v, n>> \notin readers \cup writers
      BY <2>2 DEF LockInv, LocksExclusive, Unlocked, NoWriter, OwnLocks
    <3> QED BY <2>2, <3>1 DEF OtherLocksKept
  <2>3. CASE v = t /\ u # t
    <3>1. <<u, n>> \in writers
      BY <2>3 DEF OtherLocksKept
    <3> QED BY <2>3, <3>1 DEF LockInv, LocksExclusive, Unlocked, NoWriter, OwnLocks
  <2> QED BY <2>1, <2>2, <2>3
<1> QED BY <1>3, <1>4, <1>5, <1>6 DEF LockInv, OtherLocksKept

(* HoldsRead and HoldsWrite. *)
LEMMA HeldIs ==
  ASSUME NEW t \in Thread, NEW ls, Locks(ls), NEW ns
  PROVE  LET ls2 == {l \in ls : l[1] # t} \cup ({t} \X ns) IN
           /\ Locks(ls2)
           /\ \A u \in Thread : \A n : <<u, n>> \in ls2 <=> IF u = t THEN n \in ns ELSE <<u, n>> \in ls
<1> DEFINE ls2 == {l \in ls : l[1] # t} \cup ({t} \X ns)
<1>1. Locks(ls2)
  <2> SUFFICES ASSUME NEW l \in ls2 PROVE \E u \in Thread : \E n : l = <<u, n>>
    BY DEF Locks
  <2>1. CASE l \in ls
    BY <2>1 DEF Locks
  <2>2. CASE l \in {t} \X ns
    BY <2>2
  <2> QED BY <2>1, <2>2
<1>2. \A u \in Thread : \A n : <<u, n>>[1] = u
  OBVIOUS
<1> QED BY <1>1, <1>2

(* HoldsRead changes the read locks of the thread only.                    *)
LEMMA ReadIs ==
  ASSUME LockInv, NEW t \in Thread, NEW ns, HoldsRead(t, ns)
  PROVE  /\ Locks(readers')
         /\ \A u \in Thread : \A n : <<u, n>> \in readers' <=> IF u = t THEN n \in ns \ {None} ELSE <<u, n>> \in readers
<1> DEFINE ns2 == ns \ {None}
<1>1. readers' = {l \in readers : l[1] # t} \cup ({t} \X ns2)
  BY DEF HoldsRead
<1> HIDE DEF ns2
<1>2. /\ Locks(readers')
      /\ \A u \in Thread : \A n : <<u, n>> \in readers' <=> IF u = t THEN n \in ns2 ELSE <<u, n>> \in readers
  BY <1>1, HeldIs DEF LockInv
<1> QED BY <1>2 DEF ns2

(* HoldsWrite changes the write locks of the thread only.                  *)
LEMMA WriteIs ==
  ASSUME LockInv, NEW t \in Thread, NEW ns, HoldsWrite(t, ns)
  PROVE  /\ Locks(writers')
         /\ \A u \in Thread : \A n : <<u, n>> \in writers' <=> IF u = t THEN n \in ns ELSE <<u, n>> \in writers
  BY HeldIs DEF HoldsWrite, LockInv

(* A step leaves the locks of the other threads alone.                     *)
LEMMA StepOtherLocks ==
  ASSUME LockInv, NEW t \in Thread, Step(t)
  PROVE  OtherLocksKept(t)
<1> DEFINE R == /\ Locks(readers')
                /\ \A u \in Thread \ {t} : \A n : <<u, n>> \in readers' <=> <<u, n>> \in readers
           W == /\ Locks(writers')
                /\ \A u \in Thread \ {t} : \A n : <<u, n>> \in writers' <=> <<u, n>> \in writers
<1>1. ASSUME NEW ns, HoldsRead(t, ns) PROVE R
  BY <1>1, ReadIs
<1>2. ASSUME NEW ns, HoldsWrite(t, ns) PROVE W
  BY <1>2, WriteIs
<1>3. ASSUME UNCHANGED readers PROVE R
  BY <1>3 DEF LockInv
<1>4. ASSUME UNCHANGED writers PROVE W
  BY <1>4 DEF LockInv
<1>5. Restart(t) => R /\ W
  BY <1>1, <1>2 DEF Restart
<1>6. Finish(t) => R /\ W
  BY <1>1, <1>2 DEF Finish
<1>7. Downgrade(t) => R /\ W
  BY <1>2, <1>3 DEF Downgrade
<1>8. ASSUME NEW label, NEW slot PROVE AwaitWriteLock(t, label, slot) => R /\ W
  BY <1>1, <1>4 DEF AwaitWriteLock
<1>9. ASSUME NEW parent, NEW child, NEW label PROVE AwaitBothWriteLocks(t, parent, child, label) => R /\ W
  BY <1>1, <1>4 DEF AwaitBothWriteLocks
<1> HIDE DEF R, W
<1>10. NextEntry(t) => R /\ W
  BY <1>1, <1>2, <1>3, <1>4, <1>5, <1>6, <1>7, <1>8, <1>9 DEF NextEntry
<1>11. NoMoreEntries(t) => R /\ W
  BY <1>1, <1>2, <1>3, <1>4, <1>5, <1>6, <1>7, <1>8, <1>9 DEF NoMoreEntries
<1>12. Start(t) => R /\ W
  BY <1>1, <1>2, <1>3, <1>4, <1>5, <1>6, <1>7, <1>8, <1>9 DEF Start
<1>13. LockStart(t) => R /\ W
  BY <1>1, <1>2, <1>3, <1>4, <1>5, <1>6, <1>7, <1>8, <1>9 DEF LockStart
<1>14. VisitSubnode(t) => R /\ W
  BY <1>1, <1>2, <1>3, <1>4, <1>5, <1>6, <1>7, <1>8, <1>9 DEF VisitSubnode
<1>15. LockChild(t) => R /\ W
  BY <1>1, <1>2, <1>3, <1>4, <1>5, <1>6, <1>7, <1>8, <1>9 DEF LockChild
<1>16. VisitFullBuffer(t) => R /\ W
  BY <1>1, <1>2, <1>3, <1>4, <1>5, <1>6, <1>7, <1>8, <1>9 DEF VisitFullBuffer
<1>17. VisitBuffer(t) => R /\ W
  BY <1>1, <1>2, <1>3, <1>4, <1>5, <1>6, <1>7, <1>8, <1>9 DEF VisitBuffer
<1>18. VisitSuffixNoBuffer(t) => R /\ W
  BY <1>1, <1>2, <1>3, <1>4, <1>5, <1>6, <1>7, <1>8, <1>9 DEF VisitSuffixNoBuffer
<1>19. VisitSuffix(t) => R /\ W
  BY <1>1, <1>2, <1>3, <1>4, <1>5, <1>6, <1>7, <1>8, <1>9 DEF VisitSuffix
<1>20. VisitFullNode(t) => R /\ W
  BY <1>1, <1>2, <1>3, <1>4, <1>5, <1>6, <1>7, <1>8, <1>9 DEF VisitFullNode
<1>21. VisitRoom(t) => R /\ W
  BY <1>1, <1>2, <1>3, <1>4, <1>5, <1>6, <1>7, <1>8, <1>9 DEF VisitRoom
<1>22. Reserve(t) => R /\ W
  BY <1>1, <1>2, <1>3, <1>4, <1>5, <1>6, <1>7, <1>8, <1>9 DEF Reserve
<1>23. Fill(t) => R /\ W
  BY <1>1, <1>2, <1>3, <1>4, <1>5, <1>6, <1>7, <1>8, <1>9 DEF Fill
<1>24. Compare(t) => R /\ W
  BY <1>1, <1>2, <1>3, <1>4, <1>5, <1>6, <1>7, <1>8, <1>9 DEF Compare
<1>25. InsertSuffix(t) => R /\ W
  BY <1>1, <1>2, <1>3, <1>4, <1>5, <1>6, <1>7, <1>8, <1>9 DEF InsertSuffix
<1>26. SwapSuffix(t) => R /\ W
  BY <1>1, <1>2, <1>3, <1>4, <1>5, <1>6, <1>7, <1>8, <1>9 DEF SwapSuffix
<1>27. LockFlush(t) => R /\ W
  BY <1>1, <1>2, <1>3, <1>4, <1>5, <1>6, <1>7, <1>8, <1>9 DEF LockFlush
<1>28. Recheck(t) => R /\ W
  BY <1>1, <1>2, <1>3, <1>4, <1>5, <1>6, <1>7, <1>8, <1>9 DEF Recheck
<1>29. FlushSubtree(t) => R /\ W
  BY <1>1, <1>2, <1>3, <1>4, <1>5, <1>6, <1>7, <1>8, <1>9 DEF FlushSubtree
<1>30. LockDowngraded(t) => R /\ W
  BY <1>1, <1>2, <1>3, <1>4, <1>5, <1>6, <1>7, <1>8, <1>9 DEF LockDowngraded
<1>31. LockParent(t) => R /\ W
  BY <1>1, <1>2, <1>3, <1>4, <1>5, <1>6, <1>7, <1>8, <1>9 DEF LockParent
<1>32. CopyNode(t) => R /\ W
  BY <1>1, <1>2, <1>3, <1>4, <1>5, <1>6, <1>7, <1>8, <1>9 DEF CopyNode
<1>33. SplitPrefix(t) => R /\ W
  BY <1>1, <1>2, <1>3, <1>4, <1>5, <1>6, <1>7, <1>8, <1>9 DEF SplitPrefix
<1>50. R /\ W
  BY <1>10, <1>11, <1>12, <1>13, <1>14, <1>15, <1>16, <1>17, <1>18, <1>19, <1>20, <1>21, <1>22, <1>23, <1>24, <1>25, <1>26, <1>27, <1>28, <1>29, <1>30, <1>31, <1>32, <1>33 DEF Step
<1> QED BY <1>50 DEF R, W, OtherLocksKept, Locks

(* After a step the thread has the locks of its label, taken when they     *)
(* were free.                                                              *)
LEMMA StepOwnLocks ==
  ASSUME Shaped, LocalsUnset, LockInv, NEW t \in Thread, Step(t)
  PROVE  OwnLocks(t)
<1> USE DEF GoTo, SetLocal, Shaped
<1> DEFINE L == local[t]
<1>1. Fields = {"cur", "last", "child", "slot", "row", "seen", "seenLast"}
  BY DEF Fields, NoLocal
<1>2. \A n : <<t, n>> \in readers <=> n \in ReadLocks(t)
  BY DEF LockInv
<1>3. \A n : <<t, n>> \in writers => n \in WriteLocks(t)
  BY DEF LockInv
<1>4. pc[t] \in {"recheck", "flushing"} => <<t, local[t].cur>> \in writers
  BY DEF LockInv
<1>5. pc[t] \notin {"visit", "copy", "split"} => local[t].last = None
  BY DEF LocalsUnset
<1>10. CASE NextEntry(t)
  BY <1>1, <1>2, <1>3, <1>4, <1>5, <1>10, ReadIs, WriteIs DEF NextEntry, Restart, Finish, AwaitWriteLock, AwaitBothWriteLocks, Downgrade, OwnLocks, ReadLocks, WriteLocks, NoLocal
<1>11. CASE NoMoreEntries(t)
  BY <1>1, <1>2, <1>3, <1>4, <1>5, <1>11, ReadIs, WriteIs, ZenonT(30) DEF NoMoreEntries, Restart, Finish, AwaitWriteLock, AwaitBothWriteLocks, Downgrade, OwnLocks, ReadLocks, WriteLocks, NoLocal
<1>12. CASE Start(t)
  BY <1>1, <1>2, <1>3, <1>4, <1>5, <1>12, ReadIs, WriteIs DEF Start, Restart, Finish, AwaitWriteLock, AwaitBothWriteLocks, Downgrade, OwnLocks, ReadLocks, WriteLocks, NoLocal
<1>13. CASE LockStart(t)
  BY <1>1, <1>2, <1>3, <1>4, <1>5, <1>13, ReadIs, WriteIs DEF LockStart, Restart, Finish, AwaitWriteLock, AwaitBothWriteLocks, Downgrade, OwnLocks, ReadLocks, WriteLocks, NoLocal
<1>14. CASE VisitSubnode(t)
  BY <1>1, <1>2, <1>3, <1>4, <1>5, <1>14, ReadIs, WriteIs DEF VisitSubnode, Restart, Finish, AwaitWriteLock, AwaitBothWriteLocks, Downgrade, OwnLocks, ReadLocks, WriteLocks, NoLocal
<1>15. CASE LockChild(t)
  <2>1. CASE GoTo(t, "visit")
    <3>4. pc'[t] = "visit"
      BY <2>1
    <3>5. ~Restart(t) /\ ~AwaitBothWriteLocks(t, local[t].cur, local[t].child, "split")
      BY <3>4 DEF Restart, AwaitBothWriteLocks
    <3>6. /\ SetLocal(t, [NoLocal EXCEPT !.cur = local[t].child, !.last = local[t].cur])
          /\ HoldsRead(t, {local[t].cur, local[t].child}) /\ UNCHANGED writers /\ NoWriter(local[t].child)
          /\ pc[t] = "lockchild"
      BY <1>15, <3>5 DEF LockChild
    <3>1. /\ HoldsRead(t, {local[t].cur, local[t].child}) /\ UNCHANGED writers /\ NoWriter(local[t].child)
          /\ pc[t] = "lockchild" /\ pc'[t] = "visit"
          /\ local'[t].cur = local[t].child /\ local'[t].last = local[t].cur
      BY <1>1, <3>4, <3>6 DEF NoLocal
    <3>2. \A n : <<t, n>> \in readers' <=> n \in {local[t].cur, local[t].child} \ {None}
      BY <3>1, ReadIs
    <3> QED BY <1>2, <1>3, <3>1, <3>2 DEF OwnLocks, ReadLocks, WriteLocks
  <2>2. CASE Restart(t)
    BY <1>15, <2>2, ReadIs, WriteIs DEF Restart, OwnLocks, ReadLocks, WriteLocks
  <2>3. CASE AwaitBothWriteLocks(t, local[t].cur, local[t].child, "split") /\ pc[t] = "lockchild"
    BY <1>3, <2>3, ReadIs DEF AwaitBothWriteLocks, OwnLocks, ReadLocks, WriteLocks
  <2> QED BY <1>15, <2>1, <2>2, <2>3 DEF LockChild
<1>16. CASE VisitFullBuffer(t)
  BY <1>1, <1>2, <1>3, <1>4, <1>5, <1>16, ReadIs, WriteIs DEF VisitFullBuffer, Restart, Finish, AwaitWriteLock, AwaitBothWriteLocks, Downgrade, OwnLocks, ReadLocks, WriteLocks, NoLocal
<1>17. CASE VisitBuffer(t)
  BY <1>1, <1>2, <1>3, <1>4, <1>5, <1>17, ReadIs, WriteIs DEF VisitBuffer, Restart, Finish, AwaitWriteLock, AwaitBothWriteLocks, Downgrade, OwnLocks, ReadLocks, WriteLocks, NoLocal
<1>18. CASE VisitSuffixNoBuffer(t)
  BY <1>1, <1>2, <1>3, <1>4, <1>5, <1>18, ReadIs, WriteIs DEF VisitSuffixNoBuffer, Restart, Finish, AwaitWriteLock, AwaitBothWriteLocks, Downgrade, OwnLocks, ReadLocks, WriteLocks, NoLocal
<1>19. CASE VisitSuffix(t)
  BY <1>1, <1>2, <1>3, <1>4, <1>5, <1>19, ReadIs, WriteIs DEF VisitSuffix, Restart, Finish, AwaitWriteLock, AwaitBothWriteLocks, Downgrade, OwnLocks, ReadLocks, WriteLocks, NoLocal
<1>20. CASE VisitFullNode(t)
  BY <1>1, <1>2, <1>3, <1>4, <1>5, <1>20, ReadIs, WriteIs DEF VisitFullNode, Restart, Finish, AwaitWriteLock, AwaitBothWriteLocks, Downgrade, OwnLocks, ReadLocks, WriteLocks, NoLocal
<1>21. CASE VisitRoom(t)
  BY <1>1, <1>2, <1>3, <1>4, <1>5, <1>21, ReadIs, WriteIs DEF VisitRoom, Restart, Finish, AwaitWriteLock, AwaitBothWriteLocks, Downgrade, OwnLocks, ReadLocks, WriteLocks, NoLocal
<1>22. CASE Reserve(t)
  BY <1>1, <1>2, <1>3, <1>4, <1>5, <1>22, ReadIs, WriteIs DEF Reserve, Restart, Finish, AwaitWriteLock, AwaitBothWriteLocks, Downgrade, OwnLocks, ReadLocks, WriteLocks, NoLocal
<1>23. CASE Fill(t)
  BY <1>1, <1>2, <1>3, <1>4, <1>5, <1>23, ReadIs, WriteIs DEF Fill, Restart, Finish, AwaitWriteLock, AwaitBothWriteLocks, Downgrade, OwnLocks, ReadLocks, WriteLocks, NoLocal
<1>24. CASE Compare(t)
  BY <1>1, <1>2, <1>3, <1>4, <1>5, <1>24, ReadIs, WriteIs DEF Compare, Restart, Finish, AwaitWriteLock, AwaitBothWriteLocks, Downgrade, OwnLocks, ReadLocks, WriteLocks, NoLocal
<1>25. CASE InsertSuffix(t)
  BY <1>1, <1>2, <1>3, <1>4, <1>5, <1>25, ReadIs, WriteIs DEF InsertSuffix, Restart, Finish, AwaitWriteLock, AwaitBothWriteLocks, Downgrade, OwnLocks, ReadLocks, WriteLocks, NoLocal
<1>26. CASE SwapSuffix(t)
  BY <1>1, <1>2, <1>3, <1>4, <1>5, <1>26, ReadIs, WriteIs DEF SwapSuffix, Restart, Finish, AwaitWriteLock, AwaitBothWriteLocks, Downgrade, OwnLocks, ReadLocks, WriteLocks, NoLocal
<1>27. CASE LockFlush(t)
  BY <1>1, <1>2, <1>3, <1>4, <1>5, <1>27, ReadIs, WriteIs DEF LockFlush, Restart, Finish, AwaitWriteLock, AwaitBothWriteLocks, Downgrade, OwnLocks, ReadLocks, WriteLocks, NoLocal
<1>28. CASE Recheck(t)
  BY <1>1, <1>2, <1>3, <1>4, <1>5, <1>28, ReadIs, WriteIs DEF Recheck, Restart, Finish, AwaitWriteLock, AwaitBothWriteLocks, Downgrade, OwnLocks, ReadLocks, WriteLocks, NoLocal
<1>29. CASE FlushSubtree(t)
  BY <1>1, <1>2, <1>3, <1>4, <1>5, <1>29, ReadIs, WriteIs DEF FlushSubtree, Restart, Finish, AwaitWriteLock, AwaitBothWriteLocks, Downgrade, OwnLocks, ReadLocks, WriteLocks, NoLocal
<1>30. CASE LockDowngraded(t)
  BY <1>1, <1>2, <1>3, <1>4, <1>5, <1>30, ReadIs, WriteIs DEF LockDowngraded, Restart, Finish, AwaitWriteLock, AwaitBothWriteLocks, Downgrade, OwnLocks, ReadLocks, WriteLocks, NoLocal
<1>31. CASE LockParent(t)
  BY <1>1, <1>2, <1>3, <1>4, <1>5, <1>31, ReadIs, WriteIs DEF LockParent, Restart, Finish, AwaitWriteLock, AwaitBothWriteLocks, Downgrade, OwnLocks, ReadLocks, WriteLocks, NoLocal
<1>32. CASE CopyNode(t)
  BY <1>1, <1>2, <1>3, <1>4, <1>5, <1>32, ReadIs, WriteIs DEF CopyNode, Restart, Finish, AwaitWriteLock, AwaitBothWriteLocks, Downgrade, OwnLocks, ReadLocks, WriteLocks, NoLocal
<1>33. CASE SplitPrefix(t)
  BY <1>1, <1>2, <1>3, <1>4, <1>5, <1>33, ReadIs, WriteIs DEF SplitPrefix, Restart, Finish, AwaitWriteLock, AwaitBothWriteLocks, Downgrade, OwnLocks, ReadLocks, WriteLocks, NoLocal
<1> QED
  BY <1>10, <1>11, <1>12, <1>13, <1>14, <1>15, <1>16, <1>17, <1>18, <1>19, <1>20, <1>21, <1>22, <1>23, <1>24, <1>25, <1>26, <1>27, <1>28, <1>29, <1>30, <1>31, <1>32, <1>33 DEF Step

(* The list of replaced nodes of a thread has room when it starts an       *)
(* insertion, which adds one node at most.                                 *)
DeletedBound ==
  \A t \in Thread :
    /\ IsFiniteSet(deleted[t]) /\ Cardinality(deleted[t]) \in Nat
    /\ Cardinality(deleted[t]) <= MaxDeleted
    /\ pc[t] \notin {"next", "synced", "barrier", "finished"} => Cardinality(deleted[t]) < MaxDeleted
    /\ pc[t] = "synced" => deleted[t] = {}

(* A step adds one replaced node at most, to a list with room for it.      *)
LEMMA StepDeleted ==
  ASSUME Shaped, DeletedBound, NEW t \in Thread, Step(t)
  PROVE  DeletedBound'
<1> USE DEF Shaped
<1> DEFINE n == Cardinality(deleted[t])
           Own == /\ IsFiniteSet(deleted'[t]) /\ Cardinality(deleted'[t]) \in Nat
                  /\ Cardinality(deleted'[t]) <= MaxDeleted
                  /\ pc'[t] \notin {"next", "synced", "barrier", "finished"} => Cardinality(deleted'[t]) < MaxDeleted
                  /\ pc'[t] = "synced" => deleted'[t] = {}
           Before == {"next", "synced", "barrier", "finished"}
<1> SUFFICES Own
  BY StepShape DEF OthersKept, DeletedBound
<1>1. /\ IsFiniteSet(deleted[t]) /\ n \in Nat /\ n <= MaxDeleted
      /\ pc[t] \notin Before => n < MaxDeleted
      /\ pc[t] = "synced" => deleted[t] = {}
      /\ MaxDeleted \in Nat \ {0} /\ Cardinality({}) = 0
  BY DeletedAssumption, FS_EmptySet DEF DeletedBound
<1>2. CASE NextEntry(t)
  <2>1. UNCHANGED deleted
    BY <1>2 DEF NextEntry
  <2>2. \/ pc'[t] = "barrier"
        \/ pc'[t] = pc[t] /\ pc[t] \in {"next", "synced"}
        \/ pc'[t] = "start" /\ (pc[t] = "synced" \/ ~SyncRequired(t))
    BY <1>2 DEF NextEntry, GoTo
  <2>3. ~SyncRequired(t) => n < MaxDeleted
    BY <1>1 DEF SyncRequired
  <2> QED BY <1>1, <2>1, <2>2, <2>3
<1>3. CASE NoMoreEntries(t)
  BY <1>1, <1>3 DEF NoMoreEntries, GoTo
<1>4. ASSUME NEW c, deleted' = [deleted EXCEPT ![t] = @ \cup {c}], pc'[t] = "next", pc[t] \notin Before PROVE Own
  <2>1. IsFiniteSet(deleted[t] \cup {c}) /\ Cardinality(deleted[t] \cup {c}) \in {n, n + 1}
    BY <1>1, FS_AddElement
  <2> QED BY <1>1, <1>4, <2>1
<1>5. ASSUME UNCHANGED deleted, pc[t] \notin Before, pc'[t] # "synced" PROVE Own
  BY <1>1, <1>5
<1> HIDE DEF Own
<1>10. CASE Start(t)
  BY <1>4, <1>5, <1>10 DEF Start, GoTo, Restart, Finish, AwaitWriteLock, AwaitBothWriteLocks, Downgrade, Replaced
<1>11. CASE LockStart(t)
  BY <1>4, <1>5, <1>11 DEF LockStart, GoTo, Restart, Finish, AwaitWriteLock, AwaitBothWriteLocks, Downgrade, Replaced
<1>12. CASE VisitSubnode(t)
  BY <1>4, <1>5, <1>12 DEF VisitSubnode, GoTo, Restart, Finish, AwaitWriteLock, AwaitBothWriteLocks, Downgrade, Replaced
<1>13. CASE LockChild(t)
  BY <1>4, <1>5, <1>13 DEF LockChild, GoTo, Restart, Finish, AwaitWriteLock, AwaitBothWriteLocks, Downgrade, Replaced
<1>14. CASE VisitFullBuffer(t)
  BY <1>4, <1>5, <1>14 DEF VisitFullBuffer, GoTo, Restart, Finish, AwaitWriteLock, AwaitBothWriteLocks, Downgrade, Replaced
<1>15. CASE VisitBuffer(t)
  BY <1>4, <1>5, <1>15 DEF VisitBuffer, GoTo, Restart, Finish, AwaitWriteLock, AwaitBothWriteLocks, Downgrade, Replaced
<1>16. CASE VisitSuffixNoBuffer(t)
  BY <1>4, <1>5, <1>16 DEF VisitSuffixNoBuffer, GoTo, Restart, Finish, AwaitWriteLock, AwaitBothWriteLocks, Downgrade, Replaced
<1>17. CASE VisitSuffix(t)
  BY <1>4, <1>5, <1>17 DEF VisitSuffix, GoTo, Restart, Finish, AwaitWriteLock, AwaitBothWriteLocks, Downgrade, Replaced
<1>18. CASE VisitFullNode(t)
  BY <1>4, <1>5, <1>18 DEF VisitFullNode, GoTo, Restart, Finish, AwaitWriteLock, AwaitBothWriteLocks, Downgrade, Replaced
<1>19. CASE VisitRoom(t)
  BY <1>4, <1>5, <1>19 DEF VisitRoom, GoTo, Restart, Finish, AwaitWriteLock, AwaitBothWriteLocks, Downgrade, Replaced
<1>20. CASE Reserve(t)
  BY <1>4, <1>5, <1>20 DEF Reserve, GoTo, Restart, Finish, AwaitWriteLock, AwaitBothWriteLocks, Downgrade, Replaced
<1>21. CASE Fill(t)
  BY <1>4, <1>5, <1>21 DEF Fill, GoTo, Restart, Finish, AwaitWriteLock, AwaitBothWriteLocks, Downgrade, Replaced
<1>22. CASE Compare(t)
  BY <1>4, <1>5, <1>22 DEF Compare, GoTo, Restart, Finish, AwaitWriteLock, AwaitBothWriteLocks, Downgrade, Replaced
<1>23. CASE InsertSuffix(t)
  BY <1>4, <1>5, <1>23 DEF InsertSuffix, GoTo, Restart, Finish, AwaitWriteLock, AwaitBothWriteLocks, Downgrade, Replaced
<1>24. CASE SwapSuffix(t)
  BY <1>4, <1>5, <1>24 DEF SwapSuffix, GoTo, Restart, Finish, AwaitWriteLock, AwaitBothWriteLocks, Downgrade, Replaced
<1>25. CASE LockFlush(t)
  BY <1>4, <1>5, <1>25 DEF LockFlush, GoTo, Restart, Finish, AwaitWriteLock, AwaitBothWriteLocks, Downgrade, Replaced
<1>26. CASE Recheck(t)
  BY <1>4, <1>5, <1>26 DEF Recheck, GoTo, Restart, Finish, AwaitWriteLock, AwaitBothWriteLocks, Downgrade, Replaced
<1>27. CASE FlushSubtree(t)
  BY <1>4, <1>5, <1>27 DEF FlushSubtree, GoTo, Restart, Finish, AwaitWriteLock, AwaitBothWriteLocks, Downgrade, Replaced
<1>28. CASE LockDowngraded(t)
  BY <1>4, <1>5, <1>28 DEF LockDowngraded, GoTo, Restart, Finish, AwaitWriteLock, AwaitBothWriteLocks, Downgrade, Replaced
<1>29. CASE LockParent(t)
  BY <1>4, <1>5, <1>29 DEF LockParent, GoTo, Restart, Finish, AwaitWriteLock, AwaitBothWriteLocks, Downgrade, Replaced
<1>30. CASE CopyNode(t)
  BY <1>4, <1>5, <1>30, ZenonT(30) DEF CopyNode, GoTo, Restart, Finish, AwaitWriteLock, AwaitBothWriteLocks, Downgrade, Replaced
<1>31. CASE SplitPrefix(t)
  BY <1>4, <1>5, <1>31 DEF SplitPrefix, GoTo, Restart, Finish, AwaitWriteLock, AwaitBothWriteLocks, Downgrade, Replaced
<1> QED
  BY <1>2, <1>3, <1>10, <1>11, <1>12, <1>13, <1>14, <1>15, <1>16, <1>17, <1>18, <1>19, <1>20, <1>21, <1>22, <1>23, <1>24, <1>25, <1>26, <1>27, <1>28, <1>29, <1>30, <1>31 DEF Step

(* What holds whatever the buffers do: the labels, the locks and the size  *)
(* of the lists of replaced nodes.                                         *)
ControlInv == Shaped /\ LocalsUnset /\ LockInv /\ DeletedBound

(* The threads start without locks and with empty lists.                   *)
LEMMA ControlInit == Init => ControlInv
<1> SUFFICES ASSUME Init PROVE ControlInv
  OBVIOUS
<1>1. Shaped /\ LocalsUnset
  BY DEF Init, Shaped, LocalsUnset, Labels, Fields, NoLocal
<1>2. LockInv
  BY DEF Init, LockInv, Locks, ReadLocks, WriteLocks, LocksExclusive
<1>3. DeletedBound
  BY DeletedAssumption, FS_EmptySet DEF Init, DeletedBound
<1> QED BY <1>1, <1>2, <1>3 DEF ControlInv

(* A synchronisation phase empties the lists and touches no lock.          *)
LEMMA SyncControl ==
  ASSUME ControlInv, SyncPhase
  PROVE  ControlInv'
<1> USE DEF ControlInv, SyncPhase, MapsCleared
<1>1. \A t \in Thread : pc[t] = "barrier" /\ pc'[t] \in {"finished", "barrier", "synced"}
  OBVIOUS
<1>2. Shaped'
  BY DEF Shaped, Labels
<1>3. LocalsUnset'
  BY <1>1 DEF LocalsUnset
<1>4. LockInv'
  BY <1>1 DEF LockInv, ReadLocks, WriteLocks, LocksExclusive
<1>5. DeletedBound'
  BY DeletedAssumption, FS_EmptySet DEF DeletedBound
<1> QED BY <1>2, <1>3, <1>4, <1>5

(* Every step preserves ControlInv.                                        *)
LEMMA ControlNext == ControlInv /\ [Next]_vars => ControlInv'
<1> SUFFICES ASSUME ControlInv, [Next]_vars PROVE ControlInv'
  OBVIOUS
<1>1. ASSUME NEW t \in Thread, Step(t) PROVE ControlInv'
  BY <1>1, StepShape, StepUnset, StepOtherLocks, StepOwnLocks, LocksKept, StepDeleted DEF ControlInv
<1>2. CASE SyncPhase
  BY <1>2, SyncControl
<1>3. CASE UNCHANGED vars
  BY <1>3 DEF vars, ControlInv, Shaped, LocalsUnset, LockInv, Locks, ReadLocks, WriteLocks, LocksExclusive, DeletedBound
<1> QED BY <1>1, <1>2, <1>3 DEF Next, Terminated

(* Labels, locks and lists of replaced nodes are as ControlInv says in     *)
(* every reachable state, whatever the buffers do.                         *)
THEOREM Control == Spec => []ControlInv
  BY ControlInit, ControlNext, PTL DEF Spec

(* The list of replaced nodes of a thread never overflows, however many    *)
(* nodes it replaces between two synchronisation phases                    *)
(* (assert (nextIndex_ < SIZE) in DeletedNodes::add).                      *)
THEOREM DeletedNeverOverflows == Spec => []DeletedFits
<1>1. ControlInv => DeletedFits
  BY DEF ControlInv, DeletedBound, DeletedFits
<1> QED BY <1>1, Control, PTL

(* A node that a thread writes to is locked by no other thread.            *)
THEOREM WritersAlone == Spec => []LocksExclusive
<1>1. ControlInv => LocksExclusive
  BY DEF ControlInv, LockInv
<1> QED BY <1>1, Control, PTL

(* The pool of this tree, with what is proved about pools.                 *)
PoolProofs == INSTANCE EntryBufferPoolProofs WITH
                Capacity <- PoolSize,
                MaxRows <- BufferCapacity + Cardinality(Thread),
                Total <- Cardinality(Thread),
                filled <- UsedBuffers,
                phase <- "operating", pending <- {}

-----------------------------------------------------------------------------
(* The inductive invariant *)

Calling == Labels \ {"next", "synced", "barrier", "finished"}

WorkTyped ==
  /\ work \in [Thread -> Seq(Entries)] /\ syncPhaseRequired \in BOOLEAN
  /\ \A t \in Thread : /\ pos[t] \in 1 .. Len(work[t]) + 1
                       /\ pc[t] \in Calling => pos[t] <= Len(work[t])

(* The rows of a buffer as its counter says. *)
RowsOf(b, count) ==
  RowsLie(b) /\ Len(b.rows) = IF count <= BufferCapacity THEN count ELSE BufferCapacity

RowsRight(bs, counts) ==
  \A s \in Slots : bs[s].node # None => RowsOf(bs[s], counts[s])

(* Such rows lie on their lookup paths.                                    *)
LEMMA RightLie ==
  ASSUME NEW bs, NEW counts, RowsRight(bs, counts)
  PROVE  BuffersLie(bs, Slots)
BY DEF RowsRight, RowsOf, BuffersLie

(* Buffers in use with such rows are full as a flush needs them.           *)
LEMMA FullOf ==
  ASSUME NEW ns, Sound(ns, Slots), NEW bs, Hung(ns, bs, Slots, DOMAIN Cleared),
         NEW counts, RowsRight(bs, counts), NEW S \in SUBSET Slots, \A s \in S : bs[s].node # None
  PROVE  Full(ns, bs, S, Slots, DOMAIN Cleared)
<1>1. IsFiniteSet(Slots)
  BY FS_Interval, BufferAssumption DEF Slots
<1>2. BuffersLie(bs, Slots)
  BY RightLie
<1> QED BY <1>1, <1>2 DEF Full

(* What a cleared buffer is.                                               *)
LEMMA ClearedFields ==
  /\ Cleared.node = None /\ Cleared.rows = <<>> /\ DOMAIN <<>> = {}
  /\ {"node", "addr", "rows"} \subseteq DOMAIN Cleared
BY DEF Cleared

(* A row not complete yet has a thread that fills it.                      *)
Filling(t, s, i) == pc[t] = "fill" /\ local[t].slot = s /\ local[t].row = i

FilledInv ==
  \A s \in Slots : \A i \in DOMAIN buffer[s].rows :
    i \in buffer[s].complete \/ \E t \in Thread : Filling(t, s, i)

(* The replaced nodes are those in the lists of the threads.               *)
DeletedInv ==
  /\ \A t \in Thread : deleted[t] \subseteq DOMAIN nodes
  /\ \A n \in DOMAIN nodes : nodes[n].removed <=> \E t \in Thread : n \in deleted[t]

(* A buffer taken from the pool and not in the tree is one thread's, which *)
(* waits to put it there.                                                  *)
HeldInv ==
  /\ \A t \in Thread : pc[t] = "swap" => local[t].slot \in inUse \ UsedBuffers
  /\ \A t, u \in Thread : pc[t] = "swap" /\ pc[u] = "swap" /\ local[t].slot = local[u].slot => t = u
  /\ \A s \in inUse \ UsedBuffers : \E t \in Thread : pc[t] = "swap" /\ local[t].slot = s

(* The map of a thread holds nodes from the top down.                      *)
MapOK(m, ns) ==
  /\ m \in Seq(DOMAIN ns)
  /\ \A i, j \in DOMAIN m : i < j => Len(Path(m[i])) < Len(Path(m[j])) - ns[m[j]].prefix
OnAll(m, k) == \A i \in DOMAIN m : On(m[i], k)

MapInv(t) ==
  /\ MapOK(entryMap[t], nodes)
  /\ pc[t] \in Calling => OnAll(entryMap[t], Key[Entry(t)])
  /\ pc[t] = "next" /\ ~syncPhaseRequired /\ entryMap[t] # <<>> =>
       pos[t] > 1 /\ OnAll(entryMap[t], Key[work[t][pos[t] - 1]])
  /\ pc[t] = "synced" => entryMap[t] = <<>>

-----------------------------------------------------------------------------
(* What a thread at a label with local variables l, map m and entry e may  *)
(* rely on.                                                                *)

(* The node has not changed since its counter was seen.                    *)
Since(ns, n, seen) == ~ns[n].removed /\ ns[n].updates = seen
Cont(ns, n, e) == ns[n].cont[AddressIn(e, n)]
AtEnd(m, n) == IF m = <<>> THEN n = Root ELSE n = m[Len(m)]

(* Where it is. *)
Place(label, l, m, e, ns) ==
  /\ l.cur \in DOMAIN ns
  /\ label # "split" => On(l.cur, Key[e])
  /\ label \in {"lock", "visit", "lockchild", "flush", "recheck", "flushing", "downgrade"} =>
       AtEnd(m, l.cur)
  /\ l.last # None => l.last \in DOMAIN ns /\ On(l.last, Key[e])

(* What it knows of the nodes it has locked. *)
Known(label, l, e, ns) ==
  /\ label \in {"visit", "lockchild", "reserve", "fill", "compare"} => l.cur \in LiveNodes(ns)
  /\ label = "visit" /\ l.last # None => l.last \in LiveNodes(ns) /\ Cont(ns, l.last, e) = Sub(l.cur)
  /\ label = "lockchild" => Cont(ns, l.cur, e) = Sub(l.child)
  /\ label \in {"reserve", "fill", "compare"} => Cont(ns, l.cur, e) = Buf(l.slot)

(* What it remembers of the nodes it waits for. *)
Remembered(label, l, e, ns) ==
  /\ label \in {"insert", "swap", "flush", "split", "copy", "downgrade"} =>
       l.seen \in Nat /\ l.seen <= ns[l.cur].updates
  /\ label = "insert" /\ Since(ns, l.cur, l.seen) => Cont(ns, l.cur, e) = Empty /\ ~IsFull(ns[l.cur])
  /\ label = "swap" /\ Since(ns, l.cur, l.seen) => \E f \in Entries : Cont(ns, l.cur, e) = Suffix(f)
  /\ label = "copy" /\ Since(ns, l.cur, l.seen) => Cont(ns, l.cur, e) = Empty /\ IsFull(ns[l.cur])
  /\ label = "split" => SharedPrefix(e, l.cur, ns[l.cur].prefix) < ns[l.cur].prefix
  /\ label \in {"split", "copy"} =>
       /\ l.last # None /\ l.seenLast \in Nat /\ l.seenLast <= ns[l.last].updates
       /\ Since(ns, l.last, l.seenLast) => Cont(ns, l.last, e) = Sub(l.cur)

(* Its row and its buffer. *)
RowKnown(label, l, e, bs) ==
  /\ label \in {"flush", "recheck", "flushing"} => l.slot \in Slots
  /\ label = "fill" => l.row \in DOMAIN bs[l.slot].rows
  /\ label \in {"fill", "compare"} => \E i \in DOMAIN bs[l.slot].rows : bs[l.slot].rows[i] = e

WalkInv(t) ==
  pc[t] \in Calling \ {"start"} =>
    /\ Place(pc[t], local[t], entryMap[t], Entry(t), nodes)
    /\ Known(pc[t], local[t], Entry(t), nodes)
    /\ Remembered(pc[t], local[t], Entry(t), nodes)
    /\ RowKnown(pc[t], local[t], Entry(t), buffer)

(* What it writes to is not removed. *)
WriteInv(t) ==
  \A n : <<t, n>> \in writers =>
    n \in LiveNodes(nodes) /\ (pc[t] \in {"split", "copy"} => nodes[n].updates = local[t].seenLast)

TreeInv ==
  /\ Sound(nodes, Slots) /\ Hung(nodes, buffer, Slots, DOMAIN Cleared) /\ RowsRight(buffer, nextIndex) /\ DeletedInv
  /\ Root \in LiveNodes(nodes)

ThreadInv(t) == MapInv(t) /\ WalkInv(t) /\ WriteInv(t)

IInv ==
  /\ ControlInv /\ WorkTyped /\ TreeInv /\ FilledInv /\ HeldInv /\ PoolProofs!IInv
  /\ \A t \in Thread : ThreadInv(t)

-----------------------------------------------------------------------------
(* What other threads' steps do to the nodes. *)

(* A content stays, or a subtree takes the place of a buffer.              *)
SameOrFlushed(c, d) == c = d \/ \E s, m : c = Buf(s) /\ d = Sub(m)

(* Nodes may be added and updated; a node whose counter stays is the same  *)
(* up to flushed buffers, a removed node stays as it is.                   *)
Grown(ns, ns2) ==
  /\ DOMAIN ns \subseteq DOMAIN ns2
  /\ \A n \in DOMAIN ns :
       /\ ns2[n].prefix = ns[n].prefix /\ ns2[n].max = ns[n].max
       /\ ns[n].updates <= ns2[n].updates
       /\ ns[n].removed => ns2[n] = ns[n]
       /\ ns2[n].updates = ns[n].updates =>
            /\ ns2[n].removed = ns[n].removed
            /\ \A a \in HCAddresses : SameOrFlushed(ns[n].cont[a], ns2[n].cont[a])

(* The nodes the other threads have locked stay as they are.               *)
LockedKept(t) ==
  \A u \in Thread \ {t} : \A n : <<u, n>> \in readers \cup writers => nodes'[n] = nodes[n]

(* The rows the other threads have taken stay.                             *)
Longer(r, r2) == DOMAIN r \subseteq DOMAIN r2 /\ \A i \in DOMAIN r : r2[i] = r[i]
TakenKept(t) ==
  \A u \in Thread \ {t} : pc[u] \in {"fill", "compare"} =>
    Longer(buffer[local[u].slot].rows, buffer'[local[u].slot].rows)

(* A map stays right while nodes are added and changed.                    *)
LEMMA MapGrown ==
  ASSUME NEW ns, NEW ns2, Grown(ns, ns2), NEW m, MapOK(m, ns)
  PROVE  MapOK(m, ns2)
<1>1. m \in Seq(DOMAIN ns2)
  BY DEF MapOK, Grown
<1>2. \A j \in DOMAIN m : m[j] \in DOMAIN ns
  BY DEF MapOK
<1> QED BY <1>1, <1>2 DEF MapOK, Grown

(* A thread's place stays right while nodes are added and changed.         *)
LEMMA PlaceGrown ==
  ASSUME NEW ns, NEW ns2, Grown(ns, ns2), NEW label, NEW l, NEW m, NEW e,
         Place(label, l, m, e, ns)
  PROVE  Place(label, l, m, e, ns2)
BY DEF Place, Grown

(* What a thread knows of nodes that stay as they are stays right.         *)
LEMMA KnownGrown ==
  ASSUME NEW ns, NEW ns2, DOMAIN ns \subseteq DOMAIN ns2, NEW label, NEW l, NEW e,
         Known(label, l, e, ns),
         label \in {"visit", "lockchild", "reserve", "fill", "compare"} => ns2[l.cur] = ns[l.cur],
         label = "visit" /\ l.last # None => ns2[l.last] = ns[l.last]
  PROVE  Known(label, l, e, ns2)
BY DEF Known, LiveNodes, Cont

(* A node whose counter is still the one seen has not changed but for      *)
(* flushed buffers.                                                        *)
LEMMA SinceGrown ==
  ASSUME NEW ns, NEW ns2, NEW slots, NodesTyped(ns, slots), Grown(ns, ns2),
         NEW n \in DOMAIN ns, NEW seen \in Nat, seen <= ns[n].updates,
         NodesTyped(ns2, slots)
  PROVE  /\ seen <= ns2[n].updates
         /\ Since(ns2, n, seen) =>
              /\ Since(ns, n, seen) /\ NContents(ns2[n]) = NContents(ns[n])
              /\ ns2[n].max = ns[n].max /\ ns2[n].prefix = ns[n].prefix
              /\ \A a \in HCAddresses : SameOrFlushed(ns[n].cont[a], ns2[n].cont[a])
<1>1. ns[n].updates \in Nat /\ ns2[n].updates \in Nat
  BY DEF NodesTyped, NodeFields, Grown
<1>2. seen <= ns2[n].updates
  BY <1>1 DEF Grown
<1> SUFFICES ASSUME Since(ns2, n, seen)
             PROVE  /\ Since(ns, n, seen) /\ NContents(ns2[n]) = NContents(ns[n])
                    /\ ns2[n].max = ns[n].max /\ ns2[n].prefix = ns[n].prefix
                    /\ \A a \in HCAddresses : SameOrFlushed(ns[n].cont[a], ns2[n].cont[a])
  BY <1>2
<1>3. ns2[n].updates = ns[n].updates /\ ns[n].updates = seen
  BY <1>1 DEF Grown, Since
<1>4. /\ ns2[n].removed = ns[n].removed
      /\ \A a \in HCAddresses : SameOrFlushed(ns[n].cont[a], ns2[n].cont[a])
      /\ ns2[n].max = ns[n].max /\ ns2[n].prefix = ns[n].prefix
  BY <1>3 DEF Grown
<1>5. \A a \in HCAddresses : (ns[n].cont[a] = Empty) <=> (ns2[n].cont[a] = Empty)
  BY <1>4, SubNotEmpty DEF SameOrFlushed
<1>6. NContents(ns2[n]) = NContents(ns[n])
  BY <1>5, SameCount
<1> QED BY <1>3, <1>4, <1>6 DEF Since

(* What a thread remembers under a counter stays right, since a change     *)
(* would move the counter.                                                 *)
LEMMA RememberedGrown ==
  ASSUME NEW ns, NEW ns2, NEW slots, NodesTyped(ns, slots), NodesTyped(ns2, slots),
         Grown(ns, ns2), NEW label, NEW l, NEW m, NEW e \in Entries,
         Place(label, l, m, e, ns), Remembered(label, l, e, ns)
  PROVE  Remembered(label, l, e, ns2)
<1>1. l.cur \in DOMAIN ns /\ (l.last # None => l.last \in DOMAIN ns)
  BY DEF Place
<1>2. \A n \in DOMAIN ns : AddressIn(e, n) \in HCAddresses
  BY AddressType DEF NodesTyped, IdsTyped
<1>3. \A c, d : SameOrFlushed(c, d) => /\ c = Empty => d = Empty
                                       /\ \A f : c = Suffix(f) => d = Suffix(f)
                                       /\ \A k : c = Sub(k) => d = Sub(k)
  BY SubNotEmpty DEF SameOrFlushed
<1>4. ns2[l.cur].prefix = ns[l.cur].prefix
  BY <1>1 DEF Grown
<1>5. CASE label \notin {"insert", "swap", "flush", "split", "copy", "downgrade"}
  BY <1>5 DEF Remembered
<1>6. CASE label \in {"insert", "swap", "flush", "split", "copy", "downgrade"}
  <2>1. l.seen \in Nat /\ l.seen <= ns[l.cur].updates
    BY <1>6 DEF Remembered
  <2>2. /\ l.seen <= ns2[l.cur].updates
        /\ Since(ns2, l.cur, l.seen) =>
             /\ Since(ns, l.cur, l.seen) /\ IsFull(ns2[l.cur]) = IsFull(ns[l.cur])
             /\ SameOrFlushed(Cont(ns, l.cur, e), Cont(ns2, l.cur, e))
    BY <1>1, <1>2, <2>1, SinceGrown DEF IsFull, Cont
  <2>3. label \in {"split", "copy"} =>
          /\ l.last # None /\ l.seenLast \in Nat /\ l.seenLast <= ns2[l.last].updates
          /\ Since(ns2, l.last, l.seenLast) =>
               /\ Since(ns, l.last, l.seenLast)
               /\ SameOrFlushed(Cont(ns, l.last, e), Cont(ns2, l.last, e))
    <3> SUFFICES ASSUME label \in {"split", "copy"}
                 PROVE  /\ l.last # None /\ l.seenLast \in Nat /\ l.seenLast <= ns2[l.last].updates
                        /\ Since(ns2, l.last, l.seenLast) =>
                             /\ Since(ns, l.last, l.seenLast)
                             /\ SameOrFlushed(Cont(ns, l.last, e), Cont(ns2, l.last, e))
      OBVIOUS
    <3>1. l.last # None /\ l.seenLast \in Nat /\ l.seenLast <= ns[l.last].updates
      BY DEF Remembered
    <3> QED BY <1>1, <1>2, <3>1, SinceGrown DEF Cont
  <2> QED BY <1>3, <1>4, <2>1, <2>2, <2>3 DEF Remembered
<1> QED BY <1>5, <1>6

(* A thread's row stays where it is while rows are added.                  *)
LEMMA RowKnownGrown ==
  ASSUME NEW bs, NEW bs2, NEW label, NEW l, NEW e, RowKnown(label, l, e, bs),
         label \in {"fill", "compare"} => Longer(bs[l.slot].rows, bs2[l.slot].rows)
  PROVE  RowKnown(label, l, e, bs2)
BY DEF RowKnown, Longer

(* A thread in a call has an entry.                                        *)
LEMMA EntryType ==
  ASSUME WorkTyped, NEW t \in Thread, pc[t] \in Calling
  PROVE  Entry(t) \in Entries /\ pos[t] \in 1 .. Len(work[t])
BY DEF WorkTyped, Entry

(* What a step of thread t leaves the other threads. *)
StepFrame(t) ==
  /\ OthersKept(t) /\ OtherLocksKept(t) /\ UNCHANGED work
  /\ Grown(nodes, nodes') /\ LockedKept(t) /\ TakenKept(t)
  /\ syncPhaseRequired => syncPhaseRequired'

(* A step of one thread leaves the others what they rely on.               *)
LEMMA OthersInv ==
  ASSUME IInv, NEW t \in Thread, StepFrame(t), NodesTyped(nodes', Slots), NEW u \in Thread \ {t}
  PROVE  ThreadInv(u)'
<1>1. /\ pc'[u] = pc[u] /\ local'[u] = local[u] /\ pos'[u] = pos[u] /\ entryMap'[u] = entryMap[u]
      /\ work' = work /\ Grown(nodes, nodes') /\ (syncPhaseRequired => syncPhaseRequired')
  BY DEF StepFrame, OthersKept
<1>2. ThreadInv(u) /\ NodesTyped(nodes, Slots) /\ WorkTyped /\ LockInv /\ LocalsUnset
  BY DEF IInv, TreeInv, Sound, ControlInv
<1>3. \A n : <<u, n>> \in readers \cup writers => nodes'[n] = nodes[n]
  BY DEF StepFrame, LockedKept
<1>4. MapInv(u)'
  <2>1. MapOK(entryMap[u], nodes')
    BY <1>1, <1>2, MapGrown DEF ThreadInv, MapInv
  <2> QED BY <1>1, <1>2, <2>1 DEF ThreadInv, MapInv, Entry, Calling, Labels
<1>5. WriteInv(u)'
  <2> SUFFICES ASSUME NEW n, <<u, n>> \in writers'
               PROVE  n \in LiveNodes(nodes') /\ (pc'[u] \in {"split", "copy"} => nodes'[n].updates = local'[u].seenLast)
    BY DEF WriteInv
  <2>1. <<u, n>> \in writers
    BY DEF StepFrame, OtherLocksKept
  <2>2. nodes'[n] = nodes[n]
    BY <1>3, <2>1
  <2>3. n \in LiveNodes(nodes) /\ (pc[u] \in {"split", "copy"} => nodes[n].updates = local[u].seenLast)
    BY <1>2, <2>1 DEF ThreadInv, WriteInv
  <2>4. n \in LiveNodes(nodes')
    BY <1>1, <2>2, <2>3 DEF LiveNodes, Grown
  <2> QED BY <1>1, <2>2, <2>3, <2>4
<1>6. WalkInv(u)'
  <2> SUFFICES ASSUME pc[u] \in Calling \ {"start"}
               PROVE  /\ Place(pc[u], local[u], entryMap[u], Entry(u), nodes')
                      /\ Known(pc[u], local[u], Entry(u), nodes')
                      /\ Remembered(pc[u], local[u], Entry(u), nodes')
                      /\ RowKnown(pc[u], local[u], Entry(u), buffer')
    BY <1>1 DEF WalkInv, Entry, Calling, Labels
  <2>1. /\ Place(pc[u], local[u], entryMap[u], Entry(u), nodes)
        /\ Known(pc[u], local[u], Entry(u), nodes)
        /\ Remembered(pc[u], local[u], Entry(u), nodes)
        /\ RowKnown(pc[u], local[u], Entry(u), buffer)
    BY <1>2 DEF ThreadInv, WalkInv
  <2>2. Entry(u) \in Entries
    BY <1>2, EntryType
  <2>3. \A n \in ReadLocks(u) : nodes'[n] = nodes[n]
    BY <1>2, <1>3 DEF LockInv
  <2>4. pc[u] \in {"visit", "lockchild", "reserve", "fill", "compare"} => nodes'[local[u].cur] = nodes[local[u].cur]
    <3>1. local[u].cur \in NodeIds /\ local[u].cur # None
      BY <1>2, <2>1 DEF Place, NodesTyped, IdsTyped, NodeIds, None
    <3> QED BY <2>3, <3>1 DEF ReadLocks
  <2>5. pc[u] = "visit" /\ local[u].last # None => nodes'[local[u].last] = nodes[local[u].last]
    BY <2>3 DEF ReadLocks
  <2>6. pc[u] \in {"fill", "compare"} => Longer(buffer[local[u].slot].rows, buffer'[local[u].slot].rows)
    BY DEF StepFrame, TakenKept
  <2>7. Known(pc[u], local[u], Entry(u), nodes')
    BY <1>1, <2>1, <2>4, <2>5, KnownGrown DEF Grown
  <2>8. Place(pc[u], local[u], entryMap[u], Entry(u), nodes')
    BY <1>1, <2>1, PlaceGrown
  <2>9. Remembered(pc[u], local[u], Entry(u), nodes')
    BY <1>1, <1>2, <2>1, <2>2, RememberedGrown
  <2>10. RowKnown(pc[u], local[u], Entry(u), buffer')
    BY <2>1, <2>6, RowKnownGrown
  <2> QED BY <2>7, <2>8, <2>9, <2>10
<1> QED BY <1>4, <1>5, <1>6 DEF ThreadInv

-----------------------------------------------------------------------------
(* Steps that leave the nodes and the buffers alone. *)

(* What is left to show of such a step of thread t. *)
OwnInv(t) == /\ pos'[t] \in 1 .. Len(work[t]) + 1
             /\ pc'[t] \in Calling => pos'[t] <= Len(work[t])
             /\ syncPhaseRequired' \in BOOLEAN
             /\ MapInv(t)' /\ WalkInv(t)' /\ WriteInv(t)'

(* Nodes that stay as they are have Grown.                                 *)
LEMMA GrownSame ==
  ASSUME NEW ns, NEW slots, NodesTyped(ns, slots)
  PROVE  Grown(ns, ns)
<1>1. \A n \in DOMAIN ns : ns[n].updates \in Nat
  BY DEF NodesTyped, NodeFields
<1> QED BY <1>1 DEF Grown, SameOrFlushed

(* A step keeps every thread within its workload.                          *)
LEMMA WorkKept ==
  ASSUME IInv, NEW t \in Thread, OthersKept(t), Shaped', UNCHANGED work, OwnInv(t)
  PROVE  WorkTyped'
<1> SUFFICES ASSUME NEW u \in Thread
             PROVE  /\ pos'[u] \in 1 .. Len(work[u]) + 1
                    /\ pc'[u] \in Calling => pos'[u] <= Len(work[u])
  BY DEF WorkTyped, OwnInv, IInv, Calling, Labels
<1>1. CASE u = t
  BY <1>1 DEF OwnInv
<1>2. CASE u # t
  BY <1>2 DEF OthersKept, IInv, WorkTyped
<1> QED BY <1>1, <1>2

(* Rows stay complete or somebody's if no buffer changes.                  *)
LEMMA FilledKept ==
  ASSUME FilledInv, NEW t \in Thread, OthersKept(t), UNCHANGED buffer,
         pc[t] = "fill" => pc'[t] = "fill" /\ local'[t] = local[t]
  PROVE  FilledInv'
<1> SUFFICES ASSUME NEW s \in Slots, NEW i \in DOMAIN buffer[s].rows, i \notin buffer[s].complete
             PROVE  \E u \in Thread : pc'[u] = "fill" /\ local'[u].slot = s /\ local'[u].row = i
  BY DEF FilledInv, Filling
<1>1. PICK u \in Thread : pc[u] = "fill" /\ local[u].slot = s /\ local[u].row = i
  BY DEF FilledInv, Filling
<1>2. pc'[u] = "fill" /\ local'[u] = local[u]
  BY <1>1 DEF OthersKept
<1> QED BY <1>1, <1>2

(* The buffers taken stay their threads' if none is taken or given back.   *)
LEMMA HeldKept ==
  ASSUME HeldInv, NEW t \in Thread, OthersKept(t), UNCHANGED <<buffer, inUse>>,
         pc[t] # "swap", pc'[t] # "swap"
  PROVE  HeldInv'
<1>1. UsedBuffers' = UsedBuffers
  BY DEF UsedBuffers, Slots
<1>2. \A u \in Thread : pc'[u] = "swap" <=> pc[u] = "swap"
  BY DEF OthersKept
<1>3. \A u \in Thread : pc[u] = "swap" => local'[u] = local[u]
  BY DEF OthersKept
<1> QED BY <1>1, <1>2, <1>3 DEF HeldInv

(* A step that does not touch the pool preserves its invariant.            *)
LEMMA PoolKept ==
  ASSUME PoolProofs!IInv, UNCHANGED <<poolVars, buffer>>
  PROVE  PoolProofs!IInv'
BY DEF PoolProofs!IInv, PoolProofs!TypeOK, PoolProofs!FreeListInv, PoolProofs!IsFreeList, PoolProofs!TailInv,
       PoolProofs!FlushInv, PoolProofs!Cleared, PoolProofs!Chunk, PoolProofs!ChunkSize, PoolProofs!Slots,
       PoolProofs!Parts, PoolProofs!None, poolVars, UsedBuffers, Slots

(* A step that changes neither nodes nor buffers preserves the invariant   *)
(* if its own thread's part is preserved.                                  *)
LEMMA QuietStep ==
  ASSUME IInv, NEW t \in Thread, Step(t), UNCHANGED <<nodes, buffer, deleted>>,
         RowsRight(buffer, nextIndex'), syncPhaseRequired => syncPhaseRequired',
         pc[t] = "fill" => pc'[t] = "fill" /\ local'[t] = local[t],
         OwnInv(t), HeldInv', PoolProofs!IInv'
  PROVE  IInv'
<1>1. ControlInv' /\ Shaped' /\ OthersKept(t) /\ OtherLocksKept(t) /\ UNCHANGED work
  <2>1. Next
    BY DEF Next
  <2> QED BY <2>1, ControlNext, StepShape, StepOtherLocks DEF IInv, ControlInv, Step
<1>2. StepFrame(t)
  <2>1. Grown(nodes, nodes')
    BY GrownSame DEF IInv, TreeInv, Sound
  <2> QED BY <1>1, <2>1 DEF StepFrame, LockedKept, TakenKept, Longer
<1>3. TreeInv'
  BY DEF IInv, TreeInv, DeletedInv
<1>4. WorkTyped' /\ FilledInv'
  BY <1>1, WorkKept, FilledKept DEF IInv
<1>5. \A u \in Thread : ThreadInv(u)'
  <2>1. NodesTyped(nodes', Slots)
    BY DEF IInv, TreeInv, Sound
  <2>2. ThreadInv(t)'
    BY DEF OwnInv, ThreadInv
  <2>3. \A u \in Thread \ {t} : ThreadInv(u)'
    BY <1>2, <2>1, OthersInv
  <2> QED BY <2>2, <2>3
<1> QED BY <1>1, <1>3, <1>4, <1>5 DEF IInv

(* What a thread in a call may rely on.                                    *)
LEMMA CallFacts ==
  ASSUME IInv, NEW t \in Thread, pc[t] \in Calling
  PROVE  /\ Entry(t) \in Entries /\ NodesTyped(nodes, Slots) /\ Tree(nodes)
         /\ MapOK(entryMap[t], nodes) /\ OnAll(entryMap[t], Key[Entry(t)])
         /\ pos[t] \in 1 .. Len(work[t])
         /\ pc[t] # "start" =>
              /\ Place(pc[t], local[t], entryMap[t], Entry(t), nodes)
              /\ Known(pc[t], local[t], Entry(t), nodes)
              /\ Remembered(pc[t], local[t], Entry(t), nodes)
              /\ RowKnown(pc[t], local[t], Entry(t), buffer)
         /\ \A n \in DOMAIN nodes :
              /\ nodes[n].updates \in Nat /\ n \in NodeIds /\ n # None
              /\ AddressIn(Entry(t), n) \in HCAddresses
         /\ DOMAIN local[t] = DOMAIN NoLocal
<1>1. Entry(t) \in Entries /\ pos[t] \in 1 .. Len(work[t])
  BY EntryType DEF IInv
<1>2. NodesTyped(nodes, Slots) /\ Tree(nodes)
  BY DEF IInv, TreeInv, Sound
<1>3. \A n \in DOMAIN nodes : n \in NodeIds /\ Len(Path(n)) < WIDTH /\ nodes[n].updates \in Nat
  BY <1>2 DEF NodesTyped, IdsTyped, NodeFields
<1>4. \A n \in DOMAIN nodes : n # None /\ AddressIn(Entry(t), n) \in HCAddresses
  BY <1>1, <1>3, AddressType DEF NodeIds, None
<1>5. DOMAIN local[t] = DOMAIN NoLocal
  BY DEF IInv, ControlInv, Shaped, Fields
<1> QED BY <1>1, <1>2, <1>3, <1>4, <1>5 DEF IInv, ThreadInv, MapInv, WalkInv

(* A step to a label without write locks.                                  *)
LEMMA NoWrites ==
  ASSUME IInv, NEW t \in Thread, Step(t),
         pc'[t] \notin {"recheck", "flushing", "split", "copy"}
  PROVE  WriteInv(t)'
<1>1. OwnLocks(t)
  BY StepOwnLocks DEF IInv, ControlInv
<1> QED BY <1>1 DEF OwnLocks, WriteLocks, WriteInv

(* A step within an insertion. *)
Landed(t) ==
  pc'[t] # "start" =>
    /\ Place(pc'[t], local'[t], entryMap'[t], Entry(t), nodes')
    /\ Known(pc'[t], local'[t], Entry(t), nodes')
    /\ Remembered(pc'[t], local'[t], Entry(t), nodes')
    /\ RowKnown(pc'[t], local'[t], Entry(t), buffer')

(* A step within a call that lands at its next label with what that label  *)
(* relies on.                                                              *)
LEMMA WithinCall ==
  ASSUME IInv, NEW t \in Thread, Step(t), pc[t] \in Calling, pc'[t] \in Calling,
         UNCHANGED <<pos, syncPhaseRequired>>, Grown(nodes, nodes'),
         entryMap'[t] = entryMap[t],
         WriteInv(t)', Landed(t)
  PROVE  OwnInv(t)
<1>1. UNCHANGED work
  BY DEF Step
<1>2. MapOK(entryMap'[t], nodes') /\ OnAll(entryMap'[t], Key[Entry(t)])
  BY CallFacts, MapGrown
<1>3. Entry(t)' = Entry(t)
  BY <1>1 DEF Entry
<1>4. MapInv(t)' /\ WalkInv(t)'
  BY <1>2, <1>3 DEF MapInv, WalkInv, Landed, Calling, Labels
<1> QED BY <1>1, <1>4, CallFacts DEF OwnInv, IInv, WorkTyped

(* A step that starts the call over.                                       *)
LEMMA Restarted ==
  ASSUME IInv, NEW t \in Thread, Step(t), pc[t] \in Calling, pc'[t] = "start",
         UNCHANGED <<pos, syncPhaseRequired>>, Grown(nodes, nodes'),
         MapOK(entryMap'[t], nodes), OnAll(entryMap'[t], Key[Entry(t)])
  PROVE  OwnInv(t)
<1>1. UNCHANGED work
  BY DEF Step
<1>2. MapOK(entryMap'[t], nodes')
  BY MapGrown
<1>3. Entry(t)' = Entry(t)
  BY <1>1 DEF Entry
<1>4. MapInv(t)' /\ WalkInv(t)' /\ WriteInv(t)'
  BY <1>2, <1>3, NoWrites DEF MapInv, WalkInv, Calling, Labels
<1> QED BY <1>1, <1>4, CallFacts DEF OwnInv, IInv, WorkTyped, Calling, Labels

(* A step that returns from the call.                                      *)
LEMMA Finished ==
  ASSUME IInv, NEW t \in Thread, Step(t), pc[t] \in Calling, pc'[t] = "next",
         pos'[t] = pos[t] + 1, UNCHANGED syncPhaseRequired, Grown(nodes, nodes'),
         entryMap'[t] = entryMap[t]
  PROVE  OwnInv(t)
<1>1. UNCHANGED work
  BY DEF Step
<1>2. MapOK(entryMap'[t], nodes')
  BY CallFacts, MapGrown
<1>3. pos'[t] - 1 = pos[t] /\ pos'[t] \in 1 .. Len(work[t]) + 1 /\ pos'[t] > 1
  BY CallFacts
<1>4. MapInv(t)' /\ WalkInv(t)' /\ WriteInv(t)'
  BY <1>1, <1>2, <1>3, CallFacts, NoWrites DEF MapInv, WalkInv, Calling, Labels, Entry
<1> QED BY <1>1, <1>3, <1>4 DEF OwnInv, IInv, WorkTyped, Calling, Labels

-----------------------------------------------------------------------------
(* The steps that only look, one by one. *)

(* Where the walk starts: at the last node of the map that is not removed, *)
(* or at the root.                                                         *)
LEMMA StartOwn ==
  ASSUME IInv, NEW t \in Thread, Start(t), Step(t)
  PROVE  OwnInv(t)
<1> DEFINE valid == {i \in DOMAIN entryMap[t] : ~nodes[entryMap[t][i]].removed}
           i == IF valid = {} THEN 0 ELSE CHOOSE j \in valid : \A k \in valid : k <= j
           m == entryMap[t]
           m2 == SubSeq(m, 1, i)
           c == IF i = 0 THEN Root ELSE m[i]
<1>1. pc[t] = "start" /\ pc[t] \in Calling /\ pc'[t] = "lock" /\ pc'[t] \in Calling
  BY DEF Start, GoTo, Calling, Labels, IInv, ControlInv, Shaped
<1>2. entryMap'[t] = m2 /\ local'[t] = [NoLocal EXCEPT !.cur = c]
  BY DEF Start, SetLocal, IInv, ControlInv, Shaped
<1>3. local'[t].cur = c /\ local'[t].last = None
  BY <1>2 DEF NoLocal
<1>4. m \in Seq(DOMAIN nodes) /\ MapOK(m, nodes) /\ OnAll(m, Key[Entry(t)])
  BY <1>1, CallFacts DEF MapOK
<1>5. i \in 0 .. Len(m)
  <2>1. valid \in SUBSET (1 .. Len(m)) /\ Len(m) \in Nat
    BY <1>4
  <2>2. CASE valid # {}
    <3>1. PICK j \in valid : \A k \in valid : k <= j
      <4> DEFINE len == [x \in valid |-> x]
      <4>1. len \in [valid -> 0 .. Len(m)]
        BY <2>1
      <4>2. \E x \in valid : \A y \in valid : len[y] <= len[x]
        BY <2>1, <2>2, <4>1, LongestExists
      <4> QED BY <4>2
    <3>2. i \in valid
      BY <2>2, <3>1
    <3> QED BY <2>1, <3>2
  <2> QED BY <2>1, <2>2
<1> HIDE DEF i, valid
<1>6. /\ m2 \in Seq(DOMAIN nodes) /\ Len(m2) = i
      /\ \A k \in 1 .. i : m2[k] = m[k]
  BY <1>4, <1>5, SubSeqPrefix
<1> HIDE DEF m2
<1>7. MapOK(m2, nodes) /\ OnAll(m2, Key[Entry(t)])
  BY <1>4, <1>5, <1>6 DEF MapOK, OnAll
<1>8. c \in DOMAIN nodes /\ On(c, Key[Entry(t)]) /\ AtEnd(m2, c)
  <2>1. CASE i = 0
    <3>1. Root \in DOMAIN nodes
      BY DEF IInv, TreeInv, LiveNodes
    <3>2. On(Root, Key[Entry(t)])
      BY <1>1, CallFacts, KeyType, RootId, TopOn
    <3>3. m2 = <<>>
      BY <2>1, <1>6, EmptySeq
    <3> QED BY <2>1, <3>1, <3>2, <3>3 DEF AtEnd
  <2>2. CASE i # 0
    BY <2>2, <1>4, <1>5, <1>6 DEF AtEnd, OnAll
  <2> QED BY <2>1, <2>2
<1>9. UNCHANGED <<nodes, buffer, pos, syncPhaseRequired, work>>
  BY DEF Start, Step
<1>10. Entry(t)' = Entry(t)
  BY <1>9 DEF Entry
<1>11. Landed(t)
  BY <1>1, <1>2, <1>3, <1>8, <1>9 DEF Landed, Place, Known, Remembered, RowKnown
<1>12. WriteInv(t)'
  BY <1>1, NoWrites
<1>13. MapInv(t)' /\ WalkInv(t)'
  BY <1>1, <1>2, <1>7, <1>9, <1>10, <1>11 DEF MapInv, WalkInv, Landed
<1> QED BY <1>1, <1>9, <1>12, <1>13, CallFacts DEF OwnInv, IInv, WorkTyped

(* The first node is locked, or the call starts over if it was removed.    *)
LEMMA LockStartOwn ==
  ASSUME IInv, NEW t \in Thread, LockStart(t), Step(t)
  PROVE  OwnInv(t)
<1>1. pc[t] = "lock" /\ pc[t] \in Calling /\ UNCHANGED <<nodes, buffer, pos, syncPhaseRequired, entryMap>>
  BY DEF LockStart, Calling, Labels, Restart
<1>2. CASE Restart(t)
  <2>1. pc'[t] = "start"
    BY <1>2 DEF Restart, GoTo, IInv, ControlInv, Shaped
  <2> QED BY <1>1, <2>1, CallFacts, GrownSame, Restarted
<1>3. CASE ~nodes[local[t].cur].removed /\ GoTo(t, "visit") /\ UNCHANGED local
  <2>1. pc'[t] = "visit" /\ pc'[t] \in Calling /\ local'[t] = local[t]
    BY <1>3 DEF GoTo, Calling, Labels, IInv, ControlInv, Shaped
  <2>2. local[t].last = None
    BY <1>1 DEF IInv, ControlInv, LocalsUnset
  <2>3. Place("lock", local[t], entryMap[t], Entry(t), nodes)
    BY <1>1, CallFacts
  <2>4. Landed(t)
    BY <1>1, <1>3, <2>1, <2>2, <2>3 DEF Landed, Place, Known, Remembered, RowKnown, LiveNodes
  <2> QED BY <1>1, <2>1, <2>4, CallFacts, GrownSame, NoWrites, WithinCall
<1> QED BY <1>2, <1>3 DEF LockStart

(* A subnode is found at the address of the entry.                         *)
LEMMA VisitSubnodeOwn ==
  ASSUME IInv, NEW t \in Thread, VisitSubnode(t), Step(t)
  PROVE  OwnInv(t)
<1>1. /\ pc[t] = "visit" /\ pc[t] \in Calling /\ pc'[t] = "lockchild" /\ pc'[t] \in Calling
      /\ UNCHANGED <<nodes, buffer, pos, syncPhaseRequired, entryMap>>
      /\ Content(t).kind = "subnode"
      /\ local'[t] = [local[t] EXCEPT !.last = None, !.child = Content(t).node]
  BY DEF VisitSubnode, GoTo, SetLocal, Calling, Labels, IInv, ControlInv, Shaped
<1>2. /\ Place("visit", local[t], entryMap[t], Entry(t), nodes)
      /\ Known("visit", local[t], Entry(t), nodes)
      /\ NodesTyped(nodes, Slots) /\ AddressIn(Entry(t), local[t].cur) \in HCAddresses
      /\ DOMAIN local[t] = DOMAIN NoLocal
  BY <1>1, CallFacts DEF Place
<1>3. local'[t].cur = local[t].cur /\ local'[t].last = None /\ local'[t].child = Content(t).node
  BY <1>1, <1>2 DEF NoLocal
<1>4. Content(t) = Sub(Content(t).node)
  BY <1>1, <1>2, ContentType, Kinds DEF Content, Place
<1>5. Landed(t)
  BY <1>1, <1>2, <1>3, <1>4 DEF Landed, Place, Known, Remembered, RowKnown, Cont, Content
<1> QED BY <1>1, <1>5, CallFacts, GrownSame, NoWrites, WithinCall

(* A thread gives its locks up to wait for a write lock, and remembers the *)
(* counter.                                                                *)
LEMMA AwaitOwn ==
  ASSUME IInv, NEW t \in Thread, Step(t), pc[t] = "visit", NEW label \in {"insert", "swap", "flush"}, NEW slot,
         AwaitWriteLock(t, label, slot),
         UNCHANGED <<nodes, buffer, pos, syncPhaseRequired, entryMap>>,
         label = "insert" => Content(t) = Empty /\ ~IsFull(nodes[local[t].cur]),
         label = "swap" => \E f \in Entries : Content(t) = Suffix(f),
         label = "flush" => slot \in Slots
  PROVE  OwnInv(t)
<1>1. /\ pc[t] \in Calling /\ pc'[t] = label /\ pc'[t] \in Calling
      /\ local'[t] = [NoLocal EXCEPT !.cur = local[t].cur, !.slot = slot,
                                     !.seen = nodes[local[t].cur].updates]
  BY DEF AwaitWriteLock, GoTo, SetLocal, Calling, Labels, IInv, ControlInv, Shaped
<1>2. /\ Place("visit", local[t], entryMap[t], Entry(t), nodes)
      /\ nodes[local[t].cur].updates \in Nat
  BY <1>1, CallFacts DEF Place
<1>3. /\ local'[t].cur = local[t].cur /\ local'[t].last = None /\ local'[t].slot = slot
      /\ local'[t].seen = nodes[local[t].cur].updates
  BY <1>1 DEF NoLocal
<1>4. Place(label, local'[t], entryMap[t], Entry(t), nodes)
  BY <1>2, <1>3 DEF Place
<1>5. Known(label, local'[t], Entry(t), nodes)
  BY DEF Known
<1>6. Remembered(label, local'[t], Entry(t), nodes)
  BY <1>2, <1>3 DEF Remembered, Cont, Content
<1>7. RowKnown(label, local'[t], Entry(t), buffer)
  BY <1>3 DEF RowKnown
<1>8. Landed(t)
  BY <1>1, <1>4, <1>5, <1>6, <1>7 DEF Landed
<1> QED BY <1>1, <1>8, CallFacts, GrownSame, NoWrites, WithinCall

(* A thread gives its locks up to wait for two write locks, and remembers  *)
(* both counters.                                                          *)
LEMMA AwaitBothOwn ==
  ASSUME IInv, NEW t \in Thread, Step(t), pc[t] \in {"visit", "lockchild"},
         NEW label \in {"split", "copy"}, NEW parent, NEW child,
         AwaitBothWriteLocks(t, parent, child, label),
         UNCHANGED <<nodes, buffer, pos, syncPhaseRequired, entryMap>>,
         parent \in LiveNodes(nodes), child \in DOMAIN nodes,
         On(parent, Key[Entry(t)]), Cont(nodes, parent, Entry(t)) = Sub(child),
         label = "copy" => /\ On(child, Key[Entry(t)])
                           /\ Cont(nodes, child, Entry(t)) = Empty /\ IsFull(nodes[child]),
         label = "split" => SharedPrefix(Entry(t), child, nodes[child].prefix) < nodes[child].prefix
  PROVE  OwnInv(t)
<1>1. /\ pc[t] \in Calling /\ pc'[t] = label /\ pc'[t] \in Calling
      /\ local'[t] = [NoLocal EXCEPT !.cur = child, !.last = parent,
                                     !.seen = nodes[child].updates,
                                     !.seenLast = nodes[parent].updates]
      /\ UNCHANGED writers
  BY DEF AwaitBothWriteLocks, GoTo, SetLocal, Calling, Labels, IInv, ControlInv, Shaped
<1>2. /\ nodes[child].updates \in Nat /\ nodes[parent].updates \in Nat
      /\ parent \in DOMAIN nodes /\ parent # None
  BY <1>1, CallFacts DEF LiveNodes
<1>3. /\ local'[t].cur = child /\ local'[t].last = parent
      /\ local'[t].seen = nodes[child].updates /\ local'[t].seenLast = nodes[parent].updates
  BY <1>1 DEF NoLocal
<1>4. Place(label, local'[t], entryMap[t], Entry(t), nodes)
  BY <1>2, <1>3 DEF Place
<1>5. Known(label, local'[t], Entry(t), nodes)
  BY DEF Known
<1>6. Remembered(label, local'[t], Entry(t), nodes)
  BY <1>2, <1>3 DEF Remembered
<1>7. RowKnown(label, local'[t], Entry(t), buffer)
  BY DEF RowKnown
<1>8. Landed(t)
  BY <1>1, <1>4, <1>5, <1>6, <1>7 DEF Landed
<1>9. WriteInv(t)'
  <2>1. \A n : <<t, n>> \notin writers
    BY DEF IInv, ControlInv, LockInv, WriteLocks
  <2> QED BY <1>1, <2>1 DEF WriteInv
<1> QED BY <1>1, <1>8, <1>9, CallFacts, GrownSame, WithinCall

-----------------------------------------------------------------------------
(* The buffer pool *)

(* The sizes of the pool meet the assumptions of EntryBufferPool.          *)
LEMMA PoolSizes ==
  /\ PoolSize \in Nat \ {0}
  /\ BufferCapacity + Cardinality(Thread) \in Nat /\ BufferCapacity + Cardinality(Thread) >= 2
  /\ Cardinality(Thread) \in Nat \ {0}
<1>1. Cardinality(Thread) \in Nat /\ Cardinality(Thread) # 0
  BY WorkAssumption, FS_CardinalityType, FS_EmptySet
<1> QED BY <1>1, BufferAssumption

(* A buffer that hangs in the tree was taken from the pool.                *)
LEMMA UsedHeld ==
  ASSUME PoolProofs!IInv
  PROVE  UsedBuffers \subseteq inUse /\ inUse \subseteq Slots /\ nextIndex \in [Slots -> Int]
BY DEF PoolProofs!IInv, PoolProofs!TypeOK, PoolProofs!Slots, Slots

(* allocate hands out a buffer nobody has.                                 *)
LEMMA TakeBuffer ==
  ASSUME PoolProofs!IInv, Pool!Allocate, UNCHANGED buffer
  PROVE  /\ PoolProofs!IInv' /\ headIndex \in Slots \ inUse /\ inUse' = inUse \cup {headIndex}
         /\ \A s \in inUse : nextIndex'[s] = nextIndex[s]
<1>1. PoolProofs!Allocate
  BY DEF Pool!Allocate, PoolProofs!Allocate, Pool!NowInitialized, PoolProofs!NowInitialized,
         Pool!Linked, PoolProofs!Linked, Pool!None, PoolProofs!None
<1>2. UsedBuffers' = UsedBuffers
  BY DEF UsedBuffers, Slots
<1>3. PoolProofs!IInv'
  BY <1>1, <1>2, PoolSizes, PoolProofs!AllocateInv
<1>4. PoolProofs!AllocatesUnusedBuffer
  BY PoolSizes, PoolProofs!UnusedBuffer
<1>5. headIndex \in Slots \ inUse
  BY <1>1, <1>4 DEF PoolProofs!AllocatesUnusedBuffer, PoolProofs!Slots, Slots, PoolProofs!Allocate
<1>6. \A s \in inUse : nextIndex'[s] = nextIndex[s]
  <2>1. \A s \in inUse : s # nInitialized \/ ~(nInitialized < PoolSize)
    BY <1>4, BufferAssumption DEF PoolProofs!AllocatesUnusedBuffer
  <2>2. nextIndex \in [Slots -> Int] /\ inUse \subseteq Slots
    BY UsedHeld
  <2> QED BY <1>1, <1>5, <2>1, <2>2 DEF PoolProofs!Allocate, PoolProofs!Linked
<1> QED BY <1>1, <1>3, <1>5, <1>6 DEF PoolProofs!Allocate

(* allocate on an exhausted pool changes nothing.                          *)
LEMMA NoBuffer ==
  ASSUME PoolProofs!IInv, Pool!AllocateNull, UNCHANGED buffer
  PROVE  UNCHANGED poolVars
<1>1. PoolProofs!AllocateNull
  BY DEF Pool!AllocateNull, PoolProofs!AllocateNull, Pool!NowInitialized, PoolProofs!NowInitialized,
         Pool!Linked, PoolProofs!Linked
<1>2. UsedBuffers' = UsedBuffers
  BY DEF UsedBuffers, Slots
<1>3. UNCHANGED PoolProofs!vars
  BY <1>1, <1>2, PoolSizes, PoolProofs!AllocateNullInv
<1> QED BY <1>3 DEF PoolProofs!vars, PoolProofs!poolVars, poolVars

(* deallocate takes back the one buffer.                                   *)
LEMMA GiveBack ==
  ASSUME PoolProofs!IInv, NEW s \in Slots, Pool!Deallocate(s), UsedBuffers' = UsedBuffers \ {s}
  PROVE  /\ PoolProofs!IInv' /\ inUse' = inUse \ {s}
         /\ \A r \in Slots \ {s} : nextIndex'[r] = nextIndex[r]
<1>1. PoolProofs!Deallocate(s)
  BY DEF Pool!Deallocate, PoolProofs!Deallocate
<1>2. s \in PoolProofs!Slots
  BY DEF PoolProofs!Slots, Slots
<1>3. PoolProofs!IInv'
  BY <1>1, <1>2, PoolSizes, PoolProofs!DeallocateInv
<1> QED BY <1>1, <1>3, UsedHeld DEF PoolProofs!Deallocate

(* The row counter of a buffer in use may change: the free list does not   *)
(* go through it.                                                          *)
LEMMA CountChanged ==
  ASSUME PoolProofs!IInv, NEW s \in inUse, NEW v \in Int, nextIndex' = [nextIndex EXCEPT ![s] = v],
         UsedBuffers' \subseteq UsedBuffers \cup {s},
         UNCHANGED <<headIndex, nInitialized, nFree, inUse>>
  PROVE  PoolProofs!IInv'
BY PoolSizes, PoolProofs!CountInv

(* A full deallocation takes back every buffer.                            *)
LEMMA AllGivenBack ==
  ASSUME PoolProofs!IInv, Pool!FullDeallocate, UsedBuffers' = {}
  PROVE  PoolProofs!IInv' /\ inUse' = {}
<1>1. PoolProofs!FullDeallocate
  BY DEF Pool!FullDeallocate, PoolProofs!FullDeallocate, Pool!Reset, PoolProofs!Reset,
         PoolProofs!Slots, Pool!Slots
<1> QED BY <1>1, PoolSizes, PoolProofs!FullDeallocateInv

-----------------------------------------------------------------------------
(* Maps of nodes *)

(* A map without its lowest nodes is a map.                                *)
LEMMA MapCut ==
  ASSUME NEW m, NEW ns, MapOK(m, ns), NEW i \in Int, i <= Len(m)
  PROVE  /\ MapOK(SubSeq(m, 1, i), ns)
         /\ \A k : OnAll(m, k) => OnAll(SubSeq(m, 1, i), k)
<1>1. CASE i < 1
  <2>1. SubSeq(m, 1, i) = <<>>
    BY <1>1, SubSeqEmpty
  <2> QED BY <2>1 DEF MapOK, OnAll
<1>2. CASE i >= 1
  <2> DEFINE S == DOMAIN ns
             m2 == SubSeq(m, 1, i)
  <2>1. m \in Seq(S) /\ i \in 0 .. Len(m)
    BY <1>2 DEF MapOK
  <2> HIDE DEF S
  <2>2. m2 \in Seq(S) /\ Len(m2) = i /\ \A j \in 1 .. i : m2[j] = m[j]
    BY <2>1, SubSeqPrefix
  <2> HIDE DEF m2
  <2> QED BY <2>1, <2>2 DEF MapOK, OnAll, S, m2
<1> QED BY <1>1, <1>2

(* A map with the node walked to is a map.                                 *)
LEMMA MapExtended ==
  ASSUME NEW m, NEW ns, MapOK(m, ns), \A n \in DOMAIN ns : Len(Path(n)) \in Nat /\ ns[n].prefix \in Nat,
         NEW n \in DOMAIN ns, NEW c \in DOMAIN ns, AtEnd(m, n),
         Len(Path(n)) < Len(Path(c)) - ns[c].prefix
  PROVE  /\ MapOK(Append(m, c), ns) /\ AtEnd(Append(m, c), c)
         /\ \A k : OnAll(m, k) /\ On(c, k) => OnAll(Append(m, c), k)
<1> DEFINE S == DOMAIN ns
           m2 == Append(m, c)
<1>1. m \in Seq(S) /\ c \in S
  BY DEF MapOK
<1> HIDE DEF S
<1>2. /\ m2 \in Seq(S) /\ m2 # <<>> /\ Len(m2) = Len(m) + 1 /\ Len(m) \in Nat
      /\ \A j \in 1 .. Len(m) : m2[j] = m[j]
      /\ m2[Len(m) + 1] = c
  BY <1>1, AppendProperties
<1> HIDE DEF m2
<1>3. \A j \in 1 .. Len(m) : m[j] \in DOMAIN ns
  BY <1>1 DEF S
<1>4. ASSUME NEW j \in 1 .. Len(m) PROVE Len(Path(m[j])) < Len(Path(c)) - ns[c].prefix
  <2>1. m # <<>> /\ n = m[Len(m)]
    BY <1>1, <1>4 DEF AtEnd
  <2>2. CASE j = Len(m)
    BY <2>1, <2>2
  <2>3. CASE j < Len(m)
    <3>1. Len(Path(m[j])) < Len(Path(n)) - ns[n].prefix
      BY <1>1, <1>2, <2>1, <2>3 DEF MapOK
    <3> QED BY <1>3, <3>1
  <2> QED BY <2>2, <2>3, <1>2
<1>5. MapOK(m2, ns)
  <2> SUFFICES ASSUME NEW i \in DOMAIN m2, NEW j \in DOMAIN m2, i < j
               PROVE  Len(Path(m2[i])) < Len(Path(m2[j])) - ns[m2[j]].prefix
    BY <1>2 DEF MapOK, S
  <2>1. i \in 1 .. Len(m) /\ j \in 1 .. Len(m) + 1 /\ DOMAIN m = 1 .. Len(m)
    BY <1>1, <1>2
  <2>2. CASE j \in 1 .. Len(m)
    BY <1>2, <2>1, <2>2 DEF MapOK
  <2>3. CASE j = Len(m) + 1
    BY <1>2, <1>4, <2>1, <2>3
  <2> QED BY <2>1, <2>2, <2>3, <1>2
<1>6. AtEnd(m2, c)
  BY <1>2 DEF AtEnd
<1>7. \A k : OnAll(m, k) /\ On(c, k) => OnAll(m2, k)
  BY <1>1, <1>2 DEF OnAll
<1> QED BY <1>5, <1>6, <1>7 DEF m2

-----------------------------------------------------------------------------
(* The steps that leave nodes and buffers alone *)

(* A step of the walk that changes locks, map and local variables only.    *)
LEMMA QuietWalk ==
  ASSUME IInv, NEW t \in Thread, Step(t), UNCHANGED <<nodes, buffer, deleted, poolVars>>,
         syncPhaseRequired => syncPhaseRequired',
         pc[t] \notin {"fill", "swap"}, pc'[t] # "swap", OwnInv(t)
  PROVE  IInv'
<1>1. OthersKept(t)
  BY StepShape DEF IInv, ControlInv
<1>2. HeldInv'
  BY <1>1, HeldKept DEF IInv, poolVars
<1>3. PoolProofs!IInv'
  BY PoolKept DEF IInv
<1>4. RowsRight(buffer, nextIndex')
  BY DEF IInv, TreeInv, poolVars
<1> QED BY <1>2, <1>3, <1>4, QuietStep

(* Start preserves the invariant.                                          *)
LEMMA StartInv == ASSUME IInv, NEW t \in Thread, Start(t), Step(t) PROVE IInv'
<1>1. pc[t] = "start" /\ pc'[t] = "lock" /\ UNCHANGED <<nodes, buffer, deleted, poolVars, syncPhaseRequired>>
  BY DEF Start, GoTo, IInv, ControlInv, Shaped
<1> QED BY <1>1, StartOwn, QuietWalk

(* LockStart preserves the invariant.                                      *)
LEMMA LockStartInv == ASSUME IInv, NEW t \in Thread, LockStart(t), Step(t) PROVE IInv'
<1>1. /\ pc[t] = "lock" /\ pc'[t] \in {"start", "visit"}
      /\ UNCHANGED <<nodes, buffer, deleted, poolVars, syncPhaseRequired>>
  BY DEF LockStart, Restart, GoTo, IInv, ControlInv, Shaped
<1> QED BY <1>1, LockStartOwn, QuietWalk

(* VisitSubnode preserves the invariant.                                   *)
LEMMA VisitSubnodeInv == ASSUME IInv, NEW t \in Thread, VisitSubnode(t), Step(t) PROVE IInv'
<1>1. /\ pc[t] = "visit" /\ pc'[t] = "lockchild"
      /\ UNCHANGED <<nodes, buffer, deleted, poolVars, syncPhaseRequired>>
  BY DEF VisitSubnode, GoTo, IInv, ControlInv, Shaped
<1> QED BY <1>1, VisitSubnodeOwn, QuietWalk

(* The link to a child leads on, or the entry leaves within its prefix.    *)
LEMMA LinkedOn ==
  ASSUME NEW ns, NEW slots, NodesTyped(ns, slots), Tree(ns), NEW parent \in LiveNodes(ns),
         NEW e \in Entries, On(parent, Key[e]), NEW n, Cont(ns, parent, e) = Sub(n)
  PROVE  /\ n \in LiveNodes(ns) /\ n \in DOMAIN ns /\ n # parent
         /\ SharedPrefix(e, n, ns[n].prefix) \in Nat /\ ns[n].prefix \in Nat
         /\ SharedPrefix(e, n, ns[n].prefix) <= ns[n].prefix
         /\ SharedPrefix(e, n, ns[n].prefix) = ns[n].prefix => On(n, Key[e])
         /\ Len(Path(parent)) < Len(Path(n)) - ns[n].prefix
<1>1. Linked(ns, parent, AddressIn(e, parent), n)
  BY DEF Linked, Cont
<1>2. AddressIn(e, parent) \in HCAddresses
  BY AddressType DEF NodesTyped, IdsTyped, LiveNodes
<1>3. /\ n \in LiveNodes(ns) /\ n # parent
      /\ Len(Path(n)) = Len(Path(parent)) + 1 + ns[n].prefix
      /\ Len(Path(parent)) \in Nat /\ Len(Path(n)) \in Nat /\ ns[n].prefix \in Nat
  BY <1>1, <1>2, LinkedFacts
<1>4. LET shared == SharedPrefix(e, n, ns[n].prefix)
             split == SplitPath(ns, n, e)
         IN  /\ shared \in Nat /\ shared <= ns[n].prefix
             /\ shared = ns[n].prefix => On(n, Key[e])
             /\ split \in Seq(HCAddresses) /\ Len(split) = Len(Path(parent)) + 1 + shared
             /\ IsPrefix(split, Path(n)) /\ IsPrefix(split, Key[e])
             /\ shared < ns[n].prefix => Key[e][Len(split) + 1] # Path(n)[Len(split) + 1]
  BY <1>1, WalkOn
<1> QED BY <1>3, <1>4 DEF LiveNodes

(* LockChild preserves the invariant.                                      *)
LEMMA LockChildInv == ASSUME IInv, NEW t \in Thread, LockChild(t), Step(t) PROVE IInv'
<1> DEFINE child == local[t].child
           cur == local[t].cur
           e == Entry(t)
           m == entryMap[t]
           shared == SharedPrefix(e, child, nodes[child].prefix)
<1>1. /\ pc[t] = "lockchild" /\ pc[t] \in Calling
      /\ UNCHANGED <<nodes, buffer, deleted, poolVars, syncPhaseRequired, pos, work>>
  BY DEF LockChild, Calling, Labels, Step, Restart, AwaitBothWriteLocks
<1>2. /\ cur \in LiveNodes(nodes) /\ On(cur, Key[e]) /\ Cont(nodes, cur, e) = Sub(child)
      /\ AtEnd(m, cur) /\ cur \in DOMAIN nodes /\ cur # None
  BY <1>1, CallFacts DEF Place, Known
<1>3. /\ child \in LiveNodes(nodes) /\ child \in DOMAIN nodes
      /\ shared \in Nat /\ nodes[child].prefix \in Nat /\ shared <= nodes[child].prefix
      /\ shared = nodes[child].prefix => On(child, Key[e])
      /\ Len(Path(cur)) < Len(Path(child)) - nodes[child].prefix
  BY <1>1, <1>2, CallFacts, LinkedOn
<1> HIDE DEF shared
<1>4. CASE shared = nodes[child].prefix
  <2>1. /\ pc'[t] = "visit" /\ pc'[t] \in Calling
        /\ local'[t] = [NoLocal EXCEPT !.cur = child, !.last = cur]
        /\ entryMap'[t] = Append(m, child)
    <3>1. ~nodes[child].removed
      BY <1>3 DEF LiveNodes
    <3>2. SetLocal(t, [NoLocal EXCEPT !.cur = child, !.last = cur]) /\ GoTo(t, "visit")
          /\ entryMap' = [entryMap EXCEPT ![t] = Append(@, child)]
      BY <1>4, <3>1 DEF LockChild, shared
    <3> QED BY <3>2 DEF SetLocal, GoTo, Calling, Labels, IInv, ControlInv, Shaped
  <2>2. local'[t].cur = child /\ local'[t].last = cur
    BY <2>1 DEF NoLocal
  <2>3. \A n \in DOMAIN nodes : Len(Path(n)) \in Nat /\ nodes[n].prefix \in Nat
    <3>1. NodesTyped(nodes, Slots)
      BY DEF IInv, TreeInv, Sound
    <3> QED BY <3>1, PathType DEF NodesTyped, IdsTyped, NodeFields
  <2>4. MapOK(m, nodes) /\ OnAll(m, Key[e])
    BY <1>1, CallFacts
  <2>5. /\ MapOK(Append(m, child), nodes) /\ AtEnd(Append(m, child), child)
        /\ OnAll(Append(m, child), Key[e])
    BY <1>2, <1>3, <1>4, <2>3, <2>4, MapExtended
  <2>6. Entry(t)' = Entry(t)
    BY <1>1 DEF Entry
  <2>7. Landed(t)
    BY <1>1, <1>2, <1>3, <1>4, <2>1, <2>2, <2>5 DEF Landed, Place, Known, Remembered, RowKnown
  <2>8. MapInv(t)' /\ WalkInv(t)'
    BY <1>1, <2>1, <2>5, <2>6, <2>7 DEF MapInv, WalkInv, Landed
  <2>9. WriteInv(t)'
    BY <2>1, NoWrites
  <2>10. OwnInv(t)
    BY <1>1, <2>1, <2>8, <2>9, CallFacts DEF OwnInv, IInv, WorkTyped
  <2> QED BY <1>1, <2>1, <2>10, QuietWalk
<1>5. CASE shared # nodes[child].prefix
  <2>1. ~nodes[child].removed
    BY <1>3 DEF LiveNodes
  <2>2. AwaitBothWriteLocks(t, cur, child, "split") /\ UNCHANGED entryMap
    BY <1>5, <2>1 DEF LockChild, shared
  <2>3. pc'[t] = "split"
    BY <2>2 DEF AwaitBothWriteLocks, GoTo, IInv, ControlInv, Shaped
  <2>4. shared < nodes[child].prefix
    BY <1>3, <1>5
  <2>5. OwnInv(t)
    BY <1>1, <1>2, <1>3, <2>2, <2>4, AwaitBothOwn DEF shared
  <2> QED BY <1>1, <2>3, <2>5, QuietWalk
<1> QED BY <1>4, <1>5

(* Visits that only decide what to wait for preserve the invariant.        *)
LEMMA VisitInv ==
  ASSUME IInv, NEW t \in Thread, VisitFullBuffer(t) \/ VisitBuffer(t) \/ VisitRoom(t), Step(t)
  PROVE  IInv'
<1>1. /\ pc[t] = "visit" /\ pc[t] \in Calling
      /\ UNCHANGED <<nodes, buffer, deleted, poolVars, syncPhaseRequired, pos, entryMap>>
  BY DEF VisitFullBuffer, VisitBuffer, VisitRoom, Calling, Labels, AwaitWriteLock
<1>2. /\ Place("visit", local[t], entryMap[t], Entry(t), nodes)
      /\ Known("visit", local[t], Entry(t), nodes)
      /\ NodesTyped(nodes, Slots) /\ AddressIn(Entry(t), local[t].cur) \in HCAddresses
      /\ DOMAIN local[t] = DOMAIN NoLocal
  BY <1>1, CallFacts DEF Place
<1>3. \/ Content(t) = Empty
      \/ \E e \in Entries : Content(t) = Suffix(e)
      \/ \E m \in DOMAIN nodes : Content(t) = Sub(m)
      \/ \E s \in Slots : Content(t) = Buf(s)
  BY <1>2, ContentType DEF Content, Place
<1>4. CASE VisitFullBuffer(t)
  <2>1. Content(t).slot \in Slots
    BY <1>3, <1>4, Kinds DEF VisitFullBuffer
  <2>2. pc'[t] = "flush"
    BY <1>4 DEF VisitFullBuffer, AwaitWriteLock, GoTo, IInv, ControlInv, Shaped
  <2>3. OwnInv(t)
    BY <1>1, <1>4, <2>1, AwaitOwn DEF VisitFullBuffer
  <2> QED BY <1>1, <2>2, <2>3, QuietWalk
<1>5. CASE VisitRoom(t)
  <2>1. Content(t) = Empty /\ ~IsFull(nodes[local[t].cur])
    BY <1>3, <1>5, Kinds DEF VisitRoom
  <2>2. pc'[t] = "insert"
    BY <1>5 DEF VisitRoom, AwaitWriteLock, GoTo, IInv, ControlInv, Shaped
  <2>3. OwnInv(t)
    BY <1>1, <1>5, <2>1, AwaitOwn DEF VisitRoom
  <2> QED BY <1>1, <2>2, <2>3, QuietWalk
<1>6. CASE VisitBuffer(t)
  <2>1. /\ pc'[t] = "reserve" /\ pc'[t] \in Calling
        /\ local'[t] = [NoLocal EXCEPT !.cur = local[t].cur, !.slot = Content(t).slot]
    BY <1>6 DEF VisitBuffer, GoTo, SetLocal, Calling, Labels, IInv, ControlInv, Shaped
  <2>2. local'[t].cur = local[t].cur /\ local'[t].last = None /\ local'[t].slot = Content(t).slot
    BY <2>1 DEF NoLocal
  <2>3. Content(t) = Buf(Content(t).slot)
    BY <1>3, <1>6, Kinds DEF VisitBuffer
  <2>4. Landed(t)
    BY <1>1, <1>2, <2>1, <2>2, <2>3 DEF Landed, Place, Known, Remembered, RowKnown, Cont, Content
  <2>5. OwnInv(t)
    BY <1>1, <2>1, <2>4, CallFacts, GrownSame, NoWrites, WithinCall
  <2> QED BY <1>1, <2>1, <2>5, QuietWalk
<1> QED BY <1>4, <1>5, <1>6

(* VisitFullNode preserves the invariant.                                  *)
LEMMA VisitFullNodeInv == ASSUME IInv, NEW t \in Thread, VisitFullNode(t), Step(t) PROVE IInv'
<1>1. /\ pc[t] = "visit" /\ pc[t] \in Calling
      /\ UNCHANGED <<nodes, buffer, deleted, poolVars, syncPhaseRequired, pos>>
      /\ Content(t).kind = "empty" /\ IsFull(nodes[local[t].cur])
  BY DEF VisitFullNode, Calling, Labels, Restart, AwaitBothWriteLocks
<1>2. /\ Place("visit", local[t], entryMap[t], Entry(t), nodes)
      /\ Known("visit", local[t], Entry(t), nodes)
      /\ NodesTyped(nodes, Slots) /\ AddressIn(Entry(t), local[t].cur) \in HCAddresses
      /\ MapOK(entryMap[t], nodes) /\ OnAll(entryMap[t], Key[Entry(t)])
  BY <1>1, CallFacts DEF Place
<1>3. CASE local[t].last = None
  <2>1. Restart(t) /\ entryMap' = [entryMap EXCEPT ![t] = Front(@)]
    BY <1>3 DEF VisitFullNode
  <2>2. pc'[t] = "start" /\ entryMap'[t] = Front(entryMap[t])
    BY <2>1 DEF Restart, GoTo, IInv, ControlInv, Shaped
  <2>3. Len(entryMap[t]) \in Nat
    BY <1>2 DEF MapOK
  <2>4. MapOK(entryMap'[t], nodes) /\ OnAll(entryMap'[t], Key[Entry(t)])
    BY <1>2, <2>2, <2>3, MapCut DEF Front
  <2>5. OwnInv(t)
    BY <1>1, <2>2, <2>4, CallFacts, GrownSame, Restarted
  <2> QED BY <1>1, <2>2, <2>5, QuietWalk
<1>4. CASE local[t].last # None
  <2>1. AwaitBothWriteLocks(t, local[t].last, local[t].cur, "copy") /\ UNCHANGED entryMap
    BY <1>4 DEF VisitFullNode
  <2>2. pc'[t] = "copy"
    BY <2>1 DEF AwaitBothWriteLocks, GoTo, IInv, ControlInv, Shaped
  <2>3. Content(t) = Empty
    BY <1>1, <1>2, ContentType, Kinds DEF Content, Place
  <2>4. OwnInv(t)
    BY <1>1, <1>2, <1>4, <2>1, <2>3, AwaitBothOwn DEF Place, Known, Cont, Content
  <2> QED BY <1>1, <2>2, <2>4, QuietWalk
<1> QED BY <1>3, <1>4

(* NoMoreEntries preserves the invariant.                                  *)
LEMMA NoMoreEntriesInv == ASSUME IInv, NEW t \in Thread, NoMoreEntries(t), Step(t) PROVE IInv'
<1>1. /\ pc[t] = "next" /\ pc'[t] = "barrier"
      /\ UNCHANGED <<nodes, buffer, deleted, poolVars, syncPhaseRequired, pos, entryMap, work>>
  BY DEF NoMoreEntries, GoTo, IInv, ControlInv, Shaped, Step
<1>2. MapInv(t)' /\ WalkInv(t)'
  BY <1>1 DEF MapInv, WalkInv, Calling, Labels, IInv, ThreadInv
<1>3. WriteInv(t)'
  BY <1>1, NoWrites
<1>4. OwnInv(t)
  BY <1>1, <1>2, <1>3 DEF OwnInv, IInv, WorkTyped, Calling, Labels
<1> QED BY <1>1, <1>4, QuietWalk

(* VisitSuffixNoBuffer preserves the invariant: the pool is exhausted and  *)
(* the flag is set.                                                        *)
LEMMA VisitSuffixNoBufferInv ==
  ASSUME IInv, NEW t \in Thread, VisitSuffixNoBuffer(t), Step(t)
  PROVE  IInv'
<1>1. /\ pc[t] = "visit" /\ pc'[t] = "next" /\ syncPhaseRequired'
      /\ UNCHANGED <<nodes, buffer, deleted, pos, entryMap, work>>
  BY DEF VisitSuffixNoBuffer, GoTo, IInv, ControlInv, Shaped, Step
<1>2. UNCHANGED poolVars
  BY <1>1, NoBuffer DEF VisitSuffixNoBuffer, IInv
<1>3. MapInv(t)' /\ WalkInv(t)'
  BY <1>1 DEF MapInv, WalkInv, Calling, Labels, IInv, ThreadInv
<1>4. WriteInv(t)'
  BY <1>1, NoWrites
<1>5. syncPhaseRequired' \in BOOLEAN
  BY DEF VisitSuffixNoBuffer
<1>6. OwnInv(t)
  BY <1>1, <1>3, <1>4, <1>5 DEF OwnInv, IInv, WorkTyped, Calling, Labels
<1> QED BY <1>1, <1>2, <1>6, QuietWalk

(* VisitSuffix preserves the invariant: the thread keeps the buffer it     *)
(* took.                                                                   *)
LEMMA VisitSuffixInv == ASSUME IInv, NEW t \in Thread, VisitSuffix(t), Step(t) PROVE IInv'
<1>1. /\ pc[t] = "visit" /\ pc[t] \in Calling /\ pc'[t] = "swap" /\ local'[t].slot = headIndex
      /\ UNCHANGED <<nodes, buffer, deleted, pos, entryMap, work, syncPhaseRequired>>
  BY DEF VisitSuffix, AwaitWriteLock, SetLocal, NoLocal, GoTo, IInv, ControlInv, Shaped, Step,
         Calling, Labels
<1>2. /\ PoolProofs!IInv' /\ headIndex \in Slots \ inUse /\ inUse' = inUse \cup {headIndex}
      /\ \A s \in inUse : nextIndex'[s] = nextIndex[s]
  BY <1>1, TakeBuffer DEF VisitSuffix, IInv
<1>3. UsedBuffers \subseteq inUse /\ UsedBuffers' = UsedBuffers
  BY <1>1, UsedHeld DEF IInv, UsedBuffers
<1>4. RowsRight(buffer, nextIndex')
  BY <1>2, <1>3 DEF RowsRight, UsedBuffers, IInv, TreeInv
<1>5. OthersKept(t)
  BY StepShape DEF IInv, ControlInv
<1>6. HeldInv'
  <2>1. \A u \in Thread \ {t} : pc'[u] = pc[u] /\ local'[u] = local[u]
    BY <1>5 DEF OthersKept
  <2> QED BY <1>1, <1>2, <1>3, <2>1 DEF HeldInv, IInv
<1>7. \E f \in Entries : Content(t) = Suffix(f)
  <2>1. /\ Place("visit", local[t], entryMap[t], Entry(t), nodes)
        /\ NodesTyped(nodes, Slots) /\ AddressIn(Entry(t), local[t].cur) \in HCAddresses
    BY <1>1, CallFacts DEF Place
  <2> QED BY <2>1, ContentType, Kinds DEF Content, Place, VisitSuffix
<1>8. OwnInv(t)
  BY <1>1, <1>7, AwaitOwn DEF VisitSuffix
<1> QED BY <1>1, <1>2, <1>4, <1>6, <1>8, QuietStep

(* Compare preserves the invariant.                                        *)
LEMMA CompareInv == ASSUME IInv, NEW t \in Thread, Compare(t), Step(t) PROVE IInv'
<1>1. /\ pc[t] = "compare" /\ pc[t] \in Calling /\ pc'[t] = "next" /\ pos'[t] = pos[t] + 1
      /\ UNCHANGED <<nodes, buffer, deleted, poolVars, syncPhaseRequired, entryMap>>
  BY DEF Compare, Finish, GoTo, Calling, Labels, IInv, ControlInv, Shaped
<1>2. OwnInv(t)
  BY <1>1, CallFacts, GrownSame, Finished
<1> QED BY <1>1, <1>2, QuietWalk

(* LockFlush preserves the invariant.                                      *)
LEMMA LockFlushInv == ASSUME IInv, NEW t \in Thread, LockFlush(t), Step(t) PROVE IInv'
<1> DEFINE n == local[t].cur
<1>1. /\ pc[t] = "flush" /\ pc[t] \in Calling
      /\ UNCHANGED <<nodes, buffer, deleted, poolVars, syncPhaseRequired, entryMap, pos>>
  BY DEF LockFlush, Restart, Calling, Labels
<1>2. /\ Place("flush", local[t], entryMap[t], Entry(t), nodes)
      /\ RowKnown("flush", local[t], Entry(t), buffer)
      /\ MapOK(entryMap[t], nodes) /\ OnAll(entryMap[t], Key[Entry(t)])
  BY <1>1, CallFacts
<1>3. CASE Valid(n, local[t].seen)
  <2>1. /\ pc'[t] = "recheck" /\ pc'[t] \in Calling /\ local'[t] = local[t]
        /\ HoldsWrite(t, {n})
    BY <1>3 DEF LockFlush, GoTo, Calling, Labels, IInv, ControlInv, Shaped
  <2>2. Landed(t)
    BY <1>1, <1>2, <2>1 DEF Landed, Place, Known, Remembered, RowKnown
  <2>3. n \in LiveNodes(nodes)
    BY <1>2, <1>3 DEF Place, Valid, LiveNodes
  <2>4. WriteInv(t)'
    <3>1. \A m : <<t, m>> \in writers' => m = n
      BY <2>1, WriteIs DEF IInv, ControlInv
    <3> QED BY <1>1, <2>1, <2>3, <3>1 DEF WriteInv
  <2>5. OwnInv(t)
    BY <1>1, <2>1, <2>2, <2>4, CallFacts, GrownSame, WithinCall
  <2> QED BY <1>1, <2>1, <2>5, QuietWalk
<1>4. CASE ~Valid(n, local[t].seen)
  <2>1. pc'[t] = "start" /\ entryMap'[t] = entryMap[t]
    BY <1>1, <1>4 DEF LockFlush, Restart, GoTo, IInv, ControlInv, Shaped
  <2>2. OwnInv(t)
    BY <1>1, <1>2, <2>1, CallFacts, GrownSame, Restarted
  <2> QED BY <1>1, <2>1, <2>2, QuietWalk
<1> QED BY <1>3, <1>4

(* LockDowngraded preserves the invariant.                                 *)
LEMMA LockDowngradedInv == ASSUME IInv, NEW t \in Thread, LockDowngraded(t), Step(t) PROVE IInv'
<1> DEFINE n == local[t].cur
<1>1. /\ pc[t] = "downgrade" /\ pc[t] \in Calling
      /\ UNCHANGED <<nodes, buffer, deleted, poolVars, syncPhaseRequired, entryMap, pos>>
  BY DEF LockDowngraded, Restart, Calling, Labels
<1>2. /\ Place("downgrade", local[t], entryMap[t], Entry(t), nodes)
      /\ MapOK(entryMap[t], nodes) /\ OnAll(entryMap[t], Key[Entry(t)])
  BY <1>1, CallFacts
<1>3. CASE Valid(n, local[t].seen)
  <2>1. /\ pc'[t] = "visit" /\ pc'[t] \in Calling /\ local'[t] = [NoLocal EXCEPT !.cur = n]
    BY <1>3 DEF LockDowngraded, GoTo, SetLocal, Calling, Labels, IInv, ControlInv, Shaped
  <2>2. local'[t].cur = n /\ local'[t].last = None
    BY <2>1 DEF NoLocal
  <2>3. n \in LiveNodes(nodes)
    BY <1>2, <1>3 DEF Place, Valid, LiveNodes
  <2>4. Landed(t)
    BY <1>1, <1>2, <2>1, <2>2, <2>3 DEF Landed, Place, Known, Remembered, RowKnown
  <2>5. OwnInv(t)
    BY <1>1, <2>1, <2>4, NoWrites, CallFacts, GrownSame, WithinCall
  <2> QED BY <1>1, <2>1, <2>5, QuietWalk
<1>4. CASE ~Valid(n, local[t].seen)
  <2>1. pc'[t] = "start" /\ entryMap'[t] = entryMap[t]
    BY <1>1, <1>4 DEF LockDowngraded, Restart, GoTo, IInv, ControlInv, Shaped
  <2>2. OwnInv(t)
    BY <1>1, <1>2, <2>1, CallFacts, GrownSame, Restarted
  <2> QED BY <1>1, <2>1, <2>2, QuietWalk
<1> QED BY <1>3, <1>4

(* LockParent preserves the invariant: both counters are checked under the *)
(* locks.                                                                  *)
LEMMA LockParentInv == ASSUME IInv, NEW t \in Thread, LockParent(t), Step(t) PROVE IInv'
<1> DEFINE n == local[t].last
<1>1. /\ pc[t] \in {"split", "copy"} /\ pc[t] \in Calling
      /\ UNCHANGED <<nodes, buffer, deleted, poolVars, syncPhaseRequired, entryMap, pos>>
  BY DEF LockParent, Restart, Calling, Labels
<1>2. /\ Place(pc[t], local[t], entryMap[t], Entry(t), nodes)
      /\ Known(pc[t], local[t], Entry(t), nodes)
      /\ Remembered(pc[t], local[t], Entry(t), nodes)
      /\ RowKnown(pc[t], local[t], Entry(t), buffer)
      /\ MapOK(entryMap[t], nodes) /\ OnAll(entryMap[t], Key[Entry(t)])
  BY <1>1, CallFacts
<1>3. CASE Valid(n, local[t].seenLast)
  <2>1. UNCHANGED <<pc, local>> /\ HoldsWrite(t, {n})
    BY <1>3 DEF LockParent
  <2>2. Landed(t)
    BY <1>1, <1>2, <2>1 DEF Landed
  <2>3. n \in LiveNodes(nodes) /\ nodes[n].updates = local[t].seenLast
    BY <1>1, <1>2, <1>3 DEF Place, Remembered, Valid, LiveNodes
  <2>4. WriteInv(t)'
    <3>1. \A m : <<t, m>> \in writers' => m = n
      BY <2>1, WriteIs DEF IInv, ControlInv
    <3> QED BY <1>1, <2>1, <2>3, <3>1 DEF WriteInv
  <2>5. OwnInv(t)
    BY <1>1, <2>1, <2>2, <2>4, CallFacts, GrownSame, WithinCall
  <2> QED BY <1>1, <2>1, <2>5, QuietWalk
<1>4. CASE ~Valid(n, local[t].seenLast)
  <2>1. pc'[t] = "start" /\ entryMap'[t] = entryMap[t]
    BY <1>1, <1>4 DEF LockParent, Restart, GoTo, IInv, ControlInv, Shaped
  <2>2. OwnInv(t)
    BY <1>1, <1>2, <2>1, CallFacts, GrownSame, Restarted
  <2> QED BY <1>1, <2>1, <2>2, QuietWalk
<1> QED BY <1>3, <1>4

(* The nodes that start at or before a bit are the first of the map.       *)
LEMMA FirstNodes ==
  ASSUME NEW m, NEW ns, MapOK(m, ns), NEW diff \in Int,
         \A n \in DOMAIN ns : Len(Path(n)) \in Nat /\ ns[n].prefix \in Nat,
         NEW n, n = Cardinality({i \in DOMAIN m : Len(Path(m[i])) - ns[m[i]].prefix <= diff})
  PROVE  n \in Nat /\ n <= Len(m) /\ \A i \in 1 .. n - 1 : Len(Path(m[i])) < diff
<1> DEFINE S == {i \in DOMAIN m : Len(Path(m[i])) - ns[m[i]].prefix <= diff}
<1>1. Len(m) \in Nat /\ DOMAIN m = 1 .. Len(m) /\ \A i \in DOMAIN m : m[i] \in DOMAIN ns
  BY DEF MapOK
<1>2. \A i \in DOMAIN m, j \in S : i < j => i \in S /\ Len(Path(m[i])) < diff
  BY <1>1 DEF MapOK
<1>3. CASE S = {}
  <2>1. n = Cardinality(S)
    OBVIOUS
  <2> HIDE DEF S
  <2>2. n = 0
    BY <1>3, <2>1, FS_EmptySet
  <2>3. \A i \in 1 .. n - 1 : FALSE
    BY <2>2
  <2>4. n \in Nat /\ n <= Len(m)
    BY <1>1, <2>2
  <2> QED BY <2>3, <2>4
<1>4. CASE S # {}
  <2>1. PICK j \in S : \A k \in S : k <= j
    <3> DEFINE len == [x \in S |-> x]
    <3>1. len \in [S -> 0 .. Len(m)]
      BY <1>1
    <3>2. \E x \in S : \A y \in S : len[y] <= len[x]
      BY <1>1, <1>4, <3>1, LongestExists
    <3> QED BY <3>2
  <2>2. S = 1 .. j
    BY <1>1, <1>2, <2>1
  <2>3. j \in Nat /\ j <= Len(m)
    BY <1>1, <2>1
  <2>4. Cardinality(1 .. j) = j
    BY <2>3, FS_Interval
  <2>5. n = j
    BY <2>2, <2>4
  <2>6. \A i \in 1 .. n - 1 : i \in DOMAIN m /\ i < j
    BY <1>1, <2>3, <2>5
  <2>7. \A i \in 1 .. n - 1 : Len(Path(m[i])) < diff
    BY <1>2, <2>1, <2>6
  <2> QED BY <2>3, <2>5, <2>7
<1> QED BY <1>3, <1>4

(* What EntryTreeMap keeps lies on the way to the next entry.              *)
LEMMA KeptOn ==
  ASSUME NEW m, NEW ns, NEW slots, MapOK(m, ns), NodesTyped(ns, slots),
         NEW e \in Entries, NEW f \in Entries, OnAll(m, Key[f]),
         NEW n, n = Cardinality({i \in DOMAIN m : Len(Path(m[i])) - ns[m[i]].prefix
                                                  <= Len(LongestCommonPrefix({Key[e], Key[f]}))})
  PROVE  n \in Nat /\ n <= Len(m) /\ OnAll(SubSeq(m, 1, n - 1), Key[e])
<1> DEFINE p == LongestCommonPrefix({Key[e], Key[f]})
<1>1. /\ p \in Seq(HCAddresses)
      /\ IsPrefix(p, Key[e]) /\ IsPrefix(p, Key[f])
      /\ Key[e] \in Seq(HCAddresses) /\ Key[f] \in Seq(HCAddresses)
  <2> DEFINE A == HCAddresses
             S == {Key[e], Key[f]}
  <2>1. Key[e] \in Seq(A) /\ Key[f] \in Seq(A)
    BY KeyType
  <2> HIDE DEF A
  <2>2. LET q == LongestCommonPrefix(S) IN
           /\ q \in Seq(A)
           /\ \A t \in S : IsPrefix(q, t)
           /\ \A r \in Seq(A) : (\A t \in S : IsPrefix(r, t)) => IsPrefix(r, q)
    <3>1. S \in SUBSET Seq(A) /\ S # {}
      BY <2>1
    <3> HIDE DEF S
    <3> QED BY <3>1, CommonPrefix
  <2> QED BY <2>1, <2>2 DEF A
<1> HIDE DEF p
<1>2. \A k \in DOMAIN ns : Path(k) \in Seq(HCAddresses) /\ Len(Path(k)) \in Nat /\ ns[k].prefix \in Nat
  BY PathType DEF NodesTyped, IdsTyped, NodeFields
<1>3. Len(p) \in Int
  BY <1>1
<1>4. n \in Nat /\ n <= Len(m) /\ \A i \in 1 .. n - 1 : Len(Path(m[i])) < Len(p)
  BY <1>2, <1>3, FirstNodes DEF p
<1>5. m \in Seq(DOMAIN ns)
  BY DEF MapOK
<1>6. \A i \in 1 .. n - 1 : On(m[i], Key[e])
  <2> TAKE i \in 1 .. n - 1
  <2>1. i \in DOMAIN m /\ m[i] \in DOMAIN ns
    BY <1>4, <1>5
  <2> DEFINE q == Path(m[i])
             A == HCAddresses
  <2>2. /\ q \in Seq(A) /\ Len(q) < Len(p) /\ Len(q) \in Nat /\ IsPrefix(q, Key[f])
        /\ p \in Seq(A) /\ Key[e] \in Seq(A) /\ Key[f] \in Seq(A)
    BY <1>1, <1>2, <1>4, <2>1 DEF OnAll, On
  <2>3. Len(q) <= Len(p)
    BY <2>2, <1>3
  <2> HIDE DEF q, A
  <2>4. IsPrefix(q, p)
    BY <1>1, <2>2, <2>3, PrefixOrder
  <2>5. IsPrefix(q, Key[e])
    BY <1>1, <2>2, <2>4, PrefixTrans
  <2> QED BY <2>5 DEF On, q
<1>7. \A i \in DOMAIN SubSeq(m, 1, n - 1) : i \in 1 .. n - 1 /\ SubSeq(m, 1, n - 1)[i] = m[i]
  <2>1. CASE n = 0
    <3> DEFINE j == n - 1
    <3>1. j \in Int /\ j < 1
      BY <2>1
    <3> HIDE DEF j
    <3>2. SubSeq(m, 1, j) = <<>>
      BY <3>1, SubSeqEmpty
    <3> DEFINE z == SubSeq(m, 1, j)
    <3>3. z = <<>>
      BY <3>2
    <3> HIDE DEF z
    <3>4. DOMAIN z = {}
      BY <3>3
    <3> QED BY <3>4 DEF j, z
  <2>2. CASE n # 0
    <3>1. n - 1 \in 0 .. Len(m)
      BY <1>4, <1>5, <2>2
    <3>2. SubSeq(m, 1, n - 1) \in Seq(DOMAIN ns) /\ Len(SubSeq(m, 1, n - 1)) = n - 1
          /\ \A i \in 1 .. n - 1 : SubSeq(m, 1, n - 1)[i] = m[i]
      BY <1>5, <3>1, SubSeqPrefix
    <3> QED BY <3>2
  <2> QED BY <2>1, <2>2
<1> QED BY <1>4, <1>6, <1>7 DEF OnAll

(* Entries that never part have the same key. *)
LEMMA NeverPart ==
  ASSUME NEW e \in Entries, NEW f \in Entries, Len(LongestCommonPrefix({Key[e], Key[f]})) = WIDTH
  PROVE  Key[e] = Key[f]
<1> DEFINE x == Key[e]
           y == Key[f]
           A == HCAddresses
<1>1. x \in Seq(A) /\ y \in Seq(A) /\ Len(x) = WIDTH /\ Len(y) = WIDTH /\ WIDTH \in Nat
  BY KeyType
<1>2. CASE x # y
  <2> HIDE DEF x, y, A
  <2>1. LET p == LongestCommonPrefix({x, y}) IN
           /\ p \in Seq(A) /\ Len(p) < Len(x) /\ IsPrefix(p, x) /\ IsPrefix(p, y)
           /\ x[Len(p) + 1] # y[Len(p) + 1]
    BY <1>1, <1>2, CommonOfTwo
  <2>2. Len(LongestCommonPrefix({x, y})) < WIDTH
    BY <1>1, <2>1
  <2> QED BY <1>1, <2>2 DEF x, y
<1> QED BY <1>2

(* NextEntry preserves the invariant: the map is cut where the new key     *)
(* leaves the last one's way.                                              *)
LEMMA NextEntryInv == ASSUME IInv, NEW t \in Thread, NextEntry(t), Step(t) PROVE IInv'
<1> DEFINE sync == pc[t] = "next" /\ SyncRequired(t)
           m == entryMap[t]
           diff == IF m = <<>> THEN 0 ELSE DifferentAt(t)
<1>1. /\ pc[t] \in {"next", "synced"} /\ pos[t] <= Len(work[t]) /\ pos[t] \in 1 .. Len(work[t])
      /\ UNCHANGED <<nodes, buffer, deleted, poolVars, local, work>>
      /\ syncPhaseRequired' = (syncPhaseRequired \/ sync)
      /\ work[t] \in Seq(Entries)
  <2>1. work[t] \in Seq(Entries) /\ pos[t] \in 1 .. Len(work[t]) + 1
    BY DEF IInv, WorkTyped
  <2> QED BY <2>1 DEF NextEntry, Done, Step
<1>2. MapOK(m, nodes) /\ NodesTyped(nodes, Slots) /\ m \in Seq(DOMAIN nodes)
      /\ syncPhaseRequired \in BOOLEAN /\ Entry(t) \in Entries
  BY <1>1 DEF IInv, ThreadInv, MapInv, TreeInv, Sound, MapOK, WorkTyped, Entry
<1>3. sync \/ m = <<>> \/ /\ pc[t] = "next" /\ pos[t] > 1
                          /\ OnAll(m, Key[work[t][pos[t] - 1]])
  <2>1. MapInv(t)
    BY DEF IInv, ThreadInv
  <2> QED BY <1>1, <2>1 DEF MapInv, SyncRequired
<1>4. Entry(t)' = work[t][pos'[t]]
  BY <1>1 DEF Entry
<1>5. CASE sync
  <2>1. pc'[t] = "barrier" /\ UNCHANGED <<entryMap, pos>>
    BY <1>5 DEF NextEntry, GoTo, IInv, ControlInv, Shaped
  <2>2. MapInv(t)' /\ WalkInv(t)'
    BY <1>1, <1>2, <2>1 DEF MapInv, WalkInv, Calling, Labels
  <2>3. WriteInv(t)'
    BY <2>1, NoWrites
  <2>4. OwnInv(t)
    BY <1>1, <1>2, <2>1, <2>2, <2>3 DEF OwnInv, IInv, WorkTyped, Calling, Labels
  <2> QED BY <1>1, <2>1, <2>4, QuietWalk
<1>6. CASE ~sync /\ m # <<>> /\ diff = WIDTH
  <2>1. pos'[t] = pos[t] + 1 /\ UNCHANGED <<pc, entryMap>>
    BY <1>6 DEF NextEntry, IInv, ControlInv, Shaped
  <2>2. /\ pc[t] = "next" /\ pos[t] > 1 /\ OnAll(m, Key[work[t][pos[t] - 1]])
    BY <1>3, <1>6
  <2>3. work[t][pos[t] - 1] \in Entries
    BY <1>1, <2>2
  <2>4. Key[Entry(t)] = Key[work[t][pos[t] - 1]]
    BY <1>2, <1>6, <2>3, NeverPart DEF DifferentAt
  <2>5. OnAll(m, Key[work[t][pos'[t] - 1]]) /\ pos'[t] > 1 /\ pos'[t] \in 1 .. Len(work[t]) + 1
    <3>1. pos'[t] - 1 = pos[t] /\ pos'[t] > 1 /\ pos'[t] \in 1 .. Len(work[t]) + 1
      BY <1>1, <2>1
    <3> QED BY <2>2, <2>4, <3>1 DEF Entry
  <2>6. MapInv(t)' /\ WalkInv(t)'
    BY <1>1, <1>2, <2>1, <2>2, <2>5 DEF MapInv, WalkInv, Calling, Labels
  <2>7. WriteInv(t)'
    BY <2>1, <2>2, NoWrites
  <2>8. OwnInv(t)
    BY <1>1, <1>2, <2>1, <2>2, <2>5, <2>6, <2>7 DEF OwnInv, Calling, Labels
  <2> QED BY <1>1, <2>1, <2>2, <2>8, QuietWalk
<1>7. CASE ~sync /\ ~(m # <<>> /\ diff = WIDTH)
  <2>1. /\ pc'[t] = "start" /\ UNCHANGED pos /\ entryMap'[t] = KeptNodes(t, diff)
        /\ pc'[t] \in Calling
    BY <1>7 DEF NextEntry, GoTo, IInv, ControlInv, Shaped, Calling, Labels
  <2> DEFINE n == Cardinality({i \in DOMAIN m : Len(Path(m[i])) - nodes[m[i]].prefix <= diff})
  <2>2. KeptNodes(t, diff) = SubSeq(m, 1, n - 1)
    BY DEF KeptNodes, StartIndex
  <2>3. n \in Nat /\ n <= Len(m) /\ OnAll(SubSeq(m, 1, n - 1), Key[Entry(t)])
    <3>1. CASE m = <<>>
      <4>1. n = 0
        BY <3>1, FS_EmptySet
      <4>2. SubSeq(m, 1, -1) = <<>>
        BY <3>1
      <4> HIDE DEF n
      <4> QED BY <3>1, <4>1, <4>2 DEF OnAll
    <3>2. CASE m # <<>>
      <4>1. pos[t] > 1 /\ OnAll(m, Key[work[t][pos[t] - 1]])
        BY <1>3, <1>7, <3>2
      <4>2. work[t][pos[t] - 1] \in Entries
        BY <1>1, <4>1
      <4>3. diff = Len(LongestCommonPrefix({Key[Entry(t)], Key[work[t][pos[t] - 1]]}))
        BY <3>2 DEF DifferentAt
      <4> HIDE DEF diff
      <4> QED BY <1>2, <4>1, <4>2, <4>3, KeptOn
    <3> QED BY <3>1, <3>2
  <2>4. n - 1 \in Int /\ n - 1 <= Len(m)
    <3> HIDE DEF n
    <3>1. Len(m) \in Nat
      BY <1>2
    <3> QED BY <2>3, <3>1
  <2>5. MapOK(SubSeq(m, 1, n - 1), nodes)
    <3> HIDE DEF n
    <3> QED BY <1>2, <2>4, MapCut
  <2>6. MapInv(t)' /\ WalkInv(t)'
    <3>1. entryMap'[t] = SubSeq(m, 1, n - 1)
      BY <2>1, <2>2
    <3>2. Entry(t)' = Entry(t)
      BY <1>4, <2>1 DEF Entry
    <3> HIDE DEF n
    <3> QED BY <1>1, <2>1, <2>3, <2>5, <3>1, <3>2 DEF MapInv, WalkInv
  <2>7. WriteInv(t)'
    BY <2>1, NoWrites
  <2>8. OwnInv(t)
    BY <1>1, <1>2, <2>1, <2>6, <2>7 DEF OwnInv
  <2> QED BY <1>1, <2>1, <2>8, QuietWalk
<1> QED BY <1>5, <1>6, <1>7

-----------------------------------------------------------------------------
(* The steps that change buffers or nodes *)

(* A step that changes nodes or buffers preserves the invariant if it      *)
(* preserves the parts about them and leaves what others have locked.      *)
LEMMA TreeStep ==
  ASSUME IInv, NEW t \in Thread, Step(t), NodesTyped(nodes', Slots), Grown(nodes, nodes'),
         LockedKept(t), TakenKept(t), syncPhaseRequired => syncPhaseRequired',
         TreeInv', FilledInv', HeldInv', PoolProofs!IInv', OwnInv(t)
  PROVE  IInv'
<1>1. ControlInv' /\ Shaped' /\ OthersKept(t) /\ OtherLocksKept(t) /\ UNCHANGED work
  <2>1. Next
    BY DEF Next
  <2> QED BY <2>1, ControlNext, StepShape, StepOtherLocks DEF IInv, ControlInv, Step
<1>2. StepFrame(t)
  BY <1>1 DEF StepFrame
<1>3. WorkTyped'
  BY <1>1, WorkKept DEF IInv
<1>4. \A u \in Thread : ThreadInv(u)'
  <2>1. ThreadInv(t)'
    BY DEF OwnInv, ThreadInv
  <2>2. \A u \in Thread \ {t} : ThreadInv(u)'
    BY <1>2, OthersInv
  <2> QED BY <2>1, <2>2
<1> QED BY <1>1, <1>3, <1>4 DEF IInv

(* Buffers keep their rows right but for those that change.                *)
LEMMA RowsSame ==
  ASSUME NEW bs, NEW bs2, NEW counts, RowsRight(bs, counts), SamePlaces(bs, bs2, Slots),
         NEW S, \A s \in Slots \ S : bs2[s].rows = bs[s].rows,
         NEW counts2, \A s \in Slots \ S : counts2[s] = counts[s],
         \A s \in Slots \cap S : bs[s].node # None => RowsOf(bs2[s], counts2[s])
  PROVE  RowsRight(bs2, counts2)
BY DEF RowsRight, RowsOf, RowsLie, SamePlaces

(* A thread at a buffer knows its place. *)
LEMMA AtBuffer ==
  ASSUME IInv, NEW t \in Thread, pc[t] \in {"reserve", "fill", "compare"}
  PROVE  LET s == local[t].slot IN
           /\ s \in Slots /\ buffer[s].node = local[t].cur /\ buffer[s].node # None
           /\ buffer[s].addr = AddressIn(Entry(t), local[t].cur) /\ RowsOf(buffer[s], nextIndex[s])
           /\ s \in inUse /\ nextIndex[s] \in Int /\ DOMAIN buffer = Slots
           /\ DOMAIN buffer[s] = DOMAIN Cleared
           /\ Leads(buffer[s].node, buffer[s].addr, Key[Entry(t)])
<1> DEFINE s == local[t].slot
           n == local[t].cur
           e == Entry(t)
<1>1. pc[t] \in Calling
  BY DEF Calling, Labels
<1>2. /\ n \in LiveNodes(nodes) /\ n \in DOMAIN nodes /\ On(n, Key[e]) /\ n # None
      /\ nodes[n].cont[AddressIn(e, n)] = Buf(s) /\ AddressIn(e, n) \in HCAddresses
      /\ e \in Entries /\ NodesTyped(nodes, Slots)
  BY <1>1, CallFacts DEF Place, Known, Cont
<1>3. s \in Slots /\ buffer[s].node = n /\ buffer[s].addr = AddressIn(e, n) /\ DOMAIN buffer = Slots
      /\ DOMAIN buffer[s] = DOMAIN Cleared
  BY <1>2 DEF IInv, TreeInv, Hung
<1>4. RowsOf(buffer[s], nextIndex[s])
  BY <1>2, <1>3 DEF IInv, TreeInv, RowsRight
<1>5. s \in inUse /\ nextIndex[s] \in Int
  BY <1>2, <1>3, UsedHeld DEF IInv, UsedBuffers
<1>6. Leads(n, AddressIn(e, n), Key[e])
  <2>1. Len(Path(n)) < WIDTH /\ Len(Key[e]) = WIDTH
    BY <1>2, KeyType DEF NodesTyped
  <2> QED BY <1>2, <2>1 DEF Leads, Way, On, AddressIn
<1> QED BY <1>2, <1>3, <1>4, <1>5, <1>6

(* Recheck preserves the invariant.                                        *)
LEMMA RecheckInv == ASSUME IInv, NEW t \in Thread, Recheck(t), Step(t) PROVE IInv'
<1> DEFINE s == local[t].slot
           n == local[t].cur
<1>1. /\ pc[t] = "recheck" /\ pc[t] \in Calling
      /\ UNCHANGED <<nodes, deleted, poolVars, syncPhaseRequired, entryMap, pos>>
  BY DEF Recheck, Downgrade, Calling, Labels
<1>2. /\ Place("recheck", local[t], entryMap[t], Entry(t), nodes)
      /\ RowKnown("recheck", local[t], Entry(t), buffer)
      /\ NodesTyped(nodes, Slots)
      /\ \A k \in DOMAIN nodes : nodes[k].updates \in Nat
  BY <1>1, CallFacts
<1>3. CASE BufferFull(s)
  <2>1. /\ pc'[t] = "flushing" /\ pc'[t] \in Calling /\ local'[t] = local[t] /\ UNCHANGED writers
        /\ buffer' = [buffer EXCEPT ![s].flushing = TRUE]
    BY <1>3 DEF Recheck, GoTo, Calling, Labels, IInv, ControlInv, Shaped
  <2>2. s \in Slots /\ DOMAIN buffer = Slots
    BY <1>2 DEF RowKnown, IInv, TreeInv, Hung
  <2>3. /\ SamePlaces(buffer, buffer', Slots)
        /\ \A r \in Slots : buffer'[r].rows = buffer[r].rows /\ buffer'[r].complete = buffer[r].complete
    <3>1. \A r \in Slots : DOMAIN buffer[r] = {"node", "addr", "rows", "complete", "flushing"}
      BY DEF IInv, TreeInv, Hung, Cleared
    <3>2. \A r \in Slots : buffer'[r] = IF r = s THEN [buffer[r] EXCEPT !.flushing = TRUE] ELSE buffer[r]
      BY <2>1, <2>2
    <3> QED BY <2>1, <2>2, <3>1, <3>2 DEF SamePlaces
  <2>4. TreeInv'
    <3>1. Hung(nodes, buffer', Slots, DOMAIN Cleared)
      BY <2>3, HungSame DEF IInv, TreeInv
    <3>2. RowsRight(buffer', nextIndex)
      <4>1. RowsRight(buffer, nextIndex)
        BY DEF IInv, TreeInv
      <4> QED BY <2>3, <4>1 DEF RowsRight, RowsOf, RowsLie, SamePlaces
    <3> QED BY <1>1, <3>1, <3>2 DEF TreeInv, IInv, DeletedInv, poolVars
  <2>5. OthersKept(t)
    BY StepShape DEF IInv, ControlInv
  <2>6. FilledInv'
    <3> SUFFICES ASSUME NEW r \in Slots, NEW i \in DOMAIN buffer[r].rows, i \notin buffer[r].complete
                 PROVE  \E u \in Thread : pc'[u] = "fill" /\ local'[u].slot = r /\ local'[u].row = i
      BY <2>3 DEF FilledInv, Filling
    <3>1. PICK u \in Thread : pc[u] = "fill" /\ local[u].slot = r /\ local[u].row = i
      BY DEF FilledInv, Filling, IInv
    <3>2. pc'[u] = "fill" /\ local'[u] = local[u]
      BY <1>1, <2>5, <3>1 DEF OthersKept
    <3> QED BY <3>1, <3>2
  <2>7. UsedBuffers' = UsedBuffers
    BY <2>3 DEF UsedBuffers, Slots, SamePlaces
  <2>8. HeldInv'
    <3>1. \A u \in Thread : pc'[u] = "swap" <=> pc[u] = "swap"
      BY <1>1, <2>1, <2>5 DEF OthersKept
    <3>2. \A u \in Thread : pc[u] = "swap" => local'[u] = local[u]
      BY <1>1, <2>5 DEF OthersKept
    <3> QED BY <1>1, <2>7, <3>1, <3>2 DEF HeldInv, IInv, poolVars
  <2>9. PoolProofs!IInv'
    BY <1>1, <2>7 DEF IInv, PoolProofs!IInv, PoolProofs!TypeOK, PoolProofs!FreeListInv, PoolProofs!IsFreeList,
       PoolProofs!TailInv, PoolProofs!FlushInv, PoolProofs!Cleared, PoolProofs!Chunk, PoolProofs!ChunkSize,
       PoolProofs!Slots, PoolProofs!Parts, PoolProofs!None, poolVars
  <2>10. Landed(t)
    BY <1>1, <1>2, <2>1 DEF Landed, Place, Known, Remembered, RowKnown
  <2>11. WriteInv(t)'
    BY <1>1, <2>1 DEF IInv, ThreadInv, WriteInv
  <2>12. Grown(nodes, nodes')
    BY <1>1, <1>2, GrownSame
  <2>13. OwnInv(t)
    BY <1>1, <2>1, <2>10, <2>11, <2>12, CallFacts, WithinCall
  <2>14. LockedKept(t)
    BY <1>1 DEF LockedKept
  <2>15. TakenKept(t)
    <3>1. \A u \in Thread \ {t} : pc[u] \in {"fill", "compare"} => local[u].slot \in Slots
      BY AtBuffer
    <3> QED BY <2>3, <3>1 DEF TakenKept, Longer
  <2> QED BY <1>1, <1>2, <2>4, <2>6, <2>8, <2>9, <2>12, <2>13, <2>14, <2>15, TreeStep
<1>4. CASE ~BufferFull(s)
  <2>1. /\ pc'[t] = "downgrade" /\ pc'[t] \in Calling /\ UNCHANGED buffer
        /\ local'[t] = [NoLocal EXCEPT !.cur = n, !.seen = nodes[n].updates]
    BY <1>4 DEF Recheck, Downgrade, GoTo, SetLocal, Calling, Labels, IInv, ControlInv, Shaped
  <2>2. local'[t].cur = n /\ local'[t].last = None /\ local'[t].seen = nodes[n].updates
    BY <2>1 DEF NoLocal
  <2>3. Landed(t)
    BY <1>1, <1>2, <2>1, <2>2 DEF Landed, Place, Known, Remembered, RowKnown
  <2>4. OwnInv(t)
    BY <1>1, <2>1, <2>3, NoWrites, CallFacts, GrownSame, WithinCall
  <2> QED BY <1>1, <2>1, <2>4, QuietWalk
<1> QED BY <1>3, <1>4

(* A step completes the thread's own row, adds one for it to fill or       *)
(* leaves the rows alone.                                                  *)
LEMMA FilledStep ==
  ASSUME FilledInv, NEW t \in Thread, OthersKept(t),
         \A s \in Slots : \A i \in DOMAIN buffer'[s].rows :
           \/ i \in buffer'[s].complete
           \/ /\ i \in DOMAIN buffer[s].rows /\ buffer[s].complete \subseteq buffer'[s].complete
              /\ ~Filling(t, s, i)
           \/ pc'[t] = "fill" /\ local'[t].slot = s /\ local'[t].row = i
  PROVE  FilledInv'
<1> SUFFICES ASSUME NEW s \in Slots, NEW i \in DOMAIN buffer'[s].rows, i \notin buffer'[s].complete
             PROVE  \E u \in Thread : pc'[u] = "fill" /\ local'[u].slot = s /\ local'[u].row = i
  BY DEF FilledInv, Filling, Slots
<1>1. CASE pc'[t] = "fill" /\ local'[t].slot = s /\ local'[t].row = i
  BY <1>1
<1>2. CASE ~(pc'[t] = "fill" /\ local'[t].slot = s /\ local'[t].row = i)
  <2>1. /\ i \in DOMAIN buffer[s].rows /\ buffer[s].complete \subseteq buffer'[s].complete
        /\ ~Filling(t, s, i)
    BY <1>2
  <2>2. PICK u \in Thread : Filling(u, s, i)
    BY <2>1 DEF FilledInv
  <2>3. u # t
    BY <2>1, <2>2
  <2>4. pc'[u] = pc[u] /\ local'[u] = local[u]
    BY <2>3 DEF OthersKept
  <2> QED BY <2>2, <2>4 DEF Filling
<1> QED BY <1>1, <1>2

(* The buffers taken and not hung up stay their threads'.                  *)
LEMMA HeldStep ==
  ASSUME HeldInv, NEW t \in Thread, OthersKept(t), pc[t] # "swap", pc'[t] # "swap",
         inUse' \ UsedBuffers' = inUse \ UsedBuffers
  PROVE  HeldInv'
<1>1. \A u \in Thread : pc'[u] = "swap" <=> pc[u] = "swap"
  BY DEF OthersKept
<1>2. \A u \in Thread : pc[u] = "swap" => local'[u] = local[u]
  BY DEF OthersKept
<1> QED BY <1>1, <1>2 DEF HeldInv

(* The pool stays if its variables and the used buffers do.                *)
LEMMA PoolStays ==
  ASSUME PoolProofs!IInv, UNCHANGED poolVars, UsedBuffers' = UsedBuffers
  PROVE  PoolProofs!IInv'
BY DEF PoolProofs!IInv, PoolProofs!TypeOK, PoolProofs!FreeListInv, PoolProofs!IsFreeList,
       PoolProofs!TailInv, PoolProofs!FlushInv, PoolProofs!Cleared, PoolProofs!Chunk, PoolProofs!ChunkSize,
       PoolProofs!Slots, PoolProofs!Parts, PoolProofs!None, poolVars

(* Another row fits a buffer with room. *)
LEMMA RowAdded ==
  ASSUME NEW b, NEW b2, NEW count \in Int, NEW e \in Entries, RowsOf(b, count), Leads(b.node, b.addr, Key[e]),
         count < BufferCapacity,
         b2.node = b.node, b2.addr = b.addr, b2.rows = Append(b.rows, e)
  PROVE  /\ RowsOf(b2, count + 1)
         /\ DOMAIN b2.rows = DOMAIN b.rows \cup {count + 1}
         /\ count + 1 \notin DOMAIN b.rows
         /\ Longer(b.rows, b2.rows) /\ b2.rows[count + 1] = e
<1> DEFINE r == b.rows
           r2 == b2.rows
<1>1. r \in Seq(Entries) /\ Len(r) = count /\ Len(r) >= 2 /\ BufferCapacity \in Nat
  BY BufferAssumption DEF RowsOf, RowsLie
<1>2. r2 = Append(r, e)
  OBVIOUS
<1>3. /\ r2 \in Seq(Entries) /\ Len(r2) = count + 1
      /\ \A i \in 1 .. count : r2[i] = r[i]
      /\ r2[count + 1] = e
  <2> HIDE DEF r, r2
  <2> QED BY <1>1, <1>2, AppendProperties
<1>4. DOMAIN r = 1 .. count /\ DOMAIN r2 = 1 .. count + 1 /\ count \in Nat /\ count >= 2
  <2> HIDE DEF r, r2
  <2> QED BY <1>1, <1>3, LenProperties
<1>5. \A i \in DOMAIN r2 : Leads(b2.node, b2.addr, Key[r2[i]])
  <2>1. \A i \in DOMAIN r : Leads(b.node, b.addr, Key[r[i]])
    BY DEF RowsOf, RowsLie
  <2> HIDE DEF r, r2
  <2> QED BY <1>3, <1>4, <2>1
<1>6. Key[r2[1]] # Key[r2[2]]
  <2>1. Key[r[1]] # Key[r[2]]
    BY DEF RowsOf, RowsLie
  <2> HIDE DEF r, r2
  <2> QED BY <1>3, <1>4, <2>1
<1>7. Len(r2) = IF count + 1 <= BufferCapacity THEN count + 1 ELSE BufferCapacity
  <2> HIDE DEF r2
  <2> QED BY <1>1, <1>3
<1>8. RowsOf(b2, count + 1)
  <2>1. Len(r2) >= 2
    <3> HIDE DEF r2
    <3> QED BY <1>3, <1>4
  <2> QED BY <1>3, <1>5, <1>6, <1>7, <2>1 DEF RowsOf, RowsLie
<1>9. DOMAIN r2 = DOMAIN r \cup {count + 1} /\ count + 1 \notin DOMAIN r /\ Longer(r, r2)
  <2> HIDE DEF r, r2
  <2> QED BY <1>3, <1>4 DEF Longer
<1> QED BY <1>3, <1>8, <1>9

(* Fill preserves the invariant: it writes the thread's own row.           *)
LEMMA FillInv == ASSUME IInv, NEW t \in Thread, Fill(t), Step(t) PROVE IInv'
<1> DEFINE s == local[t].slot
           e == Entry(t)
<1>1. /\ pc[t] = "fill" /\ pc[t] \in Calling /\ pc'[t] = "compare" /\ pc'[t] \in Calling
      /\ buffer' = [buffer EXCEPT ![s].complete = @ \cup {local[t].row}]
      /\ UNCHANGED <<nodes, poolVars, readers, writers, syncPhaseRequired, deleted, entryMap, pos, local>>
  BY DEF Fill, GoTo, Calling, Labels, IInv, ControlInv, Shaped
<1>2. /\ Place("fill", local[t], entryMap[t], e, nodes)
      /\ Known("fill", local[t], e, nodes)
      /\ RowKnown("fill", local[t], e, buffer)
      /\ NodesTyped(nodes, Slots)
  BY <1>1, CallFacts
<1>3. s \in Slots /\ DOMAIN buffer = Slots
  BY <1>1, AtBuffer
<1>4. /\ SamePlaces(buffer, buffer', Slots)
      /\ \A r \in Slots : buffer'[r].rows = buffer[r].rows /\ buffer[r].complete \subseteq buffer'[r].complete
      /\ local[t].row \in buffer'[s].complete
  <2>1. \A r \in Slots : DOMAIN buffer[r] = {"node", "addr", "rows", "complete", "flushing"}
    BY DEF IInv, TreeInv, Hung, Cleared
  <2>2. \A r \in Slots : buffer'[r] = IF r = s THEN [buffer[r] EXCEPT !.complete = @ \cup {local[t].row}] ELSE buffer[r]
    BY <1>1, <1>3
  <2> QED BY <1>1, <1>3, <2>1, <2>2 DEF SamePlaces
<1>5. TreeInv'
  <2>1. Hung(nodes, buffer', Slots, DOMAIN Cleared)
    BY <1>4, HungSame DEF IInv, TreeInv
  <2>2. RowsRight(buffer', nextIndex)
    <3>1. RowsRight(buffer, nextIndex)
      BY DEF IInv, TreeInv
    <3> QED BY <1>4, <3>1 DEF RowsRight, RowsOf, RowsLie, SamePlaces
  <2> QED BY <1>1, <2>1, <2>2 DEF TreeInv, IInv, DeletedInv, poolVars
<1>6. OthersKept(t)
  BY StepShape DEF IInv, ControlInv
<1>7. FilledInv'
  <2>1. \A r \in Slots : \A i \in DOMAIN buffer'[r].rows :
          i \in buffer'[r].complete \/ /\ i \in DOMAIN buffer[r].rows
                                       /\ buffer[r].complete \subseteq buffer'[r].complete
                                       /\ ~Filling(t, r, i)
    BY <1>4 DEF Filling
  <2>2. FilledInv
    BY DEF IInv
  <2> QED BY <1>6, <2>1, <2>2, FilledStep
<1>8. UsedBuffers' = UsedBuffers
  BY <1>4 DEF UsedBuffers, Slots, SamePlaces
<1>9. HeldInv'
  BY <1>1, <1>6, <1>8, HeldStep DEF IInv, poolVars
<1>10. PoolProofs!IInv'
  BY <1>1, <1>8, PoolStays DEF IInv
<1>11. Landed(t)
  <2>1. \A i \in DOMAIN buffer[s].rows : i \in DOMAIN buffer'[s].rows /\ buffer'[s].rows[i] = buffer[s].rows[i]
    BY <1>3, <1>4
  <2>2. RowKnown("compare", local[t], e, buffer')
    BY <1>2, <2>1 DEF RowKnown
  <2> QED BY <1>1, <1>2, <2>2 DEF Landed, Place, Known, Remembered
<1>12. Grown(nodes, nodes')
  BY <1>1, <1>2, GrownSame
<1>13. OwnInv(t)
  BY <1>1, <1>11, <1>12, NoWrites, CallFacts, WithinCall
<1>14. LockedKept(t)
  BY <1>1 DEF LockedKept
<1>15. TakenKept(t)
  <2>1. \A u \in Thread \ {t} : pc[u] \in {"fill", "compare"} => local[u].slot \in Slots
    BY AtBuffer
  <2> QED BY <1>4, <2>1 DEF TakenKept, Longer
<1> QED BY <1>1, <1>2, <1>5, <1>7, <1>9, <1>10, <1>12, <1>13, <1>14, <1>15, TreeStep

(* Reserve preserves the invariant: two threads never get one row.         *)
LEMMA ReserveInv == ASSUME IInv, NEW t \in Thread, Reserve(t), Step(t) PROVE IInv'
<1> DEFINE s == local[t].slot
           n == local[t].cur
           e == Entry(t)
           c == nextIndex[s]
<1>1. /\ pc[t] = "reserve" /\ pc[t] \in Calling
      /\ nextIndex' = [nextIndex EXCEPT ![s] = c + 1]
      /\ UNCHANGED <<nodes, headIndex, nInitialized, nFree, inUse, syncPhaseRequired, deleted, entryMap, pos>>
  BY DEF Reserve, Restart, Calling, Labels
<1>2. /\ Place("reserve", local[t], entryMap[t], e, nodes)
      /\ Known("reserve", local[t], e, nodes)
      /\ NodesTyped(nodes, Slots) /\ e \in Entries /\ DOMAIN local[t] = DOMAIN NoLocal
      /\ MapOK(entryMap[t], nodes) /\ OnAll(entryMap[t], Key[e])
  BY <1>1, CallFacts
<1>3. /\ s \in Slots /\ buffer[s].node # None /\ RowsOf(buffer[s], c)
      /\ s \in inUse /\ c \in Int /\ DOMAIN buffer = Slots /\ DOMAIN buffer[s] = DOMAIN Cleared
      /\ Leads(buffer[s].node, buffer[s].addr, Key[e])
  BY <1>1, AtBuffer
<1>4. OthersKept(t)
  BY StepShape DEF IInv, ControlInv
<1>5. /\ nextIndex'[s] = c + 1 /\ \A r \in Slots \ {s} : nextIndex'[r] = nextIndex[r]
      /\ c + 1 \in Int
  BY <1>1, <1>3, UsedHeld DEF IInv
<1>6. Hung(nodes, buffer, Slots, DOMAIN Cleared) /\ RowsRight(buffer, nextIndex)
  BY DEF IInv, TreeInv
<1>7. UsedBuffers \subseteq UsedBuffers \cup {s}
  OBVIOUS
<1>8. CASE c >= BufferCapacity
  <2>1. pc'[t] = "start" /\ UNCHANGED buffer
    BY <1>8 DEF Reserve, Restart, GoTo, IInv, ControlInv, Shaped
  <2>2. RowsRight(buffer, nextIndex')
    <3>1. RowsOf(buffer[s], c + 1)
      BY <1>3, <1>8, BufferAssumption DEF RowsOf, RowsLie
    <3>2. \A r \in Slots \ {s} : buffer[r].node # None => RowsOf(buffer[r], nextIndex'[r])
      BY <1>5, <1>6 DEF RowsRight
    <3> QED BY <1>5, <3>1, <3>2 DEF RowsRight
  <2>3. HeldInv'
    BY <1>1, <1>4, <2>1, HeldKept DEF IInv
  <2>4. UsedBuffers' = UsedBuffers
    BY <2>1 DEF UsedBuffers, Slots
  <2>5. PoolProofs!IInv'
    BY <1>1, <1>3, <1>5, <2>4, CountChanged DEF IInv
  <2>6. OwnInv(t)
    BY <1>1, <1>2, <2>1, GrownSame, Restarted
  <2> QED BY <1>1, <2>1, <2>2, <2>3, <2>5, <2>6, QuietStep
<1>9. CASE c < BufferCapacity
  <2>1. /\ pc'[t] = "fill" /\ pc'[t] \in Calling /\ UNCHANGED <<readers, writers>>
        /\ local'[t] = [local[t] EXCEPT !.row = c + 1]
        /\ buffer' = [buffer EXCEPT ![s].rows = Append(@, e)]
    BY <1>3, <1>9, BufferAssumption DEF Reserve, GoTo, SetLocal, Calling, Labels, IInv, ControlInv, Shaped
  <2>2. /\ local'[t].cur = n /\ local'[t].last = local[t].last /\ local'[t].slot = s
        /\ local'[t].row = c + 1
    BY <1>2, <2>1 DEF NoLocal
  <2>3. /\ SamePlaces(buffer, buffer', Slots)
        /\ \A r \in Slots : buffer'[r].complete = buffer[r].complete
        /\ \A r \in Slots \ {s} : buffer'[r] = buffer[r]
        /\ buffer'[s].rows = Append(buffer[s].rows, e)
    <3>1. \A r \in Slots : DOMAIN buffer[r] = {"node", "addr", "rows", "complete", "flushing"}
      BY DEF IInv, TreeInv, Hung, Cleared
    <3>2. \A r \in Slots : buffer'[r] = IF r = s THEN [buffer[r] EXCEPT !.rows = Append(@, e)] ELSE buffer[r]
      BY <1>3, <2>1
    <3> QED BY <1>3, <2>1, <3>1, <3>2 DEF SamePlaces
  <2>4. /\ RowsOf(buffer'[s], c + 1)
        /\ DOMAIN buffer'[s].rows = DOMAIN buffer[s].rows \cup {c + 1}
        /\ Longer(buffer[s].rows, buffer'[s].rows) /\ buffer'[s].rows[c + 1] = e
    <3> DEFINE b == buffer[s]
               b2 == buffer'[s]
    <3>1. /\ b2.node = b.node /\ b2.addr = b.addr /\ b2.rows = Append(b.rows, e)
          /\ e \in Entries /\ c \in Int /\ RowsOf(b, c) /\ Leads(b.node, b.addr, Key[e])
          /\ c < BufferCapacity
      BY <1>2, <1>3, <1>9, <2>3 DEF SamePlaces
    <3> HIDE DEF b, b2, c, e
    <3>2. /\ RowsOf(b2, c + 1)
          /\ DOMAIN b2.rows = DOMAIN b.rows \cup {c + 1}
          /\ Longer(b.rows, b2.rows) /\ b2.rows[c + 1] = e
      BY <3>1, RowAdded, ZenonT(30)
    <3> QED BY <3>2 DEF b, b2
  <2>5. TreeInv'
    <3>1. Hung(nodes, buffer', Slots, DOMAIN Cleared)
      <4>1. \A r \in Slots : buffer[r].node = None => buffer'[r].rows = buffer[r].rows
        BY <1>3, <2>3
      <4> QED BY <1>6, <2>3, <4>1, HungSame
    <3>2. RowsRight(buffer', nextIndex')
      <4>1. \A r \in Slots \ {s} : buffer'[r].node # None => RowsOf(buffer'[r], nextIndex'[r])
        BY <1>5, <1>6, <2>3 DEF RowsRight
      <4>2. \A r \in Slots : buffer'[r].node # None => RowsOf(buffer'[r], nextIndex'[r])
        <5> TAKE r \in Slots
        <5>1. CASE r = s
          BY <1>5, <2>4, <5>1
        <5>2. CASE r # s
          BY <4>1, <5>2
        <5> QED BY <5>1, <5>2
      <4> QED BY <4>2 DEF RowsRight
    <3>3. Sound(nodes', Slots) /\ DeletedInv' /\ Root \in LiveNodes(nodes')
      BY <1>1 DEF IInv, TreeInv, DeletedInv
    <3>4. nodes' = nodes /\ Slots' = Slots
      BY <1>1 DEF Slots
    <3> QED BY <3>1, <3>2, <3>3, <3>4 DEF TreeInv
  <2>6. FilledInv'
    <3>1. \A r \in Slots : \A i \in DOMAIN buffer'[r].rows :
            \/ i \in DOMAIN buffer[r].rows /\ buffer[r].complete \subseteq buffer'[r].complete /\ ~Filling(t, r, i)
            \/ pc'[t] = "fill" /\ local'[t].slot = r /\ local'[t].row = i
      BY <1>1, <2>1, <2>2, <2>3, <2>4 DEF Filling
    <3>2. FilledInv
      BY DEF IInv
    <3> QED BY <1>4, <3>1, <3>2, FilledStep
  <2>7. UsedBuffers' = UsedBuffers
    BY <2>3 DEF UsedBuffers, Slots, SamePlaces
  <2>8. HeldInv'
    BY <1>1, <1>4, <2>1, <2>7, HeldStep DEF IInv
  <2>9. PoolProofs!IInv'
    BY <1>1, <1>3, <1>5, <2>7, CountChanged DEF IInv
  <2>10. Landed(t)
    <3>1. RowKnown("fill", local'[t], e, buffer')
      BY <2>2, <2>4 DEF RowKnown
    <3> QED BY <1>1, <1>2, <2>1, <2>2, <3>1 DEF Landed, Place, Known, Remembered
  <2>11. Grown(nodes, nodes')
    BY <1>1, <1>2, GrownSame
  <2>12. OwnInv(t)
    BY <1>1, <2>1, <2>10, <2>11, NoWrites, CallFacts, WithinCall
  <2>13. LockedKept(t)
    BY <1>1 DEF LockedKept
  <2>14. TakenKept(t)
    <3>1. \A u \in Thread \ {t} : pc[u] \in {"fill", "compare"} => local[u].slot \in Slots
      BY AtBuffer
    <3> QED BY <2>3, <2>4, <3>1 DEF TakenKept, Longer
  <2>15. NodesTyped(nodes', Slots)
    BY <1>1, <1>2
  <2> QED BY <1>1, <2>5, <2>6, <2>8, <2>9, <2>11, <2>12, <2>13, <2>14, <2>15, TreeStep
<1>10. BufferCapacity \in Int
  BY BufferAssumption
<1> QED BY <1>3, <1>8, <1>9, <1>10

(* Locks are held of nodes in the tree. *)
LEMMA LocksOnNodes ==
  ASSUME IInv, NEW u \in Thread, NEW n, <<u, n>> \in readers \cup writers
  PROVE  n \in LiveNodes(nodes) /\ n \in DOMAIN nodes
<1>1. CASE <<u, n>> \in writers
  BY <1>1 DEF IInv, ThreadInv, WriteInv, LiveNodes
<1>2. CASE <<u, n>> \in readers
  <2>1. n \in ReadLocks(u)
    BY <1>2 DEF IInv, ControlInv, LockInv
  <2>2. pc[u] \in Calling /\ pc[u] # "start" /\ pc[u] \in {"visit", "lockchild", "reserve", "fill", "compare"}
    BY <2>1 DEF ReadLocks, Calling, Labels
  <2>3. Known(pc[u], local[u], Entry(u), nodes)
    BY <2>2, CallFacts
  <2>4. n \in LiveNodes(nodes)
    BY <2>1, <2>2, <2>3 DEF Known, ReadLocks
  <2> QED BY <2>4 DEF LiveNodes
<1> QED BY <1>1, <1>2

(* A node that is changed counts it. *)
Counted(ns, ns2, n) ==
  /\ DOMAIN ns2 = DOMAIN ns
  /\ \A k \in DOMAIN ns : k # n => ns2[k] = ns[k]
  /\ ns2[n].prefix = ns[n].prefix /\ ns2[n].max = ns[n].max
  /\ ns2[n].removed = ns[n].removed /\ ns2[n].updates = ns[n].updates + 1

(* A change that is counted in its node has Grown.                         *)
LEMMA CountedGrown ==
  ASSUME NEW ns, NEW slots, NodesTyped(ns, slots), NEW n \in LiveNodes(ns), NEW ns2, Counted(ns, ns2, n)
  PROVE  Grown(ns, ns2) /\ LiveNodes(ns2) = LiveNodes(ns)
<1>1. \A k \in DOMAIN ns : ns[k].updates \in Nat
  BY DEF NodesTyped, NodeFields
<1>2. n \in DOMAIN ns /\ ~ns[n].removed
  BY DEF LiveNodes
<1>3. \A k \in DOMAIN ns :
       /\ ns2[k].prefix = ns[k].prefix /\ ns2[k].max = ns[k].max
       /\ ns[k].updates <= ns2[k].updates
       /\ ns[k].removed => ns2[k] = ns[k]
       /\ ns2[k].updates = ns[k].updates =>
            /\ ns2[k].removed = ns[k].removed
            /\ \A a \in HCAddresses : SameOrFlushed(ns[k].cont[a], ns2[k].cont[a])
  <2> TAKE k \in DOMAIN ns
  <2>1. CASE k = n
    BY <1>1, <1>2, <2>1 DEF Counted
  <2>2. CASE k # n
    BY <1>1, <2>2 DEF Counted, SameOrFlushed
  <2> QED BY <2>1, <2>2
<1>4. LiveNodes(ns2) = LiveNodes(ns)
  BY <1>2 DEF LiveNodes, Counted
<1> QED BY <1>3, <1>4 DEF Grown, Counted

(* A change of a node nobody has locked leaves the locked ones.            *)
LEMMA CountedKept ==
  ASSUME IInv, NEW t \in Thread, NEW n, Unlocked(n), Counted(nodes, nodes', n)
  PROVE  LockedKept(t)
<1> SUFFICES ASSUME NEW u \in Thread \ {t}, NEW k, <<u, k>> \in readers \cup writers
             PROVE  nodes'[k] = nodes[k]
  BY DEF LockedKept
<1>1. k \in DOMAIN nodes
  BY LocksOnNodes
<1>2. k # n
  BY DEF Unlocked, NoWriter
<1> QED BY <1>1, <1>2 DEF Counted

(* A change that is counted removes no node.                               *)
LEMMA CountedDeleted ==
  ASSUME DeletedInv, UNCHANGED deleted, NEW n, Counted(nodes, nodes', n)
  PROVE  DeletedInv'
<1>1. \A k \in DOMAIN nodes : nodes'[k].removed = nodes[k].removed
  BY DEF Counted
<1> QED BY <1>1 DEF DeletedInv, Counted

(* InsertSuffix preserves the invariant: the counter shows that the        *)
(* address is still free.                                                  *)
LEMMA InsertSuffixInv == ASSUME IInv, NEW t \in Thread, InsertSuffix(t), Step(t)
                         PROVE IInv' /\ Grown(nodes, nodes')
<1> DEFINE n == local[t].cur
           e == Entry(t)
           a == AddressIn(e, n)
<1>1. /\ pc[t] = "insert" /\ pc[t] \in Calling /\ Unlocked(n)
      /\ UNCHANGED <<poolVars, buffer, syncPhaseRequired, deleted, entryMap>>
  BY DEF InsertSuffix, Calling, Labels
<1>2. /\ Place("insert", local[t], entryMap[t], e, nodes)
      /\ Remembered("insert", local[t], e, nodes)
      /\ NodesTyped(nodes, Slots) /\ e \in Entries
      /\ n \in DOMAIN nodes /\ a \in HCAddresses /\ On(n, Key[e])
      /\ MapOK(entryMap[t], nodes) /\ OnAll(entryMap[t], Key[e])
  BY <1>1, CallFacts DEF Place
<1>3. CASE ~Valid(n, local[t].seen)
  <2>1. pc'[t] = "start" /\ UNCHANGED <<nodes, pos>>
    BY <1>3 DEF InsertSuffix, Restart, GoTo, IInv, ControlInv, Shaped
  <2>2. OwnInv(t)
    BY <1>1, <1>2, <2>1, GrownSame, Restarted
  <2> QED BY <1>1, <1>2, <2>1, <2>2, QuietWalk, GrownSame
<1>4. CASE Valid(n, local[t].seen)
  <2>1. /\ nodes' = Put(nodes, n, a, Suffix(e)) /\ pc'[t] = "next" /\ pos'[t] = pos[t] + 1
    BY <1>4 DEF InsertSuffix, SetContent, Put, Finish, GoTo, IInv, ControlInv, Shaped
  <2>2. nodes[n].cont[a] = Empty /\ ~IsFull(nodes[n]) /\ n \in LiveNodes(nodes)
    BY <1>2, <1>4 DEF Remembered, Since, Valid, Cont, LiveNodes
  <2>3. Leads(n, a, Key[e])
    <3>1. Len(Path(n)) < WIDTH /\ Len(Key[e]) = WIDTH
      BY <1>2, KeyType DEF NodesTyped
    <3> QED BY <1>2, <3>1 DEF Leads, Way, On, AddressIn
  <2>4. Sound(nodes', Slots)
    <3>1. Sound(nodes, Slots)
      BY DEF IInv, TreeInv
    <3> QED BY <1>2, <2>1, <2>2, <2>3, <3>1, PutSound
  <2>5. /\ Counted(nodes, nodes', n)
        /\ \A b \in HCAddresses : b # a => nodes'[n].cont[b] = nodes[n].cont[b]
        /\ nodes'[n].cont[a] = Suffix(e)
    BY <1>2, <2>1, PutIs DEF Counted
  <2>6. Grown(nodes, nodes') /\ LiveNodes(nodes') = LiveNodes(nodes)
    BY <1>2, <2>2, <2>5, CountedGrown
  <2>7. Hung(nodes', buffer, Slots, DOMAIN Cleared)
    <3>1. \A k \in LiveNodes(nodes), b \in HCAddresses : \A s :
            nodes'[k].cont[b] = Buf(s) <=> nodes[k].cont[b] = Buf(s)
      <4> TAKE k \in LiveNodes(nodes), b \in HCAddresses
      <4> TAKE s
      <4>1. CASE k = n /\ b = a
        BY <2>2, <2>5, <4>1, SubNotEmpty
      <4>2. CASE k = n /\ b # a
        BY <2>5, <4>2
      <4>3. CASE k # n
        BY <2>5, <4>3 DEF Counted, LiveNodes
      <4> QED BY <4>1, <4>2, <4>3
    <3>2. Hung(nodes, buffer, Slots, DOMAIN Cleared)
      BY DEF IInv, TreeInv
    <3> QED BY <2>6, <3>1, <3>2, HungAlike
  <2>8. TreeInv'
    <3>1. DeletedInv'
      BY <1>1, <2>5, CountedDeleted DEF IInv, TreeInv
    <3>2. RowsRight(buffer, nextIndex)
      BY DEF IInv, TreeInv
    <3>3. Root \in LiveNodes(nodes')
      BY <2>6 DEF IInv, TreeInv
    <3> QED BY <1>1, <2>4, <2>7, <3>1, <3>2, <3>3 DEF TreeInv, poolVars, Slots
  <2>9. OthersKept(t)
    BY StepShape DEF IInv, ControlInv
  <2>10. FilledInv'
    BY <1>1, <2>9, FilledKept DEF IInv
  <2>11. HeldInv'
    BY <1>1, <2>1, <2>9, HeldKept DEF IInv, poolVars
  <2>12. PoolProofs!IInv'
    BY <1>1, PoolKept DEF IInv
  <2>13. LockedKept(t)
    BY <1>1, <2>5, CountedKept
  <2>14. TakenKept(t)
    BY <1>1 DEF TakenKept, Longer
  <2>15. OwnInv(t)
    BY <1>1, <2>1, <2>6, Finished
  <2>16. NodesTyped(nodes', Slots)
    BY <2>4 DEF Sound
  <2> QED BY <1>1, <2>6, <2>8, <2>10, <2>11, <2>12, <2>13, <2>14, <2>15, <2>16, TreeStep
<1> QED BY <1>3, <1>4

(* A thread gives the buffer it holds back, or hangs it into the tree.     *)
LEMMA HeldGiven ==
  ASSUME HeldInv, NEW t \in Thread, OthersKept(t), pc[t] = "swap", pc'[t] # "swap",
         inUse' \ UsedBuffers' = (inUse \ UsedBuffers) \ {local[t].slot}
  PROVE  HeldInv'
<1>1. \A u \in Thread : pc'[u] = "swap" <=> pc[u] = "swap" /\ u # t
  BY DEF OthersKept
<1>2. \A u \in Thread : u # t => local'[u] = local[u]
  BY DEF OthersKept
<1>3. \A u \in Thread : pc'[u] = "swap" => local'[u].slot \in inUse' \ UsedBuffers'
  BY <1>1, <1>2 DEF HeldInv
<1>4. \A u, v \in Thread : pc'[u] = "swap" /\ pc'[v] = "swap" /\ local'[u].slot = local'[v].slot => u = v
  BY <1>1, <1>2 DEF HeldInv
<1>5. \A s \in inUse' \ UsedBuffers' : \E u \in Thread : pc'[u] = "swap" /\ local'[u].slot = s
  BY <1>1, <1>2 DEF HeldInv
<1> QED BY <1>3, <1>4, <1>5 DEF HeldInv

(* A thread about to swap a suffix. *)
LEMMA AtSuffix ==
  ASSUME IInv, NEW t \in Thread, pc[t] = "swap"
  PROVE  /\ local[t].slot \in Slots /\ local[t].slot \in inUse /\ local[t].slot \notin UsedBuffers
         /\ buffer[local[t].slot].node = None /\ pc[t] \in Calling
         /\ UsedBuffers \subseteq inUse
<1>1. local[t].slot \in inUse \ UsedBuffers
  BY DEF IInv, HeldInv
<1>2. UsedBuffers \subseteq inUse /\ inUse \subseteq Slots
  BY UsedHeld DEF IInv
<1> QED BY <1>1, <1>2 DEF UsedBuffers, Calling, Labels

(* The counter of a buffer not in use does not matter.                     *)
LEMMA CountsKept ==
  ASSUME NEW bs, NEW counts, RowsRight(bs, counts), NEW s, bs[s].node = None, NEW counts2,
         \A r \in Slots \ {s} : counts2[r] = counts[r]
  PROVE  RowsRight(bs, counts2)
<1> SUFFICES ASSUME NEW r \in Slots, bs[r].node # None
             PROVE  RowsOf(bs[r], counts2[r])
  BY DEF RowsRight
<1>1. r # s
  OBVIOUS
<1> QED BY <1>1 DEF RowsRight

(* The buffer goes back to the pool. *)
LEMMA SwapGivenBack ==
  ASSUME IInv, NEW t \in Thread, Step(t), pc[t] = "swap", pc'[t] # "swap",
         Pool!Deallocate(local[t].slot), UNCHANGED buffer
  PROVE  /\ PoolProofs!IInv' /\ HeldInv' /\ RowsRight(buffer, nextIndex')
<1> DEFINE s == local[t].slot
<1>1. /\ s \in Slots /\ s \in inUse /\ s \notin UsedBuffers /\ buffer[s].node = None
      /\ UsedBuffers \subseteq inUse
  BY AtSuffix
<1>2. UsedBuffers' = UsedBuffers /\ UsedBuffers = UsedBuffers \ {s}
  BY <1>1 DEF UsedBuffers, Slots
<1>3. /\ PoolProofs!IInv' /\ inUse' = inUse \ {s}
      /\ \A r \in Slots \ {s} : nextIndex'[r] = nextIndex[r]
  BY <1>1, <1>2, GiveBack DEF IInv
<1>4. inUse' \ UsedBuffers' = (inUse \ UsedBuffers) \ {s}
  BY <1>2, <1>3
<1>5. OthersKept(t)
  BY StepShape DEF IInv, ControlInv
<1>6. HeldInv'
  BY <1>4, <1>5, HeldGiven DEF IInv
<1>7. RowsRight(buffer, nextIndex')
  <2>1. RowsRight(buffer, nextIndex)
    BY DEF IInv, TreeInv
  <2> HIDE DEF s
  <2> QED BY <1>1, <1>3, <2>1, CountsKept
<1> QED BY <1>3, <1>6, <1>7

(* SwapSuffix preserves the invariant: the counter shows that the suffix   *)
(* is still there.                                                         *)
LEMMA SwapSuffixInv == ASSUME IInv, NEW t \in Thread, SwapSuffix(t), Step(t)
                       PROVE IInv' /\ Grown(nodes, nodes')
<1> DEFINE n == local[t].cur
           e == Entry(t)
           a == AddressIn(e, n)
           s == local[t].slot
           old == nodes[n].cont[a].entry
<1>1. /\ pc[t] = "swap" /\ pc[t] \in Calling /\ Unlocked(n)
      /\ UNCHANGED <<syncPhaseRequired, deleted, entryMap>>
  BY DEF SwapSuffix, Calling, Labels
<1>2. /\ Place("swap", local[t], entryMap[t], e, nodes)
      /\ Remembered("swap", local[t], e, nodes)
      /\ NodesTyped(nodes, Slots) /\ e \in Entries
      /\ n \in DOMAIN nodes /\ a \in HCAddresses /\ On(n, Key[e]) /\ n # None
      /\ MapOK(entryMap[t], nodes) /\ OnAll(entryMap[t], Key[e])
  BY <1>1, CallFacts DEF Place
<1>3. OthersKept(t)
  BY StepShape DEF IInv, ControlInv
<1>4. CASE ~Valid(n, local[t].seen)
  <2>1. pc'[t] = "start" /\ UNCHANGED <<nodes, buffer, pos>> /\ Pool!Deallocate(s)
    BY <1>4 DEF SwapSuffix, Restart, GoTo, IInv, ControlInv, Shaped
  <2>2. OwnInv(t)
    BY <1>1, <1>2, <2>1, GrownSame, Restarted
  <2>3. PoolProofs!IInv' /\ HeldInv' /\ RowsRight(buffer, nextIndex')
    BY <1>1, <2>1, SwapGivenBack
  <2> QED BY <1>1, <1>2, <2>1, <2>2, <2>3, QuietStep, GrownSame
<1>5. CASE Valid(n, local[t].seen)
  <2>1. PICK f \in Entries : nodes[n].cont[a] = Suffix(f)
    BY <1>2, <1>5 DEF Remembered, Since, Valid, Cont
  <2>2. n \in LiveNodes(nodes) /\ old = f
    BY <1>2, <1>5, <2>1, Kinds DEF Valid, LiveNodes
  <2>3. Sound(nodes, Slots) /\ Hung(nodes, buffer, Slots, DOMAIN Cleared) /\ RowsRight(buffer, nextIndex) /\ DeletedInv
    BY DEF IInv, TreeInv
  <2> HIDE DEF old
  <2>4. CASE Key[f] = Key[e]
    <3>1. /\ Pool!Deallocate(s) /\ nodes' = Touch(nodes, n) /\ UNCHANGED buffer
          /\ pc'[t] = "next" /\ pos'[t] = pos[t] + 1
      BY <1>5, <2>2, <2>4 DEF SwapSuffix, Touch, Finish, GoTo, IInv, ControlInv, Shaped, old
    <3>2. PoolProofs!IInv' /\ HeldInv' /\ RowsRight(buffer, nextIndex')
      BY <1>1, <3>1, SwapGivenBack
    <3>3. Counted(nodes, nodes', n) /\ nodes'[n].cont = nodes[n].cont
      BY <1>2, <3>1, TouchIs DEF Counted
    <3>4. Grown(nodes, nodes') /\ LiveNodes(nodes') = LiveNodes(nodes)
      BY <1>2, <2>2, <3>3, CountedGrown
    <3>5. Hung(nodes', buffer, Slots, DOMAIN Cleared)
      <4>1. \A k \in LiveNodes(nodes) : nodes'[k].cont = nodes[k].cont
        BY <3>3 DEF Counted, LiveNodes
      <4> QED BY <2>3, <3>4, <4>1, HungAlike
    <3>6. Sound(nodes', Slots)
      BY <1>2, <2>3, <3>1, TouchSound
    <3>7. TreeInv'
      <4>1. DeletedInv'
        BY <1>1, <2>3, <3>3, CountedDeleted
      <4>2. Root \in LiveNodes(nodes')
        BY <3>4 DEF IInv, TreeInv
      <4> QED BY <3>1, <3>2, <3>5, <3>6, <4>1, <4>2 DEF TreeInv, Slots
    <3>8. FilledInv'
      BY <1>1, <1>3, <3>1, FilledKept DEF IInv
    <3>9. LockedKept(t)
      BY <1>1, <3>3, CountedKept
    <3>10. TakenKept(t)
      BY <3>1 DEF TakenKept, Longer
    <3>11. OwnInv(t)
      BY <1>1, <3>1, <3>4, Finished
    <3>12. NodesTyped(nodes', Slots)
      BY <3>6 DEF Sound
    <3> QED BY <1>1, <3>2, <3>4, <3>7, <3>8, <3>9, <3>10, <3>11, <3>12, TreeStep
  <2>5. CASE Key[f] # Key[e]
    <3> DEFINE b2 == [node |-> n, addr |-> a, rows |-> <<f, e>>, complete |-> {1, 2}, flushing |-> FALSE]
    <3>1. /\ buffer' = [buffer EXCEPT ![s] = b2] /\ nextIndex' = [nextIndex EXCEPT ![s] = 2]
          /\ nodes' = Put(nodes, n, a, Buf(s)) /\ pc'[t] = "next" /\ pos'[t] = pos[t] + 1
          /\ UNCHANGED <<headIndex, nInitialized, nFree, inUse>>
      BY <1>5, <2>2, <2>5 DEF SwapSuffix, SetContent, Put, Finish, GoTo, IInv, ControlInv, Shaped, old
    <3>2. /\ s \in Slots /\ s \in inUse /\ s \notin UsedBuffers /\ buffer[s].node = None
          /\ UsedBuffers \subseteq inUse
      BY <1>1, AtSuffix
    <3>3. /\ b2.node = n /\ b2.addr = a /\ b2.rows = <<f, e>> /\ b2.complete = {1, 2}
          /\ DOMAIN b2 = DOMAIN Cleared
      BY DEF Cleared
    <3> HIDE DEF b2
    <3>4. DOMAIN buffer = Slots /\ buffer'[s] = b2 /\ \A r \in Slots \ {s} : buffer'[r] = buffer[r]
      BY <2>3, <3>1, <3>2 DEF Hung
    <3>5. UsedBuffers' = UsedBuffers \cup {s}
      BY <1>2, <3>2, <3>3, <3>4 DEF UsedBuffers, Slots
    <3>6. PoolProofs!IInv'
      <4>1. /\ PoolProofs!IInv /\ s \in inUse /\ nextIndex' = [nextIndex EXCEPT ![s] = 2]
            /\ 2 \in Int /\ UsedBuffers' \subseteq UsedBuffers \cup {s}
            /\ UNCHANGED <<headIndex, nInitialized, nFree, inUse>>
        BY <3>1, <3>2, <3>5 DEF IInv
      <4> HIDE DEF s
      <4> QED BY <4>1, CountChanged
    <3>7. HeldInv'
      <4>1. inUse' \ UsedBuffers' = (inUse \ UsedBuffers) \ {s}
        BY <3>1, <3>5
      <4> QED BY <1>1, <1>3, <3>1, <4>1, HeldGiven DEF IInv
    <3>8. /\ Counted(nodes, nodes', n)
          /\ \A b \in HCAddresses : b # a => nodes'[n].cont[b] = nodes[n].cont[b]
          /\ nodes'[n].cont[a] = Buf(s)
      BY <1>2, <3>1, PutIs DEF Counted
    <3>9. Grown(nodes, nodes') /\ LiveNodes(nodes') = LiveNodes(nodes)
      BY <1>2, <2>2, <3>8, CountedGrown
    <3>10. Sound(nodes', Slots)
      BY <1>2, <2>1, <2>2, <2>3, <3>1, <3>2, PutSound
    <3>11. Hung(nodes', buffer', Slots, DOMAIN Cleared)
      <4> DEFINE ns2 == nodes'
                 bs2 == buffer'
                 fields == DOMAIN Cleared
      <4>1. \A k \in LiveNodes(nodes), b \in HCAddresses : ~(k = n /\ b = a) => ns2[k].cont[b] = nodes[k].cont[b]
        BY <3>8 DEF Counted, LiveNodes
      <4>2. \A r : nodes[n].cont[a] # Buf(r)
        BY <2>1, SubNotEmpty
      <4>3. None \notin LiveNodes(nodes)
        BY <1>1, CallFacts DEF LiveNodes
      <4>4. /\ Hung(nodes, buffer, Slots, fields) /\ n \in LiveNodes(nodes) /\ a \in HCAddresses /\ n # None
            /\ LiveNodes(ns2) = LiveNodes(nodes) /\ s \in Slots /\ buffer[s].node = None
            /\ ns2[n].cont[a] = Buf(s)
            /\ b2.node = n /\ b2.addr = a /\ DOMAIN b2 = fields
            /\ bs2 = [buffer EXCEPT ![s] = b2]
        BY <1>2, <2>2, <2>3, <3>1, <3>2, <3>3, <3>8, <3>9
      <4> HIDE DEF s, n, a, ns2, bs2, fields
      <4>5. Hung(ns2, bs2, Slots, fields)
        BY <4>1, <4>2, <4>3, <4>4, BufferHung
      <4> QED BY <4>5 DEF ns2, bs2, fields
    <3>12. RowsRight(buffer', nextIndex')
      <4>1. nextIndex'[s] = 2 /\ \A r \in Slots \ {s} : nextIndex'[r] = nextIndex[r]
        BY <3>1, <3>2, UsedHeld DEF IInv
      <4>2. RowsOf(b2, 2)
        <5>1. Leads(n, a, Key[f])
          BY <1>2, <2>1, <2>2, <2>3 DEF Sound, Placed
        <5>2. Leads(n, a, Key[e])
          <6>1. Len(Path(n)) < WIDTH /\ Len(Key[e]) = WIDTH
            BY <1>2, KeyType DEF NodesTyped
          <6> QED BY <1>2, <6>1 DEF Leads, Way, On, AddressIn
        <5> DEFINE rows == <<f, e>>
        <5>3. rows \in Seq(Entries) /\ Len(rows) = 2 /\ rows[1] = f /\ rows[2] = e
          BY <1>2
        <5>4. BufferCapacity \in Nat /\ BufferCapacity > 2
          BY BufferAssumption
        <5> HIDE DEF rows, n, a, e
        <5>5. \A i \in DOMAIN rows : Leads(n, a, Key[rows[i]])
          <6>1. DOMAIN rows = {1, 2}
            BY <5>3
          <6> QED BY <5>1, <5>2, <5>3, <6>1
        <5> QED BY <2>5, <3>3, <5>3, <5>4, <5>5 DEF RowsOf, RowsLie, rows
      <4>3. \A r \in Slots : buffer'[r].node # None => RowsOf(buffer'[r], nextIndex'[r])
        <5> TAKE r \in Slots
        <5>1. CASE r = s
          BY <3>4, <4>1, <4>2, <5>1
        <5>2. CASE r # s
          BY <2>3, <3>4, <4>1, <5>2 DEF RowsRight
        <5> QED BY <5>1, <5>2
      <4> QED BY <4>3 DEF RowsRight
    <3>13. TreeInv'
      <4>1. DeletedInv'
        BY <1>1, <2>3, <3>8, CountedDeleted
      <4>2. Root \in LiveNodes(nodes')
        BY <3>9 DEF IInv, TreeInv
      <4> QED BY <3>10, <3>11, <3>12, <4>1, <4>2 DEF TreeInv, Slots
    <3>14. FilledInv'
      <4>1. \A r \in Slots : \A i \in DOMAIN buffer'[r].rows :
              \/ i \in buffer'[r].complete
              \/ i \in DOMAIN buffer[r].rows /\ buffer[r].complete \subseteq buffer'[r].complete /\ ~Filling(t, r, i)
        <5> TAKE r \in Slots
        <5>1. CASE r = s
          <6>1. DOMAIN <<f, e>> = {1, 2}
            OBVIOUS
          <6> QED BY <3>3, <3>4, <5>1, <6>1
        <5>2. CASE r # s
          BY <1>1, <3>4, <5>2 DEF Filling
        <5> QED BY <5>1, <5>2
      <4>2. FilledInv
        BY DEF IInv
      <4> QED BY <1>3, <4>1, <4>2, FilledStep
    <3>15. LockedKept(t)
      BY <1>1, <3>8, CountedKept
    <3>16. TakenKept(t)
      <4>1. \A u \in Thread \ {t} : pc[u] \in {"fill", "compare"} =>
              local[u].slot \in Slots /\ buffer[local[u].slot].node # None
        BY AtBuffer
      <4>2. \A u \in Thread \ {t} : pc[u] \in {"fill", "compare"} => buffer'[local[u].slot] = buffer[local[u].slot]
        BY <3>2, <3>4, <4>1
      <4> QED BY <4>2 DEF TakenKept, Longer
    <3>17. OwnInv(t)
      BY <1>1, <3>1, <3>9, Finished
    <3>18. NodesTyped(nodes', Slots)
      BY <3>10 DEF Sound
    <3> QED BY <1>1, <3>6, <3>7, <3>9, <3>13, <3>14, <3>15, <3>16, <3>17, <3>18, TreeStep
  <2> QED BY <2>4, <2>5
<1> QED BY <1>4, <1>5

-----------------------------------------------------------------------------
(* The flush of buffers of the tree *)

(* A flush changes nodes only as Grown says.                               *)
LEMMA FlushedGrown ==
  ASSUME NEW ns, NEW slots, NodesTyped(ns, slots), Tree(ns), NEW bs, HangingOnce(ns, bs), IsFiniteSet(bs),
         \A b \in bs : \E s : ns[b.node].cont[b.addr] = Buf(s)
  PROVE  Grown(ns, Flushed(ns, bs))
<1>1. DOMAIN ns \subseteq DOMAIN Flushed(ns, bs)
  BY FlushedDomain
<1>2. ASSUME NEW n \in DOMAIN ns
      PROVE  /\ Flushed(ns, bs)[n].prefix = ns[n].prefix /\ Flushed(ns, bs)[n].max = ns[n].max
             /\ ns[n].updates <= Flushed(ns, bs)[n].updates
             /\ Flushed(ns, bs)[n].removed = ns[n].removed
  <2>1. ns[n].updates \in Nat
    BY DEF NodesTyped, NodeFields
  <2> QED BY <2>1, FlushedFields
<1>3. ASSUME NEW n \in DOMAIN ns, ns[n].removed
      PROVE  Flushed(ns, bs)[n] = ns[n]
  <2>1. \A b \in bs : b.node # n
    BY <1>3 DEF HangingOnce, Hanging, LiveNodes
  <2> QED BY <2>1, FlushedElse
<1>4. ASSUME NEW n \in DOMAIN ns, NEW a \in HCAddresses
      PROVE  SameOrFlushed(ns[n].cont[a], Flushed(ns, bs)[n].cont[a])
  BY FlushedOr DEF SameOrFlushed
<1> QED BY <1>1, <1>2, <1>3, <1>4 DEF Grown

(* Buffers are flushed under the lock of their node, the assumption about  *)
(* slots that are used again.                                              *)
LEMMA FlushFacts ==
  ASSUME IInv, FlushLocksNode, NEW t \in Thread, pc[t] = "flushing"
  PROVE  LET s == local[t].slot IN
           /\ s \in Slots /\ buffer[s].node = local[t].cur /\ local[t].cur # None
           /\ local[t].cur \in LiveNodes(nodes) /\ <<t, local[t].cur>> \in writers
           /\ Full(nodes, buffer, {s}, Slots, DOMAIN Cleared) /\ Picked(buffer, {s}) = {buffer[s]}
<1> DEFINE s == local[t].slot
           n == buffer[s].node
<1>1. <<t, n>> \in writers
  BY DEF FlushLocksNode
<1>2. n = local[t].cur
  <2>1. n \in WriteLocks(t)
    BY <1>1 DEF IInv, ControlInv, LockInv
  <2> QED BY <2>1 DEF WriteLocks
<1>3. n \in LiveNodes(nodes) /\ n \in DOMAIN nodes
  BY <1>1, LocksOnNodes
<1>4. pc[t] \in Calling
  BY DEF Calling, Labels
<1>5. s \in Slots /\ n # None
  BY <1>3, <1>4, CallFacts DEF RowKnown
<1>6. Full(nodes, buffer, {s}, Slots, DOMAIN Cleared)
  <2> DEFINE S == {s}
  <2>1. S \in SUBSET Slots /\ \A r \in S : buffer[r].node # None
    BY <1>5
  <2> HIDE DEF S
  <2>2. Full(nodes, buffer, S, Slots, DOMAIN Cleared)
    BY <2>1, FullOf DEF IInv, TreeInv
  <2> QED BY <2>2 DEF S
<1> QED BY <1>1, <1>2, <1>3, <1>5, <1>6 DEF Picked

(* FlushSubtree preserves the invariant under the lock of the buffer's     *)
(* node.                                                                   *)
LEMMA FlushSubtreeInv ==
  ASSUME IInv, FlushLocksNode, NEW t \in Thread, FlushSubtree(t), Step(t)
  PROVE  IInv' /\ Grown(nodes, nodes')
<1> DEFINE s == local[t].slot
           n == local[t].cur
           bs == Picked(buffer, {s})
<1>1. /\ pc[t] = "flushing" /\ pc[t] \in Calling /\ pc'[t] = "downgrade" /\ pc'[t] \in Calling
      /\ nodes' = Flushed(nodes, {buffer[s]}) /\ buffer' = [buffer EXCEPT ![s] = Cleared]
      /\ Pool!Deallocate(s) /\ UNCHANGED <<syncPhaseRequired, deleted, entryMap, pos>>
      /\ local'[t] = [NoLocal EXCEPT !.cur = n, !.seen = nodes[n].updates]
  BY DEF FlushSubtree, Downgrade, GoTo, SetLocal, Calling, Labels, IInv, ControlInv, Shaped
<1>2. /\ s \in Slots /\ buffer[s].node = n /\ n # None
      /\ n \in LiveNodes(nodes) /\ n \in DOMAIN nodes /\ <<t, n>> \in writers
      /\ Full(nodes, buffer, {s}, Slots, DOMAIN Cleared) /\ bs = {buffer[s]}
  BY <1>1, FlushFacts DEF LiveNodes
<1>3. /\ Sound(nodes, Slots) /\ Hung(nodes, buffer, Slots, DOMAIN Cleared) /\ RowsRight(buffer, nextIndex)
      /\ NodesTyped(nodes, Slots) /\ Tree(nodes) /\ DeletedInv
  BY DEF IInv, TreeInv, Sound
<1>4. /\ HangingOnce(nodes, bs) /\ IsFiniteSet(bs)
      /\ \A b \in bs : \E r : nodes[b.node].cont[b.addr] = Buf(r)
      /\ nodes' = Flushed(nodes, bs)
  <2> DEFINE S == {s}
             ns == nodes
             bufs == buffer
  <2>1. Full(ns, bufs, S, Slots, DOMAIN Cleared)
    BY <1>2
  <2> HIDE DEF S, ns, bufs
  <2>2. /\ HangingOnce(ns, Picked(bufs, S)) /\ IsFiniteSet(Picked(bufs, S))
        /\ \A b \in Picked(bufs, S) : \E r : ns[b.node].cont[b.addr] = Buf(r)
    BY <2>1, PickedHang
  <2> QED BY <1>1, <1>2, <2>2 DEF S, ns, bufs
<1> HIDE DEF bs
<1>5. OthersKept(t)
  BY StepShape DEF IInv, ControlInv
<1>6. Sound(nodes', Slots)
  BY <1>3, <1>4, FlushedSound
<1>7. Grown(nodes, nodes')
  BY <1>3, <1>4, FlushedGrown
<1>8. /\ DOMAIN buffer = Slots /\ DOMAIN buffer' = Slots /\ buffer'[s] = Cleared
      /\ \A r \in Slots \ {s} : buffer'[r] = buffer[r]
  <2>1. DOMAIN buffer = Slots
    BY <1>3 DEF Hung
  <2> HIDE DEF s
  <2> QED BY <1>1, <1>2, <2>1
<1>9. /\ Cleared.node = None /\ Cleared.rows = <<>> /\ DOMAIN <<>> = {}
      /\ {"node", "addr", "rows"} \subseteq DOMAIN Cleared
  BY ClearedFields
<1>10. UsedBuffers' = UsedBuffers \ {s} /\ s \in UsedBuffers
  BY <1>2, <1>8, <1>9 DEF UsedBuffers, Slots
<1>11. PoolProofs!IInv' /\ inUse' = inUse \ {s} /\ \A r \in Slots \ {s} : nextIndex'[r] = nextIndex[r]
  <2>1. PoolProofs!IInv
    BY DEF IInv
  <2> HIDE DEF s
  <2> QED BY <1>1, <1>2, <1>10, <2>1, GiveBack
<1>12. Hung(nodes', buffer', Slots, DOMAIN Cleared)
  <2> DEFINE F == nodes'
  <2>1. F = Flushed(nodes, Picked(buffer, {s}))
    BY <1>4 DEF bs
  <2>2. /\ \A r \in Slots \ {s} : buffer[r].node # None =>
              /\ buffer[r].node \in LiveNodes(F) /\ F[buffer[r].node].cont[buffer[r].addr] = Buf(r)
        /\ \A k \in LiveNodes(F), b \in HCAddresses : \A r : F[k].cont[b] = Buf(r) =>
              r \in Slots \ {s} /\ buffer[r].node = k /\ buffer[r].addr = b
    <3> DEFINE S == {s}
               ns == nodes
               bufs == buffer
      <3>1. Full(ns, bufs, S, Slots, DOMAIN Cleared) /\ F = Flushed(ns, Picked(bufs, S))
      BY <1>2, <2>1
    <3> HIDE DEF F, S, ns, bufs
    <3>2. /\ \A r \in Slots \ S : bufs[r].node # None =>
              /\ bufs[r].node \in LiveNodes(F) /\ F[bufs[r].node].cont[bufs[r].addr] = Buf(r)
          /\ \A k \in LiveNodes(F), b \in HCAddresses : \A r : F[k].cont[b] = Buf(r) =>
              r \in Slots \ S /\ bufs[r].node = k /\ bufs[r].addr = b
      BY <3>1, FlushedBuffers
    <3> QED BY <3>2 DEF S, bufs
  <2>3. \A r \in Slots : /\ DOMAIN buffer'[r] = DOMAIN Cleared
                         /\ buffer'[r].node = None => buffer'[r].rows = <<>>
    <3> TAKE r \in Slots
    <3>1. CASE r = s
      BY <1>8, <1>9, <3>1
    <3>2. CASE r # s
      BY <1>3, <1>8, <3>2 DEF Hung
    <3> QED BY <3>1, <3>2
  <2>4. \A r \in Slots : buffer'[r].node # None =>
          /\ buffer'[r].node \in LiveNodes(F) /\ buffer'[r].addr \in HCAddresses
          /\ F[buffer'[r].node].cont[buffer'[r].addr] = Buf(r)
    <3> TAKE r \in Slots
    <3>1. CASE r = s
      BY <1>8, <1>9, <3>1
    <3>2. CASE r # s
      BY <1>3, <1>8, <2>2, <3>2 DEF Hung
    <3> QED BY <3>1, <3>2
  <2>5. \A k \in LiveNodes(F), b \in HCAddresses : \A r : F[k].cont[b] = Buf(r) =>
              r \in Slots /\ buffer'[r].node = k /\ buffer'[r].addr = b
    BY <1>8, <2>2
  <2> HIDE DEF F
  <2>6. Hung(F, buffer', Slots, DOMAIN Cleared)
    BY <1>8, <1>9, <2>3, <2>4, <2>5 DEF Hung
  <2> QED BY <2>6 DEF F
<1>13. RowsRight(buffer', nextIndex')
  <2> SUFFICES ASSUME NEW r \in Slots, buffer'[r].node # None
               PROVE  RowsOf(buffer'[r], nextIndex'[r])
    BY DEF RowsRight
  <2>1. r # s
    BY <1>8, <1>9
  <2> QED BY <1>3, <1>8, <1>11, <2>1 DEF RowsRight
<1>14. DeletedInv'
  <2>1. DOMAIN nodes \subseteq DOMAIN nodes' /\ \A k \in DOMAIN nodes : nodes'[k].removed = nodes[k].removed
    BY <1>3, <1>4, <1>7, FlushedFields DEF Grown
  <2>2. \A k \in DOMAIN nodes' : k \notin DOMAIN nodes => nodes'[k].removed = FALSE
    BY <1>3, <1>4, FlushedShape
  <2>3. \A k \in DOMAIN nodes' : nodes'[k].removed <=> \E u \in Thread : k \in deleted[u]
    <3> TAKE k \in DOMAIN nodes'
    <3>1. CASE k \in DOMAIN nodes
      BY <1>3, <2>1, <3>1 DEF DeletedInv
    <3>2. CASE k \notin DOMAIN nodes
      <4>1. ~nodes'[k].removed
        BY <2>2, <3>2
      <4> QED BY <1>3, <3>2, <4>1 DEF DeletedInv
    <3> QED BY <3>1, <3>2
  <2> QED BY <1>1, <1>3, <2>1, <2>3 DEF DeletedInv
<1>15. FilledInv'
  <2>1. \A r \in Slots : \A i \in DOMAIN buffer'[r].rows :
          \/ i \in buffer'[r].complete
          \/ i \in DOMAIN buffer[r].rows /\ buffer[r].complete \subseteq buffer'[r].complete /\ ~Filling(t, r, i)
    <3> TAKE r \in Slots
    <3>1. CASE r = s
      BY <1>8, <1>9, <3>1
    <3>2. CASE r # s
      BY <1>1, <1>8, <3>2 DEF Filling
    <3> QED BY <3>1, <3>2
  <2>2. FilledInv
    BY DEF IInv
  <2> QED BY <1>5, <2>1, <2>2, FilledStep
<1>16. HeldInv'
  <2>1. inUse' \ UsedBuffers' = inUse \ UsedBuffers
    BY <1>10, <1>11
  <2> QED BY <1>1, <1>5, <2>1, HeldStep DEF IInv
<1>17. LockedKept(t)
  <2> SUFFICES ASSUME NEW u \in Thread \ {t}, NEW k, <<u, k>> \in readers \cup writers
               PROVE  nodes'[k] = nodes[k]
    BY DEF LockedKept
  <2>1. k \in DOMAIN nodes
    BY LocksOnNodes
  <2>2. k # n
    BY <1>2 DEF IInv, ControlInv, LockInv, LocksExclusive
  <2>3. \A b \in bs : b.node # k
    BY <1>2, <2>2
  <2> QED BY <1>3, <1>4, <2>1, <2>3, FlushedElse
<1>18. TakenKept(t)
  <2> SUFFICES ASSUME NEW u \in Thread \ {t}, pc[u] \in {"fill", "compare"}
               PROVE  buffer'[local[u].slot] = buffer[local[u].slot]
    BY DEF TakenKept, Longer
  <2>1. local[u].slot \in Slots /\ buffer[local[u].slot].node = local[u].cur /\ local[u].cur # None
    BY AtBuffer
  <2>2. <<u, local[u].cur>> \in readers
    <3>1. local[u].cur \in ReadLocks(u)
      BY <2>1 DEF ReadLocks
    <3> QED BY <3>1 DEF IInv, ControlInv, LockInv
  <2>3. local[u].slot # s
    BY <1>2, <2>1, <2>2 DEF IInv, ControlInv, LockInv, LocksExclusive
  <2> QED BY <1>8, <2>1, <2>3
<1>19. Landed(t)
  <2>1. local'[t].cur = n /\ local'[t].last = None /\ local'[t].seen = nodes[n].updates
    BY <1>1 DEF NoLocal
  <2>2. Place("flushing", local[t], entryMap[t], Entry(t), nodes)
    BY <1>1, CallFacts
  <2>3. nodes'[n].updates = nodes[n].updates /\ nodes[n].updates \in Nat /\ n \in DOMAIN nodes'
    <3>1. nodes[n].updates \in Nat /\ n \in DOMAIN nodes'
      BY <1>1, <1>2, <1>7, CallFacts DEF Grown
    <3> DEFINE k == n
    <3>2. k \in DOMAIN nodes
      BY <1>2
    <3> HIDE DEF k
    <3>3. nodes'[k].updates = nodes[k].updates
      BY <1>3, <1>4, <3>2, FlushedFields
    <3> QED BY <3>1, <3>3 DEF k
  <2> QED BY <1>1, <2>1, <2>2, <2>3 DEF Landed, Place, Known, Remembered, RowKnown
<1>20. OwnInv(t)
  BY <1>1, <1>7, <1>19, NoWrites, WithinCall
<1>21. NodesTyped(nodes', Slots)
  BY <1>6 DEF Sound
<1>22. TreeInv'
  <2>1. Root \in LiveNodes(nodes')
    <3>1. Root \in LiveNodes(nodes)
      BY DEF IInv, TreeInv
    <3>2. nodes'[Root].removed = nodes[Root].removed /\ Root \in DOMAIN nodes'
      BY <1>3, <1>4, <1>7, <3>1, FlushedFields DEF Grown, LiveNodes
    <3> QED BY <3>1, <3>2 DEF LiveNodes
  <2> QED BY <1>6, <1>12, <1>13, <1>14, <2>1 DEF TreeInv, Slots
<1> QED BY <1>1, <1>7, <1>11, <1>15, <1>16, <1>17, <1>18, <1>20, <1>21, <1>22, TreeStep

-----------------------------------------------------------------------------
(* The replacement of a node *)

(* What a buffer knows of its rows moves along. *)
LEMMA MovedComplete ==
  ASSUME NEW bs, NEW node, NEW new, NEW s \in DOMAIN bs, DOMAIN bs[s] = DOMAIN Cleared
  PROVE  BuffersMoved(bs, node, new)[s].complete = bs[s].complete
BY DEF BuffersMoved, Cleared

(* Rows stay on their lookup paths.                                        *)
LEMMA HandoverRows ==
  ASSUME NEW bs, NEW bs2, NEW counts, RowsRight(bs, counts),
         \A s \in Slots :
              /\ bs2[s].node = None <=> bs[s].node = None
              /\ bs2[s].rows = bs[s].rows /\ bs2[s].addr = bs[s].addr
              /\ Path(bs2[s].node) = Path(bs[s].node)
  PROVE  RowsRight(bs2, counts)
<1>1. BuffersLie(bs2, Slots)
  BY RightLie, RowsFollow
<1> QED BY <1>1 DEF RowsRight, RowsOf, BuffersLie

(* The replacement of a node changes nodes only as Grown says.             *)
LEMMA ReplacementGrown ==
  ASSUME NEW ns, NodesTyped(ns, Slots), NEW R, NEW n, NEW parent, NEW pa, NEW m, NEW N, NEW new,
         Handover(ns, R, n, parent, pa, m, N, new, Slots)
  PROVE  /\ Grown(ns, R) /\ LiveNodes(R) = (LiveNodes(ns) \ {n}) \cup N
<1>1. /\ DOMAIN R = DOMAIN ns \cup N
      /\ \A k \in DOMAIN ns : R[k].prefix = ns[k].prefix /\ R[k].max = ns[k].max
      /\ \A k \in DOMAIN ns : R[k].removed <=> (ns[k].removed \/ k = n)
      /\ \A k \in DOMAIN ns :
           R[k].updates = IF k \in {n, parent} THEN ns[k].updates + 1 ELSE ns[k].updates
      /\ \A k \in DOMAIN ns : k \notin {n, parent} => R[k] = ns[k]
      /\ N \cap DOMAIN ns = {} /\ \A k \in N : ~R[k].removed
      /\ n \in DOMAIN ns /\ ~ns[n].removed /\ parent \in DOMAIN ns /\ ~ns[parent].removed
  BY DEF Handover, Replacement, LiveNodes
<1>2. \A k \in DOMAIN ns : ns[k].updates \in Nat
  BY DEF NodesTyped, NodeFields
<1>3. ASSUME NEW k \in DOMAIN ns
      PROVE  /\ R[k].prefix = ns[k].prefix /\ R[k].max = ns[k].max
             /\ ns[k].updates <= R[k].updates
             /\ ns[k].removed => R[k] = ns[k]
             /\ R[k].updates = ns[k].updates =>
                  /\ R[k].removed = ns[k].removed
                  /\ \A a \in HCAddresses : SameOrFlushed(ns[k].cont[a], R[k].cont[a])
  <2>1. CASE k \in {n, parent}
    BY <1>1, <1>2, <2>1
  <2>2. CASE k \notin {n, parent}
    BY <1>1, <1>2, <2>2 DEF SameOrFlushed
  <2> QED BY <2>1, <2>2
<1>4. Grown(ns, R)
  BY <1>1, <1>3 DEF Grown
<1>5. LiveNodes(R) = (LiveNodes(ns) \ {n}) \cup N
  BY <1>1 DEF LiveNodes
<1> QED BY <1>4, <1>5

(* A thread that holds the lock of the parent replaces a node nobody has   *)
(* changed meanwhile.                                                      *)
LEMMA HandoverInv ==
  ASSUME IInv, NEW t \in Thread, Step(t), pc[t] \in {"split", "copy"},
         NEW n, NEW parent, NEW pa, NEW m, NEW N, NEW new,
         Handover(nodes, nodes', n, parent, pa, m, N, new, Slots), Sound(nodes', Slots),
         Unlocked(n), <<t, parent>> \in writers,
         buffer' = BuffersMoved(buffer, nodes[n], new),
         deleted' = [deleted EXCEPT ![t] = @ \cup {n}],
         pc'[t] = "next", pos'[t] = pos[t] + 1,
         UNCHANGED <<poolVars, syncPhaseRequired, entryMap>>
  PROVE  IInv' /\ Grown(nodes, nodes')
<1>1. /\ NodesTyped(nodes, Slots) /\ Hung(nodes, buffer, Slots, DOMAIN Cleared) /\ RowsRight(buffer, nextIndex)
      /\ DeletedInv /\ NodesTyped(nodes', Slots)
  BY DEF IInv, TreeInv, Sound
<1>2. OthersKept(t)
  BY StepShape DEF IInv, ControlInv
<1>3. Grown(nodes, nodes')
  <2> DEFINE R == nodes'
  <2>1. Handover(nodes, R, n, parent, pa, m, N, new, Slots)
    OBVIOUS
  <2> HIDE DEF R
  <2>2. Grown(nodes, R)
    BY <1>1, <2>1, ReplacementGrown
  <2> QED BY <2>2 DEF R
<1>4. /\ Hung(nodes', buffer', Slots, DOMAIN Cleared)
      /\ \A s \in Slots :
           /\ buffer'[s].node = None <=> buffer[s].node = None
           /\ buffer'[s].rows = buffer[s].rows /\ buffer'[s].complete = buffer[s].complete
           /\ buffer'[s].addr = buffer[s].addr
           /\ Path(buffer'[s].node) = Path(buffer[s].node)
  <2> DEFINE R == nodes'
             bs2 == buffer'
  <2>1. Handover(nodes, R, n, parent, pa, m, N, new, Slots) /\ bs2 = BuffersMoved(buffer, nodes[n], new)
    OBVIOUS
  <2> HIDE DEF R, bs2
  <2>2. /\ Hung(R, bs2, Slots, DOMAIN Cleared)
        /\ \A s \in Slots :
           /\ bs2[s].node = None <=> buffer[s].node = None
           /\ bs2[s].rows = buffer[s].rows /\ bs2[s].complete = buffer[s].complete
           /\ bs2[s].addr = buffer[s].addr
           /\ Path(bs2[s].node) = Path(buffer[s].node)
    <3>1. Succession(nodes, R, n, N, new)
      BY <1>1, <2>1, HandoverSucceeds
    <3>2. /\ Hung(R, bs2, Slots, DOMAIN Cleared)
          /\ \A s \in Slots :
               /\ bs2[s].node = None <=> buffer[s].node = None
               /\ bs2[s].rows = buffer[s].rows /\ bs2[s].addr = buffer[s].addr
               /\ Path(bs2[s].node) = Path(buffer[s].node)
      BY <1>1, <2>1, <3>1, BuffersFollow
    <3>3. \A s \in Slots : s \in DOMAIN buffer /\ DOMAIN buffer[s] = DOMAIN Cleared
      BY <1>1 DEF Hung
    <3>4. \A s \in Slots : bs2[s].complete = buffer[s].complete
      BY <2>1, <3>3, MovedComplete
    <3> QED BY <3>2, <3>4
  <2> QED BY <2>2 DEF R, bs2
<1>5. RowsRight(buffer', nextIndex')
  <2> DEFINE bs2 == buffer'
  <2>1. \A s \in Slots :
           /\ bs2[s].node = None <=> buffer[s].node = None
           /\ bs2[s].rows = buffer[s].rows /\ bs2[s].complete = buffer[s].complete
           /\ bs2[s].addr = buffer[s].addr
           /\ Path(bs2[s].node) = Path(buffer[s].node)
    BY <1>4
  <2> HIDE DEF bs2
  <2>2. RowsRight(bs2, nextIndex)
    BY <1>1, <2>1, HandoverRows
  <2>3. nextIndex' = nextIndex
    BY DEF poolVars
  <2> QED BY <2>2, <2>3 DEF bs2
<1>6. /\ DOMAIN nodes' = DOMAIN nodes \cup N /\ n \in DOMAIN nodes
      /\ \A k \in DOMAIN nodes : nodes'[k].removed <=> (nodes[k].removed \/ k = n)
      /\ \A k \in DOMAIN nodes : k \notin {n, parent} => nodes'[k] = nodes[k]
      /\ N \cap DOMAIN nodes = {} /\ \A k \in N : ~nodes'[k].removed
  BY DEF Handover, Replacement, LiveNodes
<1>7. DeletedInv'
  <2>1. DOMAIN deleted = Thread
    BY DEF IInv, ControlInv, Shaped
  <2>2. \A u \in Thread : deleted'[u] = IF u = t THEN deleted[u] \cup {n} ELSE deleted[u]
    BY <2>1
  <2>3. \A u \in Thread : deleted'[u] \subseteq DOMAIN nodes'
    BY <1>1, <1>6, <2>2 DEF DeletedInv
  <2>4. \A k \in DOMAIN nodes' : nodes'[k].removed <=> \E u \in Thread : k \in deleted'[u]
    <3> TAKE k \in DOMAIN nodes'
    <3>1. CASE k \in DOMAIN nodes
      <4>1. nodes[k].removed <=> \E u \in Thread : k \in deleted[u]
        BY <1>1, <3>1 DEF DeletedInv
      <4>2. (\E u \in Thread : k \in deleted'[u]) <=> (\E u \in Thread : k \in deleted[u]) \/ k = n
        BY <2>2
      <4> QED BY <1>6, <3>1, <4>1, <4>2
    <3>2. CASE k \notin DOMAIN nodes
      <4>1. ~nodes'[k].removed
        BY <1>6, <3>2
      <4>2. \A u \in Thread : k \notin deleted'[u]
        BY <1>1, <1>6, <2>2, <3>2 DEF DeletedInv
      <4> QED BY <4>1, <4>2
    <3> QED BY <3>1, <3>2
  <2> QED BY <2>3, <2>4 DEF DeletedInv
<1>8. TreeInv'
  <2>1. Root \in LiveNodes(nodes)
    BY DEF IInv, TreeInv
  <2>2. Linked(nodes, parent, pa, n) /\ parent \in LiveNodes(nodes) /\ pa \in HCAddresses
    BY DEF Handover, Linked
  <2>3. Root # n
    <3>1. ~AtTop(n)
      BY <1>1, <2>2, LinkedFacts DEF IInv, TreeInv, Sound
    <3> QED BY <3>1, RootId
  <2>4. Root \in LiveNodes(nodes')
    BY <1>6, <2>1, <2>3 DEF LiveNodes
  <2> QED BY <1>4, <1>5, <1>7, <2>4 DEF TreeInv, Slots
<1>9. FilledInv'
  <2>1. \A r \in Slots : \A i \in DOMAIN buffer'[r].rows :
          \/ i \in buffer'[r].complete
          \/ i \in DOMAIN buffer[r].rows /\ buffer[r].complete \subseteq buffer'[r].complete /\ ~Filling(t, r, i)
    BY <1>4 DEF Filling
  <2>2. FilledInv
    BY DEF IInv
  <2> QED BY <1>2, <2>1, <2>2, FilledStep
<1>10. UsedBuffers' = UsedBuffers
  BY <1>4 DEF UsedBuffers, Slots
<1>11. PoolProofs!IInv'
  BY <1>10, PoolStays DEF IInv
<1>12. HeldInv'
  <2>1. inUse' \ UsedBuffers' = inUse \ UsedBuffers
    BY <1>10 DEF poolVars
  <2> QED BY <1>2, <2>1, HeldStep DEF IInv
<1>13. LockedKept(t)
  <2> SUFFICES ASSUME NEW u \in Thread \ {t}, NEW k, <<u, k>> \in readers \cup writers
               PROVE  nodes'[k] = nodes[k]
    BY DEF LockedKept
  <2>1. k \in DOMAIN nodes
    BY LocksOnNodes
  <2>2. k # parent
    BY DEF IInv, ControlInv, LockInv, LocksExclusive
  <2>3. k # n
    BY DEF Unlocked, NoWriter
  <2> QED BY <1>6, <2>1, <2>2, <2>3
<1>14. TakenKept(t)
  <2> SUFFICES ASSUME NEW u \in Thread \ {t}, pc[u] \in {"fill", "compare"}
               PROVE  Longer(buffer[local[u].slot].rows, buffer'[local[u].slot].rows)
    BY DEF TakenKept
  <2>1. local[u].slot \in Slots
    BY AtBuffer
  <2> QED BY <1>4, <2>1 DEF Longer
<1>15. OwnInv(t)
  BY <1>3, Finished DEF Calling, Labels
<1> QED BY <1>1, <1>3, <1>8, <1>9, <1>11, <1>12, <1>13, <1>14, <1>15, TreeStep

(* What a thread with the lock of the parent knows if the node has not     *)
(* changed.                                                                *)
LEMMA AtReplacement ==
  ASSUME IInv, NEW t \in Thread, pc[t] \in {"split", "copy"}, <<t, local[t].last>> \in writers,
         Valid(local[t].cur, local[t].seen)
  PROVE  LET n == local[t].cur
             parent == local[t].last
             e == Entry(t)
             pa == AddressIn(e, parent)
         IN  /\ e \in Entries /\ n \in DOMAIN nodes /\ parent \in LiveNodes(nodes)
             /\ pa \in HCAddresses /\ Linked(nodes, parent, pa, n) /\ On(parent, Key[e])
             /\ n \in LiveNodes(nodes) /\ n # parent
             /\ pc[t] = "copy" => /\ nodes[n].cont[AddressIn(e, n)] = Empty /\ IsFull(nodes[n])
                                  /\ On(n, Key[e]) /\ AddressIn(e, n) \in HCAddresses
                                  /\ Leads(n, AddressIn(e, n), Key[e])
             /\ pc[t] = "split" => SharedPrefix(e, n, nodes[n].prefix) < nodes[n].prefix
<1> DEFINE n == local[t].cur
           parent == local[t].last
           e == Entry(t)
           pa == AddressIn(e, parent)
<1>1. pc[t] \in Calling /\ pc[t] # "start"
  BY DEF Calling, Labels
<1>2. /\ Place(pc[t], local[t], entryMap[t], e, nodes)
      /\ Remembered(pc[t], local[t], e, nodes)
      /\ NodesTyped(nodes, Slots) /\ Tree(nodes) /\ e \in Entries
      /\ n \in DOMAIN nodes
      /\ \A k \in DOMAIN nodes : AddressIn(e, k) \in HCAddresses
  BY <1>1, CallFacts DEF Place
<1>3. parent \in LiveNodes(nodes) /\ nodes[parent].updates = local[t].seenLast /\ parent # None
  <2>1. ThreadInv(t)
    BY DEF IInv
  <2> QED BY <1>2, <2>1 DEF ThreadInv, WriteInv, Remembered
<1>4. Cont(nodes, parent, e) = Sub(n) /\ parent \in DOMAIN nodes /\ On(parent, Key[e])
  BY <1>2, <1>3 DEF Remembered, Since, LiveNodes, Place
<1>5. Linked(nodes, parent, pa, n) /\ pa \in HCAddresses
  BY <1>2, <1>4 DEF Linked, Cont
<1>6. n \in LiveNodes(nodes) /\ n # parent
  <2> HIDE DEF n, parent, pa, e
  <2> QED BY <1>2, <1>3, <1>5, LinkedFacts
<1>7. pc[t] = "copy" => /\ nodes[n].cont[AddressIn(e, n)] = Empty /\ IsFull(nodes[n])
                        /\ On(n, Key[e])
  BY <1>2 DEF Remembered, Since, Valid, Place, Cont
<1>8. Len(Path(n)) < WIDTH /\ Len(Key[e]) = WIDTH
  BY <1>2, KeyType DEF NodesTyped
<1>9. pc[t] = "copy" => Leads(n, AddressIn(e, n), Key[e])
  BY <1>7, <1>8 DEF Leads, Way, On, AddressIn
<1>10. pc[t] = "split" => SharedPrefix(e, n, nodes[n].prefix) < nodes[n].prefix
  BY <1>2 DEF Remembered
<1> QED BY <1>2, <1>3, <1>4, <1>5, <1>6, <1>7, <1>9, <1>10

(* The replacement is given up and the call starts over.                   *)
LEMMA ReplacementDropped ==
  ASSUME IInv, NEW t \in Thread, Step(t), pc[t] \in {"split", "copy"}, Restart(t),
         UNCHANGED <<nodes, deleted, buffer, pos, poolVars, syncPhaseRequired, entryMap>>
  PROVE  IInv' /\ Grown(nodes, nodes')
<1>1. pc'[t] = "start" /\ pc[t] \in Calling
  BY DEF Restart, GoTo, Calling, Labels, IInv, ControlInv, Shaped
<1>2. MapOK(entryMap[t], nodes) /\ OnAll(entryMap[t], Key[Entry(t)]) /\ NodesTyped(nodes, Slots)
  BY <1>1, CallFacts
<1>3. OwnInv(t)
  BY <1>1, <1>2, GrownSame, Restarted
<1> QED BY <1>1, <1>2, <1>3, QuietWalk, GrownSame

(* What a thread does that copies a node, and what it knows.               *)
LEMMA CopyFacts ==
  ASSUME IInv, NEW t \in Thread, CopyNode(t), Valid(local[t].cur, local[t].seen)
  PROVE  LET n == local[t].cur
             parent == local[t].last
             e == Entry(t)
             pa == AddressIn(e, parent)
             a == AddressIn(e, n)
             new == NewId(Path(n), DOMAIN nodes)
         IN  /\ nodes' = Copied(nodes, n, parent, pa, new, a, e)
             /\ buffer' = BuffersMoved(buffer, nodes[n], new)
             /\ deleted' = [deleted EXCEPT ![t] = @ \cup {n}]
             /\ pc'[t] = "next" /\ pos'[t] = pos[t] + 1
             /\ e \in Entries /\ n \in DOMAIN nodes /\ parent \in LiveNodes(nodes)
             /\ pa \in HCAddresses /\ Linked(nodes, parent, pa, n)
             /\ nodes[n].cont[a] = Empty /\ IsFull(nodes[n])
             /\ a \in HCAddresses /\ Leads(n, a, Key[e])
             /\ Sound(nodes, Slots) /\ NodesTyped(nodes, Slots)
             /\ new \in NodeIds /\ new \notin DOMAIN nodes /\ Path(new) = Path(n)
<1> DEFINE n == local[t].cur
           parent == local[t].last
           e == Entry(t)
           pa == AddressIn(e, parent)
           a == AddressIn(e, n)
           new == NewId(Path(n), DOMAIN nodes)
<1>1. pc[t] = "copy" /\ <<t, parent>> \in writers
  BY DEF CopyNode
<1>2. /\ nodes' = Copied(nodes, n, parent, pa, new, a, e)
      /\ buffer' = BuffersMoved(buffer, nodes[n], new)
      /\ deleted' = [deleted EXCEPT ![t] = @ \cup {n}]
      /\ pc'[t] = "next" /\ pos'[t] = pos[t] + 1
  BY ZenonT(30) DEF CopyNode, Replaced, Copied, Retired, Relinked, Finish, GoTo, IInv, ControlInv, Shaped
<1>3. /\ e \in Entries /\ n \in DOMAIN nodes /\ parent \in LiveNodes(nodes)
      /\ pa \in HCAddresses /\ Linked(nodes, parent, pa, n)
      /\ nodes[n].cont[a] = Empty /\ IsFull(nodes[n])
      /\ a \in HCAddresses /\ Leads(n, a, Key[e])
  BY <1>1, AtReplacement
<1>4. Sound(nodes, Slots) /\ NodesTyped(nodes, Slots)
  BY DEF IInv, TreeInv, Sound
<1>5. new \in NodeIds /\ new \notin DOMAIN nodes /\ Path(new) = Path(n)
  <2>1. n \in NodeIds
    BY <1>3, <1>4 DEF NodesTyped, IdsTyped
  <2>2. Path(n) \in Seq(HCAddresses)
    BY <2>1 DEF NodeIds, Path
  <2> QED BY <1>4, <2>2, FreshId
<1> QED BY <1>2, <1>3, <1>4, <1>5

(* CopyNode preserves the invariant.                                       *)
LEMMA CopyNodeInv == ASSUME IInv, NEW t \in Thread, CopyNode(t), Step(t)
                     PROVE IInv' /\ Grown(nodes, nodes')
<1> DEFINE n == local[t].cur
           parent == local[t].last
           e == Entry(t)
           pa == AddressIn(e, parent)
           a == AddressIn(e, n)
           new == NewId(Path(n), DOMAIN nodes)
<1>1. /\ pc[t] = "copy" /\ <<t, parent>> \in writers /\ Unlocked(n)
      /\ UNCHANGED <<poolVars, syncPhaseRequired, entryMap>>
  BY DEF CopyNode
<1>2. CASE Valid(n, local[t].seen)
  <2>1. /\ nodes' = Copied(nodes, n, parent, pa, new, a, e)
        /\ buffer' = BuffersMoved(buffer, nodes[n], new)
        /\ deleted' = [deleted EXCEPT ![t] = @ \cup {n}]
        /\ pc'[t] = "next" /\ pos'[t] = pos[t] + 1
        /\ e \in Entries /\ n \in DOMAIN nodes /\ parent \in LiveNodes(nodes)
        /\ pa \in HCAddresses /\ Linked(nodes, parent, pa, n)
        /\ nodes[n].cont[a] = Empty /\ IsFull(nodes[n])
        /\ a \in HCAddresses /\ Leads(n, a, Key[e])
        /\ Sound(nodes, Slots) /\ NodesTyped(nodes, Slots)
        /\ new \in NodeIds /\ new \notin DOMAIN nodes /\ Path(new) = Path(n)
    BY <1>2, CopyFacts
  <2> HIDE DEF n, parent, e, pa, a, new
  <2>5. Sound(nodes', Slots)
    BY <2>1, CopiedSound
  <2>6. Handover(nodes, nodes', n, parent, pa, new, {new}, new, Slots)
    BY <2>1, CopiedHandover
  <2>7. pc[t] \in {"split", "copy"}
    BY <1>1
  <2> QED BY <1>1, <2>1, <2>5, <2>6, <2>7, HandoverInv
<1>3. CASE ~Valid(n, local[t].seen)
  <2>1. Restart(t) /\ UNCHANGED <<nodes, deleted, buffer, pos>>
    BY <1>3 DEF CopyNode
  <2> QED BY <1>1, <2>1, ReplacementDropped
<1> QED BY <1>2, <1>3

(* What a thread does that splits a prefix, and what it knows.             *)
LEMMA SplitFacts ==
  ASSUME IInv, NEW t \in Thread, SplitPrefix(t), Valid(local[t].cur, local[t].seen)
  PROVE  LET n == local[t].cur
             parent == local[t].last
             e == Entry(t)
             pa == AddressIn(e, parent)
             upper == NewId(SplitPath(nodes, n, e), DOMAIN nodes)
             copy == NewId(Path(n), DOMAIN nodes)
         IN  /\ nodes' = Resplit(nodes, n, parent, e, upper, copy)
             /\ buffer' = BuffersMoved(buffer, nodes[n], copy)
             /\ deleted' = [deleted EXCEPT ![t] = @ \cup {n}]
             /\ pc'[t] = "next" /\ pos'[t] = pos[t] + 1
             /\ e \in Entries /\ n \in DOMAIN nodes /\ parent \in LiveNodes(nodes)
             /\ pa \in HCAddresses /\ Linked(nodes, parent, pa, n) /\ On(parent, Key[e])
             /\ SharedPrefix(e, n, nodes[n].prefix) < nodes[n].prefix
             /\ Sound(nodes, Slots) /\ NodesTyped(nodes, Slots) /\ Tree(nodes)
             /\ copy \in NodeIds /\ copy \notin DOMAIN nodes /\ Path(copy) = Path(n)
             /\ upper \in NodeIds /\ upper \notin DOMAIN nodes
             /\ Path(upper) = SplitPath(nodes, n, e) /\ upper # copy
<1> DEFINE n == local[t].cur
           parent == local[t].last
           e == Entry(t)
           pa == AddressIn(e, parent)
           upper == NewId(SplitPath(nodes, n, e), DOMAIN nodes)
           copy == NewId(Path(n), DOMAIN nodes)
<1>1. pc[t] = "split" /\ <<t, parent>> \in writers
  BY DEF SplitPrefix
<1>2. /\ nodes' = Resplit(nodes, n, parent, e, upper, copy)
      /\ buffer' = BuffersMoved(buffer, nodes[n], copy)
      /\ deleted' = [deleted EXCEPT ![t] = @ \cup {n}]
      /\ pc'[t] = "next" /\ pos'[t] = pos[t] + 1
  BY DEF SplitPrefix, Replaced, Resplit, Retired, Finish, GoTo, IInv, ControlInv, Shaped
<1>3. /\ e \in Entries /\ n \in DOMAIN nodes /\ parent \in LiveNodes(nodes)
      /\ pa \in HCAddresses /\ Linked(nodes, parent, pa, n) /\ On(parent, Key[e])
      /\ SharedPrefix(e, n, nodes[n].prefix) < nodes[n].prefix
  BY <1>1, AtReplacement
<1>4. Sound(nodes, Slots) /\ NodesTyped(nodes, Slots) /\ Tree(nodes)
  BY DEF IInv, TreeInv, Sound
<1>5. copy \in NodeIds /\ copy \notin DOMAIN nodes /\ Path(copy) = Path(n)
  <2>1. n \in NodeIds
    BY <1>3, <1>4 DEF NodesTyped, IdsTyped
  <2>2. Path(n) \in Seq(HCAddresses)
    BY <2>1 DEF NodeIds, Path
  <2> QED BY <1>4, <2>2, FreshId
<1>6. /\ upper \in NodeIds /\ upper \notin DOMAIN nodes
      /\ Path(upper) = SplitPath(nodes, n, e) /\ upper # copy
  <2> DEFINE p == SplitPath(nodes, n, e)
             shared == SharedPrefix(e, n, nodes[n].prefix)
  <2>1. /\ shared \in Nat /\ shared <= nodes[n].prefix
        /\ p \in Seq(HCAddresses) /\ Len(p) = Len(Path(parent)) + 1 + shared
    <3> DEFINE ns == nodes
    <3>0. Linked(ns, parent, AddressIn(e, parent), n)
      BY <1>3
    <3> HIDE DEF n, parent, e, ns
    <3>1. LET shared2 == SharedPrefix(e, n, ns[n].prefix)
              split == SplitPath(ns, n, e)
          IN  /\ shared2 \in Nat /\ shared2 <= ns[n].prefix
              /\ split \in Seq(HCAddresses) /\ Len(split) = Len(Path(parent)) + 1 + shared2
      BY <1>3, <1>4, <3>0, WalkOn DEF ns
    <3> QED BY <3>1 DEF ns
  <2>2. Len(Path(n)) = Len(Path(parent)) + 1 + nodes[n].prefix /\ Len(Path(parent)) \in Nat
        /\ nodes[n].prefix \in Nat
    <3> HIDE DEF n, parent, pa
    <3> QED BY <1>3, <1>4, LinkedFacts
  <2>3. Len(p) < Len(Path(n))
    BY <1>3, <2>1, <2>2
  <2> HIDE DEF p
  <2>4. upper \in NodeIds /\ upper \notin DOMAIN nodes /\ Path(upper) = p
    <3> DEFINE id == NewId(p, DOMAIN nodes)
    <3> HIDE DEF id
    <3>1. id \in NodeIds /\ id \notin DOMAIN nodes /\ Path(id) = p
      BY <1>4, <2>1, FreshId DEF id
    <3> QED BY <3>1 DEF id, p
  <2>5. Path(upper) # Path(copy)
    BY <1>5, <2>2, <2>3, <2>4, <2>1
  <2> QED BY <2>4, <2>5 DEF p
<1> QED BY <1>2, <1>3, <1>4, <1>5, <1>6

(* SplitPrefix preserves the invariant.                                    *)
LEMMA SplitPrefixInv == ASSUME IInv, NEW t \in Thread, SplitPrefix(t), Step(t)
                        PROVE IInv' /\ Grown(nodes, nodes')
<1> DEFINE n == local[t].cur
           parent == local[t].last
           e == Entry(t)
           pa == AddressIn(e, parent)
           upper == NewId(SplitPath(nodes, n, e), DOMAIN nodes)
           copy == NewId(Path(n), DOMAIN nodes)
<1>1. /\ pc[t] = "split" /\ <<t, parent>> \in writers /\ Unlocked(n)
      /\ UNCHANGED <<poolVars, syncPhaseRequired, entryMap>>
  BY DEF SplitPrefix
<1>2. CASE Valid(n, local[t].seen)
  <2>1. /\ nodes' = Resplit(nodes, n, parent, e, upper, copy)
        /\ buffer' = BuffersMoved(buffer, nodes[n], copy)
        /\ deleted' = [deleted EXCEPT ![t] = @ \cup {n}]
        /\ pc'[t] = "next" /\ pos'[t] = pos[t] + 1
        /\ e \in Entries /\ n \in DOMAIN nodes /\ parent \in LiveNodes(nodes)
        /\ pa \in HCAddresses /\ Linked(nodes, parent, pa, n) /\ On(parent, Key[e])
        /\ SharedPrefix(e, n, nodes[n].prefix) < nodes[n].prefix
        /\ Sound(nodes, Slots) /\ NodesTyped(nodes, Slots) /\ Tree(nodes)
        /\ copy \in NodeIds /\ copy \notin DOMAIN nodes /\ Path(copy) = Path(n)
        /\ upper \in NodeIds /\ upper \notin DOMAIN nodes
        /\ Path(upper) = SplitPath(nodes, n, e) /\ upper # copy
    BY <1>2, SplitFacts
  <2>6. pa = AddressIn(e, parent)
    OBVIOUS
  <2> HIDE DEF n, parent, e, pa, upper, copy
  <2>7. Sound(nodes', Slots)
    BY <2>1, <2>6, ResplitSound
  <2>8. Handover(nodes, nodes', n, parent, pa, upper, {upper, copy}, copy, Slots)
    BY <2>1, <2>6, ResplitHandover
  <2>9. pc[t] \in {"split", "copy"}
    BY <1>1
  <2> QED BY <1>1, <2>1, <2>7, <2>8, <2>9, HandoverInv
<1>3. CASE ~Valid(n, local[t].seen)
  <2>1. Restart(t) /\ UNCHANGED <<nodes, deleted, buffer, pos>>
    BY <1>3 DEF SplitPrefix
  <2> QED BY <1>1, <2>1, ReplacementDropped
<1> QED BY <1>2, <1>3

(* Every step of a thread preserves the invariant, and changes nodes only  *)
(* as Grown says.                                                          *)
LEMMA StepInv ==
  ASSUME IInv, FlushLocksNode, NEW t \in Thread, Step(t)
  PROVE  IInv' /\ Grown(nodes, nodes')
<1>1. ASSUME UNCHANGED nodes PROVE Grown(nodes, nodes')
  BY <1>1, GrownSame DEF IInv, TreeInv, Sound
<1>2. CASE NextEntry(t) BY <1>1, <1>2, NextEntryInv DEF NextEntry
<1>3. CASE NoMoreEntries(t) BY <1>1, <1>3, NoMoreEntriesInv, ZenonT(30) DEF NoMoreEntries
<1>4. CASE Start(t) BY <1>1, <1>4, StartInv, ZenonT(30) DEF Start
<1>5. CASE LockStart(t) BY <1>1, <1>5, LockStartInv DEF LockStart
<1>6. CASE VisitSubnode(t) BY <1>1, <1>6, VisitSubnodeInv, ZenonT(30) DEF VisitSubnode
<1>7. CASE LockChild(t) BY <1>1, <1>7, LockChildInv, ZenonT(30) DEF LockChild
<1>8. CASE VisitFullBuffer(t) \/ VisitBuffer(t) \/ VisitRoom(t)
  BY <1>1, <1>8, VisitInv, ZenonT(30) DEF VisitFullBuffer, VisitBuffer, VisitRoom
<1>9. CASE VisitSuffixNoBuffer(t) BY <1>1, <1>9, VisitSuffixNoBufferInv DEF VisitSuffixNoBuffer
<1>10. CASE VisitSuffix(t) BY <1>1, <1>10, VisitSuffixInv DEF VisitSuffix
<1>11. CASE VisitFullNode(t) BY <1>1, <1>11, VisitFullNodeInv DEF VisitFullNode
<1>12. CASE Reserve(t) BY <1>1, <1>12, ReserveInv DEF Reserve
<1>13. CASE Fill(t) BY <1>1, <1>13, FillInv DEF Fill
<1>14. CASE Compare(t) BY <1>1, <1>14, CompareInv DEF Compare
<1>15. CASE InsertSuffix(t) BY <1>15, InsertSuffixInv
<1>16. CASE SwapSuffix(t) BY <1>16, SwapSuffixInv
<1>17. CASE LockFlush(t) BY <1>1, <1>17, LockFlushInv DEF LockFlush
<1>18. CASE Recheck(t) BY <1>1, <1>18, RecheckInv DEF Recheck
<1>19. CASE FlushSubtree(t) BY <1>19, FlushSubtreeInv
<1>20. CASE LockDowngraded(t) BY <1>1, <1>20, LockDowngradedInv DEF LockDowngraded
<1>21. CASE LockParent(t) BY <1>1, <1>21, LockParentInv DEF LockParent
<1>22. CASE CopyNode(t) BY <1>22, CopyNodeInv
<1>23. CASE SplitPrefix(t) BY <1>23, SplitPrefixInv
<1> QED BY <1>2, <1>3, <1>4, <1>5, <1>6, <1>7, <1>8, <1>9, <1>10, <1>11, <1>12, <1>13, <1>14, <1>15,
           <1>16, <1>17, <1>18, <1>19, <1>20, <1>21, <1>22, <1>23 DEF Step
-----------------------------------------------------------------------------
(* The synchronisation phase *)

(* All buffers are flushed, so that none is left in the tree.              *)
LEMMA SyncFacts ==
  ASSUME IInv, SyncPhase, NEW F, F = Flushed(nodes, {buffer[s] : s \in inUse})
  PROVE  /\ Sound(F, Slots) /\ nodes' = Pruned(F) /\ Root \in LiveNodes(F)
         /\ \A k \in LiveNodes(F), b \in HCAddresses : \A r : F[k].cont[b] # Buf(r)
<1>1. /\ \A t \in Thread : pc[t] = "barrier"
      /\ nodes' = [n \in DOMAIN F \ UNION {deleted[t] : t \in Thread} |-> F[n]]
  BY DEF SyncPhase
<1>2. /\ Sound(nodes, Slots) /\ Hung(nodes, buffer, Slots, DOMAIN Cleared) /\ RowsRight(buffer, nextIndex)
      /\ NodesTyped(nodes, Slots) /\ Tree(nodes) /\ DeletedInv
  BY DEF IInv, TreeInv, Sound
<1>3. inUse = UsedBuffers
  <2>1. UsedBuffers \subseteq inUse
    BY UsedHeld DEF IInv
  <2>2. inUse \ UsedBuffers = {}
    BY <1>1 DEF HeldInv, IInv
  <2> QED BY <2>1, <2>2
<1> DEFINE S == inUse
           ns == nodes
           bufs == buffer
           bs == Picked(bufs, S)
<1>4. Full(ns, bufs, S, Slots, DOMAIN Cleared)
  <2>1. S \in SUBSET Slots /\ \A s \in S : bufs[s].node # None
    BY <1>3 DEF UsedBuffers
  <2> HIDE DEF S
  <2> QED BY <1>2, <2>1, FullOf
<1>5. F = Flushed(ns, Picked(bufs, S))
  BY DEF Picked
<1>6. \A r \in Slots : bufs[r].node # None => r \in S
  BY <1>3 DEF UsedBuffers
<1>7. Sound(ns, Slots) /\ NodesTyped(ns, Slots) /\ Tree(ns)
  BY <1>2
<1>8. /\ \A t \in Thread : deleted[t] \subseteq DOMAIN ns
      /\ \A n \in DOMAIN ns : ns[n].removed <=> \E t \in Thread : n \in deleted[t]
  BY <1>2 DEF DeletedInv
<1> HIDE DEF S, ns, bufs, bs
<1>9. /\ HangingOnce(ns, bs) /\ IsFiniteSet(bs)
      /\ \A b \in bs : \E s : ns[b.node].cont[b.addr] = Buf(s)
  BY <1>4, PickedHang DEF bs
<1>10. Sound(F, Slots)
  BY <1>5, <1>7, <1>9, FlushedSound DEF bs
<1>11. \A k \in LiveNodes(F), b \in HCAddresses : \A r : F[k].cont[b] = Buf(r) =>
          r \in Slots \ S /\ bufs[r].node = k /\ bufs[r].addr = b
  BY <1>4, <1>5, FlushedBuffers
<1>12. \A k \in LiveNodes(F), b \in HCAddresses : \A r : F[k].cont[b] # Buf(r)
  <2> SUFFICES ASSUME NEW k \in LiveNodes(F), NEW b \in HCAddresses, NEW r, F[k].cont[b] = Buf(r)
               PROVE  FALSE
    OBVIOUS
  <2>1. r \in Slots \ S /\ bufs[r].node = k
    BY <1>11
  <2>2. k # None
    BY <1>10 DEF Sound, NodesTyped, IdsTyped, LiveNodes, NodeIds, None
  <2> QED BY <1>6, <2>1, <2>2
<1>13. LiveNodes(F) = DOMAIN F \ UNION {deleted[t] : t \in Thread}
  <2>1. DOMAIN ns \subseteq DOMAIN F /\ F = Flushed(ns, bs)
    BY <1>5, <1>7, <1>9, FlushedDomain DEF bs
  <2>2. ASSUME NEW k \in DOMAIN F
        PROVE  F[k].removed <=> \E t \in Thread : k \in deleted[t]
    <3>1. CASE k \in DOMAIN ns
      <4>1. F[k].removed = ns[k].removed
        BY <1>7, <1>9, <2>1, <3>1, FlushedFields
      <4> QED BY <1>8, <3>1, <4>1
    <3>2. CASE k \notin DOMAIN ns
      <4>1. F[k].removed = FALSE
        <5>1. k \in DOMAIN Flushed(ns, bs)
          BY <2>1
        <5>2. Flushed(ns, bs)[k].removed = FALSE
          BY <1>7, <1>9, <3>2, <5>1, FlushedShape
        <5> QED BY <2>1, <5>2
      <4> QED BY <1>8, <3>2, <4>1
    <3> QED BY <3>1, <3>2
  <2> QED BY <2>2 DEF LiveNodes
<1>14. Root \in LiveNodes(F)
  <2>1. Root \in LiveNodes(ns)
    BY DEF IInv, TreeInv, ns
  <2>2. DOMAIN ns \subseteq DOMAIN F /\ F = Flushed(ns, bs)
    BY <1>5, <1>7, <1>9, FlushedDomain DEF bs
  <2>3. F[Root].removed = ns[Root].removed
    BY <1>7, <1>9, <2>1, <2>2, FlushedFields DEF LiveNodes
  <2> QED BY <2>1, <2>2, <2>3 DEF LiveNodes
<1> QED BY <1>1, <1>10, <1>12, <1>13, <1>14 DEF Pruned

(* A synchronisation phase preserves the invariant: all buffers flushed,   *)
(* the pool reset, the replaced nodes freed.                               *)
LEMMA SyncPhaseInv == ASSUME IInv, SyncPhase PROVE IInv'
<1> DEFINE F == Flushed(nodes, {buffer[s] : s \in inUse})
<1>1. /\ \A t \in Thread : pc[t] = "barrier"
      /\ buffer' = [s \in Slots |-> Cleared] /\ Pool!FullDeallocate
      /\ syncPhaseRequired' = FALSE /\ deleted' = [t \in Thread |-> {}]
      /\ entryMap' = [t \in Thread |-> <<>>]
      /\ \A t \in Thread : pc'[t] \in {"finished", "barrier", "synced"}
      /\ UNCHANGED <<work, readers, writers, pos, local>>
  BY DEF SyncPhase, MapsCleared
<1>2. /\ Sound(F, Slots) /\ nodes' = Pruned(F) /\ Root \in LiveNodes(F)
      /\ \A k \in LiveNodes(F), b \in HCAddresses : \A r : F[k].cont[b] # Buf(r)
  <2> HIDE DEF F
  <2> QED BY SyncFacts DEF F
<1> HIDE DEF F
<1>3. /\ Sound(nodes', Slots) /\ LiveNodes(nodes') = LiveNodes(F) /\ DOMAIN nodes' = LiveNodes(F)
      /\ \A n \in LiveNodes(F) : nodes'[n] = F[n]
  BY <1>2, PrunedSound
<1>4. /\ Cleared.node = None /\ Cleared.rows = <<>> /\ DOMAIN <<>> = {}
      /\ {"node", "addr", "rows"} \subseteq DOMAIN Cleared
  BY ClearedFields
<1>5. \A s \in Slots : buffer'[s] = Cleared
  BY <1>1
<1>6. Hung(nodes', buffer', Slots, DOMAIN Cleared)
  <2>1. \A n \in LiveNodes(nodes'), a \in HCAddresses : \A s : nodes'[n].cont[a] # Buf(s)
    BY <1>2, <1>3
  <2>2. DOMAIN buffer' = Slots
    BY <1>1
  <2>3. \A s \in Slots : /\ DOMAIN buffer'[s] = DOMAIN Cleared
                         /\ buffer'[s].node = None /\ buffer'[s].rows = <<>>
    BY <1>4, <1>5
  <2> QED BY <1>4, <2>1, <2>2, <2>3 DEF Hung
<1>7. RowsRight(buffer', nextIndex')
  BY <1>4, <1>5 DEF RowsRight
<1>8. DeletedInv'
  <2>1. \A n \in DOMAIN nodes' : ~nodes'[n].removed
    BY <1>3 DEF LiveNodes
  <2>2. \A t \in Thread : deleted'[t] = {}
    BY <1>1
  <2> QED BY <2>1, <2>2 DEF DeletedInv
<1>9. UsedBuffers' = {}
  BY <1>4, <1>5 DEF UsedBuffers, Slots
<1>10. PoolProofs!IInv' /\ inUse' = {}
  BY <1>1, <1>9, AllGivenBack DEF IInv
<1>11. HeldInv'
  <2>1. \A t \in Thread : pc'[t] # "swap"
    BY <1>1
  <2> QED BY <1>10, <2>1 DEF HeldInv
<1>12. FilledInv'
  <2>1. \A s \in Slots : DOMAIN buffer'[s].rows = {}
    BY <1>4, <1>5
  <2> QED BY <2>1 DEF FilledInv, Slots
<1>13. ControlInv'
  BY SyncControl DEF IInv
<1>14. WorkTyped'
  BY <1>1 DEF IInv, WorkTyped, Calling
<1>15. ASSUME NEW t \in Thread
       PROVE  ThreadInv(t)'
  <2>1. pc'[t] \in {"finished", "barrier", "synced"} /\ pc'[t] \notin Calling /\ pc'[t] # "next"
    BY <1>1 DEF Calling
  <2>2. entryMap'[t] = <<>>
    BY <1>1
  <2>3. MapOK(<<>>, nodes')
    <3> DEFINE z == <<>>
    <3>1. z = <<>> /\ DOMAIN z = {} /\ z \in Seq(DOMAIN nodes')
      OBVIOUS
    <3> HIDE DEF z
    <3>2. MapOK(z, nodes')
      BY <3>1 DEF MapOK
    <3> QED BY <3>1, <3>2
  <2>4. MapInv(t)'
    BY <2>1, <2>2, <2>3 DEF MapInv
  <2>5. \A n : <<t, n>> \notin writers
    <3>1. WriteLocks(t) = {}
      BY <1>1 DEF WriteLocks
    <3> QED BY <3>1 DEF IInv, ControlInv, LockInv
  <2>6. WriteInv(t)'
    BY <1>1, <2>5 DEF WriteInv
  <2>7. WalkInv(t)'
    BY <2>1 DEF WalkInv
  <2> QED BY <2>4, <2>6, <2>7 DEF ThreadInv
<1>16. TreeInv'
  <2>1. Root \in LiveNodes(nodes')
    BY <1>2, <1>3
  <2> QED BY <1>3, <1>6, <1>7, <1>8, <2>1 DEF TreeInv, Slots
<1> QED BY <1>10, <1>11, <1>12, <1>13, <1>14, <1>15, <1>16 DEF IInv

-----------------------------------------------------------------------------
(* The start: a root without contents. *)

(* The root has room for everything and holds nothing. *)
LEMMA EmptyTree ==
  ASSUME Init
  PROVE  /\ Sound(nodes, Slots) /\ DOMAIN nodes = {Root} /\ LiveNodes(nodes) = {Root}
         /\ \A a \in HCAddresses : nodes[Root].cont[a] = Empty
<1> DEFINE room == NodeCapacity(2 ^ DIM)
<1>1. room \in Nat
  <2> DEFINE z == 2 ^ DIM
  <2>1. z \in Nat /\ z <= 2 ^ DIM
    BY PowerAssumption
  <2> HIDE DEF z
  <2>2. NodeCapacity(z) \in Nat
    BY <2>1, CapacitySuffices
  <2> QED BY <2>2 DEF z
<1>2. nodes = [n \in {Root} |-> [BuildNode(0, [a \in HCAddresses |-> Empty]) EXCEPT !.max = room]]
  BY DEF Init
<1> HIDE DEF room
<1> QED BY <1>1, <1>2, RootSound

(* The insertion starts with an empty root and an untouched pool.          *)
LEMMA InitIInv == Init => IInv
<1> SUFFICES ASSUME Init PROVE IInv
  OBVIOUS
<1>1. /\ work \in Workloads /\ readers = {} /\ writers = {} /\ Pool!PoolInit
      /\ buffer = [s \in Slots |-> Cleared] /\ syncPhaseRequired = FALSE
      /\ deleted = [t \in Thread |-> {}] /\ entryMap = [t \in Thread |-> <<>>]
      /\ pos = [t \in Thread |-> 1] /\ pc = [t \in Thread |-> "next"]
  BY DEF Init
<1>2. /\ Sound(nodes, Slots) /\ DOMAIN nodes = {Root} /\ LiveNodes(nodes) = {Root}
      /\ \A a \in HCAddresses : nodes[Root].cont[a] = Empty
  BY EmptyTree
<1>3. ControlInv
  BY ControlInit
<1>4. WorkTyped
  <2>1. work \in [Thread -> Seq(Entries)]
    BY <1>1, WorkAssumption
  <2>4. DOMAIN pos = Thread /\ \A t \in Thread : pos[t] = 1 /\ pc[t] = "next"
    BY <1>1
  <2>2. \A t \in Thread : Len(work[t]) \in Nat
    BY <2>1
  <2>3. "next" \notin Calling
    BY DEF Calling
  <2>5. \A t \in Thread : 1 \in 1 .. Len(work[t]) + 1
    BY <2>2
  <2> QED BY <1>1, <2>1, <2>3, <2>4, <2>5 DEF WorkTyped
<1>5. /\ Cleared.node = None /\ Cleared.rows = <<>> /\ DOMAIN <<>> = {}
      /\ {"node", "addr", "rows"} \subseteq DOMAIN Cleared
  BY ClearedFields
<1>6. Hung(nodes, buffer, Slots, DOMAIN Cleared) /\ RowsRight(buffer, nextIndex) /\ FilledInv
  <2>1. \A s \in Slots : buffer[s] = Cleared
    BY <1>1
  <2>2. \A k \in LiveNodes(nodes), a \in HCAddresses : \A s : nodes[k].cont[a] # Buf(s)
    BY <1>2, Kinds DEF LiveNodes
  <2>3. Hung(nodes, buffer, Slots, DOMAIN Cleared)
    BY <1>1, <1>5, <2>1, <2>2 DEF Hung
  <2>4. RowsRight(buffer, nextIndex) /\ FilledInv
    BY <1>5, <2>1 DEF RowsRight, FilledInv
  <2> QED BY <2>3, <2>4
<1>7. DeletedInv
  BY <1>1, <1>2 DEF DeletedInv, LiveNodes
<1>8. UsedBuffers = {} /\ inUse = {}
  BY <1>1, <1>5 DEF UsedBuffers, Pool!PoolInit
<1>9. HeldInv
  BY <1>1, <1>8 DEF HeldInv
<1>10. PoolProofs!IInv
  <2>1. PoolProofs!Init
    BY <1>1, <1>8 DEF PoolProofs!Init, PoolProofs!PoolInit, Pool!PoolInit, Pool!Slots, PoolProofs!Slots
  <2> QED BY <2>1, PoolProofs!InitInv, PoolSizes
<1>11. ASSUME NEW t \in Thread PROVE ThreadInv(t)
  <2>1. pc[t] = "next" /\ pc[t] \notin Calling /\ entryMap[t] = <<>>
    BY <1>1 DEF Calling
  <2>2. MapOK(entryMap[t], nodes)
    <3> DEFINE z == <<>>
    <3>1. z = <<>> /\ DOMAIN z = {} /\ z \in Seq(DOMAIN nodes)
      OBVIOUS
    <3> HIDE DEF z
    <3>2. MapOK(z, nodes)
      BY <3>1 DEF MapOK
    <3> QED BY <2>1, <3>1, <3>2
  <2> QED BY <1>1, <2>1, <2>2 DEF ThreadInv, MapInv, WalkInv, WriteInv
<1> QED BY <1>2, <1>3, <1>4, <1>6, <1>7, <1>9, <1>10, <1>11 DEF IInv, TreeInv

(* Nothing changes in a stuttering step.                                   *)
LEMMA StutterInv == ASSUME IInv, UNCHANGED vars PROVE IInv'
<1>1. ControlInv'
  BY ControlNext DEF IInv
<1>2. PoolProofs!IInv'
  BY PoolKept DEF vars, IInv
<1>3. WorkTyped' /\ FilledInv' /\ HeldInv'
  BY DEF vars, poolVars, IInv, WorkTyped, FilledInv, Filling, HeldInv, UsedBuffers, Slots
<1>4. TreeInv'
  BY DEF vars, poolVars, IInv, TreeInv, DeletedInv, Slots
<1>5. \A t \in Thread : ThreadInv(t)'
  BY DEF vars, IInv, ThreadInv, MapInv, WalkInv, WriteInv, Entry
<1> QED BY <1>1, <1>2, <1>3, <1>4, <1>5 DEF IInv

(* Every step preserves the invariant while buffers are flushed under the  *)
(* lock of their node.                                                     *)
LEMMA NextIInv == IInv /\ FlushLocksNode /\ [Next]_vars => IInv'
  BY StepInv, SyncPhaseInv, StutterInv DEF Next, Terminated

(* While no buffer is flushed without the lock of its node, the inductive  *)
(* invariant holds.                                                        *)
THEOREM Inductive == Spec /\ []FlushLocksNode => []IInv
  BY InitIInv, NextIInv, PTL DEF Spec

-----------------------------------------------------------------------------
(* What follows for every state *)
(* A thread has only nodes in its hands that exist. *)
LEMMA NothingDangles == ASSUME IInv PROVE NoDanglingReference
<1> SUFFICES ASSUME NEW t \in Thread
             PROVE  /\ ToSet(entryMap[t]) \subseteq DOMAIN nodes
                    /\ local[t].cur \in DOMAIN nodes \cup {None}
                    /\ local[t].last \in DOMAIN nodes \cup {None}
                    /\ local[t].child \in DOMAIN nodes \cup {None}
  BY DEF NoDanglingReference
<1>1. MapOK(entryMap[t], nodes) /\ WalkInv(t) /\ LocalsUnset /\ pc[t] \in Labels
  BY DEF IInv, ThreadInv, MapInv, ControlInv, Shaped
<1>2. ToSet(entryMap[t]) \subseteq DOMAIN nodes
  BY <1>1 DEF MapOK, ToSet
<1>3. CASE pc[t] \notin Calling \ {"start"}
  <2>1. local[t] = NoLocal
    BY <1>1, <1>3 DEF Calling, LocalsUnset, Labels
  <2> QED BY <1>2, <2>1 DEF NoLocal
<1>4. CASE pc[t] \in Calling \ {"start"}
  <2>1. /\ Place(pc[t], local[t], entryMap[t], Entry(t), nodes)
        /\ Known(pc[t], local[t], Entry(t), nodes)
    BY <1>1, <1>4 DEF WalkInv
  <2>2. local[t].cur \in DOMAIN nodes /\ local[t].last \in DOMAIN nodes \cup {None}
    BY <2>1 DEF Place
  <2>3. CASE pc[t] # "lockchild"
    BY <1>1, <1>2, <2>2, <2>3 DEF LocalsUnset
  <2>4. CASE pc[t] = "lockchild"
    <3>1. local[t].cur \in LiveNodes(nodes) /\ Cont(nodes, local[t].cur, Entry(t)) = Sub(local[t].child)
      BY <2>1, <2>4 DEF Known
    <3>2. On(local[t].cur, Key[Entry(t)])
      BY <2>1, <2>4 DEF Place
    <3>3. NodesTyped(nodes, Slots) /\ Tree(nodes) /\ Entry(t) \in Entries
      BY <1>4, CallFacts
    <3>4. local[t].child \in DOMAIN nodes
      BY <3>1, <3>2, <3>3, LinkedOn
    <3> QED BY <1>2, <2>2, <3>4
  <2> QED BY <2>3, <2>4
<1> QED BY <1>3, <1>4

(* The node a thread is at lies on the way to its entry.                   *)
LEMMA StaysOnTheWay == ASSUME IInv PROVE OnTheWay
<1> SUFFICES ASSUME NEW t \in Thread,
                    pc[t] \in {"lock", "visit", "lockchild", "reserve", "insert", "swap", "downgrade"}
             PROVE  IsPrefix(Path(local[t].cur), Key[Entry(t)])
  BY DEF OnTheWay
<1>1. pc[t] \in Calling \ {"start"} /\ pc[t] # "split"
  BY DEF Calling, Labels
<1>2. Place(pc[t], local[t], entryMap[t], Entry(t), nodes)
  BY <1>1 DEF IInv, ThreadInv, WalkInv
<1> QED BY <1>1, <1>2 DEF Place, On

(* A row not yet complete would have a thread with a read lock on the node *)
(* that the flushing thread has the write lock of.                         *)
LEMMA FlushesAlone == ASSUME IInv, FlushLocksNode PROVE ExclusiveFlush
<1> SUFFICES ASSUME NEW t \in Thread, pc[t] = "flushing",
                    NEW i \in DOMAIN buffer[local[t].slot].rows
             PROVE  i \in buffer[local[t].slot].complete
  BY DEF ExclusiveFlush, FlushedRowsComplete
<1> DEFINE s == local[t].slot
<1>1. s \in Slots /\ buffer[s].node = local[t].cur /\ <<t, local[t].cur>> \in writers
  BY FlushFacts
<1> SUFFICES ASSUME NEW u \in Thread, Filling(u, s, i)
             PROVE  FALSE
  BY <1>1 DEF IInv, FilledInv
<1>2. pc[u] = "fill" /\ local[u].slot = s
  BY DEF Filling
<1>3. buffer[s].node = local[u].cur /\ buffer[s].node # None
  BY <1>2, AtBuffer
<1>4. LockInv
  BY DEF IInv, ControlInv
<1>5. <<u, local[u].cur>> \in readers
  BY <1>2, <1>3, <1>4 DEF LockInv, ReadLocks
<1>6. u # t
  BY <1>2
<1> QED BY <1>1, <1>3, <1>4, <1>5, <1>6 DEF LockInv, LocksExclusive

(* No thread refers to a node that was freed.                              *)
THEOREM ReferencesValid == Spec /\ []FlushLocksNode => []NoDanglingReference
<1>1. IInv => NoDanglingReference
  BY NothingDangles
<1> QED BY <1>1, Inductive, PTL

(* Whatever the other threads do, the node a thread is at lies on the way  *)
(* to its entry.                                                           *)
THEOREM WalksRight == Spec /\ []FlushLocksNode => []OnTheWay
<1>1. IInv => OnTheWay
  BY StaysOnTheWay
<1> QED BY <1>1, Inductive, PTL

(* If buffers are flushed under the lock of their node at all, no row that *)
(* is flushed is still being written.                                      *)
THEOREM FlushesComplete == Spec /\ []FlushLocksNode => []ExclusiveFlush
<1>1. IInv /\ FlushLocksNode => ExclusiveFlush
  BY FlushesAlone
<1> QED BY <1>1, Inductive, PTL

-----------------------------------------------------------------------------
(* Replaced nodes *)
(* The flush in a synchronisation phase: all buffers that hang in the tree. *)
LEMMA SyncFlush ==
  ASSUME IInv, SyncPhase
  PROVE  /\ inUse = UsedBuffers /\ Full(nodes, buffer, inUse, Slots, DOMAIN Cleared)
         /\ nodes' = Pruned(Flushed(nodes, Picked(buffer, inUse)))
         /\ Sound(Flushed(nodes, Picked(buffer, inUse)), Slots)
         /\ Grown(nodes, Flushed(nodes, Picked(buffer, inUse)))
<1> DEFINE F == Flushed(nodes, {buffer[s] : s \in inUse})
<1>1. inUse = UsedBuffers
  <2>1. UsedBuffers \subseteq inUse
    BY UsedHeld DEF IInv
  <2>2. inUse \ UsedBuffers = {}
    BY DEF HeldInv, IInv, SyncPhase
  <2> QED BY <2>1, <2>2
<1>2. Full(nodes, buffer, inUse, Slots, DOMAIN Cleared)
  <2>1. inUse \in SUBSET Slots /\ \A s \in inUse : buffer[s].node # None
    BY <1>1 DEF UsedBuffers
  <2> QED BY <2>1, FullOf DEF IInv, TreeInv
<1>3. Sound(F, Slots) /\ nodes' = Pruned(F)
  BY SyncFacts
<1>4. F = Flushed(nodes, Picked(buffer, inUse))
  BY DEF Picked
<1> HIDE DEF F
<1>5. Grown(nodes, F)
  <2> DEFINE bs == Picked(buffer, inUse)
  <2>1. /\ HangingOnce(nodes, bs) /\ IsFiniteSet(bs)
        /\ \A b \in bs : \E s : nodes[b.node].cont[b.addr] = Buf(s)
    BY <1>2, PickedHang
  <2>2. NodesTyped(nodes, Slots) /\ Tree(nodes)
    BY DEF IInv, TreeInv, Sound
  <2> HIDE DEF bs
  <2>3. Grown(nodes, Flushed(nodes, bs))
    BY <2>1, <2>2, FlushedGrown
  <2> QED BY <1>4, <2>3 DEF bs
<1> QED BY <1>1, <1>2, <1>3, <1>4, <1>5

(* No step changes the contents of a replaced node or brings it back.      *)
LEMMA FrozenStep ==
  ASSUME IInv, FlushLocksNode, [Next]_vars, NEW n \in DOMAIN nodes \cap DOMAIN nodes', nodes[n].removed
  PROVE  nodes'[n].removed /\ nodes'[n].cont = nodes[n].cont
<1>1. ASSUME NEW t \in Thread, Step(t)
      PROVE  nodes'[n] = nodes[n]
  <2>1. Grown(nodes, nodes')
    BY <1>1, StepInv
  <2> QED BY <2>1 DEF Grown
<1>2. ASSUME SyncPhase
      PROVE  FALSE
  <2> DEFINE F == Flushed(nodes, Picked(buffer, inUse))
  <2>1. nodes' = Pruned(F) /\ Grown(nodes, F)
    BY <1>2, SyncFlush
  <2> HIDE DEF F
  <2>2. n \in LiveNodes(F)
    BY <2>1 DEF Pruned
  <2>3. F[n] = nodes[n]
    BY <2>1 DEF Grown
  <2> QED BY <2>2, <2>3 DEF LiveNodes
<1>3. CASE UNCHANGED vars
  BY <1>3 DEF vars
<1> QED BY <1>1, <1>2, <1>3 DEF Next, Terminated

(* A replaced node is never changed again.                                 *)
THEOREM ReplacedStayFrozen == Spec /\ []FlushLocksNode => ReplacedFrozen
<1>1. IInv /\ FlushLocksNode /\ [Next]_vars
        => [\A n \in DOMAIN nodes \cap DOMAIN nodes' :
              nodes[n].removed => nodes'[n].removed /\ nodes'[n].cont = nodes[n].cont]_vars
  BY FrozenStep
<1> QED BY <1>1, Inductive, PTL DEF Spec, ReplacedFrozen

-----------------------------------------------------------------------------
(* The entries stored *)
RowEntries(bs) == UNION {DistinctRows(bs[s].rows) : s \in DOMAIN bs}

-----------------------------------------------------------------------------
(* What a step does to the entries stored: one is added at most; when a    *)
(* call returns, the key of its entry is there.                            *)
StoreGrows == Stored' = Stored \/ \E e \in Entries : Stored' = Stored \cup {e}
Returned(t) == pos'[t] # pos[t] /\ pc[t] \in Calling => \E f \in Stored' : Key[f] = Key[Entry(t)]

(* Rows and nodes that stay store the same entries.                        *)
LEMMA SameStored ==
  ASSUME UNCHANGED nodes, DOMAIN buffer' = DOMAIN buffer,
         \A s \in DOMAIN buffer : buffer'[s].rows = buffer[s].rows
  PROVE  Stored' = Stored
<1>1. ASSUME NEW f PROVE f \in StoredIn(nodes', buffer') <=> f \in StoredIn(nodes, buffer)
  BY StoredIs
<1> QED BY <1>1 DEF Stored

(* A step that only looks stores nothing.                                  *)
LEMMA LookEffect ==
  ASSUME NEW t \in Thread, UNCHANGED <<nodes, buffer, pos>>
  PROVE  StoreGrows /\ Returned(t)
<1>1. Stored' = Stored
  BY DEF Stored
<1> QED BY <1>1 DEF StoreGrows, Returned

(* Completing a row and checking again store nothing.                      *)
LEMMA FillEffect ==
  ASSUME IInv, NEW t \in Thread, Fill(t) \/ Recheck(t)
  PROVE  StoreGrows /\ Returned(t)
<1>1. DOMAIN buffer = Slots /\ \A s \in Slots : DOMAIN buffer[s] = DOMAIN Cleared
  BY DEF IInv, TreeInv, Hung
<1>2. UNCHANGED <<nodes, pos>>
  BY DEF Fill, Recheck
<1>3. DOMAIN buffer' = DOMAIN buffer /\ \A s \in DOMAIN buffer : buffer'[s].rows = buffer[s].rows
  BY <1>1 DEF Fill, Recheck, Cleared
<1>4. Stored' = Stored
  BY <1>2, <1>3, SameStored
<1> QED BY <1>2, <1>4 DEF StoreGrows, Returned

(* A call that finds its key returns with an entry of that key stored.     *)
LEMMA CompareEffect ==
  ASSUME IInv, NEW t \in Thread, Compare(t)
  PROVE  StoreGrows /\ Returned(t)
<1> DEFINE s == local[t].slot
           e == Entry(t)
<1>1. pc[t] = "compare" /\ pc[t] \in Calling /\ UNCHANGED <<nodes, buffer>>
  BY DEF Compare, Calling, Labels
<1>2. Stored' = Stored
  BY <1>1 DEF Stored
<1>3. s \in Slots /\ RowsOf(buffer[s], nextIndex[s]) /\ DOMAIN buffer = Slots
  BY <1>1, AtBuffer
<1>4. PICK i \in DOMAIN buffer[s].rows : buffer[s].rows[i] = e
  BY <1>1, CallFacts DEF RowKnown
<1>5. PICK f \in DistinctRows(buffer[s].rows) : Key[f] = Key[e]
  BY <1>3, <1>4, RowsKept DEF RowsOf, RowsLie
<1>6. f \in Stored
  BY <1>3, <1>5 DEF Stored, StoredIn
<1> QED BY <1>2, <1>5, <1>6 DEF StoreGrows, Returned

(* A reserved row stores its entry unless its key is there.                *)
LEMMA ReserveEffect ==
  ASSUME IInv, NEW t \in Thread, Reserve(t)
  PROVE  StoreGrows /\ Returned(t)
<1> DEFINE s == local[t].slot
           e == Entry(t)
<1>1. pc[t] = "reserve" /\ pc[t] \in Calling /\ UNCHANGED <<nodes, pos>>
  BY DEF Reserve, Calling, Labels, Restart
<1>2. /\ s \in Slots /\ RowsOf(buffer[s], nextIndex[s]) /\ DOMAIN buffer = Slots
      /\ DOMAIN buffer[s] = DOMAIN Cleared
  BY <1>1, AtBuffer
<1>3. e \in Entries /\ buffer[s].rows \in Seq(Entries)
  BY <1>1, <1>2, CallFacts DEF RowsOf, RowsLie
<1>4. CASE UNCHANGED buffer
  BY <1>1, <1>4, LookEffect
<1>5. CASE buffer' = [buffer EXCEPT ![s].rows = Append(@, e)]
  <2>1. /\ DOMAIN buffer' = Slots /\ buffer'[s].rows = Append(buffer[s].rows, e)
        /\ \A r \in Slots \ {s} : buffer'[r] = buffer[r]
    BY <1>2, <1>5 DEF Cleared
  <2>2. \/ DistinctRows(buffer'[s].rows) = DistinctRows(buffer[s].rows)
        \/ DistinctRows(buffer'[s].rows) = DistinctRows(buffer[s].rows) \cup {e}
    BY <1>3, <2>1, RowAppended
  <2>3. ASSUME DistinctRows(buffer'[s].rows) = DistinctRows(buffer[s].rows)
        PROVE  Stored' = Stored
    <3>1. ASSUME NEW f PROVE f \in StoredIn(nodes', buffer') <=> f \in StoredIn(nodes, buffer)
      <4>1. \A r \in Slots : DistinctRows(buffer'[r].rows) = DistinctRows(buffer[r].rows)
        BY <2>1, <2>3
      <4> QED BY <1>1, <1>2, <2>1, <4>1, StoredIs
    <3> QED BY <3>1 DEF Stored
  <2>4. ASSUME DistinctRows(buffer'[s].rows) = DistinctRows(buffer[s].rows) \cup {e}
        PROVE  Stored' = Stored \cup {e}
    <3>1. ASSUME NEW f PROVE f \in StoredIn(nodes', buffer') <=> f \in StoredIn(nodes, buffer) \cup {e}
      <4>1. \A r \in Slots \ {s} : DistinctRows(buffer'[r].rows) = DistinctRows(buffer[r].rows)
        BY <2>1
      <4>2. f \in DistinctRows(buffer'[s].rows) <=> f \in DistinctRows(buffer[s].rows) \/ f = e
        BY <2>4
      <4>3. f \in StoredIn(nodes', buffer') <=>
              f \in SuffixEntries(nodes') \/ \E r \in Slots : f \in DistinctRows(buffer'[r].rows)
        BY <2>1, StoredIs
      <4>4. f \in StoredIn(nodes, buffer) <=>
              f \in SuffixEntries(nodes) \/ \E r \in Slots : f \in DistinctRows(buffer[r].rows)
        BY <1>2, StoredIs
      <4> HIDE DEF s, e
      <4> QED BY <1>1, <1>2, <4>1, <4>2, <4>3, <4>4
    <3> QED BY <3>1 DEF Stored
  <2> QED BY <1>1, <1>3, <2>2, <2>3, <2>4 DEF StoreGrows, Returned
<1> QED BY <1>4, <1>5 DEF Reserve, Restart

(* A step that adds the thread's entry. *)
LEMMA Added ==
  ASSUME NEW t \in Thread, Entry(t) \in Entries, Stored' = Stored \cup {Entry(t)}
  PROVE  StoreGrows /\ Returned(t)
  BY DEF StoreGrows, Returned

(* A suffix stores its entry and loses none.                               *)
LEMMA InsertSuffixEffect ==
  ASSUME IInv, IInv', NEW t \in Thread, InsertSuffix(t)
  PROVE  StoreGrows /\ Returned(t)
<1> DEFINE n == local[t].cur
           e == Entry(t)
           a == AddressIn(e, n)
<1>1. pc[t] = "insert" /\ pc[t] \in Calling /\ UNCHANGED buffer
  BY DEF InsertSuffix, Calling, Labels
<1>2. CASE ~Valid(n, local[t].seen)
  <2>1. UNCHANGED <<nodes, pos>>
    BY <1>2 DEF InsertSuffix
  <2> QED BY <1>1, <2>1, LookEffect
<1>3. CASE Valid(n, local[t].seen)
  <2>1. nodes' = Put(nodes, n, a, Suffix(e))
    BY <1>3 DEF InsertSuffix, SetContent, Put
  <2>2. /\ Remembered("insert", local[t], e, nodes)
        /\ NodesTyped(nodes, Slots) /\ e \in Entries
        /\ n \in DOMAIN nodes /\ a \in HCAddresses
    BY <1>1, CallFacts DEF Place
  <2>3. nodes[n].cont[a] = Empty /\ n \in LiveNodes(nodes)
    BY <1>3, <2>2 DEF Remembered, Since, Valid, Cont, LiveNodes
  <2>4. NodesTyped(Put(nodes, n, a, Suffix(e)), Slots)
    BY <2>1 DEF IInv, TreeInv, Sound, Slots
  <2> HIDE DEF n, e, a
  <2>5. SuffixEntries(nodes') = SuffixEntries(nodes) \cup {e}
    BY <2>1, <2>2, <2>3, <2>4, SuffixAdded
  <2>6. Stored' = Stored \cup {e}
    BY <1>1, <2>5 DEF Stored, StoredIn
  <2> QED BY <2>2, <2>6, Added DEF e
<1> QED BY <1>2, <1>3

(* The rows of the buffers that move along with a copy.                    *)
LEMMA MovedStored ==
  ASSUME IInv, NEW node, NEW new, buffer' = BuffersMoved(buffer, node, new), NEW e,
         SuffixEntries(nodes') = SuffixEntries(nodes) \cup {e}
  PROVE  Stored' = Stored \cup {e}
<1>1. DOMAIN buffer = Slots /\ \A s \in Slots : DOMAIN buffer[s] = DOMAIN Cleared
  BY DEF IInv, TreeInv, Hung
<1>2. DOMAIN buffer' = Slots
  BY <1>1 DEF BuffersMoved
<1>3. \A s \in Slots : buffer'[s].rows = buffer[s].rows
  BY <1>1, ClearedFields, MovedIs
<1>4. ASSUME NEW f PROVE f \in StoredIn(nodes', buffer') <=> f \in StoredIn(nodes, buffer) \cup {e}
  BY <1>1, <1>2, <1>3, StoredIs
<1> QED BY <1>4 DEF Stored

(* A copy into a larger node stores its entry and loses none.              *)
LEMMA CopyNodeEffect ==
  ASSUME IInv, IInv', NEW t \in Thread, CopyNode(t)
  PROVE  StoreGrows /\ Returned(t)
<1> DEFINE n == local[t].cur
           parent == local[t].last
           e == Entry(t)
           pa == AddressIn(e, parent)
           a == AddressIn(e, n)
           new == NewId(Path(n), DOMAIN nodes)
<1>1. CASE ~Valid(n, local[t].seen)
  BY <1>1, LookEffect DEF CopyNode
<1>2. CASE Valid(n, local[t].seen)
  <2>1. /\ nodes' = Copied(nodes, n, parent, pa, new, a, e)
        /\ buffer' = BuffersMoved(buffer, nodes[n], new)
        /\ e \in Entries /\ parent \in LiveNodes(nodes)
        /\ pa \in HCAddresses /\ Linked(nodes, parent, pa, n)
        /\ nodes[n].cont[a] = Empty /\ IsFull(nodes[n])
        /\ a \in HCAddresses /\ Sound(nodes, Slots) /\ new \notin DOMAIN nodes
    BY <1>2, CopyFacts
  <2>2. Sound(nodes', Slots)
    BY DEF IInv, TreeInv, Slots
  <2> HIDE DEF n, parent, e, pa, a, new
  <2>3. SuffixEntries(nodes') = SuffixEntries(nodes) \cup {e}
    BY <2>1, <2>2, CopiedEntries
  <2>4. Stored' = Stored \cup {e}
    BY <2>1, <2>3, MovedStored
  <2> QED BY <2>1, <2>4, Added DEF e
<1> QED BY <1>1, <1>2

(* A prefix split stores its entry and loses none.                         *)
LEMMA SplitPrefixEffect ==
  ASSUME IInv, IInv', NEW t \in Thread, SplitPrefix(t)
  PROVE  StoreGrows /\ Returned(t)
<1> DEFINE n == local[t].cur
           parent == local[t].last
           e == Entry(t)
           pa == AddressIn(e, parent)
           upper == NewId(SplitPath(nodes, n, e), DOMAIN nodes)
           copy == NewId(Path(n), DOMAIN nodes)
<1>1. CASE ~Valid(n, local[t].seen)
  BY <1>1, LookEffect DEF SplitPrefix
<1>2. CASE Valid(n, local[t].seen)
  <2>1. /\ nodes' = Resplit(nodes, n, parent, e, upper, copy)
        /\ buffer' = BuffersMoved(buffer, nodes[n], copy)
        /\ e \in Entries /\ parent \in LiveNodes(nodes)
        /\ pa \in HCAddresses /\ Linked(nodes, parent, pa, n) /\ On(parent, Key[e])
        /\ Sound(nodes, Slots) /\ copy \notin DOMAIN nodes
        /\ upper \in NodeIds /\ upper \notin DOMAIN nodes /\ upper # copy
    BY <1>2, SplitFacts
  <2>2. Sound(nodes', Slots)
    BY DEF IInv, TreeInv, Slots
  <2>3. Key[e][Len(Path(upper)) + 1] \in HCAddresses
    <3>1. upper \in DOMAIN nodes'
      <4>1. n \in DOMAIN nodes /\ parent \in DOMAIN nodes /\ n # parent
        <5> HIDE DEF n, parent, pa
        <5> QED BY <2>1, LinkedFacts DEF Sound, LiveNodes
      <4> HIDE DEF n, parent, e, upper, copy
      <4>2. Replacement(nodes, nodes', n, parent, AddressIn(e, parent), upper, {upper, copy}, Slots)
        BY <2>1, <4>1, ResplitReplaces DEF Sound, pa
      <4> QED BY <4>2 DEF Replacement
    <3>2. upper \in NodeIds /\ Len(Path(upper)) < WIDTH
      BY <2>1, <2>2, <3>1 DEF Sound, NodesTyped
    <3> HIDE DEF upper, e
    <3>3. AddressIn(e, upper) \in HCAddresses
      BY <2>1, <3>2, AddressType
    <3> QED BY <3>3 DEF AddressIn
  <2>4. pa = AddressIn(e, parent)
    OBVIOUS
  <2> HIDE DEF n, parent, e, pa, upper, copy
  <2>5. SuffixEntries(nodes') = SuffixEntries(nodes) \cup {e}
    BY <2>1, <2>2, <2>3, <2>4, ResplitEntries
  <2>6. Stored' = Stored \cup {e}
    BY <2>1, <2>5, MovedStored
  <2> QED BY <2>1, <2>6, Added DEF e
<1> QED BY <1>1, <1>2

(* A buffer in the place of a suffix stores both entries.                  *)
LEMMA SwapSuffixEffect ==
  ASSUME IInv, IInv', NEW t \in Thread, SwapSuffix(t)
  PROVE  StoreGrows /\ Returned(t)
<1> DEFINE n == local[t].cur
           e == Entry(t)
           a == AddressIn(e, n)
           s == local[t].slot
           old == nodes[n].cont[a].entry
<1>1. pc[t] = "swap" /\ pc[t] \in Calling
  BY DEF SwapSuffix, Calling, Labels
<1>2. CASE ~Valid(n, local[t].seen)
  BY <1>2, LookEffect DEF SwapSuffix
<1>3. CASE Valid(n, local[t].seen)
  <2>1. /\ Remembered("swap", local[t], e, nodes)
        /\ NodesTyped(nodes, Slots) /\ e \in Entries
        /\ n \in DOMAIN nodes /\ a \in HCAddresses
    BY <1>1, CallFacts DEF Place
  <2>2. PICK f \in Entries : nodes[n].cont[a] = Suffix(f)
    BY <1>3, <2>1 DEF Remembered, Since, Valid, Cont
  <2>3. n \in LiveNodes(nodes) /\ old = f
    BY <1>3, <2>1, <2>2, Kinds DEF Valid, LiveNodes
  <2>4. NodesTyped(nodes', Slots)
    BY DEF IInv, TreeInv, Sound, Slots
  <2>5. DOMAIN buffer = Slots /\ s \in Slots /\ buffer[s].node = None /\ buffer[s].rows = <<>>
    BY <1>1, AtSuffix DEF IInv, TreeInv, Hung
  <2>6. f \in SuffixEntries(nodes)
    BY <2>1, <2>2, <2>3, SuffixEntriesAre
  <2> HIDE DEF old
  <2>7. CASE Key[f] = Key[e]
    <3>1. nodes' = Touch(nodes, n) /\ UNCHANGED buffer
      BY <1>3, <2>3, <2>7 DEF SwapSuffix, Touch, old
    <3>2. LiveNodes(nodes') = LiveNodes(nodes) /\ \A k \in LiveNodes(nodes) : nodes'[k].cont = nodes[k].cont
      BY <2>1, <3>1, TouchIs DEF LiveNodes
    <3>3. SuffixEntries(nodes') = SuffixEntries(nodes)
      BY <2>1, <2>4, <3>2, SameEntries
    <3>4. Stored' = Stored /\ f \in Stored
      BY <2>6, <3>1, <3>3 DEF Stored, StoredIn
    <3> QED BY <2>7, <3>4 DEF StoreGrows, Returned
  <2>8. CASE Key[f] # Key[e]
    <3> DEFINE b2 == [node |-> n, addr |-> a, rows |-> <<f, e>>, complete |-> {1, 2}, flushing |-> FALSE]
    <3>1. buffer' = [buffer EXCEPT ![s] = b2] /\ nodes' = Put(nodes, n, a, Buf(s))
      BY <1>3, <2>3, <2>8 DEF SwapSuffix, SetContent, Put, old
    <3>2. b2.rows = <<f, e>>
      OBVIOUS
    <3> HIDE DEF b2, n, a, s, e
    <3>3. DOMAIN buffer' = Slots /\ buffer'[s].rows = <<f, e>> /\ \A r \in Slots \ {s} : buffer'[r] = buffer[r]
      BY <2>5, <3>1, <3>2
    <3>4. SuffixEntries(nodes') \cup {f} = SuffixEntries(nodes)
      BY <2>1, <2>2, <2>3, <2>4, <3>1, SuffixMoved
    <3>5. DistinctRows(buffer[s].rows) = {} /\ DistinctRows(buffer'[s].rows) = {f, e}
      BY <2>5, <2>8, <3>3, FewRows
    <3>6. ASSUME NEW g PROVE g \in StoredIn(nodes', buffer') <=> g \in StoredIn(nodes, buffer) \cup {e}
      <4>1. g \in StoredIn(nodes', buffer') <=>
              g \in SuffixEntries(nodes') \/ \E r \in Slots : g \in DistinctRows(buffer'[r].rows)
        BY <3>3, StoredIs
      <4>2. g \in StoredIn(nodes, buffer) <=>
              g \in SuffixEntries(nodes) \/ \E r \in Slots : g \in DistinctRows(buffer[r].rows)
        BY <2>5, StoredIs
      <4>3. \A r \in Slots \ {s} : DistinctRows(buffer'[r].rows) = DistinctRows(buffer[r].rows)
        BY <3>3
      <4>4. g \in DistinctRows(buffer'[s].rows) <=> g = f \/ g = e
        BY <3>5
      <4>5. g \notin DistinctRows(buffer[s].rows)
        BY <3>5
      <4>6. g \in SuffixEntries(nodes) <=> g \in SuffixEntries(nodes') \/ g = f
        BY <3>4
      <4> QED BY <2>5, <4>1, <4>2, <4>3, <4>4, <4>5, <4>6
    <3>7. Stored' = Stored \cup {e}
      BY <3>6 DEF Stored
    <3> QED BY <2>1, <3>7, Added DEF e
  <2> QED BY <2>7, <2>8
<1> QED BY <1>2, <1>3

(* A flushed buffer leaves what is stored as it is.                        *)
LEMMA FlushSubtreeEffect ==
  ASSUME IInv, FlushLocksNode, NEW t \in Thread, FlushSubtree(t)
  PROVE  StoreGrows /\ Returned(t)
<1> DEFINE s == local[t].slot
           S == {s}
           ns == nodes
           bufs == buffer
<1>1. /\ pc[t] = "flushing" /\ nodes' = Flushed(nodes, {buffer[s]})
      /\ buffer' = [buffer EXCEPT ![s] = Cleared] /\ UNCHANGED pos
  BY DEF FlushSubtree
<1>2. s \in Slots /\ Full(nodes, buffer, {s}, Slots, DOMAIN Cleared) /\ Picked(buffer, {s}) = {buffer[s]}
  BY <1>1, FlushFacts
<1>3. DOMAIN buffer = Slots
  BY DEF IInv, TreeInv, Hung
<1>4. Full(ns, bufs, S, Slots, DOMAIN Cleared) /\ nodes' = Flushed(ns, Picked(bufs, S))
  BY <1>1, <1>2
<1>5. UNION {DistinctRows(bufs[r].rows) : r \in S} = DistinctRows(buffer[s].rows)
  OBVIOUS
<1> HIDE DEF S, ns, bufs
<1>6. SuffixEntries(nodes') = SuffixEntries(ns) \cup UNION {DistinctRows(bufs[r].rows) : r \in S}
  BY <1>4, FlushedStored
<1>7. SuffixEntries(nodes') = SuffixEntries(nodes) \cup DistinctRows(buffer[s].rows)
  BY <1>5, <1>6 DEF ns
<1> HIDE DEF s
<1>8. /\ DOMAIN buffer' = Slots /\ buffer'[s].rows = <<>>
      /\ \A r \in Slots \ {s} : buffer'[r] = buffer[r]
  BY <1>1, <1>2, <1>3 DEF Cleared
<1>9. ASSUME NEW g PROVE g \in StoredIn(nodes', buffer') <=> g \in StoredIn(nodes, buffer)
  <2>1. g \in StoredIn(nodes', buffer') <=>
          g \in SuffixEntries(nodes') \/ \E r \in Slots : g \in DistinctRows(buffer'[r].rows)
    BY <1>8, StoredIs
  <2>2. g \in StoredIn(nodes, buffer) <=>
          g \in SuffixEntries(nodes) \/ \E r \in Slots : g \in DistinctRows(buffer[r].rows)
    BY <1>3, StoredIs
  <2>3. \A r \in Slots \ {s} : DistinctRows(buffer'[r].rows) = DistinctRows(buffer[r].rows)
    BY <1>8
  <2>4. g \notin DistinctRows(buffer'[s].rows)
    BY <1>8, FewRows
  <2>5. g \in SuffixEntries(nodes') <=> g \in SuffixEntries(nodes) \/ g \in DistinctRows(buffer[s].rows)
    BY <1>7
  <2> QED BY <1>2, <2>1, <2>2, <2>3, <2>4, <2>5
<1>10. Stored' = Stored
  BY <1>9 DEF Stored
<1> QED BY <1>1, <1>10 DEF StoreGrows, Returned

(* A synchronisation phase leaves what is stored as it is.                 *)
LEMMA SyncEffect ==
  ASSUME IInv, SyncPhase
  PROVE  Stored' = Stored
<1> DEFINE F == Flushed(nodes, Picked(buffer, inUse))
<1>1. /\ inUse = UsedBuffers /\ Full(nodes, buffer, inUse, Slots, DOMAIN Cleared)
      /\ nodes' = Pruned(F) /\ Sound(F, Slots)
  BY SyncFlush
<1>2. buffer' = [s \in Slots |-> Cleared]
  BY DEF SyncPhase
<1>3. SuffixEntries(F) = SuffixEntries(nodes) \cup UNION {DistinctRows(buffer[s].rows) : s \in inUse}
  BY <1>1, FlushedStored
<1>4. SuffixEntries(Pruned(F)) = SuffixEntries(F)
  <2> HIDE DEF F
  <2>1. /\ Sound(Pruned(F), Slots) /\ LiveNodes(Pruned(F)) = LiveNodes(F)
        /\ \A n \in LiveNodes(F) : Pruned(F)[n] = F[n]
    BY <1>1, PrunedSound
  <2> QED BY <1>1, <2>1, SameEntries DEF Sound
<1> HIDE DEF F
<1>5. DOMAIN buffer = Slots /\ \A s \in Slots : buffer[s].node = None => buffer[s].rows = <<>>
  BY DEF IInv, TreeInv, Hung
<1>6. \A s \in Slots : DistinctRows(buffer[s].rows) # {} => s \in inUse
  BY <1>1, <1>5, FewRows DEF UsedBuffers
<1>7. inUse \subseteq Slots
  BY <1>1 DEF UsedBuffers
<1>8. ASSUME NEW g PROVE g \in StoredIn(nodes', buffer') <=> g \in StoredIn(nodes, buffer)
  <2>1. \A s \in Slots : buffer'[s].rows = <<>>
    BY <1>2 DEF Cleared
  <2>2. g \in StoredIn(nodes', buffer') <=> g \in SuffixEntries(nodes')
    BY <1>2, <2>1, FewRows, StoredIs
  <2>3. g \in StoredIn(nodes, buffer) <=>
          g \in SuffixEntries(nodes) \/ \E r \in Slots : g \in DistinctRows(buffer[r].rows)
    BY <1>5, StoredIs
  <2>4. g \in SuffixEntries(nodes') <=>
          g \in SuffixEntries(nodes) \/ \E r \in inUse : g \in DistinctRows(buffer[r].rows)
    BY <1>1, <1>3, <1>4
  <2> QED BY <1>6, <1>7, <2>2, <2>3, <2>4
<1> QED BY <1>8 DEF Stored

(* A step of a thread stores one entry at most, and its own when the call  *)
(* returns.                                                                *)
LEMMA StepEffect ==
  ASSUME IInv, IInv', FlushLocksNode, NEW t \in Thread, Step(t)
  PROVE  StoreGrows /\ Returned(t)
<1>1. CASE \/ NoMoreEntries(t) \/ Start(t) \/ LockStart(t) \/ VisitSubnode(t)
           \/ LockChild(t) \/ VisitFullBuffer(t) \/ VisitBuffer(t) \/ VisitSuffixNoBuffer(t)
           \/ VisitSuffix(t) \/ VisitFullNode(t) \/ VisitRoom(t) \/ LockFlush(t)
           \/ LockDowngraded(t) \/ LockParent(t)
  <2>1. UNCHANGED <<nodes, buffer, pos>>
    BY <1>1 DEF NoMoreEntries, Start, LockStart, VisitSubnode, LockChild, VisitFullBuffer,
                VisitBuffer, VisitSuffixNoBuffer, VisitSuffix, VisitFullNode, VisitRoom,
                LockFlush, LockDowngraded, LockParent
  <2> QED BY <2>1, LookEffect
<1>2. CASE NextEntry(t)
  <2>1. UNCHANGED <<nodes, buffer>> /\ pc[t] \notin Calling
    BY <1>2 DEF NextEntry, Calling
  <2>2. Stored' = Stored
    BY <2>1 DEF Stored
  <2> QED BY <2>1, <2>2 DEF StoreGrows, Returned
<1> QED BY <1>1, <1>2, FillEffect, CompareEffect, ReserveEffect, InsertSuffixEffect,
           SwapSuffixEffect, FlushSubtreeEffect, CopyNodeEffect, SplitPrefixEffect DEF Step

(* A step of the tree adds an entry under a new key at most.               *)
LEMMA StoreStep ==
  ASSUME IInv, FlushLocksNode, [Next]_vars
  PROVE  \/ Stored' = Stored
         \/ \E e \in Entries : (\A f \in Stored : Key[f] # Key[e]) /\ Stored' = Stored \cup {e}
<1>1. ASSUME NEW t \in Thread, Step(t)
      PROVE  \/ Stored' = Stored
             \/ \E e \in Entries : (\A f \in Stored : Key[f] # Key[e]) /\ Stored' = Stored \cup {e}
  <2>1. IInv'
    BY <1>1, StepInv
  <2>2. StoreGrows
    BY <1>1, <2>1, StepEffect
  <2> SUFFICES ASSUME NEW e \in Entries, Stored' = Stored \cup {e}
               PROVE  Stored' = Stored \/ \A f \in Stored : Key[f] # Key[e]
    BY <2>2 DEF StoreGrows
  <2> DEFINE ns == nodes'
             bs == buffer'
             counts == nextIndex'
             S == Stored
  <2>3. Sound(ns, Slots) /\ Hung(ns, bs, Slots, DOMAIN Cleared) /\ RowsRight(bs, counts)
    BY <2>1 DEF IInv, TreeInv, Slots
  <2>4. StoredIn(ns, bs) = S \cup {e}
    BY DEF Stored
  <2>5. Stored' = StoredIn(ns, bs)
    BY DEF Stored
  <2> HIDE DEF ns, bs, counts, S
  <2>6. StoredIn(ns, bs) = S \/ \A f \in S : Key[f] # Key[e]
    <3>1. BuffersLie(bs, Slots)
      BY <2>3, RightLie
    <3> QED BY <2>3, <2>4, <3>1, NewKey
  <2> QED BY <2>5, <2>6 DEF S
<1>2. CASE SyncPhase
  BY <1>2, SyncEffect
<1>3. CASE UNCHANGED vars
  BY <1>3 DEF vars, Stored
<1> QED BY <1>1, <1>2, <1>3 DEF Next, Terminated

(* Nothing is stored at the start.                                         *)
LEMMA NothingStored == Init => Stored = {}
<1> SUFFICES ASSUME Init PROVE Stored = {}
  OBVIOUS
<1>1. /\ Sound(nodes, Slots) /\ DOMAIN nodes = {Root}
      /\ \A a \in HCAddresses : nodes[Root].cont[a] = Empty
  BY EmptyTree
<1>2. \A f : f \notin SuffixEntries(nodes)
  BY <1>1, SuffixEntriesAre, SubNotEmpty DEF Sound, LiveNodes
<1>3. DOMAIN buffer = Slots /\ \A s \in Slots : buffer[s].rows = <<>>
  BY DEF Init, Cleared
<1>4. \A f : f \notin StoredIn(nodes, buffer)
  BY <1>2, <1>3, FewRows, StoredIs
<1> QED BY <1>4 DEF Stored

(* The tree with its buffers implements the store of KeyStore.             *)
THEOREM StoreImplemented == Spec /\ []FlushLocksNode => ImplementsStore
<1>1. Init => Store!Init
  BY NothingStored DEF Store!Init
<1>2. IInv /\ FlushLocksNode /\ [Next]_vars => [Store!Next]_Stored
  <2> SUFFICES ASSUME IInv, FlushLocksNode, [Next]_vars
               PROVE  [Store!Next]_Stored
    OBVIOUS
  <2>1. ASSUME NEW e \in Entries, \A f \in Stored : Key[f] # Key[e], Stored' = Stored \cup {e}
        PROVE  Store!Insert(e)
    BY <2>1 DEF Store!Insert, Store!Keys
  <2> QED BY <2>1, StoreStep DEF Store!Next
<1> QED BY <1>1, <1>2, Inductive, PTL DEF Spec, ImplementsStore, Store!Spec

-----------------------------------------------------------------------------
(* The entries that were inserted *)

(* A step of a thread moves its position on by one at most, and at a       *)
(* return.                                                                 *)
LEMMA StepPos ==
  ASSUME Shaped, NEW t \in Thread, Step(t)
  PROVE  pos'[t] = pos[t] \/ pos'[t] = pos[t] + 1
<1>1. DOMAIN pos = Thread
  BY DEF Shaped
<1>2. Finish(t) => pos'[t] = pos[t] + 1
  BY <1>1 DEF Finish
<1> QED BY <1>1, <1>2, ZenonT(30) DEF Step, NextEntry, NoMoreEntries, Start, LockStart, VisitSubnode, LockChild,
           VisitFullBuffer, VisitBuffer, VisitSuffixNoBuffer, VisitSuffix, VisitFullNode, VisitRoom,
           Reserve, Fill, Compare, InsertSuffix, SwapSuffix, LockFlush, Recheck, FlushSubtree,
           LockDowngraded, LockParent, CopyNode, SplitPrefix

(* An entry that is skipped has the key of the one before.                 *)
LEMMA Skipped ==
  ASSUME IInv, InsertedKept, NEW t \in Thread, Step(t), pc[t] \notin Calling, pos'[t] # pos[t]
  PROVE  \E f \in Stored : Key[f] = Key[Entry(t)]
<1>1. NextEntry(t)
  BY ZenonT(30) DEF Step, NoMoreEntries, Start, LockStart, VisitSubnode, LockChild,
         VisitFullBuffer, VisitBuffer, VisitSuffixNoBuffer, VisitSuffix, VisitFullNode, VisitRoom,
         Reserve, Fill, Compare, InsertSuffix, SwapSuffix, LockFlush, Recheck, FlushSubtree,
         LockDowngraded, LockParent, CopyNode, SplitPrefix, Calling, Labels
<1>2. /\ pc[t] \in {"next", "synced"} /\ ~Done(t) /\ ~(pc[t] = "next" /\ SyncRequired(t))
      /\ entryMap[t] # <<>> /\ DifferentAt(t) = WIDTH
  <2>1. pos'[t] # pos[t]
    OBVIOUS
  <2> QED BY <1>1, <2>1 DEF NextEntry
<1>3. MapInv(t) /\ WorkTyped
  BY DEF IInv, ThreadInv
<1>4. pc[t] = "next" /\ ~syncPhaseRequired
  BY <1>2, <1>3 DEF MapInv, SyncRequired
<1>5. pos[t] > 1 /\ pos[t] \in 1 .. Len(work[t]) /\ work[t] \in Seq(Entries)
  <2>1. pos[t] > 1
    BY <1>2, <1>3, <1>4 DEF MapInv
  <2>2. work[t] \in Seq(Entries) /\ pos[t] \in 1 .. Len(work[t]) + 1 /\ Len(work[t]) \in Nat
    BY <1>3 DEF WorkTyped
  <2>3. ~(pos[t] > Len(work[t]))
    BY <1>2 DEF Done
  <2> QED BY <2>1, <2>2, <2>3
<1> DEFINE i == pos[t] - 1
<1>6. i \in 1 .. pos[t] - 1 /\ work[t][i] \in Entries /\ Entry(t) \in Entries
  BY <1>5 DEF Entry
<1>7. Key[Entry(t)] = Key[work[t][i]]
  <2>1. Len(LongestCommonPrefix({Key[Entry(t)], Key[work[t][i]]})) = WIDTH
    BY <1>2 DEF DifferentAt
  <2> QED BY <1>6, <2>1, NeverPart
<1>8. \E f \in Stored : Key[f] = Key[work[t][i]]
  BY <1>6 DEF InsertedKept
<1> QED BY <1>7, <1>8

(* Every step keeps the entries of the calls that returned.                *)
LEMMA InsertedStep ==
  ASSUME IInv, InsertedKept, FlushLocksNode, [Next]_vars
  PROVE  InsertedKept'
<1>1. Stored \subseteq Stored'
  BY StoreStep
<1>2. ASSUME NEW t \in Thread, Step(t)
      PROVE  InsertedKept'
  <2>1. IInv' /\ OthersKept(t) /\ Shaped
    BY <1>2, StepInv, StepShape DEF IInv, ControlInv
  <2>2. Returned(t) /\ work' = work
    BY <1>2, <2>1, StepEffect DEF Step
  <2> SUFFICES ASSUME NEW u \in Thread, NEW i \in 1 .. pos'[u] - 1
               PROVE  \E e \in Stored' : Key[e] = Key[work'[u][i]]
    BY DEF InsertedKept
  <2>3. ASSUME i \in 1 .. pos[u] - 1
        PROVE  \E e \in Stored' : Key[e] = Key[work'[u][i]]
    BY <1>1, <2>2, <2>3 DEF InsertedKept
  <2>4. CASE u # t
    <3>1. pos'[u] = pos[u]
      BY <2>1, <2>4 DEF OthersKept
    <3> QED BY <2>3, <3>1
  <2>5. CASE u = t
    <3>1. pos'[t] = pos[t] \/ pos'[t] = pos[t] + 1
      BY <1>2, <2>1, StepPos
    <3>2. pos[t] \in Nat
      BY DEF IInv, WorkTyped
    <3>3. i \in 1 .. pos[t] - 1 \/ (i = pos[t] /\ pos'[t] # pos[t])
      BY <2>5, <3>1, <3>2
    <3>4. ASSUME pos'[t] # pos[t]
          PROVE  \E e \in Stored' : Key[e] = Key[Entry(t)]
      <4>1. CASE pc[t] \in Calling
        BY <2>2, <3>4, <4>1 DEF Returned
      <4>2. CASE pc[t] \notin Calling
        BY <1>1, <1>2, <3>4, <4>2, Skipped
      <4> QED BY <4>1, <4>2
    <3> QED BY <2>2, <2>3, <2>5, <3>3, <3>4 DEF Entry
  <2> QED BY <2>4, <2>5
<1>3. CASE SyncPhase
  BY <1>1, <1>3 DEF SyncPhase, InsertedKept
<1>4. CASE UNCHANGED vars
  BY <1>1, <1>4 DEF vars, InsertedKept
<1> QED BY <1>2, <1>3, <1>4 DEF Next, Terminated

(* No entry that was inserted is lost.                                     *)
THEOREM NothingLost == Spec /\ []FlushLocksNode => []InsertedKept
<1>1. Init => InsertedKept
  BY DEF Init, InsertedKept
<1>2. IInv /\ InsertedKept /\ FlushLocksNode /\ [Next]_vars => InsertedKept'
  BY InsertedStep
<1> QED BY <1>1, <1>2, Inductive, PTL DEF Spec

-----------------------------------------------------------------------------
(* The tree is well-formed *)

(* The lists of replaced nodes are a function of the thread.               *)
DeletedTyped == deleted = [t \in Thread |-> deleted[t]]

(* No step makes the lists of replaced nodes anything else than a          *)
(* function.                                                               *)
LEMMA DeletedLists == Spec => []DeletedTyped
<1>1. Init => DeletedTyped
  BY DEF Init, DeletedTyped
<1>2. ASSUME DeletedTyped, [Next]_vars PROVE DeletedTyped'
  <2>1. CASE SyncPhase
    BY <2>1 DEF SyncPhase, DeletedTyped
  <2>2. CASE UNCHANGED vars
    BY <1>2, <2>2 DEF vars, DeletedTyped
  <2>3. ASSUME NEW t \in Thread, Step(t) PROVE DeletedTyped'
    <3>1. \/ UNCHANGED deleted
          \/ \E c : deleted' = [deleted EXCEPT ![t] = @ \cup {c}]
      <4> USE DEF Finish, Restart, AwaitWriteLock, AwaitBothWriteLocks, Downgrade, Replaced
      <4>1. CASE NextEntry(t) \/ NoMoreEntries(t) \/ Start(t) \/ LockStart(t)
        BY <4>1 DEF NextEntry, NoMoreEntries, Start, LockStart
      <4>2. CASE VisitSubnode(t) \/ LockChild(t) \/ VisitFullBuffer(t) \/ VisitBuffer(t)
        BY <4>2 DEF VisitSubnode, LockChild, VisitFullBuffer, VisitBuffer
      <4>3. CASE VisitSuffixNoBuffer(t) \/ VisitSuffix(t) \/ VisitFullNode(t) \/ VisitRoom(t)
        BY <4>3, ZenonT(30) DEF VisitSuffixNoBuffer, VisitSuffix, VisitFullNode, VisitRoom
      <4>4. CASE Reserve(t) \/ Fill(t) \/ Compare(t) \/ InsertSuffix(t) \/ SwapSuffix(t)
        BY <4>4 DEF Reserve, Fill, Compare, InsertSuffix, SwapSuffix
      <4>5. CASE LockFlush(t) \/ Recheck(t) \/ FlushSubtree(t) \/ LockDowngraded(t) \/ LockParent(t)
        BY <4>5 DEF LockFlush, Recheck, FlushSubtree, LockDowngraded, LockParent
      <4>6. CASE CopyNode(t) \/ SplitPrefix(t)
        BY <4>6, ZenonT(30) DEF CopyNode, SplitPrefix
      <4> QED BY <2>3, <4>1, <4>2, <4>3, <4>4, <4>5, <4>6 DEF Step
    <3>2. DOMAIN deleted = Thread
      BY <1>2 DEF DeletedTyped
    <3>3. deleted' = [u \in Thread |-> deleted'[u]]
      BY <1>2, <3>1, <3>2 DEF DeletedTyped
    <3> QED BY <3>3 DEF DeletedTyped
  <2> QED BY <1>2, <2>1, <2>2, <2>3 DEF Next, Terminated
<1> QED BY <1>1, <1>2, PTL DEF Spec

(* The locks are locks of threads on nodes that exist.                     *)
LEMMA LocksTyped ==
  ASSUME IInv
  PROVE  readers \cup writers \subseteq Thread \X DOMAIN nodes
<1>1. Locks(readers) /\ Locks(writers)
  BY DEF IInv, ControlInv, LockInv
<1>2. ASSUME NEW l \in readers \cup writers PROVE l \in Thread \X DOMAIN nodes
  <2>0. PICK t \in Thread : \E n : l = <<t, n>>
    BY <1>1, <1>2 DEF Locks
  <2>1. PICK n : l = <<t, n>>
    BY <2>0
  <2>2. n \in DOMAIN nodes
    BY <1>2, <2>1, LocksOnNodes
  <2> QED BY <2>1, <2>2
<1> QED BY <1>2

(* The contents of a node are what TypeOK says.                            *)
LEMMA NodeTyped ==
  ASSUME IInv, NEW n \in DOMAIN nodes
  PROVE  /\ nodes[n].cont \in [HCAddresses -> {Empty} \cup {Suffix(e) : e \in Entries}
                               \cup {Sub(m) : m \in DOMAIN nodes} \cup {Buf(s) : s \in Slots}]
         /\ nodes[n].prefix \in 0 .. Len(Path(n))
         /\ NContents(nodes[n]) <= nodes[n].max
         /\ nodes[n].removed \in BOOLEAN /\ nodes[n].updates \in Nat
<1>1. NodesTyped(nodes, Slots) /\ Room(nodes)
  BY DEF IInv, TreeInv, Sound
<1>2. nodes[n] \in NodeFields(n, DOMAIN nodes, Slots)
  BY <1>1 DEF NodesTyped
<1>3. /\ nodes[n].cont \in [HCAddresses -> Holds(DOMAIN nodes, Slots)]
      /\ nodes[n].prefix \in 0 .. Len(Path(n))
      /\ nodes[n].removed \in BOOLEAN /\ nodes[n].updates \in Nat
  BY <1>2 DEF NodeFields
<1>4. NContents(nodes[n]) <= nodes[n].max
  BY <1>1 DEF Room
<1>5. Holds(DOMAIN nodes, Slots)
        = {Empty} \cup {Suffix(e) : e \in Entries}
            \cup {Sub(m) : m \in DOMAIN nodes} \cup {Buf(s) : s \in Slots}
  BY DEF Holds
<1> QED BY <1>3, <1>4, <1>5

(* Every variable has its type. *)
LEMMA Typed == ASSUME IInv, DeletedTyped PROVE TypeOK
<1>1. Root \in DOMAIN nodes
  BY DEF IInv, TreeInv, LiveNodes
<1>2. UsedBuffers \subseteq inUse
  BY UsedHeld DEF IInv
<1>3. syncPhaseRequired \in BOOLEAN /\ \A t \in Thread : pos[t] \in 1 .. Len(work[t]) + 1
  BY DEF IInv, WorkTyped
<1>4. deleted \in [Thread -> SUBSET DOMAIN nodes]
  <2>1. \A t \in Thread : deleted[t] \subseteq DOMAIN nodes
    BY DEF IInv, TreeInv, DeletedInv
  <2> QED BY <2>1 DEF DeletedTyped
<1>5. pc \in [Thread -> Labels]
  BY DEF IInv, ControlInv, Shaped
<1>6. readers \cup writers \subseteq Thread \X DOMAIN nodes
  BY LocksTyped
<1> DEFINE C == [HCAddresses -> {Empty} \cup {Suffix(e) : e \in Entries}
                  \cup {Sub(m) : m \in DOMAIN nodes} \cup {Buf(s) : s \in Slots}]
<1>7. \A n \in DOMAIN nodes :
        /\ nodes[n].cont \in C
        /\ nodes[n].prefix \in 0 .. Len(Path(n))
        /\ NContents(nodes[n]) <= nodes[n].max
        /\ nodes[n].removed \in BOOLEAN /\ nodes[n].updates \in Nat
  BY NodeTyped
<1>8. TypeOK <=>
        /\ Root \in DOMAIN nodes
        /\ \A n \in DOMAIN nodes :
             /\ nodes[n].cont \in C
             /\ nodes[n].prefix \in 0 .. Len(Path(n))
             /\ NContents(nodes[n]) <= nodes[n].max
             /\ nodes[n].removed \in BOOLEAN /\ nodes[n].updates \in Nat
        /\ readers \cup writers \subseteq Thread \X DOMAIN nodes
        /\ UsedBuffers \subseteq inUse
        /\ syncPhaseRequired \in BOOLEAN
        /\ deleted \in [Thread -> SUBSET DOMAIN nodes]
        /\ pc \in [Thread -> Labels]
        /\ \A t \in Thread : pos[t] \in 1 .. Len(work[t]) + 1
  BY DEF TypeOK
<1> HIDE DEF C
<1> QED BY <1>1, <1>2, <1>3, <1>4, <1>5, <1>6, <1>7, <1>8

(* Entries in nodes and in buffers lie where a lookup of their keys leads. *)
LEMMA LiesOnItsWay == ASSUME IInv PROVE EntriesPlaced
<1>1. /\ Sound(nodes, Slots) /\ NodesTyped(nodes, Slots) /\ Hung(nodes, buffer, Slots, DOMAIN Cleared)
      /\ RowsRight(buffer, nextIndex)
  BY DEF IInv, TreeInv, Sound
<1>2. ASSUME NEW s \in DOMAIN buffer, NEW i \in DOMAIN buffer[s].rows
      PROVE  IsPrefix(Append(Path(buffer[s].node), buffer[s].addr), Key[buffer[s].rows[i]])
  <2> DEFINE b == buffer[s]
  <2>1. s \in Slots /\ b.node # None
    <3> DEFINE z == <<>>
    <3>1. DOMAIN z = {} /\ z = <<>>
      OBVIOUS
    <3> HIDE DEF z
    <3>2. s \in Slots /\ (b.node = None => b.rows = z)
      BY <1>1, <3>1 DEF Hung
    <3> QED BY <1>2, <3>1, <3>2
  <2>2. b.node \in LiveNodes(nodes) /\ b.addr \in HCAddresses /\ RowsOf(b, nextIndex[s])
    BY <1>1, <2>1 DEF Hung, RowsRight
  <2>3. b.rows \in Seq(Entries) /\ Leads(b.node, b.addr, Key[b.rows[i]])
    BY <2>2 DEF RowsOf, RowsLie
  <2>4. b.rows[i] \in Entries /\ b.node \in NodeIds
    BY <1>1, <2>2, <2>3 DEF LiveNodes, NodesTyped, IdsTyped
  <2> HIDE DEF b
  <2>5. IsPrefix(Append(Path(b.node), b.addr), Key[b.rows[i]])
    BY <2>2, <2>3, <2>4, KeyType, LeadsPrefix
  <2> QED BY <2>5 DEF b
<1> QED BY <1>1, <1>2, SoundPlaced DEF EntriesPlaced, AllPlaced

(* A used buffer is referenced from where it says and from nowhere else.   *)
LEMMA HangsOnce == ASSUME IInv PROVE BuffersAnchored
<1>1. Hung(nodes, buffer, Slots, DOMAIN Cleared) /\ NodesTyped(nodes, Slots) /\ DOMAIN buffer = Slots
  BY DEF IInv, TreeInv, Sound, Hung
<1> SUFFICES ASSUME NEW s \in Slots
             PROVE  {p \in LiveNodes(nodes) \X HCAddresses : nodes[p[1]].cont[p[2]] = Buf(s)}
                      = IF buffer[s].node = None THEN {} ELSE {<<buffer[s].node, buffer[s].addr>>}
  BY <1>1 DEF BuffersAnchored, AllAnchored
<1>2. ASSUME NEW n \in LiveNodes(nodes), NEW a \in HCAddresses, nodes[n].cont[a] = Buf(s)
      PROVE  buffer[s].node = n /\ buffer[s].addr = a /\ n # None
  <2>1. n # None
    BY <1>1 DEF LiveNodes, NodesTyped, IdsTyped, NodeIds, None
  <2> QED BY <1>1, <1>2, <2>1 DEF Hung
<1>3. CASE buffer[s].node = None
  BY <1>2, <1>3
<1>4. CASE buffer[s].node # None
  <2>1. /\ buffer[s].node \in LiveNodes(nodes) /\ buffer[s].addr \in HCAddresses
        /\ nodes[buffer[s].node].cont[buffer[s].addr] = Buf(s)
    BY <1>1, <1>4 DEF Hung
  <2> QED BY <1>2, <1>4, <2>1
<1> QED BY <1>3, <1>4

(* The pool's list is intact. *)
LEMMA PoolIntact == ASSUME IInv PROVE PoolConsistent
<1>1. PoolProofs!FreeListInv /\ PoolProofs!AllocatesUnusedBuffer
  <2>1. PoolProofs!IInv
    BY DEF IInv
  <2> QED BY <2>1, PoolSizes, PoolProofs!UnusedBuffer DEF PoolProofs!IInv
<1>2. Pool!FreeListInv
  BY <1>1 DEF PoolProofs!FreeListInv, Pool!FreeListInv, PoolProofs!IsFreeList, Pool!IsFreeList,
              PoolProofs!Slots, Pool!Slots, PoolProofs!None, Pool!None
<1>3. Pool!AllocatesUnusedBuffer
  BY <1>1 DEF PoolProofs!AllocatesUnusedBuffer, Pool!AllocatesUnusedBuffer, PoolProofs!Slots, Pool!Slots,
              PoolProofs!Cleared, Pool!Cleared, UsedBuffers
<1> QED BY <1>2, <1>3 DEF PoolConsistent

(* After every step of a thread, whatever locks are held and however the   *)
(* threads interleave: types, the one tree with every entry on its lookup  *)
(* path, every buffer hung up once and the pool's list intact.             *)
THEOREM StaysWellFormed == Spec /\ []FlushLocksNode => []WellFormed
<1>1. IInv /\ DeletedTyped => WellFormed
  <2> SUFFICES ASSUME IInv, DeletedTyped PROVE WellFormed
    OBVIOUS
  <2>1. TreeShape
    BY RootId, SoundTree DEF IInv, TreeInv, TreeShape
  <2> QED BY <2>1, Typed, LiesOnItsWay, HangsOnce, PoolIntact DEF WellFormed
<1> QED BY <1>1, DeletedLists, Inductive, PTL

(* Without buffers the tree is the one that its entries have, in whatever  *)
(* order and by whatever steps the threads inserted them.                  *)
THEOREM StaysCanonical == Spec /\ []FlushLocksNode => []Canonical
<1>1. IInv => Canonical
  <2> SUFFICES ASSUME IInv, UsedBuffers = {} PROVE IsCanonical(nodes)
    BY DEF Canonical
  <2>1. Sound(nodes, Slots) /\ Hung(nodes, buffer, Slots, DOMAIN Cleared) /\ NodesTyped(nodes, Slots)
    BY DEF IInv, TreeInv, Sound
  <2>2. \A n \in LiveNodes(nodes) : n # None
    BY <2>1 DEF LiveNodes, NodesTyped, IdsTyped, NodeIds, None
  <2>3. NoBuffers(nodes)
    BY <2>1, <2>2 DEF NoBuffers, Hung, UsedBuffers
  <2> QED BY <2>1, <2>3, SoundCanonical
<1> QED BY <1>1, Inductive, PTL

-----------------------------------------------------------------------------
(* Why FlushLocksNode may fail: reuse of a buffer, and nothing else. *)

(* The buffer a thread waits to flush, or flushes, is hung up by another   *)
(* thread after it was emptied.                                            *)
Waits(t) == pc[t] \in {"flush", "recheck", "flushing"}
Reused(t) ==
  Waits(t) /\ buffer[local[t].slot].node = None /\ buffer'[local[t].slot].node # None
NeverReused == [][\A t \in Thread : ~Reused(t)]_vars

(* The buffer a thread waits to flush hangs where the thread saw it, unless *)
(* it was emptied or its node replaced; the buffer it flushes hangs there.  *)
Awaited(t) ==
  /\ Waits(t) =>
       \/ buffer[local[t].slot].node = local[t].cur
       \/ pc[t] # "flushing" /\ buffer[local[t].slot].node = None
       \/ pc[t] = "flush" /\ nodes[local[t].cur].removed

AwaitedInv == \A t \in Thread : Awaited(t)

(* Then it is flushed under the lock of its node.                          *)
LEMMA AwaitedLocked == IInv /\ AwaitedInv => FlushLocksNode
<1> SUFFICES ASSUME IInv, AwaitedInv, NEW t \in Thread, pc[t] = "flushing"
             PROVE  <<t, buffer[local[t].slot].node>> \in writers
  BY DEF FlushLocksNode
<1>1. buffer[local[t].slot].node = local[t].cur
  BY DEF AwaitedInv, Awaited, Waits
<1> QED BY <1>1 DEF IInv, ControlInv, LockInv

(* A thread starts to wait for a buffer that hangs off the node it reads,  *)
(* and flushes it if it still does.                                        *)
LEMMA AwaitedOwn ==
  ASSUME IInv, AwaitedInv, NEW t \in Thread, Step(t)
  PROVE  Awaited(t)'
<1> USE DEF IInv, ControlInv, Shaped
<1> SUFFICES ASSUME Waits(t)' PROVE Awaited(t)'
  BY DEF Awaited
<1>1. CASE VisitFullBuffer(t)
  <2> DEFINE n == local[t].cur
             a == AddressIn(Entry(t), n)
             s == Content(t).slot
  <2>1. /\ pc[t] = "visit" /\ pc[t] \in Calling /\ nodes[n].cont[a].kind = "buffer"
        /\ UNCHANGED buffer
        /\ local'[t].cur = n /\ local'[t].slot = s
    BY <1>1 DEF VisitFullBuffer, AwaitWriteLock, SetLocal, NoLocal, Content, Calling, Labels
  <2>2. /\ n \in LiveNodes(nodes) /\ a \in HCAddresses /\ NodesTyped(nodes, Slots)
    BY <2>1, CallFacts DEF Known, LiveNodes
  <2>3. nodes[n].cont[a] = Buf(s)
    <3>1. \/ nodes[n].cont[a] = Empty
          \/ \E e \in Entries : nodes[n].cont[a] = Suffix(e)
          \/ \E m \in DOMAIN nodes : nodes[n].cont[a] = Sub(m)
          \/ \E r \in Slots : nodes[n].cont[a] = Buf(r)
      BY <2>2, ContentType DEF LiveNodes
    <3> QED BY <2>1, <3>1, Kinds DEF Content
  <2>4. buffer[s].node = n
    BY <2>2, <2>3 DEF TreeInv, Hung
  <2> QED BY <2>1, <2>4 DEF Awaited
<1>2. CASE LockFlush(t)
  <2>1. pc'[t] = "recheck" /\ local' = local /\ UNCHANGED <<buffer, nodes>> /\ pc[t] = "flush"
        /\ ~nodes[local[t].cur].removed
    BY <1>2 DEF LockFlush, Waits, Restart, GoTo, Valid
  <2> QED BY <2>1 DEF AwaitedInv, Awaited, Waits
<1>3. CASE Recheck(t)
  <2>1. /\ pc[t] = "recheck" /\ pc'[t] = "flushing" /\ local' = local
        /\ BufferFull(local[t].slot)
        /\ buffer' = [buffer EXCEPT ![local[t].slot].flushing = TRUE]
    BY <1>3 DEF Recheck, Waits, Downgrade, GoTo
  <2>2. local[t].slot \in Slots
    BY <2>1, CallFacts DEF RowKnown, Calling, Labels
  <2>3. buffer[local[t].slot].node = local[t].cur
    BY <2>1 DEF AwaitedInv, Awaited, Waits, BufferFull
  <2>4. buffer'[local[t].slot].node = local[t].cur
    BY <2>1, <2>2, <2>3 DEF TreeInv, Hung, Cleared
  <2> QED BY <2>1, <2>4 DEF Awaited
<1>4. CASE ~(VisitFullBuffer(t) \/ LockFlush(t) \/ Recheck(t))
  <2>1. pc'[t] \notin {"flush", "recheck", "flushing"}
    BY <1>4, ZenonT(30) DEF Step, NextEntry, NoMoreEntries, Start, LockStart, VisitSubnode, LockChild, VisitBuffer,
       VisitSuffixNoBuffer, VisitSuffix, VisitFullNode, VisitRoom, Reserve, Fill, Compare, InsertSuffix,
       SwapSuffix, FlushSubtree, LockDowngraded, LockParent, CopyNode, SplitPrefix,
       AwaitWriteLock, AwaitBothWriteLocks, Restart, Finish, GoTo, Downgrade
  <2> QED BY <2>1 DEF Waits
<1> QED BY <1>1, <1>2, <1>3, <1>4
(* A step of another thread empties the buffer, replaces the node it hangs *)
(* off, or leaves it where it hangs.                                       *)
LEMMA AwaitedOther ==
  ASSUME IInv, AwaitedInv, NEW t \in Thread, Step(t), NEW u \in Thread \ {t}, ~Reused(u)
  PROVE  Awaited(u)'
<1> DEFINE s == local[u].slot
           n == local[u].cur
<1>1. pc'[u] = pc[u] /\ local'[u] = local[u]
  BY StepShape DEF IInv, ControlInv, OthersKept
<1> SUFFICES ASSUME Waits(u) PROVE Awaited(u)'
  BY <1>1 DEF Awaited, Waits
<1>2. s \in Slots /\ n \in DOMAIN nodes /\ n # None
  BY CallFacts DEF Waits, Calling, Labels, Place, RowKnown
<1>3. IInv' /\ Grown(nodes, nodes')
  BY AwaitedLocked, StepInv
<1>4. nodes[n].removed => nodes'[n].removed
  BY <1>2, <1>3 DEF Grown
<1>5. CASE buffer'[s].node = buffer[s].node
  BY <1>1, <1>4, <1>5 DEF AwaitedInv, Awaited, Waits
<1>6. DOMAIN buffer = Slots /\ \A r \in Slots : DOMAIN buffer[r] = DOMAIN Cleared
  BY DEF IInv, TreeInv, Hung
<1>7. CASE FlushSubtree(t)
  <2>1. /\ pc[t] = "flushing" /\ buffer' = [buffer EXCEPT ![local[t].slot] = Cleared]
    BY <1>7 DEF FlushSubtree
  <2>2. CASE local[t].slot = s /\ pc[u] = "flushing"
    <3>1. buffer[s].node = n /\ buffer[s].node = local[t].cur
      BY <2>1, <2>2 DEF AwaitedInv, Awaited, Waits
    <3>2. <<t, n>> \in writers /\ <<u, n>> \in writers
      BY <2>1, <2>2, <3>1 DEF IInv, ControlInv, LockInv
    <3> QED BY <3>2 DEF IInv, ControlInv, LockInv, LocksExclusive
  <2>3. CASE local[t].slot = s /\ pc[u] # "flushing"
    <3>1. buffer'[s].node = None
      BY <1>2, <1>6, <2>1, <2>3 DEF Cleared
    <3> QED BY <1>1, <2>3, <3>1 DEF Awaited, Waits
  <2>4. CASE local[t].slot # s
    BY <1>5, <2>1, <2>4
  <2> QED BY <2>2, <2>3, <2>4
<1>8. CASE SwapSuffix(t)
  <2>1. CASE local[t].slot = s
    <3>1. buffer[s].node = None
      BY <1>2, <1>8, <2>1 DEF SwapSuffix, IInv, HeldInv, UsedBuffers
    <3> QED BY <1>5, <3>1 DEF Reused
  <2>2. CASE local[t].slot # s
    <3>1. buffer'[s] = buffer[s]
      <4>1. CASE UNCHANGED buffer
        BY <4>1
      <4>2. ASSUME NEW b, buffer' = [buffer EXCEPT ![local[t].slot] = b] PROVE buffer'[s] = buffer[s]
        BY <1>2, <1>6, <2>2, <4>2
      <4> QED BY <1>8, <4>1, <4>2 DEF SwapSuffix
    <3> QED BY <1>5, <3>1
  <2> QED BY <2>1, <2>2
<1>9. CASE CopyNode(t) \/ SplitPrefix(t)
  <2> DEFINE k == local[t].cur
  <2>1. CASE UNCHANGED buffer
    BY <1>5, <2>1
  <2>2. ASSUME NEW new, buffer' = BuffersMoved(buffer, nodes[k], new),
               deleted' = [deleted EXCEPT ![t] = @ \cup {k}], Unlocked(k), ~nodes[k].removed
        PROVE  Awaited(u)'
    <3>1. k \in LiveNodes(nodes) /\ k \in DOMAIN nodes /\ k # None
      BY <1>9, <2>2, CallFacts DEF CopyNode, SplitPrefix, Calling, Labels, Place, LiveNodes
    <3>2. nodes'[k].removed
      <4>1. k \in deleted'[t]
        BY <2>2 DEF IInv, ControlInv, Shaped
      <4>2. k \in DOMAIN nodes'
        BY <1>3, <3>1 DEF Grown
      <4> QED BY <1>3, <4>1, <4>2 DEF IInv, TreeInv, DeletedInv
    <3>3. CASE buffer[s].node = k /\ n = k
      <4>1. pc[u] = "flush"
        BY <2>2, <3>3 DEF Waits, IInv, ControlInv, LockInv, Unlocked, NoWriter
      <4> QED BY <1>1, <3>2, <3>3, <4>1 DEF Awaited, Waits
    <3>4. CASE buffer[s].node = k /\ n # k
      <4>1. pc[u] = "flush" /\ nodes[n].removed
        BY <3>1, <3>4 DEF AwaitedInv, Awaited
      <4> QED BY <1>1, <1>4, <4>1 DEF Awaited, Waits
    <3>5. CASE buffer[s].node # k
      <4>1. ~\E a \in HCAddresses : nodes[k].cont[a] = Buf(s)
        BY <3>1, <3>5 DEF IInv, TreeInv, Hung
      <4>2. buffer'[s] = buffer[s]
        BY <1>2, <1>6, <2>2, <4>1 DEF BuffersMoved
      <4> QED BY <1>5, <4>2
    <3> QED BY <3>3, <3>4, <3>5
  <2>3. CASE CopyNode(t)
    BY <2>1, <2>2, <2>3, ZenonT(30) DEF CopyNode, Replaced, Valid
  <2>4. CASE SplitPrefix(t)
    BY <2>1, <2>2, <2>4, ZenonT(30) DEF SplitPrefix, Replaced, Valid
  <2> QED BY <1>9, <2>3, <2>4
<1>10. CASE Reserve(t) \/ Fill(t) \/ Recheck(t)
  <2>1. \A r : buffer' = [buffer EXCEPT ![r].flushing = TRUE] => buffer'[s].node = buffer[s].node
    BY <1>2, <1>6 DEF Cleared
  <2>2. \A r, v : buffer' = [buffer EXCEPT ![r].complete = v] => buffer'[s].node = buffer[s].node
    BY <1>2, <1>6 DEF Cleared
  <2>3. \A r, v : buffer' = [buffer EXCEPT ![r].rows = v] => buffer'[s].node = buffer[s].node
    BY <1>2, <1>6 DEF Cleared
  <2> QED BY <1>5, <1>10, <2>1, <2>2, <2>3 DEF Reserve, Fill, Recheck
<1>11. CASE UNCHANGED buffer
  BY <1>5, <1>11
<1> QED BY <1>7, <1>8, <1>9, <1>10, <1>11, ZenonT(30)
     DEF Step, NextEntry, NoMoreEntries, Start, LockStart, VisitSubnode, LockChild, VisitFullBuffer, VisitBuffer,
       VisitSuffixNoBuffer, VisitSuffix, VisitFullNode, VisitRoom, Compare, InsertSuffix,
       LockFlush, LockDowngraded, LockParent

(* While no buffer a thread waits for is used again, the thread flushes it *)
(* where it saw it.                                                        *)
LEMMA AwaitedNext ==
  IInv /\ AwaitedInv /\ [Next]_vars /\ [\A t \in Thread : ~Reused(t)]_vars => (IInv /\ AwaitedInv)'
<1> SUFFICES ASSUME IInv, AwaitedInv, [Next]_vars, [\A t \in Thread : ~Reused(t)]_vars
             PROVE  IInv' /\ AwaitedInv'
  OBVIOUS
<1>1. IInv'
  BY AwaitedLocked, NextIInv
<1>2. CASE UNCHANGED vars
  BY <1>1, <1>2 DEF vars, AwaitedInv, Awaited, Waits
<1>3. ASSUME NEW t \in Thread, Step(t), vars' # vars PROVE AwaitedInv'
  <2>1. \A u \in Thread \ {t} : ~Reused(u)
    BY <1>3
  <2> QED BY <1>3, <2>1, AwaitedOwn, AwaitedOther DEF AwaitedInv
<1>4. CASE SyncPhase
  <2>1. \A t \in Thread : pc'[t] \in {"finished", "barrier", "synced"}
    BY <1>4 DEF SyncPhase
  <2> QED BY <1>1, <2>1 DEF AwaitedInv, Awaited, Waits
<1> QED BY <1>1, <1>2, <1>3, <1>4 DEF Next, Terminated

(* Reuse is the only cause of what the run ParallelReuse finds: as long as *)
(* no buffer a thread waits to flush is hung up again, every buffer is     *)
(* flushed under the lock of its node.                                     *)
THEOREM ReuseAloneEndangers == Spec /\ NeverReused => []FlushLocksNode
<1>1. Init => IInv /\ AwaitedInv
  BY InitIInv DEF Init, AwaitedInv, Awaited, Waits
<1>2. IInv /\ AwaitedInv => FlushLocksNode
  BY AwaitedLocked
<1> QED BY <1>1, <1>2, AwaitedNext, PTL DEF Spec, NeverReused

(* A buffer is then flushed by one thread alone, and every row in it is    *)
(* complete.                                                               *)
THEOREM FlushesExclusive == Spec /\ NeverReused => []ExclusiveFlush
  BY ReuseAloneEndangers, FlushesComplete, PTL

(* One thread alone never meets it. *)
THEOREM OneThreadSafe ==
  ASSUME NEW t, Thread = {t}
  PROVE  Spec => []FlushLocksNode
<1>1. Init => IInv /\ AwaitedInv
  BY InitIInv DEF Init, AwaitedInv, Awaited, Waits
<1>2. IInv /\ AwaitedInv => FlushLocksNode
  BY AwaitedLocked
<1>3. IInv /\ AwaitedInv /\ [Next]_vars => (IInv /\ AwaitedInv)'
  <2> SUFFICES ASSUME IInv, AwaitedInv, [Next]_vars
               PROVE  IInv' /\ AwaitedInv'
    OBVIOUS
  <2>1. IInv'
    BY <1>2, NextIInv
  <2>2. CASE UNCHANGED vars
    BY <2>1, <2>2 DEF vars, AwaitedInv, Awaited, Waits
  <2>3. CASE Step(t)
    <3>1. Awaited(t)'
      BY <2>3, AwaitedOwn
    <3> QED BY <2>1, <3>1 DEF AwaitedInv
  <2>4. CASE SyncPhase
    <3>1. pc'[t] \in {"finished", "barrier", "synced"}
      BY <2>4 DEF SyncPhase
    <3> QED BY <2>1, <3>1 DEF AwaitedInv, Awaited, Waits
  <2> QED BY <2>1, <2>2, <2>3, <2>4 DEF Next, Terminated
<1> QED BY <1>1, <1>2, <1>3, PTL DEF Spec
=============================================================================
