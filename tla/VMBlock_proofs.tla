--------------------------- MODULE VMBlock_proofs ---------------------------
(***************************************************************************)
(* Proofs about file blocks, for any number of threads, control files and  *)
(* names.                                                                  *)
(*                                                                         *)
(* The reference count alone does not protect a block: the one who removes *)
(* it gives its reference up and then wakes the waiters, who may free the  *)
(* block.  What protects it is that a waiter does not return before it is  *)
(* woken, so that whoever is about to wake somebody knows a reference that *)
(* stays (Unfinished).                                                     *)
(***************************************************************************)
EXTENDS VMBlock, FiniteSetTheorems, TLAPS

Removing == {"undo", "drop", "drop_all", "complete", "complete_all"}
Counting == {"undo", "wait", "woken"}
AllBlocks == {"all", "drop_all", "complete_all"}

\* Where a thread is says what it has at hand, and whether it keeps the lock.
ThreadsHold ==
  \A t \in Threads :
    /\ thread[t].slot # NoSlot <=> thread[t].pc \in Removing \cup {"wait", "woken"}
    /\ thread[t].pc \in AllBlocks <=> writer = t

\* A block is removed once, by whoever took it off the list.
OneRemover(s) ==
  /\ s \in blockedFiles => Users(s, Removing) = {}
  /\ \A t, u \in Users(s, Removing) : t = u

\* A block is freed when its last reference is gone and not before.
FreedWhenUnused(s) == block[s].allocated <=> block[s].refcount # 0

\* The block is listed, or its waiters are yet to be woken.
Pending(s) == s \in blockedFiles \/ Users(s, Removing) # {}

\* Until its waiters are woken nobody has returned from a wait for it, and
\* whoever is about to wake them finds at least one.
Unfinished(s) ==
  /\ Pending(s) => ~block[s].done /\ Users(s, {"woken"}) = {}
  /\ Users(s, {"complete", "complete_all"}) # {} => Users(s, {"wait"}) # {}

\* RefCountIsUsers for one block.
Counts(s) ==
  block[s].refcount = Cardinality(Users(s, Counting)) + (IF OwnReference(s) THEN 1 ELSE 0)

SlotInv(s) == OneRemover(s) /\ FreedWhenUnused(s) /\ Unfinished(s) /\ Counts(s)

\* A block on the list has the control file that placed it.
ListedHasBlocker == \A s \in blockedFiles : block[s].blocker \in Blockers

\* The inductive invariant.
Inv == /\ TypeOK /\ ThreadsHold /\ ListedHasBlocker
       /\ \A s \in Slots : SlotInv(s)
       /\ NoUseAfterFree /\ ClosedBlockersBlockNothing

-----------------------------------------------------------------------------
\* Freed memory is a block.
LEMMA NoBlockType == NoBlock \in BlockInfo
  BY DEF NoBlock, BlockInfo

\* The users of a block are finitely many.
LEMMA UsersFinite ==
  ASSUME NEW s, NEW pcs
  PROVE  IsFiniteSet(Users(s, pcs)) /\ Cardinality(Users(s, pcs)) \in Nat
<1>1. Users(s, pcs) \in SUBSET Threads
  BY DEF Users
<1>2. IsFiniteSet(Users(s, pcs))
  BY <1>1, ThreadAssumption, FS_Subset
<1> QED
  BY <1>2, FS_CardinalityType

\* One thread's step changes the users of a block by that thread at most.
LEMMA UsersChange ==
  ASSUME TypeOK, NEW t \in Threads, NEW r, thread' = [thread EXCEPT ![t] = r],
         NEW s, NEW pcs
  PROVE  Users(s, pcs)' = IF r.slot = s /\ r.pc \in pcs THEN Users(s, pcs) \cup {t}
                                                        ELSE Users(s, pcs) \ {t}
<1>1. thread'[t] = r /\ \A u \in Threads \ {t} : thread'[u] = thread[u]
  BY DEF TypeOK
<1>2. \A u : u \in Users(s, pcs)' <=>
             (u \in Threads /\ thread'[u].slot = s /\ thread'[u].pc \in pcs)
  BY DEF Users
<1>3. \A u : u \in Users(s, pcs) <=>
             (u \in Threads /\ thread[u].slot = s /\ thread[u].pc \in pcs)
  BY DEF Users
<1>4. CASE r.slot = s /\ r.pc \in pcs
  <2>1. \A u : u \in Users(s, pcs)' <=> u \in Users(s, pcs) \cup {t}
    BY <1>1, <1>2, <1>3, <1>4
  <2> QED
    BY <1>4, <2>1
<1>5. CASE ~(r.slot = s /\ r.pc \in pcs)
  <2>1. \A u : u \in Users(s, pcs)' <=> u \in Users(s, pcs) \ {t}
    BY <1>1, <1>2, <1>3, <1>5
  <2> QED
    BY <1>5, <2>1
<1> QED
  BY <1>4, <1>5

\* So the number of its references changes by one at most.
LEMMA CountUp ==
  ASSUME TypeOK, NEW t \in Threads, NEW r, thread' = [thread EXCEPT ![t] = r],
         NEW s, r.slot = s, r.pc \in Counting, t \notin Users(s, Counting)
  PROVE  Cardinality(Users(s, Counting))' = Cardinality(Users(s, Counting)) + 1
<1>1. Users(s, Counting)' = Users(s, Counting) \cup {t}
  BY UsersChange
<1> QED
  BY <1>1, UsersFinite, FS_AddElement

LEMMA CountDown ==
  ASSUME TypeOK, NEW t \in Threads, NEW r, thread' = [thread EXCEPT ![t] = r],
         NEW s, ~(r.slot = s /\ r.pc \in Counting), t \in Users(s, Counting)
  PROVE  Cardinality(Users(s, Counting))' = Cardinality(Users(s, Counting)) - 1
<1>1. Users(s, Counting)' = Users(s, Counting) \ {t}
  BY UsersChange, ZenonT(60)
<1> QED
  BY <1>1, UsersFinite, FS_RemoveElement

LEMMA CountSame ==
  ASSUME TypeOK, NEW t \in Threads, NEW r, thread' = [thread EXCEPT ![t] = r],
         NEW s, (r.slot = s /\ r.pc \in Counting) <=> t \in Users(s, Counting)
  PROVE  Cardinality(Users(s, Counting))' = Cardinality(Users(s, Counting))
<1>1. Users(s, Counting)' = Users(s, Counting)
  <2>1. Users(s, Counting)' = IF r.slot = s /\ r.pc \in Counting
                              THEN Users(s, Counting) \cup {t} ELSE Users(s, Counting) \ {t}
    BY UsersChange
  <2> QED
    BY <2>1
<1> QED
  BY <1>1

\* A step that has nothing to do with a block leaves its invariant alone.
LEMMA OtherSlot ==
  ASSUME TypeOK, NEW t \in Threads, NEW r, thread' = [thread EXCEPT ![t] = r],
         NEW s \in Slots, SlotInv(s), thread[t].slot # s, r.slot # s,
         block'[s] = block[s], s \in blockedFiles' <=> s \in blockedFiles
  PROVE  SlotInv(s)'
<1> DEFINE Same(pcs) == Users(s, pcs)' = Users(s, pcs)
<1>1. \A u \in Threads : (thread'[u] = thread[u]) \/ (thread'[u].slot # s /\ thread[u].slot # s)
  BY DEF TypeOK
<1>2. \A pcs : Same(pcs)
  BY <1>1 DEF Users
<1>3. /\ Same(Removing) /\ Same(Counting) /\ Same({"undo", "drop", "drop_all"})
      /\ Same({"woken"}) /\ Same({"complete", "complete_all"}) /\ Same({"wait"})
  BY <1>2
<1> QED
  BY <1>3 DEF SlotInv, OneRemover, FreedWhenUnused, Unfinished, Pending, Counts, OwnReference

\* A step about one block leaves the invariants of the others alone.
LEMMA OtherSlots ==
  ASSUME Inv, NEW t \in Threads, NEW r, thread' = [thread EXCEPT ![t] = r],
         NEW s \in Slots, thread[t].slot \in {s, NoSlot}, r.slot \in {s, NoSlot},
         \A u \in Slots \ {s} : block'[u] = block[u] /\ (u \in blockedFiles' <=> u \in blockedFiles)
  PROVE  \A u \in Slots \ {s} : SlotInv(u)'
<1> SUFFICES ASSUME NEW u \in Slots \ {s} PROVE SlotInv(u)'
  OBVIOUS
<1>1. u # NoSlot /\ thread[t].slot # u /\ r.slot # u
  BY NoneAssumption
<1>2. TypeOK /\ SlotInv(u)
  BY DEF Inv
<1> QED
  BY <1>1, <1>2, OtherSlot

\* A step of one thread leaves all others where they are.
LEMMA OneThread ==
  ASSUME TypeOK, ThreadsHold, NEW t \in Threads, NEW r \in Thread,
         thread' = [thread EXCEPT ![t] = r], writer' = writer,
         r.slot # NoSlot <=> r.pc \in Removing \cup {"wait", "woken"},
         r.pc \in AllBlocks <=> thread[t].pc \in AllBlocks
  PROVE  thread' \in [Threads -> Thread] /\ ThreadsHold'
  BY DEF TypeOK, ThreadsHold

\* What is listed, and by whom, changes only where the list does.
LEMMA ListKept ==
  ASSUME TypeOK, ListedHasBlocker, ClosedBlockersBlockNothing,
         UNCHANGED <<writer, control>>, blockedFiles' \subseteq blockedFiles,
         \A u \in blockedFiles' : block'[u].blocker = block[u].blocker,
         writer # NoThread => thread'[writer].blocker = thread[writer].blocker
  PROVE  ListedHasBlocker' /\ ClosedBlockersBlockNothing'
  BY DEF ListedHasBlocker, ClosedBlockersBlockNothing

\* Dropping a reference frees the block with the last one.
LEMMA Dropped ==
  ASSUME TypeOK, NEW s \in Slots, block[s].refcount # 0, DropReference(s)
  PROVE  /\ block' \in [Slots -> BlockInfo]
         /\ \A u \in Slots \ {s} : block'[u] = block[u]
         /\ block'[s].refcount = block[s].refcount - 1
         /\ block[s].refcount = 1 => ~block'[s].allocated
         /\ block[s].refcount # 1 => /\ block'[s].allocated = block[s].allocated
                                     /\ block'[s].done = block[s].done
                                     /\ block'[s].blocker = block[s].blocker
                                     /\ block'[s].filename = block[s].filename
<1>1. block[s] \in BlockInfo
  BY DEF TypeOK
<1>2. CASE block[s].refcount = 1
  <2>1. block' = [block EXCEPT ![s] = NoBlock]
    BY <1>2 DEF DropReference
  <2> QED
    BY <1>2, <2>1, NoBlockType DEF TypeOK, NoBlock
<1>3. CASE block[s].refcount # 1
  <2> DEFINE b == [block[s] EXCEPT !.refcount = block[s].refcount - 1]
  <2>1. block' = [block EXCEPT ![s] = b]
    BY <1>3 DEF DropReference
  <2>2. block[s].refcount - 1 \in Nat
    BY <1>1 DEF BlockInfo
  <2>3. b \in BlockInfo
    BY <1>1, <2>2 DEF BlockInfo
  <2>4. /\ b.refcount = block[s].refcount - 1 /\ b.allocated = block[s].allocated
        /\ b.done = block[s].done /\ b.blocker = block[s].blocker
        /\ b.filename = block[s].filename
    BY <1>1 DEF BlockInfo
  <2> HIDE DEF b
  <2> QED
    BY <1>3, <2>1, <2>3, <2>4 DEF TypeOK
<1> QED
  BY <1>2, <1>3

-----------------------------------------------------------------------------
\* No block is listed or used in the beginning.
LEMMA InitInv == Init => Inv
<1> SUFFICES ASSUME Init PROVE Inv
  OBVIOUS
<1>1. TypeOK
  BY NoBlockType DEF Init, TypeOK, Thread, IdleThread, Pc
<1>2. ThreadsHold
  BY NoneAssumption DEF Init, ThreadsHold, IdleThread, Removing, AllBlocks
<1>3. ListedHasBlocker /\ NoUseAfterFree /\ ClosedBlockersBlockNothing
  BY DEF Init, ListedHasBlocker, NoUseAfterFree, ClosedBlockersBlockNothing
<1>4. ASSUME NEW s \in Slots PROVE SlotInv(s)
  <2>1. \A pcs : Users(s, pcs) = {}
    BY NoneAssumption DEF Init, Users, IdleThread
  <2>2. Cardinality(Users(s, Counting)) = 0
    BY <2>1, FS_EmptySet
  <2>3. /\ Users(s, Removing) = {} /\ Users(s, {"woken"}) = {}
        /\ Users(s, {"complete", "complete_all"}) = {}
        /\ Users(s, {"undo", "drop", "drop_all"}) = {}
    BY <2>1
  <2> QED
    BY <2>2, <2>3
    DEF Init, SlotInv, OneRemover, FreedWhenUnused, Unfinished, Pending, Counts, OwnReference,
        NoBlock
<1> QED
  BY <1>1, <1>2, <1>3, <1>4 DEF Inv

\* A block that nobody uses is listed with its own reference.
LEMMA AddInv ==
  ASSUME Inv, NEW t \in Threads, NEW f \in Files, NEW b \in Blockers, NEW s \in Slots,
         BlockAddFileBlock(t, f, b, s)
  PROVE  Inv'
<1> DEFINE new == [allocated |-> TRUE, filename |-> f, blocker |-> b,
                   refcount |-> 1, done |-> FALSE]
<1>1. /\ block' = [block EXCEPT ![s] = new] /\ blockedFiles' = blockedFiles \cup {s}
      /\ UNCHANGED <<writer, control, thread, touchedFreed>>
      /\ control[b] = "open" /\ thread[t].pc = "idle"
  BY DEF BlockAddFileBlock, Idle
<1>2. new \in BlockInfo
  BY DEF BlockInfo
<1>3. TypeOK'
  BY <1>1, <1>2 DEF Inv, TypeOK
<1>4. ThreadsHold' /\ NoUseAfterFree'
  BY <1>1 DEF Inv, ThreadsHold, NoUseAfterFree
<1>5. block'[s] = new /\ \A u \in Slots \ {s} : block'[u] = block[u]
  BY <1>1 DEF Inv, TypeOK
<1>6. ListedHasBlocker' /\ ClosedBlockersBlockNothing'
  BY <1>1, <1>5 DEF Inv, TypeOK, ListedHasBlocker, ClosedBlockersBlockNothing
<1>7. \A pcs : \A u : Users(u, pcs)' = Users(u, pcs)
  BY <1>1 DEF Users
<1>8. ~block[s].allocated /\ SlotInv(s)
  BY DEF BlockAddFileBlock, Inv
<1>9. Cardinality(Users(s, Counting)) = 0 /\ ~OwnReference(s)
  BY <1>8, UsersFinite DEF SlotInv, FreedWhenUnused, Counts
<1>10. Users(s, Counting) = {}
  BY <1>9, UsersFinite, FS_EmptySet
<1>11. Users(s, Removing) = {} /\ Users(s, {"woken"}) = {} /\ Users(s, {"complete", "complete_all"}) = {}
  BY <1>8, <1>9, <1>10
  DEF SlotInv, Unfinished, OwnReference, Users, Removing, Counting
<1>12. SlotInv(s)'
  BY <1>1, <1>5, <1>7, <1>9, <1>11
  DEF SlotInv, OneRemover, FreedWhenUnused, Unfinished, Pending, Counts, OwnReference
<1>13. \A u \in Slots \ {s} : SlotInv(u)'
  BY <1>1, <1>5, <1>7
  DEF Inv, SlotInv, OneRemover, FreedWhenUnused, Unfinished, Pending, Counts, OwnReference
<1> QED
  BY <1>3, <1>4, <1>6, <1>12, <1>13 DEF Inv

\* The one who takes a block off the list becomes its remover.
LEMMA RemoveInv ==
  ASSUME Inv, NEW t \in Threads, NEW f \in Files, NEW b \in Blockers, NEW s \in Slots,
         BlockRemoveFileBlock(t, f, b, s)
  PROVE  Inv'
<1> DEFINE r == [pc |-> "undo", slot |-> s, blocker |-> b]
<1>1. /\ blockedFiles' = blockedFiles \ {s} /\ s \in blockedFiles
      /\ block' = [block EXCEPT ![s].refcount = block[s].refcount + 1]
      /\ thread' = [thread EXCEPT ![t] = r] /\ thread[t].pc = "idle" /\ writer = NoThread
      /\ UNCHANGED <<writer, control, touchedFreed>>
  BY DEF BlockRemoveFileBlock, Finds, Idle
<1>2. /\ r \in Thread /\ r.slot = s /\ r.pc = "undo" /\ r.pc \in Counting
      /\ s # NoSlot /\ thread[t].slot = NoSlot /\ TypeOK
  BY <1>1, NoneAssumption DEF Thread, Pc, Inv, ThreadsHold, Removing, Counting
<1>3. block[s] \in BlockInfo /\ block[s].refcount + 1 \in Nat
  BY DEF Inv, TypeOK, BlockInfo
<1>4. /\ block' \in [Slots -> BlockInfo] /\ \A u \in Slots \ {s} : block'[u] = block[u]
      /\ block'[s].refcount = block[s].refcount + 1 /\ block'[s].allocated = block[s].allocated
      /\ block'[s].done = block[s].done
  BY <1>1, <1>3 DEF Inv, TypeOK, BlockInfo
<1> HIDE DEF r
<1>5. thread' \in [Threads -> Thread] /\ ThreadsHold'
  BY <1>1, <1>2, OneThread DEF Inv, Removing, AllBlocks
<1>6. TypeOK'
  BY <1>1, <1>4, <1>5 DEF Inv, TypeOK
<1>7. ListedHasBlocker' /\ ClosedBlockersBlockNothing'
  BY <1>1, <1>4, ListKept DEF Inv, TypeOK
<1>8. NoUseAfterFree'
  BY <1>1 DEF Inv, NoUseAfterFree
<1>9. \A u \in Slots \ {s} : SlotInv(u)'
  BY <1>1, <1>2, <1>4, OtherSlots
<1>10. SlotInv(s) /\ t \notin Users(s, Counting)
  BY <1>1, <1>2, NoneAssumption DEF Inv, Users
<1>11. Cardinality(Users(s, Counting))' = Cardinality(Users(s, Counting)) + 1
  BY <1>1, <1>2, <1>10, CountUp
<1>12. \A u \in Threads : thread'[u] = IF u = t THEN r ELSE thread[u]
  BY <1>1 DEF Inv, TypeOK
<1>13. OneRemover(s)' /\ OwnReference(s)'
  BY <1>1, <1>2, <1>10, <1>12 DEF SlotInv, OneRemover, OwnReference, Users, Removing
<1>14. FreedWhenUnused(s)' /\ Counts(s)'
  BY <1>1, <1>3, <1>4, <1>10, <1>11, <1>13, UsersFinite
  DEF SlotInv, FreedWhenUnused, Counts, OwnReference, BlockInfo
<1>15. Unfinished(s)'
  BY <1>1, <1>2, <1>4, <1>10, <1>12 DEF SlotInv, OneRemover, Unfinished, Pending, Users, Removing
<1> QED
  BY <1>6, <1>5, <1>7, <1>8, <1>9, <1>13, <1>14, <1>15 DEF Inv, SlotInv

\* A block that some thread has at hand has not been freed.
LEMMA InUse ==
  ASSUME Inv, NEW t \in Threads, thread[t].slot # NoSlot
  PROVE  \E s \in Slots :
             /\ s = thread[t].slot /\ s # NoSlot /\ TypeOK /\ SlotInv(s)
             /\ block[s] \in BlockInfo /\ block[s].allocated /\ block[s].refcount # 0
<1>1. PICK s \in Slots : s = thread[t].slot
  BY DEF Inv, TypeOK, Thread
<1>2. /\ s # NoSlot /\ TypeOK /\ SlotInv(s) /\ block[s] \in BlockInfo
      /\ thread[t].pc \in Removing \cup {"wait", "woken"}
  BY <1>1, NoneAssumption DEF Inv, TypeOK, ThreadsHold
<1>3. Cardinality(Users(s, Counting)) \in Nat
  BY UsersFinite
<1>4. ASSUME Users(s, Counting) # {} PROVE block[s].refcount # 0
  <2>1. Cardinality(Users(s, Counting)) # 0
    BY <1>4, UsersFinite, FS_EmptySet
  <2> QED
    BY <1>2, <1>3, <2>1 DEF SlotInv, Counts
<1>5. ASSUME thread[t].pc \in {"undo", "drop", "drop_all"} PROVE block[s].refcount # 0
  <2>1. OwnReference(s)
    BY <1>1, <1>5 DEF OwnReference, Users
  <2> QED
    BY <1>2, <1>3, <2>1 DEF SlotInv, Counts
<1>6. ASSUME thread[t].pc \in {"wait", "woken"} PROVE block[s].refcount # 0
  <2>1. t \in Users(s, Counting)
    BY <1>1, <1>6 DEF Users, Counting
  <2> QED
    BY <1>4, <2>1
<1>7. ASSUME thread[t].pc \in {"complete", "complete_all"} PROVE block[s].refcount # 0
  <2>1. t \in Users(s, {"complete", "complete_all"})
    BY <1>1, <1>7 DEF Users
  <2>2. PICK u \in Threads : u \in Users(s, {"wait"})
    BY <1>2, <2>1 DEF SlotInv, Unfinished, Users
  <2>3. u \in Users(s, Counting)
    BY <2>2 DEF Users, Counting
  <2> QED
    BY <1>4, <2>3
<1>8. block[s].refcount # 0
  BY <1>2, <1>5, <1>6, <1>7 DEF Removing
<1> QED
  BY <1>1, <1>2, <1>8 DEF SlotInv, FreedWhenUnused

\* The remover gives back the reference with which it found the block.
LEMMA UndoInv ==
  ASSUME Inv, NEW t \in Threads, UndoGetBlock(t)
  PROVE  Inv'
<1>1. thread[t].pc = "undo" /\ thread[t].slot # NoSlot
  BY DEF UndoGetBlock, At, Inv, ThreadsHold, Removing
<1>2. PICK s \in Slots :
        /\ s = thread[t].slot /\ s # NoSlot /\ TypeOK /\ SlotInv(s)
        /\ block[s] \in BlockInfo /\ block[s].allocated /\ block[s].refcount # 0
  BY <1>1, InUse
<1> DEFINE r == [thread[t] EXCEPT !.pc = "drop"]
<1>3. /\ thread' = [thread EXCEPT ![t] = r]
      /\ block' = [block EXCEPT ![s].refcount = block[s].refcount - 1]
      /\ touchedFreed' = (touchedFreed \/ ~block[s].allocated)
      /\ UNCHANGED <<blockedFiles, writer, control>>
  BY <1>2 DEF UndoGetBlock, Goto, Touch
<1>4. /\ r \in Thread /\ r.slot = s /\ r.pc = "drop" /\ r.blocker = thread[t].blocker
      /\ r.pc \notin Counting /\ t \in Users(s, Counting) /\ t \in Users(s, Removing)
  BY <1>1, <1>2 DEF TypeOK, Thread, Pc, Counting, Removing, Users
<1> HIDE DEF r
<1>5. Cardinality(Users(s, Counting))' = Cardinality(Users(s, Counting)) - 1
  BY <1>2, <1>3, <1>4, CountDown
<1>6. block[s].refcount - 1 \in Nat
  BY <1>2 DEF BlockInfo
<1>7. /\ block' \in [Slots -> BlockInfo] /\ \A u \in Slots \ {s} : block'[u] = block[u]
      /\ block'[s].refcount = block[s].refcount - 1 /\ block'[s].allocated = block[s].allocated
      /\ block'[s].done = block[s].done /\ block'[s].blocker = block[s].blocker
  BY <1>2, <1>3, <1>6 DEF TypeOK, BlockInfo
<1>8. thread' \in [Threads -> Thread] /\ ThreadsHold'
  BY <1>1, <1>2, <1>3, <1>4, OneThread DEF Inv, Removing, AllBlocks
<1>9. TypeOK'
  BY <1>3, <1>7, <1>8 DEF TypeOK, Inv
<1>10. ListedHasBlocker' /\ ClosedBlockersBlockNothing'
  BY <1>2, <1>3, <1>4, <1>7, ListKept DEF Inv, TypeOK
<1>11. NoUseAfterFree'
  BY <1>2, <1>3 DEF Inv, NoUseAfterFree
<1>12. \A u \in Slots \ {s} : SlotInv(u)'
  BY <1>2, <1>3, <1>4, <1>7, OtherSlots, ZenonT(120)
<1>13. \A u \in Threads : thread'[u] = IF u = t THEN r ELSE thread[u]
  BY <1>2, <1>3 DEF TypeOK
<1>14. OneRemover(s)' /\ OwnReference(s)' /\ OwnReference(s)
  <2>1. OneRemover(s)'
    BY <1>1, <1>2, <1>3, <1>4, <1>13 DEF SlotInv, OneRemover, Users, Removing
  <2>2. OwnReference(s)
    BY <1>1, <1>2 DEF OwnReference, Users
  <2>3. OwnReference(s)'
    BY <1>4, <1>13 DEF OwnReference, Users
  <2> QED
    BY <2>1, <2>2, <2>3
<1>15. FreedWhenUnused(s)' /\ Counts(s)'
  <2>1. Cardinality(Users(s, Counting)) \in Nat \ {0}
    BY <1>4, UsersFinite, FS_EmptySet
  <2> QED
    BY <1>2, <1>5, <1>7, <1>14, <2>1 DEF SlotInv, FreedWhenUnused, Counts
<1>16. Unfinished(s)'
  <2>1. ~block[s].done /\ Users(s, {"woken"}) = {}
    BY <1>2, <1>4 DEF SlotInv, Unfinished, Pending
  <2>2. Users(s, {"woken"})' = {}
    BY <1>4, <1>13, <2>1 DEF Users
  <2>3. \A u \in Threads : u # t => u \notin Users(s, Removing)
    BY <1>2, <1>4 DEF SlotInv, OneRemover
  <2>4. Users(s, {"complete", "complete_all"})' = {}
    BY <1>4, <1>13, <2>3 DEF Users, Removing
  <2> QED
    BY <1>7, <2>1, <2>2, <2>4 DEF Unfinished
<1> QED
  BY <1>8, <1>9, <1>10, <1>11, <1>12, <1>14, <1>15, <1>16 DEF Inv, SlotInv

\* The block's own reference is dropped: nobody is left, or those who are wait.
LEMMA OwnDropped ==
  ASSUME Inv, NEW t \in Threads, thread[t].pc \in {"drop", "drop_all"},
         NEW s \in Slots, s = thread[t].slot, DropReference(s),
         NEW r \in Thread, thread' = [thread EXCEPT ![t] = r], blockedFiles' = blockedFiles,
         IF block[s].refcount = 1 THEN r.slot = NoSlot
         ELSE r.slot = s /\ r.pc \in {"complete", "complete_all"}
  PROVE  SlotInv(s)'
<1>1. /\ s # NoSlot /\ TypeOK /\ SlotInv(s) /\ block[s] \in BlockInfo
      /\ block[s].allocated /\ block[s].refcount # 0
  BY InUse, NoneAssumption
<1>2. /\ t \in Users(s, Removing) /\ t \notin Users(s, Counting)
      /\ r.slot # NoSlot => r.pc \in Removing \ (Counting \cup {"undo", "drop", "drop_all"})
  BY DEF Users, Removing, Counting
<1>3. OwnReference(s) /\ s \notin blockedFiles
  BY <1>1, <1>2 DEF OwnReference, Users, SlotInv, OneRemover
<1>4. Cardinality(Users(s, Counting))' = Cardinality(Users(s, Counting))
  BY <1>1, <1>2, CountSame
<1>5. \A u \in Threads : thread'[u] = IF u = t THEN r ELSE thread[u]
  BY <1>1 DEF TypeOK
<1>6. \A u \in Threads : u # t => u \notin Users(s, Removing)
  BY <1>1, <1>2 DEF SlotInv, OneRemover
<1>7. OneRemover(s)' /\ ~OwnReference(s)'
  <2>1. \A u \in Threads : u # t => u \notin Users(s, Removing)'
    BY <1>5, <1>6 DEF Users
  <2>2. OneRemover(s)'
    BY <1>3, <2>1 DEF OneRemover, Users
  <2>3. \A u \in Threads : u \notin Users(s, {"undo", "drop", "drop_all"})'
    BY <1>1, <1>2, <1>5, <1>6 DEF Users, Removing
  <2>4. Users(s, {"undo", "drop", "drop_all"})' = {}
    BY <2>3 DEF Users
  <2> QED
    BY <1>3, <2>2, <2>4 DEF OwnReference
<1>8. FreedWhenUnused(s)' /\ Counts(s)'
  BY <1>1, <1>3, <1>4, <1>7, Dropped, UsersFinite
  DEF SlotInv, FreedWhenUnused, Counts, BlockInfo
<1>9. Unfinished(s)'
  <2>1. ~block[s].done /\ Users(s, {"woken"}) = {} /\ \A u \in Threads : u \notin Users(s, {"undo"})
    BY <1>1, <1>2, <1>6 DEF SlotInv, Unfinished, Pending, Users, Removing
  <2>2. CASE block[s].refcount = 1
    <3>1. Users(s, Removing)' = {} /\ Users(s, {"complete", "complete_all"})' = {}
      BY <1>1, <1>5, <1>6, <2>2 DEF Users, Removing
    <3> QED
      BY <1>3, <3>1 DEF Unfinished, Pending
  <2>3. CASE block[s].refcount # 1
    <3>1. Cardinality(Users(s, Counting)) # 0
      BY <1>1, <1>3, <2>3, UsersFinite DEF SlotInv, Counts
    <3>2. PICK u \in Threads : u \in Users(s, Counting)
      BY <3>1, FS_EmptySet DEF Users
    <3>3. u \in Users(s, {"wait"}) /\ u # t
      BY <1>2, <2>1, <3>2 DEF Users, Counting
    <3>4. u \in Users(s, {"wait"})'
      BY <1>5, <3>3 DEF Users
    <3>5. Users(s, {"woken"})' = {}
      BY <1>1, <1>5, <2>1, <2>3 DEF Users
    <3>6. ~block'[s].done
      BY <1>1, <2>1, <2>3, Dropped
    <3> QED
      BY <3>4, <3>5, <3>6 DEF Unfinished
  <2> QED
    BY <2>2, <2>3
<1> QED
  BY <1>7, <1>8, <1>9 DEF SlotInv

LEMMA DropOwnInv ==
  ASSUME Inv, NEW t \in Threads, DropOwnReference(t)
  PROVE  Inv'
<1>1. thread[t].pc = "drop" /\ thread[t].slot # NoSlot
  BY DEF DropOwnReference, At, Inv, ThreadsHold, Removing
<1>2. PICK s \in Slots :
        /\ s = thread[t].slot /\ s # NoSlot /\ TypeOK /\ SlotInv(s)
        /\ block[s] \in BlockInfo /\ block[s].allocated /\ block[s].refcount # 0
  BY <1>1, InUse
<1> DEFINE r == IF block[s].refcount = 1 THEN IdleThread
                ELSE [thread[t] EXCEPT !.pc = "complete"]
<1>3. /\ thread' = [thread EXCEPT ![t] = r] /\ DropReference(s)
      /\ touchedFreed' = (touchedFreed \/ ~block[s].allocated)
      /\ UNCHANGED <<blockedFiles, writer, control>>
  BY <1>2 DEF DropOwnReference, Touch
<1>4. /\ r \in Thread
      /\ IF block[s].refcount = 1 THEN r.slot = NoSlot /\ r.pc = "idle"
         ELSE r.slot = s /\ r.pc = "complete"
  BY <1>1, <1>2 DEF TypeOK, Thread, Pc, IdleThread
<1> HIDE DEF r
<1>5. SlotInv(s)'
  BY <1>1, <1>2, <1>3, <1>4, OwnDropped
<1>6. s \notin blockedFiles
  BY <1>1, <1>2 DEF SlotInv, OneRemover, Users, Removing
<1>7. block' \in [Slots -> BlockInfo] /\ \A u \in Slots \ {s} : block'[u] = block[u]
  BY <1>2, <1>3, Dropped
<1>8. thread' \in [Threads -> Thread] /\ ThreadsHold'
  BY <1>1, <1>2, <1>3, <1>4, OneThread DEF Inv, Removing, AllBlocks
<1>9. TypeOK'
  BY <1>3, <1>7, <1>8 DEF TypeOK, Inv
<1>10. ListedHasBlocker' /\ ClosedBlockersBlockNothing'
  <2>1. writer # t
    BY <1>1 DEF Inv, ThreadsHold, AllBlocks
  <2>2. writer # NoThread => thread'[writer].blocker = thread[writer].blocker
    BY <1>2, <1>3, <2>1 DEF TypeOK
  <2>3. \A u \in blockedFiles' : block'[u].blocker = block[u].blocker
    BY <1>3, <1>6, <1>7, <1>2 DEF TypeOK
  <2> QED
    BY <1>3, <2>2, <2>3, ListKept DEF Inv
<1>11. NoUseAfterFree'
  BY <1>2, <1>3 DEF Inv, NoUseAfterFree
<1>12. \A u \in Slots \ {s} : SlotInv(u)'
  <2>1. r.slot \in {s, NoSlot}
    BY <1>4
  <2> QED
    BY <1>2, <1>3, <1>7, <2>1, OtherSlots
<1> QED
  BY <1>5, <1>8, <1>9, <1>10, <1>11, <1>12 DEF Inv

\* The waiters are woken: each of them still holds its reference.
LEMMA Completed ==
  ASSUME Inv, NEW t \in Threads, thread[t].pc \in {"complete", "complete_all"},
         NEW s \in Slots, s = thread[t].slot, block' = [block EXCEPT ![s].done = TRUE],
         NEW r \in Thread, thread' = [thread EXCEPT ![t] = r], blockedFiles' = blockedFiles,
         r.slot = NoSlot
  PROVE  /\ block' \in [Slots -> BlockInfo]
         /\ \A u \in Slots \ {s} : block'[u] = block[u]
         /\ s \notin blockedFiles
         /\ SlotInv(s)'
<1>1. /\ s # NoSlot /\ TypeOK /\ SlotInv(s) /\ block[s] \in BlockInfo
      /\ block[s].allocated /\ block[s].refcount # 0
  BY InUse, NoneAssumption
<1>2. /\ block' \in [Slots -> BlockInfo] /\ \A u \in Slots \ {s} : block'[u] = block[u]
      /\ block'[s].refcount = block[s].refcount /\ block'[s].allocated = block[s].allocated
  BY <1>1 DEF TypeOK, BlockInfo
<1>3. t \in Users(s, Removing) /\ t \notin Users(s, Counting)
  BY DEF Users, Removing, Counting
<1>4. s \notin blockedFiles /\ \A u \in Threads : u # t => u \notin Users(s, Removing)
  BY <1>1, <1>3 DEF SlotInv, OneRemover
<1>5. Cardinality(Users(s, Counting))' = Cardinality(Users(s, Counting))
  BY <1>1, <1>3, CountSame
<1>6. \A u \in Threads : thread'[u] = IF u = t THEN r ELSE thread[u]
  BY <1>1 DEF TypeOK
<1>7. Users(s, Removing)' = {} /\ Users(s, {"complete", "complete_all"})' = {}
  BY <1>1, <1>4, <1>6 DEF Users, Removing
<1>8. OneRemover(s)' /\ Unfinished(s)'
  BY <1>4, <1>7 DEF OneRemover, Unfinished, Pending
<1>9. ~OwnReference(s) /\ ~OwnReference(s)'
  BY <1>1, <1>4, <1>7 DEF OwnReference, Users, Removing
<1>10. FreedWhenUnused(s)' /\ Counts(s)'
  BY <1>1, <1>2, <1>5, <1>9 DEF SlotInv, FreedWhenUnused, Counts
<1> QED
  BY <1>2, <1>4, <1>8, <1>10 DEF SlotInv

LEMMA CompleteInv ==
  ASSUME Inv, NEW t \in Threads, CompleteAll(t)
  PROVE  Inv'
<1>1. thread[t].pc = "complete" /\ thread[t].slot # NoSlot
  BY DEF CompleteAll, At, Inv, ThreadsHold, Removing
<1>2. PICK s \in Slots :
        /\ s = thread[t].slot /\ s # NoSlot /\ TypeOK /\ SlotInv(s)
        /\ block[s] \in BlockInfo /\ block[s].allocated /\ block[s].refcount # 0
  BY <1>1, InUse
<1>3. /\ thread' = [thread EXCEPT ![t] = IdleThread]
      /\ block' = [block EXCEPT ![s].done = TRUE]
      /\ touchedFreed' = (touchedFreed \/ ~block[s].allocated)
      /\ UNCHANGED <<blockedFiles, writer, control>>
  BY <1>2 DEF CompleteAll, Touch
<1>4. IdleThread \in Thread /\ IdleThread.slot = NoSlot /\ IdleThread.pc = "idle"
  BY DEF Thread, Pc, IdleThread
<1>5. /\ block' \in [Slots -> BlockInfo] /\ \A u \in Slots \ {s} : block'[u] = block[u]
      /\ s \notin blockedFiles /\ SlotInv(s)'
  BY <1>1, <1>2, <1>3, <1>4, Completed
<1>6. thread' \in [Threads -> Thread] /\ ThreadsHold'
  BY <1>1, <1>2, <1>3, <1>4, OneThread DEF Inv, Removing, AllBlocks
<1>7. TypeOK'
  BY <1>3, <1>5, <1>6 DEF TypeOK, Inv
<1>8. ListedHasBlocker' /\ ClosedBlockersBlockNothing'
  <2>1. writer # t
    BY <1>1 DEF Inv, ThreadsHold, AllBlocks
  <2>2. writer # NoThread => thread'[writer].blocker = thread[writer].blocker
    BY <1>2, <1>3, <2>1 DEF TypeOK
  <2>3. \A u \in blockedFiles' : block'[u].blocker = block[u].blocker
    BY <1>2, <1>3, <1>5 DEF TypeOK
  <2> QED
    BY <1>3, <2>2, <2>3, ListKept DEF Inv
<1>9. NoUseAfterFree'
  BY <1>2, <1>3 DEF Inv, NoUseAfterFree
<1>10. \A u \in Slots \ {s} : SlotInv(u)'
  <2>1. IdleThread.slot \in {s, NoSlot}
    BY <1>4
  <2> QED
    BY <1>2, <1>3, <1>5, <2>1, OtherSlots
<1> QED
  BY <1>5, <1>6, <1>7, <1>8, <1>9, <1>10 DEF Inv

\* The end of a process changes nothing that a block relies on.
LEMMA ProcessEndsInv ==
  ASSUME Inv, NEW b \in Blockers, ProcessEnds(b)
  PROVE  Inv'
<1>1. /\ control' = [control EXCEPT ![b] = "ended"]
      /\ UNCHANGED <<blockedFiles, block, writer, thread, touchedFreed>>
  BY DEF ProcessEnds
<1>2. TypeOK' /\ ClosedBlockersBlockNothing'
  BY <1>1 DEF Inv, TypeOK, ClosedBlockersBlockNothing, ListedHasBlocker
<1>3. ThreadsHold' /\ ListedHasBlocker' /\ NoUseAfterFree'
  BY <1>1 DEF Inv, ThreadsHold, ListedHasBlocker, NoUseAfterFree
<1>4. \A s \in Slots : SlotInv(s)'
  BY <1>1
  DEF Inv, SlotInv, OneRemover, FreedWhenUnused, Unfinished, Pending, Counts, OwnReference, Users
<1> QED
  BY <1>2, <1>3, <1>4 DEF Inv

\* The release of a control file takes the lock to remove what is left.
LEMMA ReleaseInv ==
  ASSUME Inv, NEW t \in Threads, NEW b \in Blockers, ControlFileOpRelease(t, b)
  PROVE  Inv'
<1> DEFINE r == [pc |-> "all", slot |-> NoSlot, blocker |-> b]
<1>1. /\ thread[t].pc = "idle" /\ writer = NoThread /\ writer' = t
      /\ control' = [control EXCEPT ![b] = "released"]
      /\ thread' = [thread EXCEPT ![t] = r]
      /\ UNCHANGED <<blockedFiles, block, touchedFreed>>
  BY DEF ControlFileOpRelease, Idle
<1>2. r \in Thread /\ r.slot = NoSlot /\ r.pc = "all" /\ r.blocker = b
  BY DEF Thread, Pc
<1> HIDE DEF r
<1>3. TypeOK'
  BY <1>1, <1>2 DEF Inv, TypeOK
<1>4. thread[t].slot = NoSlot /\ \A u \in Threads : thread[u].pc \notin AllBlocks
  BY <1>1, NoneAssumption DEF Inv, ThreadsHold, Removing
<1>5. \A u \in Threads : thread'[u] = IF u = t THEN r ELSE thread[u]
  BY <1>1 DEF Inv, TypeOK
<1>6. ThreadsHold'
  BY <1>1, <1>2, <1>4, <1>5 DEF Inv, ThreadsHold, Removing, AllBlocks
<1>7. ListedHasBlocker' /\ NoUseAfterFree'
  BY <1>1 DEF Inv, ListedHasBlocker, NoUseAfterFree
<1>8. ClosedBlockersBlockNothing'
  BY <1>1, <1>2, <1>5, NoneAssumption
  DEF Inv, TypeOK, ClosedBlockersBlockNothing, ListedHasBlocker
<1>9. ASSUME NEW s \in Slots PROVE SlotInv(s)'
  <2>1. thread[t].slot # s /\ r.slot # s
    BY <1>2, <1>4, NoneAssumption
  <2> QED
    BY <1>1, <2>1, OtherSlot DEF Inv
<1> QED
  BY <1>3, <1>6, <1>7, <1>8, <1>9 DEF Inv

\* The release takes a block off the list; its own reference is still there.
LEMMA RemoveAllInv ==
  ASSUME Inv, NEW t \in Threads, NEW s \in Slots, BlockRemoveAllBlocks(t, s)
  PROVE  Inv'
<1> DEFINE r == [thread[t] EXCEPT !.pc = "drop_all", !.slot = s]
<1>1. /\ thread[t].pc = "all" /\ s \in blockedFiles
      /\ blockedFiles' = blockedFiles \ {s} /\ thread' = [thread EXCEPT ![t] = r]
      /\ UNCHANGED <<block, writer, control, touchedFreed>>
  BY DEF BlockRemoveAllBlocks, At
<1>2. TypeOK /\ SlotInv(s) /\ s # NoSlot
  BY NoneAssumption DEF Inv
<1>3. r \in Thread /\ r.slot = s /\ r.pc = "drop_all" /\ r.blocker = thread[t].blocker
  BY <1>1, <1>2 DEF TypeOK, Thread, Pc
<1>4. thread[t].slot = NoSlot
  BY <1>1 DEF Inv, ThreadsHold, Removing
<1> HIDE DEF r
<1>5. thread' \in [Threads -> Thread] /\ ThreadsHold'
  BY <1>1, <1>2, <1>3, OneThread DEF Inv, Removing, AllBlocks
<1>6. TypeOK'
  BY <1>1, <1>5 DEF Inv, TypeOK
<1>7. \A u \in Threads : thread'[u] = IF u = t THEN r ELSE thread[u]
  BY <1>1, <1>2 DEF TypeOK
<1>8. ListedHasBlocker' /\ ClosedBlockersBlockNothing'
  <2>1. writer # NoThread => thread'[writer].blocker = thread[writer].blocker
    BY <1>2, <1>3, <1>7 DEF TypeOK
  <2> QED
    BY <1>1, <2>1, ListKept DEF Inv
<1>9. NoUseAfterFree'
  BY <1>1 DEF Inv, NoUseAfterFree
<1>10. \A u \in Slots \ {s} : SlotInv(u)'
  BY <1>1, <1>3, <1>4, OtherSlots
<1>11. t \notin Users(s, Counting) /\ ~(r.slot = s /\ r.pc \in Counting)
  BY <1>2, <1>3, <1>4 DEF Users, Counting
<1>12. Cardinality(Users(s, Counting))' = Cardinality(Users(s, Counting))
  BY <1>1, <1>2, <1>11, CountSame
<1>13. \A u \in Threads : u \notin Users(s, Removing)
  BY <1>1, <1>2 DEF SlotInv, OneRemover
<1>14. OneRemover(s)'
  BY <1>1, <1>7, <1>13 DEF OneRemover, Users
<1>15. OwnReference(s) /\ OwnReference(s)'
  <2>1. t \in Users(s, {"undo", "drop", "drop_all"})'
    BY <1>3, <1>7 DEF Users
  <2> QED
    BY <1>1, <2>1 DEF OwnReference
<1>16. FreedWhenUnused(s)' /\ Counts(s)'
  BY <1>1, <1>2, <1>12, <1>15 DEF SlotInv, FreedWhenUnused, Counts
<1>17. Unfinished(s)'
  <2>1. ~block[s].done /\ Users(s, {"woken"}) = {}
    BY <1>1, <1>2 DEF SlotInv, Unfinished, Pending
  <2>2. Users(s, {"woken"})' = {}
    BY <1>3, <1>7, <2>1 DEF Users
  <2>3. Users(s, {"complete", "complete_all"})' = {}
    BY <1>3, <1>7, <1>13 DEF Users, Removing
  <2> QED
    BY <1>1, <2>1, <2>2, <2>3 DEF Unfinished
<1> QED
  BY <1>5, <1>6, <1>8, <1>9, <1>10, <1>14, <1>16, <1>17 DEF Inv, SlotInv

LEMMA DropOneInv ==
  ASSUME Inv, NEW t \in Threads, DropOneOfAll(t)
  PROVE  Inv'
<1>1. thread[t].pc = "drop_all" /\ thread[t].slot # NoSlot
  BY DEF DropOneOfAll, At, Inv, ThreadsHold, Removing
<1>2. PICK s \in Slots :
        /\ s = thread[t].slot /\ s # NoSlot /\ TypeOK /\ SlotInv(s)
        /\ block[s] \in BlockInfo /\ block[s].allocated /\ block[s].refcount # 0
  BY <1>1, InUse
<1> DEFINE last == block[s].refcount = 1
           r == [thread[t] EXCEPT !.pc = IF last THEN "all" ELSE "complete_all",
                                  !.slot = IF last THEN NoSlot ELSE s]
<1>3. /\ thread' = [thread EXCEPT ![t] = r] /\ DropReference(s)
      /\ touchedFreed' = (touchedFreed \/ ~block[s].allocated)
      /\ UNCHANGED <<blockedFiles, writer, control>>
  BY <1>2 DEF DropOneOfAll, Touch
<1>4. /\ r \in Thread /\ r.blocker = thread[t].blocker
      /\ IF last THEN r.slot = NoSlot /\ r.pc = "all"
                 ELSE r.slot = s /\ r.pc = "complete_all"
  BY <1>1, <1>2 DEF TypeOK, Thread, Pc
<1> HIDE DEF r
<1>5. SlotInv(s)'
  BY <1>1, <1>2, <1>3, <1>4, OwnDropped
<1>6. s \notin blockedFiles
  BY <1>1, <1>2 DEF SlotInv, OneRemover, Users, Removing
<1>7. block' \in [Slots -> BlockInfo] /\ \A u \in Slots \ {s} : block'[u] = block[u]
  BY <1>2, <1>3, Dropped
<1>8. thread' \in [Threads -> Thread] /\ ThreadsHold'
  BY <1>1, <1>2, <1>3, <1>4, OneThread DEF Inv, Removing, AllBlocks
<1>9. TypeOK'
  BY <1>3, <1>7, <1>8 DEF TypeOK, Inv
<1>10. ListedHasBlocker' /\ ClosedBlockersBlockNothing'
  <2>1. writer # NoThread => thread'[writer].blocker = thread[writer].blocker
    BY <1>2, <1>3, <1>4 DEF TypeOK
  <2>2. \A u \in blockedFiles' : block'[u].blocker = block[u].blocker
    BY <1>3, <1>6, <1>7, <1>2 DEF TypeOK
  <2> QED
    BY <1>3, <2>1, <2>2, ListKept DEF Inv
<1>11. NoUseAfterFree'
  BY <1>2, <1>3 DEF Inv, NoUseAfterFree
<1>12. \A u \in Slots \ {s} : SlotInv(u)'
  <2>1. r.slot \in {s, NoSlot}
    BY <1>4
  <2> QED
    BY <1>2, <1>3, <1>7, <2>1, OtherSlots
<1> QED
  BY <1>5, <1>8, <1>9, <1>10, <1>11, <1>12 DEF Inv

LEMMA CompleteOneInv ==
  ASSUME Inv, NEW t \in Threads, CompleteOneOfAll(t)
  PROVE  Inv'
<1>1. thread[t].pc = "complete_all" /\ thread[t].slot # NoSlot
  BY DEF CompleteOneOfAll, At, Inv, ThreadsHold, Removing
<1>2. PICK s \in Slots :
        /\ s = thread[t].slot /\ s # NoSlot /\ TypeOK /\ SlotInv(s)
        /\ block[s] \in BlockInfo /\ block[s].allocated /\ block[s].refcount # 0
  BY <1>1, InUse
<1> DEFINE r == [thread[t] EXCEPT !.pc = "all", !.slot = NoSlot]
<1>3. /\ thread' = [thread EXCEPT ![t] = r]
      /\ block' = [block EXCEPT ![s].done = TRUE]
      /\ touchedFreed' = (touchedFreed \/ ~block[s].allocated)
      /\ UNCHANGED <<blockedFiles, writer, control>>
  BY <1>2 DEF CompleteOneOfAll, Touch
<1>4. /\ r \in Thread /\ r.slot = NoSlot /\ r.pc = "all" /\ r.blocker = thread[t].blocker
  BY <1>2 DEF TypeOK, Thread, Pc
<1> HIDE DEF r
<1>5. /\ block' \in [Slots -> BlockInfo] /\ \A u \in Slots \ {s} : block'[u] = block[u]
      /\ s \notin blockedFiles /\ SlotInv(s)'
  BY <1>1, <1>2, <1>3, <1>4, Completed
<1>6. thread' \in [Threads -> Thread] /\ ThreadsHold'
  BY <1>1, <1>2, <1>3, <1>4, OneThread DEF Inv, Removing, AllBlocks
<1>7. TypeOK'
  BY <1>3, <1>5, <1>6 DEF TypeOK, Inv
<1>8. ListedHasBlocker' /\ ClosedBlockersBlockNothing'
  <2>1. writer # NoThread => thread'[writer].blocker = thread[writer].blocker
    BY <1>2, <1>3, <1>4 DEF TypeOK
  <2>2. \A u \in blockedFiles' : block'[u].blocker = block[u].blocker
    BY <1>2, <1>3, <1>5 DEF TypeOK
  <2> QED
    BY <1>3, <2>1, <2>2, ListKept DEF Inv
<1>9. NoUseAfterFree'
  BY <1>2, <1>3 DEF Inv, NoUseAfterFree
<1>10. \A u \in Slots \ {s} : SlotInv(u)'
  BY <1>2, <1>3, <1>4, <1>5, OtherSlots
<1> QED
  BY <1>5, <1>6, <1>7, <1>8, <1>9, <1>10 DEF Inv

\* The release is over when none of the blocks of its control file is left.
LEMMA AllRemovedInv ==
  ASSUME Inv, NEW t \in Threads, AllRemoved(t)
  PROVE  Inv'
<1>1. /\ thread[t].pc = "all" /\ \A s \in blockedFiles : block[s].blocker # thread[t].blocker
      /\ writer' = NoThread /\ thread' = [thread EXCEPT ![t] = IdleThread]
      /\ UNCHANGED <<blockedFiles, block, control, touchedFreed>>
  BY DEF AllRemoved, At
<1>2. IdleThread \in Thread /\ IdleThread.slot = NoSlot /\ IdleThread.pc = "idle"
  BY DEF Thread, Pc, IdleThread
<1>3. writer = t /\ thread[t].slot = NoSlot /\ TypeOK
  BY <1>1 DEF Inv, ThreadsHold, AllBlocks, Removing
<1>4. \A u \in Threads : thread'[u] = IF u = t THEN IdleThread ELSE thread[u]
  BY <1>1, <1>3 DEF TypeOK
<1>5. TypeOK'
  BY <1>1, <1>2, <1>3 DEF TypeOK
<1>6. ThreadsHold'
  BY <1>1, <1>2, <1>3, <1>4, NoneAssumption DEF Inv, ThreadsHold, Removing, AllBlocks
<1>7. ListedHasBlocker' /\ NoUseAfterFree' /\ ClosedBlockersBlockNothing'
  BY <1>1, <1>3 DEF Inv, ListedHasBlocker, NoUseAfterFree, ClosedBlockersBlockNothing
<1>8. ASSUME NEW s \in Slots PROVE SlotInv(s)'
  <2>1. thread[t].slot # s /\ IdleThread.slot # s
    BY <1>2, <1>3, NoneAssumption
  <2> QED
    BY <1>1, <2>1, OtherSlot DEF Inv
<1> QED
  BY <1>5, <1>6, <1>7, <1>8 DEF Inv

\* A waiter references the block that it found on the list.
LEMMA WaitInv ==
  ASSUME Inv, NEW t \in Threads, NEW f \in Files, NEW s \in Slots, BlockWaitOnFile(t, f, s)
  PROVE  Inv'
<1> DEFINE r == [pc |-> "wait", slot |-> s, blocker |-> NoBlocker]
<1>1. /\ s \in blockedFiles /\ thread[t].pc = "idle" /\ writer = NoThread
      /\ block' = [block EXCEPT ![s].refcount = block[s].refcount + 1]
      /\ thread' = [thread EXCEPT ![t] = r]
      /\ UNCHANGED <<blockedFiles, writer, control, touchedFreed>>
  BY DEF BlockWaitOnFile, Finds, Idle
<1>2. /\ r \in Thread /\ r.slot = s /\ r.pc = "wait" /\ r.pc \in Counting
      /\ s # NoSlot /\ thread[t].slot = NoSlot /\ TypeOK /\ SlotInv(s)
  BY <1>1, NoneAssumption DEF Thread, Pc, Inv, ThreadsHold, Removing, Counting
<1>3. block[s] \in BlockInfo /\ block[s].refcount + 1 \in Nat
  BY <1>2 DEF TypeOK, BlockInfo
<1>4. /\ block' \in [Slots -> BlockInfo] /\ \A u \in Slots \ {s} : block'[u] = block[u]
      /\ block'[s].refcount = block[s].refcount + 1 /\ block'[s].allocated = block[s].allocated
      /\ block'[s].done = block[s].done /\ block'[s].blocker = block[s].blocker
  BY <1>1, <1>2, <1>3 DEF TypeOK, BlockInfo
<1> HIDE DEF r
<1>5. thread' \in [Threads -> Thread] /\ ThreadsHold'
  BY <1>1, <1>2, OneThread DEF Inv, Removing, AllBlocks
<1>6. TypeOK'
  BY <1>1, <1>4, <1>5 DEF Inv, TypeOK
<1>7. ListedHasBlocker' /\ ClosedBlockersBlockNothing'
  <2>1. \A u \in blockedFiles' : block'[u].blocker = block[u].blocker
    BY <1>1, <1>2, <1>4 DEF TypeOK
  <2> QED
    BY <1>1, <2>1, ListKept DEF Inv
<1>8. NoUseAfterFree'
  BY <1>1 DEF Inv, NoUseAfterFree
<1>9. \A u \in Slots \ {s} : SlotInv(u)'
  BY <1>1, <1>2, <1>4, OtherSlots
<1>10. t \notin Users(s, Counting)
  BY <1>2 DEF Users
<1>11. Cardinality(Users(s, Counting))' = Cardinality(Users(s, Counting)) + 1
  BY <1>1, <1>2, <1>10, CountUp
<1>12. \A u \in Threads : thread'[u] = IF u = t THEN r ELSE thread[u]
  BY <1>1, <1>2 DEF TypeOK
<1>13. \A u \in Threads : u \notin Users(s, Removing)'
  BY <1>1, <1>2, <1>12 DEF SlotInv, OneRemover, Users, Removing
<1>14. OneRemover(s)' /\ OwnReference(s) /\ OwnReference(s)'
  BY <1>1, <1>13 DEF OneRemover, OwnReference, Users
<1>15. FreedWhenUnused(s)' /\ Counts(s)'
  BY <1>1, <1>2, <1>3, <1>4, <1>11, <1>14, UsersFinite
  DEF SlotInv, FreedWhenUnused, Counts, BlockInfo
<1>16. Unfinished(s)'
  <2>1. ~block[s].done /\ Users(s, {"woken"}) = {}
    BY <1>1, <1>2 DEF SlotInv, Unfinished, Pending
  <2>2. Users(s, {"woken"})' = {}
    BY <1>2, <1>12, <2>1 DEF Users
  <2>3. Users(s, {"complete", "complete_all"})' = {}
    BY <1>13 DEF Users, Removing
  <2> QED
    BY <1>4, <2>1, <2>2, <2>3 DEF Unfinished
<1> QED
  BY <1>5, <1>6, <1>7, <1>8, <1>9, <1>14, <1>15, <1>16 DEF Inv, SlotInv

\* A waiter is woken only when its block is off the list and done with.
LEMMA WaitDoneInv ==
  ASSUME Inv, NEW t \in Threads, WaitDone(t)
  PROVE  Inv'
<1>1. thread[t].pc = "wait" /\ thread[t].slot # NoSlot
  BY DEF WaitDone, At, Inv, ThreadsHold
<1>2. PICK s \in Slots :
        /\ s = thread[t].slot /\ s # NoSlot /\ TypeOK /\ SlotInv(s)
        /\ block[s] \in BlockInfo /\ block[s].allocated /\ block[s].refcount # 0
  BY <1>1, InUse
<1> DEFINE r == [thread[t] EXCEPT !.pc = "woken"]
<1>3. /\ thread' = [thread EXCEPT ![t] = r] /\ block[s].done
      /\ touchedFreed' = (touchedFreed \/ ~block[s].allocated)
      /\ UNCHANGED <<blockedFiles, block, writer, control>>
  BY <1>2 DEF WaitDone, Goto, Touch
<1>4. /\ r \in Thread /\ r.slot = s /\ r.pc = "woken" /\ r.blocker = thread[t].blocker
      /\ r.pc \in Counting /\ t \in Users(s, Counting)
  BY <1>1, <1>2 DEF TypeOK, Thread, Pc, Counting, Users
<1> HIDE DEF r
<1>5. ~Pending(s)
  BY <1>2, <1>3 DEF SlotInv, Unfinished
<1>6. thread' \in [Threads -> Thread] /\ ThreadsHold'
  BY <1>1, <1>2, <1>3, <1>4, OneThread DEF Inv, AllBlocks
<1>7. TypeOK'
  BY <1>2, <1>3, <1>6 DEF TypeOK
<1>8. \A u \in Threads : thread'[u] = IF u = t THEN r ELSE thread[u]
  BY <1>2, <1>3 DEF TypeOK
<1>9. ListedHasBlocker' /\ ClosedBlockersBlockNothing'
  <2>1. writer # NoThread => thread'[writer].blocker = thread[writer].blocker
    BY <1>2, <1>4, <1>8 DEF TypeOK
  <2> QED
    BY <1>2, <1>3, <2>1, ListKept DEF Inv
<1>10. NoUseAfterFree'
  BY <1>2, <1>3 DEF Inv, NoUseAfterFree
<1>11. \A u \in Slots \ {s} : SlotInv(u)'
  BY <1>2, <1>3, <1>4, OtherSlots
<1>12. Cardinality(Users(s, Counting))' = Cardinality(Users(s, Counting))
  BY <1>2, <1>3, <1>4, CountSame
<1>13. \A u \in Threads : u \notin Users(s, Removing) /\ u \notin Users(s, Removing)'
  BY <1>4, <1>5, <1>8 DEF Pending, Users, Removing
<1>14. OneRemover(s)' /\ ~OwnReference(s) /\ ~OwnReference(s)'
  BY <1>3, <1>5, <1>13 DEF OneRemover, OwnReference, Pending, Users, Removing
<1>15. FreedWhenUnused(s)' /\ Counts(s)'
  BY <1>2, <1>3, <1>12, <1>14 DEF SlotInv, FreedWhenUnused, Counts
<1>16. Unfinished(s)'
  <2>1. Users(s, Removing)' = {} /\ Users(s, {"complete", "complete_all"})' = {}
    BY <1>13 DEF Users, Removing
  <2> QED
    BY <1>3, <1>5, <2>1 DEF Unfinished, Pending
<1> QED
  BY <1>6, <1>7, <1>9, <1>10, <1>11, <1>14, <1>15, <1>16 DEF Inv, SlotInv

\* A waiter that returns may be the last to reference the block.
LEMMA ReturnInv ==
  ASSUME Inv, NEW t \in Threads, WaiterReturns(t)
  PROVE  Inv'
<1>1. thread[t].pc = "woken" /\ thread[t].slot # NoSlot
  BY DEF WaiterReturns, At, Inv, ThreadsHold
<1>2. PICK s \in Slots :
        /\ s = thread[t].slot /\ s # NoSlot /\ TypeOK /\ SlotInv(s)
        /\ block[s] \in BlockInfo /\ block[s].allocated /\ block[s].refcount # 0
  BY <1>1, InUse
<1>3. /\ thread' = [thread EXCEPT ![t] = IdleThread] /\ DropReference(s)
      /\ touchedFreed' = (touchedFreed \/ ~block[s].allocated)
      /\ UNCHANGED <<blockedFiles, writer, control>>
  BY <1>2 DEF WaiterReturns, Touch
<1>4. /\ IdleThread \in Thread /\ IdleThread.slot = NoSlot /\ IdleThread.pc = "idle"
      /\ t \in Users(s, Counting) /\ t \in Users(s, {"woken"})
  BY <1>1, <1>2 DEF Thread, Pc, IdleThread, Counting, Users
<1>5. ~Pending(s)
  BY <1>2, <1>4 DEF SlotInv, Unfinished
<1>6. thread' \in [Threads -> Thread] /\ ThreadsHold'
  BY <1>1, <1>2, <1>3, <1>4, OneThread DEF Inv, Removing, AllBlocks
<1>7. block' \in [Slots -> BlockInfo] /\ \A u \in Slots \ {s} : block'[u] = block[u]
  BY <1>2, <1>3, Dropped
<1>8. TypeOK'
  BY <1>2, <1>3, <1>6, <1>7 DEF TypeOK
<1>9. ListedHasBlocker' /\ ClosedBlockersBlockNothing'
  <2>1. writer # t
    BY <1>1 DEF Inv, ThreadsHold, AllBlocks
  <2>2. writer # NoThread => thread'[writer].blocker = thread[writer].blocker
    BY <1>2, <1>3, <2>1 DEF TypeOK
  <2>3. \A u \in blockedFiles' : block'[u].blocker = block[u].blocker
    BY <1>2, <1>3, <1>5, <1>7 DEF TypeOK, Pending
  <2> QED
    BY <1>3, <2>2, <2>3, ListKept DEF Inv
<1>10. NoUseAfterFree'
  BY <1>2, <1>3 DEF Inv, NoUseAfterFree
<1>11. \A u \in Slots \ {s} : SlotInv(u)'
  BY <1>2, <1>3, <1>4, <1>7, OtherSlots
<1>12. /\ Cardinality(Users(s, Counting))' = Cardinality(Users(s, Counting)) - 1
       /\ Cardinality(Users(s, Counting)) \in Nat
  <2>1. IdleThread.slot # s
    BY <1>2, <1>4
  <2> QED
    BY <1>2, <1>3, <1>4, <2>1, CountDown, UsersFinite
<1>13. \A u \in Threads : thread'[u] = IF u = t THEN IdleThread ELSE thread[u]
  BY <1>2, <1>3 DEF TypeOK
<1>14. \A u \in Threads : u \notin Users(s, Removing) /\ u \notin Users(s, Removing)'
  BY <1>2, <1>4, <1>5, <1>13 DEF Pending, Users, Removing
<1>15. OneRemover(s)' /\ ~OwnReference(s) /\ ~OwnReference(s)'
  BY <1>3, <1>5, <1>14 DEF OneRemover, OwnReference, Pending, Users, Removing
<1>16. FreedWhenUnused(s)' /\ Counts(s)'
  <2>1. /\ block'[s].refcount = block[s].refcount - 1
        /\ block'[s].allocated <=> block[s].refcount # 1
    BY <1>2, <1>3, Dropped
  <2>2. FreedWhenUnused(s)'
    BY <1>2, <2>1 DEF FreedWhenUnused, BlockInfo
  <2> QED
    BY <1>2, <1>12, <1>15, <2>1, <2>2 DEF SlotInv, Counts
<1>17. Unfinished(s)'
  <2>1. Users(s, Removing)' = {} /\ Users(s, {"complete", "complete_all"})' = {}
    BY <1>14 DEF Users, Removing
  <2> QED
    BY <1>3, <1>5, <2>1 DEF Unfinished, Pending
<1> QED
  BY <1>6, <1>8, <1>9, <1>10, <1>11, <1>15, <1>16, <1>17 DEF Inv, SlotInv

-----------------------------------------------------------------------------
\* Every step preserves the invariant.
LEMMA NextInv == Inv /\ [Next]_vars => Inv'
<1> SUFFICES ASSUME Inv, [Next]_vars PROVE Inv'
  OBVIOUS
<1>1. ASSUME NEW b \in Blockers, ProcessEnds(b) PROVE Inv'
  BY <1>1, ProcessEndsInv
<1>2. ASSUME NEW t \in Threads, NEW f \in Files, NEW b \in Blockers, NEW s \in Slots,
             BlockAddFileBlock(t, f, b, s) \/ BlockRemoveFileBlock(t, f, b, s)
      PROVE  Inv'
  BY <1>2, AddInv, RemoveInv
<1>3. ASSUME NEW t \in Threads, NEW f \in Files, NEW s \in Slots, BlockWaitOnFile(t, f, s)
      PROVE  Inv'
  BY <1>3, WaitInv
<1>4. ASSUME NEW t \in Threads, NEW b \in Blockers, ControlFileOpRelease(t, b) PROVE Inv'
  BY <1>4, ReleaseInv
<1>5. ASSUME NEW t \in Threads, Continue(t) PROVE Inv'
  BY <1>5, UndoInv, DropOwnInv, CompleteInv, RemoveAllInv, DropOneInv, CompleteOneInv,
     AllRemovedInv, WaitDoneInv, ReturnInv DEF Continue
<1>6. CASE UNCHANGED vars
  <2>1. \A s \in Slots : SlotInv(s)'
    BY <1>6
    DEF vars, Inv, SlotInv, OneRemover, FreedWhenUnused, Unfinished, Pending, Counts,
        OwnReference, Users
  <2> QED
    BY <1>6, <2>1
    DEF vars, Inv, TypeOK, ThreadsHold, ListedHasBlocker, NoUseAfterFree,
        ClosedBlockersBlockNothing
<1> QED
  BY <1>1, <1>2, <1>3, <1>4, <1>5, <1>6 DEF Next

LEMMA InvHolds == Spec => []Inv
  BY InitInv, NextInv, PTL DEF Spec

-----------------------------------------------------------------------------
\* The variables keep their types.
THEOREM TypeCorrect == Spec => []TypeOK
<1>1. Inv => TypeOK
  BY DEF Inv
<1> QED
  BY <1>1, InvHolds, PTL

\* No reference count and no completion of a freed block is ever touched, by
\* the remover, by the release of a control file or by a waiter, however many
\* they are.
THEOREM BlocksOutliveUsers == Spec => []NoUseAfterFree
<1>1. Inv => NoUseAfterFree
  BY DEF Inv
<1> QED
  BY <1>1, InvHolds, PTL

\* A reference count is always the number of those who will drop a reference.
THEOREM RefCounts == Spec => []RefCountIsUsers
<1>1. Inv => RefCountIsUsers
  BY DEF Inv, SlotInv, Counts, RefCountIsUsers, Counting
<1> QED
  BY <1>1, InvHolds, PTL

\* A block off the list is in the hands of somebody who will drop it.
THEOREM BlocksAreDropped == Spec => []NothingLeaks
<1>1. ASSUME Inv PROVE NothingLeaks
  <2> SUFFICES ASSUME NEW s \in Slots, block[s].allocated, s \notin blockedFiles
               PROVE  \E t \in Threads : thread[t].slot = s
    BY DEF NothingLeaks
  <2>1. SlotInv(s) /\ block[s].refcount # 0
    BY <1>1 DEF Inv, SlotInv, FreedWhenUnused
  <2>2. OwnReference(s) \/ Cardinality(Users(s, Counting)) # 0
    BY <2>1 DEF SlotInv, Counts
  <2>3. Users(s, {"undo", "drop", "drop_all"}) # {} \/ Users(s, Counting) # {}
    BY <2>2, FS_EmptySet DEF OwnReference
  <2> QED
    BY <2>3 DEF Users
<1> QED
  BY <1>1, InvHolds, PTL

\* A control file whose release is over blocks no name.
THEOREM ReleaseLiftsAll == Spec => []ClosedBlockersBlockNothing
<1>1. Inv => ClosedBlockersBlockNothing
  BY DEF Inv
<1> QED
  BY <1>1, InvHolds, PTL

-----------------------------------------------------------------------------
\* What FileGate sees of a block and of a thread is left as it is.
SameGate(s) ==
  /\ s \in blockedFiles' <=> s \in blockedFiles
  /\ s \in blockedFiles => block'[s].filename = block[s].filename
  /\ s \notin blockedFiles => (block'[s].allocated <=> block[s].allocated)
SameWait(t) ==
  /\ thread'[t].pc = "wait" <=> thread[t].pc = "wait"
  /\ thread[t].pc = "wait" => thread'[t].slot = thread[t].slot

LEMMA GateStays ==
  ASSUME \A s \in Slots : SameGate(s), \A t \in Threads : SameWait(t)
  PROVE  UNCHANGED Gate!vars
  BY DEF SameGate, SameWait, Gate!vars, At

\* The last reference to a block that nobody waits for is dropped.
LEMMA GateRemoves ==
  ASSUME NEW s \in Slots, s \notin blockedFiles, s \notin blockedFiles',
         block[s].allocated, ~block'[s].allocated,
         \A u \in Slots \ {s} : SameGate(u), \A t \in Threads : SameWait(t),
         \A t \in Threads : thread[t].pc = "wait" => thread[t].slot # s, s # NoSlot
  PROVE  Gate!Remove(s)
  BY DEF SameGate, SameWait, Gate!Remove, At

\* A block is taken off the list.
LEMMA GateLifts ==
  ASSUME NEW s \in Slots, s \in blockedFiles, s \notin blockedFiles', block'[s].allocated,
         \A u \in Slots \ {s} : SameGate(u), \A t \in Threads : SameWait(t)
  PROVE  Gate!Lift(s)
  BY DEF SameGate, SameWait, Gate!Lift, At

\* A thread other than one that waits, before and after, is not seen.
LEMMA Unseen ==
  ASSUME TypeOK, NEW t \in Threads, NEW r, thread' = [thread EXCEPT ![t] = r],
         thread[t].pc # "wait", r.pc # "wait"
  PROVE  \A u \in Threads : SameWait(u)
  BY DEF TypeOK, SameWait

\* A reference is dropped: the block that FileGate sees is removed with the
\* last one, and nothing is seen of the others.
LEMMA GateDrops ==
  ASSUME Inv, NEW t \in Threads, thread[t].pc \in {"drop", "drop_all", "woken"},
         DropReference(thread[t].slot), blockedFiles' = blockedFiles,
         \A u \in Threads : SameWait(u)
  PROVE  [Gate!Next]_Gate!vars
<1>1. thread[t].slot # NoSlot
  BY DEF Inv, ThreadsHold, Removing
<1>2. PICK s \in Slots :
        /\ s = thread[t].slot /\ s # NoSlot /\ TypeOK /\ SlotInv(s)
        /\ block[s] \in BlockInfo /\ block[s].allocated /\ block[s].refcount # 0
  BY <1>1, InUse
<1>3. /\ \A u \in Slots \ {s} : SameGate(u)
      /\ block[s].refcount = 1 => ~block'[s].allocated
      /\ block[s].refcount # 1 => block'[s].allocated = block[s].allocated
  BY <1>2, Dropped DEF SameGate
<1>4. s \notin blockedFiles
  BY <1>2 DEF SlotInv, OneRemover, Unfinished, Pending, Users, Removing
<1>5. CASE block[s].refcount # 1
  <2>1. \A u \in Slots : SameGate(u)
    BY <1>2, <1>3, <1>4, <1>5 DEF SameGate
  <2> QED
    BY <2>1, GateStays
<1>6. CASE block[s].refcount = 1
  <2>1. ASSUME NEW u \in Threads, thread[u].pc = "wait", thread[u].slot = s PROVE FALSE
    <3>1. u \in Users(s, Counting) /\ u # t
      BY <2>1 DEF Users, Counting
    <3>2. CASE thread[t].pc = "woken"
      <4>1. t \in Users(s, Counting)
        BY <1>2, <3>2 DEF Users, Counting
      <4>2. IsFiniteSet(Users(s, Counting)) /\ Cardinality(Users(s, Counting)) \in Nat
        BY UsersFinite
      <4>3. Cardinality(Users(s, Counting)) # 0 /\ Cardinality(Users(s, Counting)) # 1
        BY <3>1, <4>1, <4>2, FS_EmptySet, FS_Singleton
      <4> QED
        BY <1>2, <1>6, <4>2, <4>3 DEF SlotInv, Counts
    <3>3. CASE thread[t].pc # "woken"
      <4>1. OwnReference(s)
        BY <1>2, <3>3 DEF OwnReference, Users
      <4>2. Cardinality(Users(s, Counting)) = 0
        BY <1>2, <1>6, <4>1, UsersFinite DEF SlotInv, Counts
      <4> QED
        BY <3>1, <4>2, UsersFinite, FS_EmptySet
    <3> QED
      BY <3>2, <3>3
  <2>2. Gate!Remove(s)
    BY <1>2, <1>3, <1>4, <1>6, <2>1, GateRemoves
  <2> QED
    BY <2>2 DEF Gate!Next
<1> QED
  BY <1>5, <1>6

\* Waiters are woken: FileGate sees nothing of it.
LEMMA GateCompletes ==
  ASSUME Inv, NEW t \in Threads, CompleteAll(t) \/ CompleteOneOfAll(t)
  PROVE  UNCHANGED Gate!vars
<1>1. /\ thread[t].pc \in {"complete", "complete_all"} /\ TypeOK
      /\ block' = [block EXCEPT ![thread[t].slot].done = TRUE]
      /\ blockedFiles' = blockedFiles
  BY DEF CompleteAll, CompleteOneOfAll, At, Inv
<1>2. thread[t].slot # NoSlot
  BY <1>1 DEF Inv, ThreadsHold, Removing
<1>3. PICK s \in Slots : s = thread[t].slot /\ block[s] \in BlockInfo
  BY <1>2, InUse
<1>4. \A u \in Slots : SameGate(u)
  BY <1>1, <1>3 DEF SameGate, TypeOK, BlockInfo
<1>5. \A u \in Threads : SameWait(u)
  <2>1. CASE CompleteAll(t)
    <3>1. thread' = [thread EXCEPT ![t] = IdleThread]
      BY <2>1 DEF CompleteAll
    <3>2. IdleThread.pc = "idle"
      BY DEF IdleThread
    <3> QED
      BY <1>1, <3>1, <3>2, Unseen
  <2>2. CASE CompleteOneOfAll(t)
    <3> DEFINE r == [thread[t] EXCEPT !.pc = "all", !.slot = NoSlot]
    <3>1. thread' = [thread EXCEPT ![t] = r]
      BY <2>2 DEF CompleteOneOfAll
    <3>2. r.pc = "all"
      BY <1>1 DEF TypeOK, Thread
    <3> QED
      BY <1>1, <3>1, <3>2, Unseen
  <2> QED
    BY <2>1, <2>2
<1> QED
  BY <1>4, <1>5, GateStays

\* What threads that remove blocks do, as FileGate sees it.
LEMMA RemoverStep ==
  ASSUME Inv, NEW t \in Threads,
         UndoGetBlock(t) \/ DropOwnReference(t) \/ DropOneOfAll(t) \/ AllRemoved(t)
  PROVE  [Gate!Next]_Gate!vars
<1>1. TypeOK /\ IdleThread.pc = "idle"
  BY DEF Inv, IdleThread
<1>2. CASE UndoGetBlock(t)
  <2> DEFINE r == [thread[t] EXCEPT !.pc = "drop"]
  <2>1. /\ thread[t].pc = "undo" /\ thread' = [thread EXCEPT ![t] = r]
        /\ blockedFiles' = blockedFiles
        /\ block' = [block EXCEPT ![thread[t].slot].refcount = @ - 1]
    BY <1>2 DEF UndoGetBlock, At, Goto
  <2>2. r.pc = "drop"
    BY <1>1 DEF TypeOK, Thread
  <2>3. \A u \in Threads : SameWait(u)
    BY <1>1, <2>1, <2>2, Unseen
  <2>4. \A s \in Slots : SameGate(s)
    BY <1>1, <2>1 DEF SameGate, TypeOK, BlockInfo
  <2> QED
    BY <2>3, <2>4, GateStays
<1>3. CASE DropOwnReference(t)
  <2> DEFINE r == IF block[thread[t].slot].refcount = 1 THEN IdleThread
                  ELSE [thread[t] EXCEPT !.pc = "complete"]
  <2>1. /\ thread[t].pc = "drop" /\ thread' = [thread EXCEPT ![t] = r]
        /\ blockedFiles' = blockedFiles /\ DropReference(thread[t].slot)
    BY <1>3 DEF DropOwnReference, At
  <2>2. r.pc # "wait"
    BY <1>1 DEF TypeOK, Thread
  <2> HIDE DEF r
  <2>3. \A u \in Threads : SameWait(u)
    BY <1>1, <2>1, <2>2, Unseen
  <2> QED
    BY <2>1, <2>3, GateDrops
<1>4. CASE DropOneOfAll(t)
  <2> DEFINE last == block[thread[t].slot].refcount = 1
             r == [thread[t] EXCEPT !.pc = IF last THEN "all" ELSE "complete_all",
                                    !.slot = IF last THEN NoSlot ELSE thread[t].slot]
  <2>1. /\ thread[t].pc = "drop_all" /\ thread' = [thread EXCEPT ![t] = r]
        /\ blockedFiles' = blockedFiles /\ DropReference(thread[t].slot)
    BY <1>4 DEF DropOneOfAll, At
  <2>2. r.pc # "wait"
    BY <1>1 DEF TypeOK, Thread
  <2> HIDE DEF r
  <2>3. \A u \in Threads : SameWait(u)
    BY <1>1, <2>1, <2>2, Unseen
  <2> QED
    BY <2>1, <2>3, GateDrops
<1>5. CASE AllRemoved(t)
  <2>1. /\ thread[t].pc = "all" /\ thread' = [thread EXCEPT ![t] = IdleThread]
        /\ UNCHANGED <<blockedFiles, block>>
    BY <1>5 DEF AllRemoved, At
  <2>2. \A u \in Threads : SameWait(u)
    BY <1>1, <2>1, Unseen
  <2>3. \A s \in Slots : SameGate(s)
    BY <2>1 DEF SameGate
  <2> QED
    BY <2>2, <2>3, GateStays
<1> QED
  BY <1>2, <1>3, <1>4, <1>5

\* Taking a block off the list, whoever does it, lifts it.
LEMMA LiftStep ==
  ASSUME Inv, NEW t \in Threads, NEW s \in Slots,
         \/ \E f \in Files, b \in Blockers : BlockRemoveFileBlock(t, f, b, s)
         \/ BlockRemoveAllBlocks(t, s)
  PROVE  Gate!Lift(s)
<1>1. TypeOK /\ SlotInv(s) /\ thread[t].pc \in {"idle", "all"}
  BY DEF Inv, BlockRemoveFileBlock, BlockRemoveAllBlocks, Idle, At
<1>2. s \in blockedFiles /\ blockedFiles' = blockedFiles \ {s}
  BY DEF BlockRemoveFileBlock, BlockRemoveAllBlocks, Finds
<1>3. block[s].allocated
  BY <1>1, <1>2, UsersFinite DEF SlotInv, FreedWhenUnused, Counts, OwnReference
<1>4. block' = [block EXCEPT ![s].refcount = @ + 1] \/ block' = block
  BY DEF BlockRemoveFileBlock, BlockRemoveAllBlocks
<1>5. block'[s].allocated /\ \A u \in Slots \ {s} : SameGate(u)
  BY <1>1, <1>2, <1>3, <1>4 DEF SameGate, TypeOK, BlockInfo
<1>6. \A u \in Threads : SameWait(u)
  <2>1. CASE \E f \in Files, b \in Blockers : BlockRemoveFileBlock(t, f, b, s)
    <3>1. PICK b \in Blockers :
             thread' = [thread EXCEPT ![t] = [pc |-> "undo", slot |-> s, blocker |-> b]]
      BY <2>1 DEF BlockRemoveFileBlock
    <3> QED
      BY <1>1, <3>1 DEF TypeOK, SameWait
  <2>2. CASE BlockRemoveAllBlocks(t, s)
    <3>1. thread' = [thread EXCEPT ![t] = [thread[t] EXCEPT !.pc = "drop_all", !.slot = s]]
      BY <2>2 DEF BlockRemoveAllBlocks
    <3> QED
      BY <1>1, <3>1 DEF TypeOK, SameWait, Thread
  <2> QED
    BY <2>1, <2>2
<1> QED
  BY <1>2, <1>5, <1>6, GateLifts

\* A name is blocked by one block at a time.
LEMMA ShutStep ==
  ASSUME Inv, NEW t \in Threads, NEW f \in Files, NEW b \in Blockers, NEW s \in Slots,
         BlockAddFileBlock(t, f, b, s)
  PROVE  Gate!Shut(s, f)
<1>1. /\ TypeOK /\ SlotInv(s) /\ ListedHasBlocker /\ ~block[s].allocated
      /\ \A u \in blockedFiles : block[u].filename # f
      /\ blockedFiles' = blockedFiles \cup {s} /\ thread' = thread
  BY DEF Inv, TypeOK, BlockAddFileBlock, BlockExists, Finds, ListedHasBlocker
<1>2. s \notin blockedFiles
  BY <1>1, UsersFinite DEF SlotInv, FreedWhenUnused, Counts, OwnReference
<1>3. block'[s].filename = f /\ \A u \in Slots \ {s} : block'[u] = block[u]
  BY <1>1 DEF BlockAddFileBlock, TypeOK
<1> QED
  BY <1>1, <1>2, <1>3 DEF Gate!Shut, At

\* A thread waits for a block that is listed, and returns from the wait after
\* the block was taken off the list and before it is freed.
LEMMA WaiterStep ==
  ASSUME Inv, NEW t \in Threads,
         \/ \E f \in Files, s \in Slots : BlockWaitOnFile(t, f, s)
         \/ WaitDone(t) \/ WaiterReturns(t)
  PROVE  [Gate!Next]_Gate!vars
<1> DEFINE gate == [u \in Slots |-> IF u \in blockedFiles THEN "shut"
                                    ELSE IF block[u].allocated THEN "lifted" ELSE "absent"]
           name == [u \in Slots |-> IF u \in blockedFiles THEN block[u].filename ELSE NoFile]
           waitsFor == [u \in Threads |-> IF At(u, "wait") THEN thread[u].slot ELSE NoSlot]
<1>1. TypeOK
  BY DEF Inv
<1>2. ASSUME NEW f \in Files, NEW s \in Slots, BlockWaitOnFile(t, f, s)
      PROVE  Gate!Wait(t, s)
  <2>1. /\ s \in blockedFiles /\ thread[t].pc = "idle" /\ blockedFiles' = blockedFiles
        /\ thread' = [thread EXCEPT ![t] = [pc |-> "wait", slot |-> s, blocker |-> NoBlocker]]
        /\ block' = [block EXCEPT ![s].refcount = @ + 1]
    BY <1>2 DEF BlockWaitOnFile, Finds, Idle
  <2>2. \A u \in Slots : /\ block'[u].filename = block[u].filename
                         /\ block'[u].allocated = block[u].allocated
    BY <1>1, <2>1 DEF TypeOK, BlockInfo
  <2>3. /\ thread'[t].pc = "wait" /\ thread'[t].slot = s
        /\ \A u \in Threads \ {t} : thread'[u] = thread[u]
    BY <1>1, <2>1 DEF TypeOK
  <2>4. waitsFor[t] = NoSlot /\ gate[s] = "shut"
    BY <2>1 DEF At
  <2>5. waitsFor' = [waitsFor EXCEPT ![t] = s]
    BY <2>3 DEF At
  <2>6. UNCHANGED <<gate, name>>
    BY <2>1, <2>2
  <2> QED
    BY <2>4, <2>5, <2>6 DEF Gate!Wait
<1>3. ASSUME WaitDone(t) PROVE Gate!Pass(t)
  <2>1. /\ thread[t].pc = "wait" /\ thread[t].slot # NoSlot
        /\ UNCHANGED <<blockedFiles, block>> /\ block[thread[t].slot].done
        /\ thread' = [thread EXCEPT ![t].pc = "woken"]
    BY <1>3 DEF WaitDone, At, Goto, Inv, ThreadsHold
  <2>2. PICK s \in Slots : /\ s = thread[t].slot /\ s # NoSlot /\ SlotInv(s)
                           /\ block[s].allocated
    BY <2>1, InUse
  <2>3. s \notin blockedFiles
    BY <2>1, <2>2 DEF SlotInv, Unfinished, Pending
  <2>4. thread'[t].pc = "woken" /\ \A u \in Threads \ {t} : thread'[u] = thread[u]
    BY <1>1, <2>1 DEF TypeOK, Thread
  <2>5. waitsFor[t] = s /\ gate[s] = "lifted"
    BY <2>1, <2>2, <2>3 DEF At
  <2>6. waitsFor' = [waitsFor EXCEPT ![t] = NoSlot]
    BY <2>4 DEF At
  <2>7. UNCHANGED <<gate, name>>
    BY <2>1
  <2>8. waitsFor[t] # NoSlot /\ gate[waitsFor[t]] = "lifted"
    BY <2>2, <2>5
  <2> QED
    BY <2>6, <2>7, <2>8 DEF Gate!Pass
<1>4. ASSUME WaiterReturns(t) PROVE [Gate!Next]_Gate!vars
  <2>1. /\ thread[t].pc = "woken" /\ thread' = [thread EXCEPT ![t] = IdleThread]
        /\ blockedFiles' = blockedFiles /\ DropReference(thread[t].slot)
    BY <1>4 DEF WaiterReturns, At
  <2>2. IdleThread.pc = "idle"
    BY DEF IdleThread
  <2>3. \A u \in Threads : SameWait(u)
    BY <1>1, <2>1, <2>2, Unseen
  <2> QED
    BY <2>1, <2>3, GateDrops
<1> QED
  BY <1>2, <1>3, <1>4 DEF Gate!Next

\* Every step is a step of FileGate or not seen by it.
LEMMA GateStep == Inv /\ [Next]_vars => [Gate!Next]_Gate!vars
<1> SUFFICES ASSUME Inv, [Next]_vars PROVE [Gate!Next]_Gate!vars
  OBVIOUS
<1>1. ASSUME NEW b \in Blockers, ProcessEnds(b) PROVE UNCHANGED Gate!vars
  BY <1>1, GateStays DEF ProcessEnds, SameGate, SameWait
<1>2. ASSUME NEW t \in Threads, NEW f \in Files, NEW b \in Blockers, NEW s \in Slots,
             BlockAddFileBlock(t, f, b, s) \/ BlockRemoveFileBlock(t, f, b, s)
      PROVE  Gate!Shut(s, f) \/ Gate!Lift(s)
  BY <1>2, ShutStep, LiftStep
<1>3. ASSUME NEW t \in Threads, NEW f \in Files, NEW s \in Slots, BlockWaitOnFile(t, f, s)
      PROVE  [Gate!Next]_Gate!vars
  BY <1>3, WaiterStep
<1>4. ASSUME NEW t \in Threads, NEW b \in Blockers, ControlFileOpRelease(t, b)
      PROVE  UNCHANGED Gate!vars
  <2>1. /\ TypeOK /\ thread[t].pc = "idle" /\ UNCHANGED <<blockedFiles, block>>
        /\ thread' = [thread EXCEPT ![t] = [pc |-> "all", slot |-> NoSlot, blocker |-> b]]
    BY <1>4 DEF ControlFileOpRelease, Idle, Inv
  <2> QED
    BY <2>1, GateStays DEF SameGate, SameWait, TypeOK
<1>5. ASSUME NEW t \in Threads, Continue(t) PROVE [Gate!Next]_Gate!vars
  <2>1. CASE \E s \in Slots : BlockRemoveAllBlocks(t, s)
    BY <2>1, LiftStep DEF Gate!Next
  <2>2. CASE CompleteAll(t) \/ CompleteOneOfAll(t)
    BY <2>2, GateCompletes
  <2>3. CASE WaitDone(t) \/ WaiterReturns(t)
    BY <2>3, WaiterStep
  <2>4. CASE UndoGetBlock(t) \/ DropOwnReference(t) \/ DropOneOfAll(t) \/ AllRemoved(t)
    BY <2>4, RemoverStep
  <2> QED
    BY <1>5, <2>1, <2>2, <2>3, <2>4 DEF Continue
<1>6. CASE UNCHANGED vars
  BY <1>6, GateStays DEF vars, SameGate, SameWait
<1>7. ASSUME NEW s \in Slots, NEW f \in Files, Gate!Shut(s, f) \/ Gate!Lift(s)
      PROVE  Gate!Next
  BY <1>7 DEF Gate!Next
<1> QED
  BY <1>1, <1>2, <1>3, <1>4, <1>5, <1>6, <1>7 DEF Next

\* "All calls to BlockWaitOnFile() with the same filename will not return until
\* BlockRemoveFileBlock() is called": a lookup passes a block only after that
\* block was lifted, and no block is freed under those who wait for it.
THEOREM WaitersWaitForTheirBlock == Spec => ImplementsGate
<1>1. Init => Gate!Init
  BY NoneAssumption DEF Init, Gate!Init, NoBlock, IdleThread, At
<1> QED
  BY <1>1, GateStep, InvHolds, PTL DEF Spec, ImplementsGate, Gate!Spec
=============================================================================
