------------------------------ MODULE VMBlock ------------------------------
(***************************************************************************)
(* File blocks of the vmblock module: linux/block.c and the calls it gets  *)
(* from the control file (linux/control.c) and from path lookups           *)
(* (linux/inode.c, linux/dentry.c).                                        *)
(*                                                                         *)
(* While a drag and drop copies a file, the process that copies it blocks  *)
(* the file's name through an open control file; whoever looks the name up *)
(* in the vmblock file system sleeps until the block is lifted.  A block   *)
(* references itself while it is listed, every waiter references it, and   *)
(* whoever drops the last reference frees it.  The reference counts are    *)
(* atomics that are also touched outside blockedFilesLock.                 *)
(***************************************************************************)
EXTENDS Naturals, FiniteSets

CONSTANTS
  Threads,
  Lookers,          \* those that look names up, others only write control files
  Blockers,         \* open control files
  Files,            \* names
  Slots,            \* memory of BlockInfo objects
  NoThread, NoBlocker, NoFile, NoSlot

ASSUME NoneAssumption ==
         /\ NoThread \notin Threads /\ NoSlot \notin Slots
         /\ NoBlocker \notin Blockers /\ NoFile \notin Files
ASSUME ThreadAssumption == IsFiniteSet(Threads) /\ Lookers \subseteq Threads

VARIABLES
  blockedFiles,     \* SUBSET Slots: the list
  block,            \* [Slots -> BlockInfo]
  writer,           \* the thread that keeps blockedFilesLock for writing
  control,          \* [Blockers -> {"open", "ended", "released"}]: the control file
  thread,           \* [Threads -> what the thread is doing]
  touchedFreed      \* history: a reference count or completion of freed memory was used

vars == <<blockedFiles, block, writer, control, thread, touchedFreed>>

-----------------------------------------------------------------------------
BlockInfo == [allocated : BOOLEAN, filename : Files \cup {NoFile},
              blocker : Blockers \cup {NoBlocker}, refcount : Nat, done : BOOLEAN]

NoBlock == [allocated |-> FALSE, filename |-> NoFile, blocker |-> NoBlocker,
            refcount |-> 0, done |-> FALSE]

\* undo, drop, complete: BlockRemoveFileBlock after the unlock.
\* all, drop_all, complete_all: BlockRemoveAllBlocks in its loop.
\* wait, woken: BlockWaitOnFile.
Pc == {"idle", "undo", "drop", "complete", "all", "drop_all", "complete_all",
       "wait", "woken"}
Thread == [pc : Pc, slot : Slots \cup {NoSlot}, blocker : Blockers \cup {NoBlocker}]
IdleThread == [pc |-> "idle", slot |-> NoSlot, blocker |-> NoBlocker]

Init ==
  /\ blockedFiles = {}
  /\ block = [s \in Slots |-> NoBlock]
  /\ writer = NoThread
  /\ control = [b \in Blockers |-> "open"]
  /\ thread = [t \in Threads |-> IdleThread]
  /\ touchedFreed = FALSE

Goto(t, pc) == thread' = [thread EXCEPT ![t].pc = pc]
Idle(t) == thread[t].pc = "idle"
At(t, pc) == thread[t].pc = pc

\* GetBlock finds the first block of that name; there is at most one.
Finds(s, f, blockers) ==
  s \in blockedFiles /\ block[s].filename = f /\ block[s].blocker \in blockers

Touch(s) == touchedFreed' = (touchedFreed \/ ~block[s].allocated)

\* os_atomic_dec_and_test and FreeBlock.
DropReference(s) ==
  block' = [block EXCEPT ![s] = IF block[s].refcount = 1 THEN NoBlock
                                ELSE [block[s] EXCEPT !.refcount = @ - 1]]

-----------------------------------------------------------------------------
(* The control file *)

BlockExists(f) == \E s \in Slots : Finds(s, f, Blockers)

\* A name that is blocked already is refused and the new block freed again.
BlockAddFileBlock(t, f, b, s) ==
  /\ Idle(t)
  /\ control[b] = "open"
  /\ writer = NoThread
  /\ ~block[s].allocated
  /\ ~BlockExists(f)
  /\ block' = [block EXCEPT ![s] = [allocated |-> TRUE, filename |-> f, blocker |-> b,
                                    refcount |-> 1, done |-> FALSE]]
  /\ blockedFiles' = blockedFiles \cup {s}
  /\ UNCHANGED <<writer, control, thread, touchedFreed>>

\* Off the list under the lock, with the reference that GetBlock took.
BlockRemoveFileBlock(t, f, b, s) ==
  /\ Idle(t)
  /\ control[b] = "open"
  /\ writer = NoThread
  /\ Finds(s, f, {b})
  /\ blockedFiles' = blockedFiles \ {s}
  /\ block' = [block EXCEPT ![s].refcount = @ + 1]
  /\ thread' = [thread EXCEPT ![t] = [pc |-> "undo", slot |-> s, blocker |-> b]]
  /\ UNCHANGED <<writer, control, touchedFreed>>

UndoGetBlock(t) ==
  LET s == thread[t].slot
  IN  /\ At(t, "undo")
      /\ block' = [block EXCEPT ![s].refcount = @ - 1]
      /\ Goto(t, "drop")
      /\ Touch(s)
      /\ UNCHANGED <<blockedFiles, writer, control>>

\* Mutant: waiters are completed whether or not the block was freed.
DropAndComplete(t) ==
  LET s == thread[t].slot
  IN  /\ At(t, "drop")
      /\ DropReference(s)
      /\ Goto(t, "complete")
      /\ Touch(s)
      /\ UNCHANGED <<blockedFiles, writer, control>>

\* Mutant: waiters are left to themselves.
DropWithoutComplete(t) ==
  LET s == thread[t].slot
  IN  /\ At(t, "drop")
      /\ DropReference(s)
      /\ thread' = [thread EXCEPT ![t] = IdleThread]
      /\ Touch(s)
      /\ UNCHANGED <<blockedFiles, writer, control>>

\* The block's own reference: the block is freed, or its waiters completed.
DropOwnReference(t) ==
  LET s == thread[t].slot
  IN  /\ At(t, "drop")
      /\ DropReference(s)
      /\ thread' = [thread EXCEPT ![t] = IF block[s].refcount = 1 THEN IdleThread
                                         ELSE [@ EXCEPT !.pc = "complete"]]
      /\ Touch(s)
      /\ UNCHANGED <<blockedFiles, writer, control>>

CompleteAll(t) ==
  LET s == thread[t].slot
  IN  /\ At(t, "complete")
      /\ block' = [block EXCEPT ![s].done = TRUE]
      /\ thread' = [thread EXCEPT ![t] = IdleThread]
      /\ Touch(s)
      /\ UNCHANGED <<blockedFiles, writer, control>>

\* The process that has the control file open ends: no more calls from it.
ProcessEnds(b) ==
  /\ control[b] = "open"
  /\ control' = [control EXCEPT ![b] = "ended"]
  /\ UNCHANGED <<blockedFiles, block, writer, thread, touchedFreed>>

\* ControlFileOpRelease, on the last close: no write to the control file is in progress.
ControlFileOpRelease(t, b) ==
  /\ Idle(t)
  /\ control[b] = "ended"
  /\ writer = NoThread
  /\ \A u \in Threads : thread[u].blocker # b
  /\ control' = [control EXCEPT ![b] = "released"]
  /\ writer' = t
  /\ thread' = [thread EXCEPT ![t] = [pc |-> "all", slot |-> NoSlot, blocker |-> b]]
  /\ UNCHANGED <<blockedFiles, block, touchedFreed>>

\* The loop keeps the lock; waiters that it wakes run beside it.
BlockRemoveAllBlocks(t, s) ==
  /\ At(t, "all")
  /\ s \in blockedFiles
  /\ block[s].blocker = thread[t].blocker
  /\ blockedFiles' = blockedFiles \ {s}
  /\ thread' = [thread EXCEPT ![t].pc = "drop_all", ![t].slot = s]
  /\ UNCHANGED <<block, writer, control, touchedFreed>>

DropOneOfAll(t) ==
  LET s == thread[t].slot
  IN  /\ At(t, "drop_all")
      /\ DropReference(s)
      /\ thread' = [thread EXCEPT ![t].pc = IF block[s].refcount = 1 THEN "all"
                                            ELSE "complete_all",
                                  ![t].slot = IF block[s].refcount = 1 THEN NoSlot ELSE s]
      /\ Touch(s)
      /\ UNCHANGED <<blockedFiles, writer, control>>

CompleteOneOfAll(t) ==
  LET s == thread[t].slot
  IN  /\ At(t, "complete_all")
      /\ block' = [block EXCEPT ![s].done = TRUE]
      /\ thread' = [thread EXCEPT ![t].pc = "all", ![t].slot = NoSlot]
      /\ Touch(s)
      /\ UNCHANGED <<blockedFiles, writer, control>>

AllRemoved(t) ==
  /\ At(t, "all")
  /\ \A s \in blockedFiles : block[s].blocker # thread[t].blocker
  /\ writer' = NoThread
  /\ thread' = [thread EXCEPT ![t] = IdleThread]
  /\ UNCHANGED <<blockedFiles, block, control, touchedFreed>>

-----------------------------------------------------------------------------
(* BlockWaitOnFile, from InodeOpLookup and DentryOpRevalidate *)

BlockWaitOnFile(t, f, s) ==
  /\ t \in Lookers
  /\ Idle(t)
  /\ writer = NoThread
  /\ Finds(s, f, Blockers)
  /\ block' = [block EXCEPT ![s].refcount = @ + 1]
  /\ thread' = [thread EXCEPT ![t] = [pc |-> "wait", slot |-> s, blocker |-> NoBlocker]]
  /\ UNCHANGED <<blockedFiles, writer, control, touchedFreed>>

\* Mutant: the sleep is interrupted.
WaitInterrupted(t) ==
  /\ At(t, "wait")
  /\ Goto(t, "woken")
  /\ UNCHANGED <<blockedFiles, block, writer, control, touchedFreed>>

\* wait_for_completion returns: it cannot be interrupted.
WaitDone(t) ==
  LET s == thread[t].slot
  IN  /\ At(t, "wait")
      /\ block[s].done
      /\ Goto(t, "woken")
      /\ Touch(s)
      /\ UNCHANGED <<blockedFiles, block, writer, control>>

WaiterReturns(t) ==
  LET s == thread[t].slot
  IN  /\ At(t, "woken")
      /\ DropReference(s)
      /\ thread' = [thread EXCEPT ![t] = IdleThread]
      /\ Touch(s)
      /\ UNCHANGED <<blockedFiles, writer, control>>

-----------------------------------------------------------------------------
\* A thread in the middle of a call.
Continue(t) ==
  \/ UndoGetBlock(t) \/ DropOwnReference(t) \/ CompleteAll(t)
  \/ \E s \in Slots : BlockRemoveAllBlocks(t, s)
  \/ DropOneOfAll(t) \/ CompleteOneOfAll(t) \/ AllRemoved(t)
  \/ WaitDone(t) \/ WaiterReturns(t)

Next ==
  \/ \E b \in Blockers : ProcessEnds(b)
  \/ \E t \in Threads :
       \/ \E f \in Files, b \in Blockers, s \in Slots :
            BlockAddFileBlock(t, f, b, s) \/ BlockRemoveFileBlock(t, f, b, s)
       \/ \E f \in Files, s \in Slots : BlockWaitOnFile(t, f, s)
       \/ \E b \in Blockers : ControlFileOpRelease(t, b)
       \/ Continue(t)

\* Threads in the kernel are scheduled, the process that blocks names ends some
\* day, and its control file is closed then, by a thread that is not asleep in
\* vmblock.
Fairness ==
  /\ \A t \in Threads : WF_vars(Continue(t))
  /\ \A b \in Blockers : WF_vars(ProcessEnds(b))
  /\ \A b \in Blockers : SF_vars(\E t \in Threads : ControlFileOpRelease(t, b))

Spec == Init /\ [][Next]_vars
FairSpec == Spec /\ Fairness

-----------------------------------------------------------------------------
(* Properties *)

\* Type invariant.
TypeOK ==
  /\ blockedFiles \in SUBSET Slots
  /\ block \in [Slots -> BlockInfo]
  /\ writer \in Threads \cup {NoThread}
  /\ control \in [Blockers -> {"open", "ended", "released"}]
  /\ thread \in [Threads -> Thread]
  /\ touchedFreed \in BOOLEAN

Users(s, pcs) == {t \in Threads : thread[t].slot = s /\ thread[t].pc \in pcs}
OwnReference(s) == s \in blockedFiles \/ Users(s, {"undo", "drop", "drop_all"}) # {}

\* "The BlockInfo holds a reference to itself", deleted only when it is off
\* the list; every other reference is a thread's that waits, returns from a
\* wait or is removing the block.
RefCountIsUsers ==
  \A s \in Slots :
    block[s].refcount = Cardinality(Users(s, {"undo", "wait", "woken"}))
                        + (IF OwnReference(s) THEN 1 ELSE 0)

\* "There is no chance of another thread finding and referencing this block":
\* no reference count and no completion of a freed block is ever touched,
\* though complete_all comes after the blocker's own reference is gone.
NoUseAfterFree == ~touchedFreed

\* A block that is not listed is in the hands of a thread that will drop it.
NothingLeaks ==
  \A s \in Slots : block[s].allocated =>
    s \in blockedFiles \/ \E t \in Threads : thread[t].slot = s

\* BlockCleanup: ASSERT(!DblLnkLst_IsLinked(&blockedFiles)).  Once the release
\* of a control file is over, none of its blocks is left.
ClosedBlockersBlockNothing ==
  \A s \in blockedFiles :
    control[block[s].blocker] = "released" =>
      writer # NoThread /\ thread[writer].blocker = block[s].blocker

\* "All calls to BlockWaitOnFile() with the same filename will not return until
\* BlockRemoveFileBlock() is called."
Gate == INSTANCE FileGate WITH
  Waiter <- Threads, Block <- Slots, Name <- Files, NoBlock <- NoSlot, NoName <- NoFile,
  gate <- [s \in Slots |-> IF s \in blockedFiles THEN "shut"
                           ELSE IF block[s].allocated THEN "lifted" ELSE "absent"],
  name <- [s \in Slots |-> IF s \in blockedFiles THEN block[s].filename ELSE NoFile],
  waitsFor <- [t \in Threads |-> IF At(t, "wait") THEN thread[t].slot ELSE NoSlot]

ImplementsGate == Gate!Spec

\* Every lookup of a blocked name returns in the end: removing the block or
\* the death of the process that placed it wakes all of them.
LookupsReturn == \A t \in Lookers : At(t, "wait") ~> Idle(t)
=============================================================================
