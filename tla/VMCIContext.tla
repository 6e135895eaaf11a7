---------------------------- MODULE VMCIContext ----------------------------
(***************************************************************************)
(* Life and mailbox of a guest context: vmciContext.c, the guest part of   *)
(* VMCIDatagram_Dispatch and the context ioctls of linux/driver.c.         *)
(*                                                                         *)
(* Kernel threads run concurrently.  A thread has a stack of activation    *)
(* records, because VMCIContext_Release may be the last one anywhere:      *)
(* it then frees the context in place, which sends CTX_REMOVED events,     *)
(* whose delivery takes and releases other contexts.  A step is what runs  *)
(* under one lock, or one access outside a lock; a miss of                 *)
(* VMCIContext_Get looks at a context once more after it dropped the lock. *)
(*                                                                         *)
(* Slots are the memory of VMCIContext objects, as against their ids.  The *)
(* host context is not represented: it heads the list and is never freed.  *)
(***************************************************************************)
EXTENDS Naturals, Sequences, FiniteSets, SequencesExt

CONSTANTS
  Threads,
  Contexts,         \* slots of memory
  Ids,              \* context ids of guests
  NoId, NoContext,
  Sizes,            \* sizes of datagrams
  EventSize,        \* size of a CTX_REMOVED event
  MaxQueue,         \* VMCI_MAX_DATAGRAM_QUEUE_SIZE
  MaxQueueEvents,   \* VMCI_MAX_DATAGRAM_AND_EVENT_QUEUE_SIZE
  Privileges,       \* what a guest may be created with
  ReuseIds,         \* may the VMX ask for an id that a dead context had
  ReuseMemory,      \* may the allocator hand out freed memory again
  Calls,            \* the calls that the owners of contexts make
  OneSetNotify      \* never from two threads at a time

ASSUME IdAssumption == NoId \notin Ids /\ NoContext \notin Contexts
ASSUME SizeAssumption ==
         /\ Sizes \subseteq Nat \ {0}
         /\ EventSize \in Nat \ {0}
         /\ MaxQueue \in Nat /\ MaxQueueEvents \in Nat
         /\ MaxQueue <= MaxQueueEvents
ASSUME PrivilegeAssumption == Privileges \subseteq {"none", "restricted"}
ASSUME EnvironmentAssumption ==
         /\ {ReuseIds, ReuseMemory, OneSetNotify} \subseteq BOOLEAN
         /\ Calls \subseteq {"send", "receive", "subscribe", "unsubscribe", "poll",
                             "set_notify"}

VARIABLES
  contextList,      \* Seq(Contexts): guests on contextList, in scan order
  context,          \* [Contexts -> the VMCIContext in the slot]
  open,             \* contexts whose file is open and initialised
  stack,            \* [Threads -> Seq(activation records)], <<>> when idle
  oops              \* accesses to memory that is not the context's

vars == <<contextList, context, open, stack, oops>>

-----------------------------------------------------------------------------
Event == "trusted"     \* the privilege of VMCI_HYPERVISOR_CONTEXT_ID

\* A queued datagram: who it is from, with what privilege it was dispatched.
\* An event is from the context that was removed.
Message == [from : Contexts, priv : Privileges \cup {Event}, size : Sizes \cup {EventSize}]
IsEvent(m) == m.priv = Event

Slot == [allocated : BOOLEAN, cid : Ids \cup {NoId}, refCount : Nat,
         priv : Privileges \cup {"none"}, notifierArray : SUBSET Ids,
         datagramQueue : Seq(Message), pendingDatagrams : Nat, datagramQueueSize : Nat,
         notify : {"null", "mapped", "garbage"}, notifyPage : BOOLEAN,
         flag : BOOLEAN,            \* *context->notify
         pinned : Nat]              \* pages locked for the flag, not yet put

\* Activation records: of VMCIDatagram_Dispatch, of VMCIContextFreeContext,
\* and of the calls that are on one context only.
DispatchPc == {"check", "check_missed", "checked",
               "get", "get_missed", "enqueue", "release"}
FreePc == {"scan", "fire"}
FilePc == {"poll", "asleep", "map", "peek", "signal"}
Record == [pc : DispatchPc, to : Ids, msg : Message, ctx : Contexts \cup {NoContext}]
          \cup [pc : FreePc, ctx : Contexts, todo : SUBSET Ids]
          \cup [pc : FilePc \cup {"clear", "copy", "put"}, ctx : Contexts]

Fresh == [allocated |-> FALSE, cid |-> NoId, refCount |-> 0, priv |-> "none",
          notifierArray |-> {}, datagramQueue |-> <<>>, pendingDatagrams |-> 0,
          datagramQueueSize |-> 0, notify |-> "garbage", notifyPage |-> FALSE,
          flag |-> FALSE, pinned |-> 0]

Init ==
  /\ contextList = <<>>
  /\ context = [c \in Contexts |-> Fresh]
  /\ open = {}
  /\ stack = [t \in Threads |-> <<>>]
  /\ oops = {}

-----------------------------------------------------------------------------
(* Threads *)

Idle(t) == stack[t] = <<>>
At(t, pc) == stack[t] # <<>> /\ Last(stack[t]).pc = pc
Top(t) == Last(stack[t])
Return(t) == Front(stack[t])
Goto(t, r) == Append(Return(t), r)

\* The context whose file a thread is in a system call on.
FileOf(t) ==
  IF Idle(t) THEN NoContext
  ELSE LET r == Head(stack[t])
       IN  IF r.pc \in DispatchPc THEN r.msg.from
           ELSE IF r.pc \in FilePc THEN r.ctx ELSE NoContext

Dispatching(to, m) ==
  [pc |-> IF context[m.from].cid = to /\ ~IsEvent(m) THEN "get" ELSE "check",
   to |-> to, msg |-> m, ctx |-> NoContext]
Freeing(c) == [pc |-> "scan", ctx |-> c, todo |-> {}]
On(c, pc) == [pc |-> pc, ctx |-> c]

-----------------------------------------------------------------------------
(* References *)

Exists(i) == \E c \in Range(contextList) : context[c].cid = i

\* VMCIContext_Release: the thread goes on with stack s, after it has freed
\* the context if this was the last reference.
Release(t, c, s) ==
  /\ context' = [context EXCEPT ![c].refCount = @ - 1]
  /\ stack' = [stack EXCEPT ![t] = IF context[c].refCount = 1
                                   THEN Append(s, Freeing(c)) ELSE s]

\* VMCIContext_Get, under the list lock: found, and referenced.  The thread
\* goes on at pc.
Found(t, i, pc) ==
  \E c \in Range(contextList) :
    /\ context[c].cid = i
    /\ context' = [context EXCEPT ![c].refCount = @ + 1]
    /\ stack' = [stack EXCEPT ![t] = Goto(t, [Top(t) EXCEPT !.pc = pc, !.ctx = c])]

\* ... not found: the scan has left `context' at the last one on the list,
\* and the return statement compares its id without lock or reference.
Missed(t, i, pc, s) ==
  /\ ~Exists(i)
  /\ stack' = [stack EXCEPT ![t] =
                 IF contextList = <<>> THEN s
                 ELSE Goto(t, [Top(t) EXCEPT !.pc = pc, !.ctx = Last(contextList)])]
  /\ UNCHANGED context

\* The comparison: freed memory may have become the wanted context meanwhile.
Compare(t, pc, s) ==
  LET r == Top(t)
      c == context[r.ctx]
  IN  /\ stack' = [stack EXCEPT ![t] =
                     IF c.cid = r.to THEN Goto(t, [r EXCEPT !.pc = pc]) ELSE s]
      /\ oops' = oops \cup (IF ~c.allocated THEN {"freed"} ELSE {})
                      \cup (IF c.cid = r.to THEN {"unreferenced"} ELSE {})
      /\ UNCHANGED <<contextList, context, open>>

-----------------------------------------------------------------------------
(* VMCIContext_InitContext and LinuxDriver_Close *)

\* The context is on the list, under an id no other one there has, before its
\* notify pointer is cleared.
InitContext(t, c, i, p) ==
  /\ Idle(t)
  /\ ~context[c].allocated
  /\ ReuseMemory \/ context[c].cid = NoId
  /\ ~Exists(i)
  /\ ReuseIds \/ \A d \in Contexts : context[d].cid # i
  /\ context' = [context EXCEPT ![c] = [Fresh EXCEPT !.allocated = TRUE, !.cid = i,
                                                     !.refCount = 1, !.priv = p]]
  /\ contextList' = Append(contextList, c)
  /\ stack' = [stack EXCEPT ![t] = <<On(c, "clear")>>]
  /\ UNCHANGED <<open, oops>>

InitNotify(t) ==
  /\ At(t, "clear")
  /\ context' = [context EXCEPT ![Top(t).ctx].notify = "null",
                                ![Top(t).ctx].notifyPage = FALSE]
  /\ stack' = [stack EXCEPT ![t] = Goto(t, On(Top(t).ctx, "copy"))]
  /\ UNCHANGED <<contextList, open, oops>>

\* The ioctl copies the id out; the file is usable once that has worked.
InitDone(t) ==
  /\ At(t, "copy")
  /\ open' = open \cup {Top(t).ctx}
  /\ stack' = [stack EXCEPT ![t] = Return(t)]
  /\ UNCHANGED <<contextList, context, oops>>

\* VMCIContext_ReleaseContext: off the list first, then the reference goes.
ReleaseContext(t, c, s) ==
  /\ \E n \in DOMAIN contextList :
       contextList[n] = c /\ contextList' = RemoveAt(contextList, n)
  /\ stack' = [stack EXCEPT ![t] = Append(s, On(c, "put"))]
  /\ UNCHANGED context

InitFaults(t) ==
  /\ At(t, "copy")
  /\ ReleaseContext(t, Top(t).ctx, Return(t))
  /\ UNCHANGED <<open, oops>>

\* The last close of the file: no system call is in progress on it.
Close(t, c) ==
  /\ Idle(t)
  /\ c \in open
  /\ \A u \in Threads : FileOf(u) # c
  /\ open' = open \ {c}
  /\ ReleaseContext(t, c, <<>>)
  /\ UNCHANGED oops

Put(t) ==
  /\ At(t, "put")
  /\ Release(t, Top(t).ctx, Return(t))
  /\ UNCHANGED <<contextList, open, oops>>

-----------------------------------------------------------------------------
(* VMCIDatagram_Dispatch to a guest and VMCIContext_EnqueueDatagram *)

\* VMCIDenyInteraction
DenyInteraction(p, q) ==
  \/ p = "restricted" /\ q # "trusted"
  \/ q = "restricted" /\ p # "trusted"

Send(t, c, i, n) ==
  /\ "send" \in Calls
  /\ Idle(t)
  /\ c \in open
  /\ stack' = [stack EXCEPT ![t] =
                 <<Dispatching(i, [from |-> c, priv |-> context[c].priv, size |-> n])>>]
  /\ UNCHANGED <<contextList, context, open, oops>>

\* Mutant: the dispatch of a guest's datagram without the look at the privileges.
AfterCheckAnyway(t, q) == Goto(t, [Top(t) EXCEPT !.pc = "get", !.ctx = NoContext])

\* What a dispatch does when the target's privileges have been looked up.
AfterCheck(t, q) ==
  IF DenyInteraction(Top(t).msg.priv, q) THEN Return(t)
  ELSE Goto(t, [Top(t) EXCEPT !.pc = "get", !.ctx = NoContext])

Check(t) ==
  /\ At(t, "check")
  /\ \/ Found(t, Top(t).to, "checked")
     \/ Missed(t, Top(t).to, "check_missed", AfterCheck(t, "restricted"))
  /\ UNCHANGED <<contextList, open, oops>>

\* VMCIContext_GetPrivFlagsInt of an id nobody has: the least privilege.
CheckMissed(t) ==
  At(t, "check_missed") /\ Compare(t, "checked", AfterCheck(t, "restricted"))

Checked(t) ==
  /\ At(t, "checked")
  /\ Release(t, Top(t).ctx, AfterCheck(t, context[Top(t).ctx].priv))
  /\ UNCHANGED <<contextList, open, oops>>

Get(t) ==
  /\ At(t, "get")
  /\ \/ Found(t, Top(t).to, "enqueue")
     \/ Missed(t, Top(t).to, "get_missed", Return(t))
  /\ UNCHANGED <<contextList, open, oops>>

GetMissed(t) == At(t, "get_missed") /\ Compare(t, "enqueue", Return(t))

\* Events may use the room above the limit of datagrams.
Full(c, m) ==
  LET size == context[c].datagramQueueSize + m.size
  IN  /\ size >= MaxQueue
      /\ IsEvent(m) => size >= MaxQueueEvents

\* Mutant: a signal that is skipped for the first datagram in the queue.
SignalledIfMore(c) ==
  [c EXCEPT !.flag = @ \/ (c.notify = "mapped" /\ c.pendingDatagrams > 1)]

\* VMCIContextSignalNotify
Signalled(c) == [c EXCEPT !.flag = @ \/ c.notify = "mapped"]

\* Mutant: VMCIContext_EnqueueDatagram without VMCIHost_SignalCall.
WokenNobody(c) == stack

\* VMCIHost_SignalCall: what wake_up on the context's wait queue does.
Woken(c) ==
  [t \in Threads |-> IF At(t, "asleep") /\ Top(t).ctx = c
                     THEN Goto(t, On(c, "poll")) ELSE stack[t]]

Enqueue(t) ==
  LET r == Top(t)
      c == context[r.ctx]
  IN  /\ At(t, "enqueue")
      /\ ~Full(r.ctx, r.msg)
      /\ context' = [context EXCEPT ![r.ctx] =
                       Signalled([c EXCEPT !.datagramQueue = Append(@, r.msg),
                                           !.pendingDatagrams = @ + 1,
                                           !.datagramQueueSize = @ + r.msg.size])]
      /\ stack' = [Woken(r.ctx) EXCEPT ![t] = Goto(t, [r EXCEPT !.pc = "release"])]
      /\ oops' = oops \cup (IF c.notify = "garbage" THEN {"wild_notify"} ELSE {})
      /\ UNCHANGED <<contextList, open>>

\* Mutant: VMCIContext_EnqueueDatagram returns from a full queue without a
\* release.
RefuseKeepsReference(t) ==
  /\ At(t, "enqueue")
  /\ stack' = [stack EXCEPT ![t] = Return(t)]
  /\ UNCHANGED <<contextList, context, open, oops>>

\* The queue is full, or there is no memory for the queue entry.
Refuse(t) ==
  /\ At(t, "enqueue")
  /\ stack' = [stack EXCEPT ![t] = Goto(t, [Top(t) EXCEPT !.pc = "release"])]
  /\ UNCHANGED <<contextList, context, open, oops>>

ReleaseTarget(t) ==
  /\ At(t, "release")
  /\ Release(t, Top(t).ctx, Return(t))
  /\ UNCHANGED <<contextList, open, oops>>

-----------------------------------------------------------------------------
(* VMCIContextFreeContext and VMCIContextFireNotification *)

\* Mutant: the scan for subscribers without the look at the privileges.
SubscribersAnyPrivilege(c) ==
  {d \in Range(contextList) : context[c].cid \in context[d].notifierArray}

Subscribers(c) ==
  {d \in Range(contextList) : /\ context[c].cid \in context[d].notifierArray
                              /\ ~DenyInteraction(context[c].priv, context[d].priv)}

\* The ids of the subscribers, collected under the firing and the list lock.
\* The array has them in the order of the list, which makes no difference.
Scan(t) ==
  LET r == Top(t)
  IN  /\ At(t, "scan")
      /\ stack' = [stack EXCEPT ![t] =
                     Goto(t, [r EXCEPT !.pc = "fire",
                                       !.todo = {context[d].cid : d \in Subscribers(r.ctx)}])]
      /\ UNCHANGED <<contextList, context, open, oops>>

\* Mutant: the array of subscribers consulted again from its start after each event.
FireAgain(t) ==
  LET r == Top(t)
  IN  /\ At(t, "fire")
      /\ \E i \in r.todo :
           stack' = [stack EXCEPT ![t] =
                       Append(Goto(t, r),
                              Dispatching(i, [from |-> r.ctx, priv |-> Event,
                                              size |-> EventSize]))]
      /\ UNCHANGED <<contextList, context, open, oops>>

Fire(t) ==
  LET r == Top(t)
  IN  /\ At(t, "fire")
      /\ \E i \in r.todo :
           stack' = [stack EXCEPT ![t] =
                       Append(Goto(t, [r EXCEPT !.todo = @ \ {i}]),
                              Dispatching(i, [from |-> r.ctx, priv |-> Event,
                                              size |-> EventSize]))]
      /\ UNCHANGED <<contextList, context, open, oops>>

\* The queue is emptied, the notify page put, the memory given back; what was
\* in it stays there until the allocator hands it out again.
Freed(c) ==
  [Fresh EXCEPT !.cid = c.cid, !.priv = c.priv,
                !.pinned = IF c.notifyPage THEN c.pinned - 1 ELSE c.pinned]

FreeContext(t) ==
  /\ At(t, "fire")
  /\ Top(t).todo = {}
  /\ context' = [context EXCEPT ![Top(t).ctx] = Freed(@)]
  /\ stack' = [stack EXCEPT ![t] = Return(t)]
  /\ UNCHANGED <<contextList, open, oops>>

-----------------------------------------------------------------------------
(* The owner's other calls *)

\* VMCIContext_DequeueDatagram with a buffer that is large enough.
Dequeue(t, c) ==
  LET q == context[c].datagramQueue
      n == context[c].pendingDatagrams
      cleared == context[c].flag /\ ~(context[c].notify = "mapped" /\ n <= 1)
  IN  /\ "receive" \in Calls
      /\ Idle(t)
      /\ c \in open
      /\ context' = [context EXCEPT
                       ![c].datagramQueue = IF n = 0 THEN q ELSE Tail(q),
                       ![c].pendingDatagrams = IF n = 0 THEN 0 ELSE n - 1,
                       ![c].datagramQueueSize = IF n = 0 THEN @ ELSE @ - Head(q).size,
                       ![c].flag = cleared]
      /\ UNCHANGED <<contextList, open, stack, oops>>

AddNotification(t, c, i) ==
  /\ "subscribe" \in Calls
  /\ Idle(t)
  /\ c \in open
  /\ context[c].priv # "restricted"
  /\ context' = [context EXCEPT ![c].notifierArray = @ \cup {i}]
  /\ UNCHANGED <<contextList, open, stack, oops>>

RemoveNotification(t, c, i) ==
  /\ "unsubscribe" \in Calls
  /\ Idle(t)
  /\ c \in open
  /\ context' = [context EXCEPT ![c].notifierArray = @ \ {i}]
  /\ UNCHANGED <<contextList, open, stack, oops>>

\* LinuxDriverPoll: onto the wait queue, then a look at the counter.
Poll(t, c) ==
  /\ "poll" \in Calls
  /\ Idle(t)
  /\ c \in open
  /\ stack' = [stack EXCEPT ![t] = <<On(c, "poll")>>]
  /\ UNCHANGED <<contextList, context, open, oops>>

PollCheck(t) ==
  /\ At(t, "poll")
  /\ stack' = [stack EXCEPT ![t] = IF context[Top(t).ctx].pendingDatagrams > 0 THEN Return(t)
                                   ELSE Goto(t, On(Top(t).ctx, "asleep"))]
  /\ UNCHANGED <<contextList, context, open, oops>>

PollInterrupted(t) ==
  /\ At(t, "asleep")
  /\ stack' = [stack EXCEPT ![t] = Return(t)]
  /\ UNCHANGED <<contextList, context, open, oops>>

-----------------------------------------------------------------------------
(* VMCISetupNotify: no lock but the one around the last look *)

SettingUp(t, c) ==
  /\ \E pc \in {"map", "peek", "signal"} : At(t, pc)
  /\ Top(t).ctx = c

SetupNotify(t, c) ==
  /\ "set_notify" \in Calls
  /\ Idle(t)
  /\ c \in open
  /\ OneSetNotify => \A u \in Threads : ~SettingUp(u, c)
  /\ context[c].notify = "null"
  /\ stack' = [stack EXCEPT ![t] = <<On(c, "map")>>]
  /\ UNCHANGED <<contextList, context, open, oops>>

\* VMCIMapBoolPtr stores the page before it knows that there is one.
MapBoolPtr(t) ==
  /\ At(t, "map")
  /\ LET c == Top(t).ctx
     IN  \/ /\ context' = [context EXCEPT ![c].notify = "mapped", ![c].notifyPage = TRUE,
                                          ![c].flag = FALSE, ![c].pinned = @ + 1]
            /\ stack' = [stack EXCEPT ![t] = Goto(t, On(c, "peek"))]
         \/ /\ context' = [context EXCEPT ![c].notifyPage = FALSE]
            /\ stack' = [stack EXCEPT ![t] = Return(t)]
  /\ UNCHANGED <<contextList, open, oops>>

\* VMCIContext_CheckAndSignalNotify holds the list lock, not the context's.
CheckPending(t) ==
  /\ At(t, "peek")
  /\ stack' = [stack EXCEPT ![t] = IF context[Top(t).ctx].pendingDatagrams > 0
                                   THEN Goto(t, On(Top(t).ctx, "signal")) ELSE Return(t)]
  /\ UNCHANGED <<contextList, context, open, oops>>

SignalNotify(t) ==
  /\ At(t, "signal")
  /\ context' = [context EXCEPT ![Top(t).ctx] = Signalled(@)]
  /\ stack' = [stack EXCEPT ![t] = Return(t)]
  /\ UNCHANGED <<contextList, open, oops>>

-----------------------------------------------------------------------------
\* What a thread does inside a call, however long the call takes.
Continue(t) ==
  \/ InitNotify(t) \/ InitDone(t) \/ InitFaults(t) \/ Put(t)
  \/ Check(t) \/ CheckMissed(t) \/ Checked(t)
  \/ Get(t) \/ GetMissed(t) \/ Enqueue(t) \/ Refuse(t) \/ ReleaseTarget(t)
  \/ Scan(t) \/ Fire(t) \/ FreeContext(t)
  \/ PollCheck(t) \/ MapBoolPtr(t) \/ CheckPending(t) \/ SignalNotify(t)

Call(t, c) ==
  \/ \E i \in Ids, p \in Privileges : InitContext(t, c, i, p)
  \/ \E i \in Ids, n \in Sizes : Send(t, c, i, n)
  \/ \E i \in Ids : AddNotification(t, c, i) \/ RemoveNotification(t, c, i)
  \/ Close(t, c) \/ Dequeue(t, c) \/ Poll(t, c) \/ SetupNotify(t, c)

Next ==
  \/ \E t \in Threads, c \in Contexts : Call(t, c)
  \/ \E t \in Threads : Continue(t) \/ PollInterrupted(t)

\* A thread in the kernel is scheduled until its call returns.
Fairness == \A t \in Threads : WF_vars(Continue(t))

Spec == Init /\ [][Next]_vars
FairSpec == Spec /\ Fairness

-----------------------------------------------------------------------------
(* Properties *)

\* Type invariant.
TypeOK ==
  /\ contextList \in Seq(Contexts)
  /\ context \in [Contexts -> Slot]
  /\ open \in SUBSET Contexts
  /\ stack \in [Threads -> Seq(Record)]
  /\ oops \in SUBSET {"freed", "unreferenced", "wild_notify"}

Records == UNION {{t} \X DOMAIN stack[t] : t \in Threads}
RecordAt(k) == stack[k[1]][k[2]]
Holders(c) ==
  {k \in Records : RecordAt(k).pc \in {"checked", "enqueue", "release", "put"}
                   /\ RecordAt(k).ctx = c}
Freers(c) == {k \in Records : RecordAt(k).pc \in FreePc /\ RecordAt(k).ctx = c}

\* The reference count of a context is one for the list plus one for each
\* call that holds the context, however calls, closes and frees nest and
\* interleave; LIST_DEL hands the list's reference to the closing thread.
RefCountIsHolders ==
  \A c \in Contexts :
    context[c].refCount = Cardinality(Holders(c))
                          + (IF c \in Range(contextList) THEN 1 ELSE 0)

\* Memory is freed once, by one thread, after the last reference is gone, and
\* nobody can find the context on the list any more: in VMCIContext_Get "it
\* hasn't been destroyed yet".
FreedOnceByOne ==
  /\ \A c \in Contexts :
       Cardinality(Freers(c)) = (IF context[c].allocated /\ context[c].refCount = 0
                                 THEN 1 ELSE 0)
  /\ \A c \in Range(contextList) : context[c].allocated

SizeOf(q) == FoldLeft(LAMBDA n, m : n + m.size, 0, q)

\* The counters that poll, the ioctls and the limits go by are those of the
\* queue, and a datagram is never queued above its limit though events are.
QueueAccounting ==
  \A c \in Contexts :
    LET q == context[c].datagramQueue
    IN  /\ context[c].pendingDatagrams = Len(q)
        /\ context[c].datagramQueueSize = SizeOf(q)
        /\ q # <<>> => SizeOf(q) < MaxQueueEvents
        /\ \A n \in DOMAIN q : ~IsEvent(q[n]) => SizeOf(SubSeq(q, 1, n)) < MaxQueue

\* Once notification is set up, the user's flag is set while datagrams are
\* pending (vmciContext.c: "Sets the context's notify flag iff datagrams are
\* pending").
NotifyWhilePending ==
  \A c \in Contexts :
    (/\ context[c].notify = "mapped"
     /\ context[c].pendingDatagrams > 0
     /\ \A t \in Threads : ~SettingUp(t, c)) => context[c].flag

\* The other half of that "iff": no datagram pending, no flag.
NotifyOnlyWhilePending ==
  \A c \in Contexts :
    (context[c].notify = "mapped" /\ context[c].pendingDatagrams = 0) => ~context[c].flag

\* No process sleeps in poll on a context that has datagrams for it.
PollersAreWoken ==
  \A t \in Threads : At(t, "asleep") => context[Top(t).ctx].pendingDatagrams = 0

\* VMCIDenyInteraction: "If one of them is restricted, the other one must be
\* trusted."  No datagram of another guest waits in a restricted context, and
\* none of a restricted one in another guest.
DatagramsRespectPrivileges ==
  \A c \in Contexts : \A m \in Range(context[c].datagramQueue) :
    (~IsEvent(m) /\ m.from # c) => ~DenyInteraction(m.priv, context[c].priv)

\* "We only deliver notifications of the removal of contexts, if the two
\* contexts are allowed to interact."
EventsRespectPrivileges ==
  \A c \in Contexts : \A m \in Range(context[c].datagramQueue) :
    IsEvent(m) => ~DenyInteraction(context[m.from].priv, context[c].priv)

\* A context is told of a removal only when the context is really gone from
\* the list, and is not told twice of one.
RemovalsAreTrue ==
  \A c \in Contexts : \A n \in DOMAIN context[c].datagramQueue :
    LET m == context[c].datagramQueue[n]
    IN  IsEvent(m) =>
          /\ m.from \notin Range(contextList)
          /\ \A k \in DOMAIN context[c].datagramQueue :
               context[c].datagramQueue[k] = m => k = n

\* A notify page is pinned for a live context at most once, and none is left
\* behind when the context is gone: "Notify mechanism is already set up".
NotifyPagePutBack ==
  \A c \in Contexts :
    context[c].pinned = IF context[c].allocated /\ context[c].notifyPage THEN 1 ELSE 0

\* VMCIContext_Get looks only at contexts that exist, and what it returns is
\* referenced: "it hasn't been destroyed yet".
GetReturnsLiveContexts == oops \cap {"freed", "unreferenced"} = {}

\* VMCIContextSignalNotify writes only through a pointer that VMCISetupNotify
\* has set: "Sets the notify flag to TRUE" if there is one.
NotifyPointerIsSet == "wild_notify" \notin oops

\* When the file is closed, the memory of the context is eventually given
\* back, although other threads may hold it and have to free it.
ClosedContextsAreFreed ==
  \A c \in Contexts :
    (context[c].allocated /\ c \notin Range(contextList)) ~> ~context[c].allocated

=============================================================================
