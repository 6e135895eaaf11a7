--------------------------- MODULE VMCIQueuePair ---------------------------
(***************************************************************************)
(* The queue pair broker of the vmci module: vmciQueuePair.c, the queue    *)
(* pair ioctls of linux/driver.c, the queue pair part of                   *)
(* VMCIContextFreeContext and the user memory that SetPageStore pins.      *)
(*                                                                         *)
(* Contexts are the VMCIContext objects, not their ids: once a context is  *)
(* off the context list its id may be given to another object while the    *)
(* first one still owns queue pairs.  Every action here is one critical    *)
(* section of queuePairList.lock, a mutex that is held across a whole      *)
(* handler.  VMCIContextFreeContext detaches without the mutex, against    *)
(* the comment on QueuePair_Detach: QueuePairDetach has what interleaves.  *)
(* An error path of a handler that leaves the state alone is a stuttering  *)
(* step and is not written down.                                           *)
(***************************************************************************)
EXTENDS Naturals, FiniteSets

CONSTANTS
  Guest,            \* context objects created by IOCTL_VMCI_INIT_CONTEXT
  Host,             \* the host context object
  GuestCid,         \* ids a guest context can have
  HostCid,          \* VMCI_HOST_CONTEXT_ID
  NoId,             \* VMCI_INVALID_ID
  Handle,           \* queue pair handles
  HandleContext,    \* handle.context
  Size,             \* produce and consume sizes
  HostQPSupport,    \* answers VMCIContext_SupportsHostQP may give for a guest
  Restrictions,     \* may a guest be created with VMCI_PRIVILEGE_FLAG_RESTRICTED
  ArrayCapacity,    \* VMCI_HANDLE_ARRAY_DEFAULT_SIZE
  AppendMayFail,    \* may the atomic allocation of a handle array fail
  GupMayFault       \* may get_user_pages return a negative error

Context == Guest \cup {Host}
Cid == GuestCid \cup {HostCid}
Id == Cid \cup {NoId}

ASSUME ContextAssumption == Host \notin Guest /\ IsFiniteSet(Guest)
ASSUME IdAssumption == HostCid \notin GuestCid /\ NoId \notin Cid
ASSUME HandleAssumption == HandleContext \in [Handle -> Cid]
ASSUME SizeAssumption == Size \subseteq Nat
ASSUME EnvironmentAssumption ==
         /\ HostQPSupport \subseteq BOOLEAN
         /\ Restrictions \subseteq BOOLEAN
         /\ AppendMayFail \in BOOLEAN
         /\ GupMayFault \in BOOLEAN
ASSUME CapacityAssumption == ArrayCapacity \in Nat \ {0}

VARIABLES
  life,             \* [Context -> Life]: is the object on contextList
  cid,              \* [Context -> Id]: context->cid
  hostQP,           \* [Context -> BOOLEAN]: userVersion >= VMCI_VERSION_HOSTQP
  restricted,       \* [Context -> BOOLEAN]: privFlags has RESTRICTED
  queuePairArray,   \* [Context -> SUBSET Handle]: handles the context is attached to
  capacity,         \* [Context -> Nat]: capacity of that array
  queuePairList,    \* SUBSET Handle: the handles of the entries on the list
  entry,            \* [Handle -> Entry]: the QueuePairEntry, Blank when freed
  pins,             \* [Handle -> Nat]: page sets pinned for the handle, not yet released
  attachTrusted,    \* history: the attacher passed VMCI_PRIVILEGE_FLAG_TRUSTED
  oops              \* "none", or the fault that stopped the kernel

ctxVars == <<life, cid, hostQP, restricted, queuePairArray, capacity>>
qpVars == <<queuePairList, entry, attachTrusted>>
vars == <<ctxVars, qpVars, pins, oops>>

-----------------------------------------------------------------------------
Life == {"free", "listed", "dying"}
Oops == {"none", "null_context", "bad_release", "assert_detach"}
Pages == {"none", "pinned", "garbage"}

Entry == [peer : Id, produceSize : Size \cup {0}, consumeSize : Size \cup {0},
          createId : Id, attachId : Id, refCount : 0..2,
          pageStoreSet : BOOLEAN, allowAttach : BOOLEAN,
          requireTrustedAttach : BOOLEAN, createdByTrusted : BOOLEAN,
          pages : Pages]

Blank == [peer |-> NoId, produceSize |-> 0, consumeSize |-> 0,
          createId |-> NoId, attachId |-> NoId, refCount |-> 0,
          pageStoreSet |-> FALSE, allowAttach |-> FALSE,
          requireTrustedAttach |-> FALSE, createdByTrusted |-> FALSE,
          pages |-> "none"]

Init ==
  /\ life = [c \in Context |-> IF c = Host THEN "listed" ELSE "free"]
  /\ cid = [c \in Context |-> IF c = Host THEN HostCid ELSE NoId]
  /\ hostQP = [c \in Context |-> c = Host]
  /\ restricted = [c \in Context |-> FALSE]
  /\ queuePairArray = [c \in Context |-> {}]
  /\ capacity = [c \in Context |-> ArrayCapacity]
  /\ queuePairList = {}
  /\ entry = [h \in Handle |-> Blank]
  /\ pins = [h \in Handle |-> 0]
  /\ attachTrusted = [h \in Handle |-> FALSE]
  /\ oops = "none"

-----------------------------------------------------------------------------
(* Contexts, as far as the broker sees them. *)

Listed(i) == \E c \in Context : life[c] = "listed" /\ cid[c] = i

\* VMCIContext_InitContext as the VMX calls it: an id that is taken is
\* replaced by one that no context on the list has.
InitContext(c, i, h, r) ==
  /\ oops = "none"
  /\ life[c] = "free"
  /\ ~Listed(i)
  /\ life' = [life EXCEPT ![c] = "listed"]
  /\ cid' = [cid EXCEPT ![c] = i]
  /\ hostQP' = [hostQP EXCEPT ![c] = h]
  /\ restricted' = [restricted EXCEPT ![c] = r]
  /\ queuePairArray' = [queuePairArray EXCEPT ![c] = {}]
  /\ capacity' = [capacity EXCEPT ![c] = ArrayCapacity]
  /\ UNCHANGED <<qpVars, pins, oops>>

\* LinuxDriver_Close takes the context off the list; its queue pairs stay
\* until VMCIContextFreeContext gets to them.
ReleaseContext(c) ==
  /\ oops = "none"
  /\ life[c] = "listed"
  /\ life' = [life EXCEPT ![c] = "dying"]
  /\ UNCHANGED <<cid, hostQP, restricted, queuePairArray, capacity,
                 qpVars, pins, oops>>

\* VMCIHandleArray_AppendEntry: growing a full array may silently fail, and
\* then the handle is not recorded.
Append(c, h, recorded) ==
  /\ recorded \/ (AppendMayFail /\ Cardinality(queuePairArray[c]) >= capacity[c])
  /\ IF recorded
     THEN /\ queuePairArray' = [queuePairArray EXCEPT ![c] = @ \cup {h}]
          /\ capacity' = [capacity EXCEPT ![c] =
                            IF Cardinality(queuePairArray[c]) >= @ THEN 2 * @ ELSE @]
     ELSE UNCHANGED <<queuePairArray, capacity>>
  /\ UNCHANGED <<life, cid, hostQP, restricted>>

-----------------------------------------------------------------------------
(* Entries: pure transformations used by the handlers below. *)

\* The entry QueuePairAllocHost builds in its create case.
NewEntry(c, peer, produce, consume, trusted) ==
  [peer |-> peer, produceSize |-> produce, consumeSize |-> consume,
   createId |-> cid[c], attachId |-> NoId, refCount |-> 1,
   pageStoreSet |-> FALSE, allowAttach |-> TRUE,
   requireTrustedAttach |-> restricted[c], createdByTrusted |-> trusted,
   pages |-> "none"]

\* The assignments of its attach case.
AttachEntry(e, c) ==
  [e EXCEPT !.attachId = cid[c], !.refCount = @ + 1, !.allowAttach = FALSE]

\* Mutant: the reference is not given back.
DropEndKeepsCount(e, i) ==
  IF e.createId = i THEN [e EXCEPT !.createId = NoId, !.refCount = @ - 1]
                    ELSE [e EXCEPT !.attachId = NoId]

\* Mutant: the free end may be attached again.
DropEndReopens(e, i) ==
  IF e.createId = i THEN [e EXCEPT !.createId = NoId, !.refCount = @ - 1]
                    ELSE [e EXCEPT !.attachId = NoId, !.refCount = @ - 1,
                                   !.allowAttach = TRUE]

\* QueuePair_Detach gives up the end the caller holds; an entry without
\* references is freed.
DropEnd(e, i) ==
  IF e.createId = i THEN [e EXCEPT !.createId = NoId, !.refCount = @ - 1]
                    ELSE [e EXCEPT !.attachId = NoId, !.refCount = @ - 1]

IsEnd(h, i) == h \in queuePairList /\ i \in {entry[h].createId, entry[h].attachId}

Put(h, e) ==
  IF e.refCount = 0
  THEN /\ queuePairList' = queuePairList \ {h}
       /\ entry' = [entry EXCEPT ![h] = Blank]
  ELSE /\ queuePairList' = queuePairList \cup {h}
       /\ entry' = [entry EXCEPT ![h] = e]

\* Mutant: the pages are only released when the creator goes last.
ReleasePagesOfCreator(c, h, e) ==
  LET release == e.refCount = 0 /\ e.pageStoreSet /\ hostQP[c]
                   /\ entry[h].createId = cid[c]
  IN  /\ pins' = IF release /\ e.pages = "pinned"
                 THEN [pins EXCEPT ![h] = @ - 1] ELSE pins
      /\ oops' = IF release /\ e.pages # "pinned" THEN "bad_release" ELSE oops

\* The last detach releases the pinned pages when the detaching context
\* supports host queue pairs; page pointers that were never filled in fault.
ReleasePages(c, h, e) ==
  LET release == e.refCount = 0 /\ e.pageStoreSet /\ hostQP[c]
  IN  /\ pins' = IF release /\ e.pages = "pinned"
                 THEN [pins EXCEPT ![h] = @ - 1] ELSE pins
      /\ oops' = IF release /\ e.pages # "pinned" THEN "bad_release" ELSE oops

-----------------------------------------------------------------------------
(* QueuePairAllocHost *)

\* handle.context must be the creator's id or the peer it names; one of the
\* two sizes must be set.
MayCreate(c, h, peer, produce, consume) ==
  /\ h \notin queuePairArray[c]
  /\ h \notin queuePairList
  /\ HandleContext[h] \in {cid[c], peer}
  /\ produce # 0 \/ consume # 0

\* Mutant: the creator's own requirement is not looked at.
AttachPermittedToRestricted(c, h, trusted) ==
  LET e == entry[h]
  IN  /\ h \notin queuePairArray[c]
      /\ h \in queuePairList
      /\ cid[c] \notin {e.createId, e.attachId}
      /\ e.allowAttach
      /\ restricted[c] => e.createdByTrusted
      /\ e.peer \in {NoId, cid[c]}

\* The checks of the attach case up to the peer check.
AttachPermitted(c, h, trusted) ==
  LET e == entry[h]
  IN  /\ h \notin queuePairArray[c]
      /\ h \in queuePairList
      /\ cid[c] \notin {e.createId, e.attachId}
      /\ e.allowAttach
      /\ restricted[c] => e.createdByTrusted
      /\ e.requireTrustedAttach => trusted
      /\ e.peer \in {NoId, cid[c]}

\* A host endpoint needs a guest that supports it.  The creator is looked up
\* by id among the contexts on the list.
VersionsFit(c, h) ==
  LET creator == entry[h].createId
  IN  /\ creator = HostCid => hostQP[c]
      /\ (creator # HostCid /\ cid[c] = HostCid) =>
           \E d \in Context : life[d] = "listed" /\ cid[d] = creator /\ hostQP[d]

\* The attach event reaches a creator on the context list; for a creator on
\* the host the event waits for SetPageStore.
CreatorNotified(h) == entry[h].createId = HostCid \/ Listed(entry[h].createId)

MayAttach(c, h, produce, consume, trusted) ==
  /\ AttachPermitted(c, h, trusted)
  /\ VersionsFit(c, h)
  /\ entry[h].produceSize = consume
  /\ entry[h].consumeSize = produce
  /\ CreatorNotified(h)

Create(c, h, peer, produce, consume, trusted, recorded) ==
  /\ oops = "none"
  /\ life[c] = "listed"
  /\ MayCreate(c, h, peer, produce, consume)
  /\ Put(h, NewEntry(c, peer, produce, consume, trusted))
  /\ attachTrusted' = [attachTrusted EXCEPT ![h] = FALSE]
  /\ Append(c, h, recorded)
  /\ UNCHANGED <<pins, oops>>

Attach(c, h, produce, consume, trusted, recorded) ==
  /\ oops = "none"
  /\ life[c] = "listed"
  /\ MayAttach(c, h, produce, consume, trusted)
  /\ Put(h, AttachEntry(entry[h], c))
  /\ attachTrusted' = [attachTrusted EXCEPT ![h] = trusted]
  /\ Append(c, h, recorded)
  /\ UNCHANGED <<pins, oops>>

\* VMCIQueuePair_AllocPriv: a kernel client attaches for the host.  When the
\* creator is off the context list VMCIContext_Get returns NULL, and
\* VMCIContext_Release(NULL) follows.
HostAttachNull(h, trusted) ==
  /\ oops = "none"
  /\ AttachPermitted(Host, h, trusted)
  /\ entry[h].createId # HostCid
  /\ ~Listed(entry[h].createId)
  /\ oops' = "null_context"
  /\ UNCHANGED <<ctxVars, qpVars, pins>>

-----------------------------------------------------------------------------
(* The queue pair ioctls of a guest *)

\* IOCTL_VMCI_QUEUEPAIR_ALLOC whose result cannot be copied out: the
\* allocation is undone by a detach, which the code asserts to succeed.
UndoCreate(c, h, peer, produce, consume, recorded) ==
  /\ oops = "none"
  /\ life[c] = "listed"
  /\ MayCreate(c, h, peer, produce, consume)
  /\ recorded \/ (AppendMayFail /\ Cardinality(queuePairArray[c]) >= capacity[c])
  /\ IF recorded
     THEN /\ UNCHANGED <<qpVars, oops>>
          /\ capacity' = [capacity EXCEPT ![c] =
                            IF Cardinality(queuePairArray[c]) >= @ THEN 2 * @ ELSE @]
     ELSE /\ Put(h, NewEntry(c, peer, produce, consume, FALSE))
          /\ attachTrusted' = [attachTrusted EXCEPT ![h] = FALSE]
          /\ oops' = "assert_detach"
          /\ UNCHANGED capacity
  /\ UNCHANGED <<life, cid, hostQP, restricted, queuePairArray, pins>>

UndoAttach(c, h, produce, consume, recorded) ==
  /\ oops = "none"
  /\ life[c] = "listed"
  /\ MayAttach(c, h, produce, consume, FALSE)
  /\ recorded \/ (AppendMayFail /\ Cardinality(queuePairArray[c]) >= capacity[c])
  /\ IF recorded
     THEN /\ Put(h, DropEnd(AttachEntry(entry[h], c), cid[c]))
          /\ capacity' = [capacity EXCEPT ![c] =
                            IF Cardinality(queuePairArray[c]) >= @ THEN 2 * @ ELSE @]
          /\ UNCHANGED oops
     ELSE /\ Put(h, AttachEntry(entry[h], c))
          /\ oops' = "assert_detach"
          /\ UNCHANGED capacity
  /\ attachTrusted' = [attachTrusted EXCEPT ![h] = FALSE]
  /\ UNCHANGED <<life, cid, hostQP, restricted, queuePairArray, pins>>

\* VMCIHost_GetUserMemory, for a context that supports host queue pairs: the
\* negative result of get_user_pages is compared as an unsigned number, and
\* the function carries on with page pointers nobody filled in.
PinOutcomes(c, h) ==
  IF ~hostQP[c] THEN {"none"}
  ELSE {"pinned"} \cup (IF GupMayFault THEN {"garbage"} ELSE {})

\* QueuePair_SetPageStore by the creator, or by the guest attached to a host
\* creator.
SetPageStore(c, h, pages) ==
  LET e == entry[h]
  IN  /\ oops = "none"
      /\ life[c] = "listed"
      /\ h \in queuePairArray[c]
      /\ h \in queuePairList
      /\ \/ e.createId = cid[c]
         \/ e.createId = HostCid /\ e.attachId = cid[c]
      /\ ~e.pageStoreSet
      /\ pages \in PinOutcomes(c, h)
      /\ entry' = [entry EXCEPT ![h].pageStoreSet = TRUE, ![h].pages = pages]
      /\ pins' = IF pages = "pinned" THEN [pins EXCEPT ![h] = @ + 1] ELSE pins
      /\ UNCHANGED <<ctxVars, queuePairList, attachTrusted, oops>>

-----------------------------------------------------------------------------
(* QueuePair_Detach *)

DetachEnd(c, h) ==
  LET e == DropEnd(entry[h], cid[c])
  IN  /\ Put(h, e)
      /\ ReleasePages(c, h, e)
      /\ queuePairArray' = [queuePairArray EXCEPT ![c] = @ \ {h}]
      /\ UNCHANGED <<life, cid, hostQP, restricted, capacity, attachTrusted>>

\* IOCTL_VMCI_QUEUEPAIR_DETACH of a guest, or VMCIQueuePair_Detach of a kernel
\* client.  The ioctl probes first; the probe changes nothing.
Detach(c, h) ==
  /\ oops = "none"
  /\ life[c] = "listed"
  /\ h \in queuePairArray[c]
  /\ IsEnd(h, cid[c])
  /\ DetachEnd(c, h)

\* Mutant: the dying context forgets its handles without detaching.
FreeContextDetachForgets(c, h) ==
  /\ oops = "none"
  /\ life[c] = "dying"
  /\ h \in queuePairArray[c]
  /\ queuePairArray' = [queuePairArray EXCEPT ![c] = @ \ {h}]
  /\ UNCHANGED <<life, cid, hostQP, restricted, capacity, qpVars, pins, oops>>

\* The queue pair loop of VMCIContextFreeContext: what cannot be detached is
\* dropped from the array all the same.
FreeContextDetach(c, h) ==
  /\ oops = "none"
  /\ life[c] = "dying"
  /\ h \in queuePairArray[c]
  /\ IF IsEnd(h, cid[c])
     THEN DetachEnd(c, h)
     ELSE /\ queuePairArray' = [queuePairArray EXCEPT ![c] = @ \ {h}]
          /\ UNCHANGED <<life, cid, hostQP, restricted, capacity,
                         qpVars, pins, oops>>

FreeContext(c) ==
  /\ oops = "none"
  /\ life[c] = "dying"
  /\ queuePairArray[c] = {}
  /\ life' = [life EXCEPT ![c] = "free"]
  /\ cid' = [cid EXCEPT ![c] = NoId]
  /\ hostQP' = [hostQP EXCEPT ![c] = FALSE]
  /\ restricted' = [restricted EXCEPT ![c] = FALSE]
  /\ capacity' = [capacity EXCEPT ![c] = ArrayCapacity]
  /\ UNCHANGED <<queuePairArray, qpVars, pins, oops>>

-----------------------------------------------------------------------------
NextContext(c) ==
  \/ \E i \in GuestCid, h \in HostQPSupport, r \in Restrictions : InitContext(c, i, h, r)
  \/ ReleaseContext(c)
  \/ \E h \in Handle : FreeContextDetach(c, h)
  \/ FreeContext(c)

NextGuest(c, h) ==
  \/ \E peer \in Id, produce, consume \in Size, recorded \in BOOLEAN :
       \/ Create(c, h, peer, produce, consume, FALSE, recorded)
       \/ UndoCreate(c, h, peer, produce, consume, recorded)
  \/ \E produce, consume \in Size, recorded \in BOOLEAN :
       \/ Attach(c, h, produce, consume, FALSE, recorded)
       \/ UndoAttach(c, h, produce, consume, recorded)
  \/ \E pages \in Pages : SetPageStore(c, h, pages)
  \/ Detach(c, h)

NextHost(h) ==
  \/ \E peer \in Id, produce, consume \in Size, trusted, recorded \in BOOLEAN :
       Create(Host, h, peer, produce, consume, trusted, recorded)
  \/ \E produce, consume \in Size, trusted, recorded \in BOOLEAN :
       Attach(Host, h, produce, consume, trusted, recorded)
  \/ \E trusted \in BOOLEAN : HostAttachNull(h, trusted)
  \/ Detach(Host, h)

Next ==
  \/ \E c \in Guest : NextContext(c)
  \/ \E c \in Guest, h \in Handle : NextGuest(c, h)
  \/ \E h \in Handle : NextHost(h)

\* The process that closes the file runs VMCIContextFreeContext to its end.
Fairness ==
  \A c \in Guest : /\ WF_vars(\E h \in Handle : FreeContextDetach(c, h))
                   /\ WF_vars(FreeContext(c))

Spec == Init /\ [][Next]_vars
FairSpec == Spec /\ Fairness
-----------------------------------------------------------------------------
(* Properties *)

Members(h) == {c \in Context : h \in queuePairArray[c]}

\* Type invariant of the broker's state.
TypeOK ==
  /\ life \in [Context -> Life]
  /\ cid \in [Context -> Id]
  /\ hostQP \in [Context -> BOOLEAN]
  /\ restricted \in [Context -> BOOLEAN]
  /\ queuePairArray \in [Context -> SUBSET Handle]
  /\ capacity \in [Context -> Nat]
  /\ queuePairList \in SUBSET Handle
  /\ entry \in [Handle -> Entry]
  /\ pins \in [Handle -> Nat]
  /\ attachTrusted \in [Handle -> BOOLEAN]
  /\ oops \in Oops

\* The reference count of an entry on the list is the number of its ends that
\* are still attached, and it is never zero: entries are freed exactly when
\* the last end goes, whatever mix of ioctls, kernel clients and dying
\* contexts took the ends away.
RefCountsEnds ==
  \A h \in queuePairList :
    LET e == entry[h]
    IN  /\ e.refCount = (IF e.createId # NoId THEN 1 ELSE 0)
                       + (IF e.attachId # NoId THEN 1 ELSE 0)
        /\ e.refCount # 0
        /\ e.createId # e.attachId

\* The entries and the contexts' own arrays tell the same story even when ids
\* are reused: a handle in an array is an end of a live entry, every end of a
\* live entry is in the array of exactly one object, so whoever dies finds
\* and drops all its ends (vmciContext.c: "no resources are leaked").
ArraysMatchEntries ==
  /\ \A c \in Context : \A h \in queuePairArray[c] : IsEnd(h, cid[c])
  /\ \A h \in queuePairList : \A i \in {entry[h].createId, entry[h].attachId} \ {NoId} :
       \E c \in Members(h) : cid[c] = i
  /\ \A h \in Handle : \A c, d \in Members(h) : cid[c] = cid[d] => c = d

\* Two ends that share a queue pair may do so, whatever came and went on the
\* handle before: a restricted context shares it only with an end that showed
\* the trusted privilege, whichever of the two created the pair, and one of them
\* is the context that the handle is named after.
PairsArePermitted ==
  \A h \in queuePairList :
    LET e == entry[h]
    IN  /\ \A c, d \in Members(h) : restricted[c] /\ c # d =>
             \/ cid[d] = e.createId /\ e.createdByTrusted
             \/ cid[d] = e.attachId /\ attachTrusted[h]
        /\ e.createId # NoId /\ e.attachId # NoId =>
             HandleContext[h] \in {e.createId, e.attachId}

\* User pages are pinned once for a live entry that holds them and are all
\* given back when the entry is freed (vmciContext.c: "no resources are
\* leaked").
PinsBalanced ==
  \A h \in Handle :
    pins[h] = IF h \in queuePairList /\ entry[h].pages = "pinned" THEN 1 ELSE 0

\* VMCIHost_ReleaseUserMemory: ASSERT(attach->producePages) - what is released
\* has been pinned.
ReleasedPagesWerePinned == oops # "bad_release"

\* QueuePair_SetPageStore succeeds for a context that supports host queue
\* pairs only with all pages in place.
PageStoreIsPinned ==
  \A h \in queuePairList : entry[h].pages # "garbage"

\* "Do not attach a host to a user created QP if that user doesn't support
\* Host QP end points."
HostPartnerSupportsHostQP ==
  \A h \in queuePairList : \A c \in Members(h) :
    (Host \in Members(h) /\ entry[h].createId = cid[c]) => hostQP[c]

\* VMCIContext_Release: ASSERT(context).
ReleasedContextIsNotNull == oops # "null_context"

\* LinuxDriver_Ioctl: ASSERT(result >= VMCI_SUCCESS) after the detach that
\* undoes an allocation.
UndoDetachSucceeds == oops # "assert_detach"

\* The broker implements the rendezvous: one attach per life of an entry, and
\* the handle is free again exactly when nobody is attached.
Pairing == INSTANCE QueuePairPairing WITH
  Party <- Context, Name <- Handle,
  phase <- [h \in Handle |-> IF h \notin queuePairList THEN "absent"
                             ELSE IF entry[h].allowAttach THEN "open" ELSE "closed"],
  parties <- [h \in Handle |-> Members(h)]

ImplementsPairing == Pairing!Spec

\* When everybody attached to a queue pair has closed its file, the entry is
\* eventually freed, unless somebody attaches in the meantime.
OrphansAreFreed ==
  \A h \in Handle :
    (h \in queuePairList /\ \A c \in Members(h) : life[c] = "dying")
      ~> \/ h \notin queuePairList
         \/ \E c \in Members(h) : life[c] # "dying"
         \/ oops # "none"
=============================================================================
