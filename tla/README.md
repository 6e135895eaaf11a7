# TLA+ models of the VMware host kernel modules

This directory holds TLA+ specifications of the five kernel modules of this
repository (VMware Workstation 7.1.6, patched for later kernels), the TLC
configurations that model-check them and the proofs that TLAPS checks. Every
definition is translated from the C code; `PROJECT.json` maps each to its lines.

Contents: [the system](#the-system) · [modules](#modules) · [runs](#runs) ·
[bounds](#bounds) · [fairness](#fairness) · [proofs](#proofs) ·
[disagreements found](#disagreements-found) · [what is not modelled](#what-is-not-modelled) ·
[plan](#plan).

## The system

Five modules, each a character device (vmblock: a file system) with state that
is shared by processes, bottom halves and kernel threads. There are no tests.

### vmci (`src/vmci-only`)

Guests (VMX processes) and host processes talk through *contexts*.

| part | state | operations | what it relies on |
|---|---|---|---|
| contexts, `common/vmciContext.c` | the list of contexts (`contextList.lock`); per context an id, a reference count, a datagram queue, the ids it wants removal notifications for, well-known ids and queue pairs it owns, the notify page | init, release, get/put, enqueue and dequeue a datagram, add/remove notification, fire notifications, free | datagrams deliver the removal events; the free drains the mappings and detaches the queue pairs |
| ioctls, `linux/driver.c` | one `VMCILinux` per open file | open, init context, send, receive, poll, set notify, queue pair alloc/set page file/detach, close | everything below |
| queue pair broker, `common/vmciQueuePair.c` | the list of entries (`queuePairList.lock`): creator, attacher, sizes, flags, pinned pages | alloc (create or attach), set page store, detach | contexts are looked up by id; pages are pinned by `linux/vmciKernelIf.c` |
| datagrams, `common/vmciDatagram.c` | handles with callbacks; the map from well-known ids to contexts | create/destroy a handle, request/remove a well-known map, dispatch | `VMCIHashTable`, contexts |
| hash table, `common/vmciHashtable.c` | buckets of reference-counted entries under one lock | add, remove, get, hold, release, invalidate | entries are found by handle |
| resources, `common/vmciResource.c` | a hash table of reference-counted resources with client privileges | add, get, remove, release | `VMCIHashTable`; the last release calls the container back |
| groups, discovery service, events | members, names, subscriptions | | resources, datagrams |
| shared queues, `include/vmci_queue_pair.h` | head and tail of a ring in memory both ends map | enqueue, dequeue, peek, free space | one producer, one consumer |

Hard here: `VMCIContext_Release` may be the last release anywhere and then frees
in place, which sends events, which takes and releases further contexts; ids are
reused while an object that had the id is still being freed; a handler that
checks by id and acts by id; one caller of `QueuePair_Detach` without its lock.

Correct means: reference counts are what they should be and each object is
freed once; no datagram or event crosses privileges; no poller misses a
datagram; a queue pair has two ends at most, they agreed to meet, and its pages
are released exactly once; a mapping does not outlive its context; a datagram handle
is freed only when no callback runs on it.

### vsock (`src/vsock-only/linux`)

Stream and datagram sockets over vmci. `af_vsock.c` has the bound and connected
tables, the listener with pending list and accept queue, the negotiation of a
queue pair by control packets (REQUEST, NEGOTIATE, OFFER, ATTACH, RST, SHUTDOWN),
its timeouts, and blocking send and receive; `notify.c` the protocol by which
one end tells the other that it waits; `util.c` the tables. Packets are handled
partly in the bottom half and partly from a work queue, so that state is
examined again later; an accept, a timeout, a close and the peer's packets all
race. Correct means: a connection is accepted at most once, established at both
ends or at neither in the end, references and backlog are counted once, and no
sender or receiver sleeps forever beside space or data.

### vmnet (`src/vmnet-only`)

Virtual Ethernet. `driver.c` connects *jacks* of *ports* (user interface
`userif.c`, network interface `netif.c`, bridge `bridge.c`) and hubs (`hub.c`);
a connection must not make a cycle, and every jack knows how many ports are
behind it. `vnetEvent.c` delivers the last event of each sender to every
listener; `vnetUserListener.c` queues events for a reader. `filter.c` evaluates
rules per packet; `smac.c` translates MAC addresses on wireless bridges. Correct
means: no cycle, right port counts, a listener that has been told everything
has the latest event of each sender, no packet is received through a port that
has been disconnected.

### vmmon (`src/vmmon-only`)

The monitor's driver. `common/vmx86.c` registers virtual machines and admits
their memory; `memtrack.c` and `phystrack.c` keep track of pages;
`linux/hostif.c` locks pages and lets virtual processors call the main thread
of their machine and wait for it (*user calls*, with `vmcore/moduleloop.c`);
`linux/driver.c` has the ioctls and poll; `common/task.c` is the world switch. Correct means: the
locked and reserved pages of the machines add up to the global counts, and
these stay below the limit; a number belongs to one machine; a user call is
answered once, and neither its caller nor the main thread sleeps through it.

### vmblock (`src/vmblock-only/linux`)

A pass-through file system in which a process that is copying a file blocks its
name (`control.c`, `block.c`); a lookup of the name (`inode.c`, `dentry.c`)
sleeps until the block is lifted. Correct means: a block lives as long as
somebody uses it, and a lookup returns when, and only when, the block it found
is lifted.

## Modules

| module | models | how |
|---|---|---|
| `VMCIQueuePair` | the broker with its ioctls, pinned pages and the arrays of the contexts | one action per handler, each a critical section of `queuePairList.lock`: `Create`, `Attach`, `SetPageStore`, `Detach`, `UndoCreate`/`UndoAttach` (the ioctl's copy to the user failed), `HostAttachNull` (creator not found), `ReleaseContext`, `FreeContextDetach`, `FreeContext`. Contexts are objects, and have ids that can be taken over |
| `QueuePairPairing` | what the broker promises: a handle is a rendezvous of two | abstract; `VMCIQueuePair` and `QueuePairDetach` refine it |
| `QueuePairDetach` | `QueuePair_Detach` and the attach, access by access | the mutex is explicit, so that the one caller that does not take it, `VMCIContextFreeContext`, interleaves |
| `VMCIContext` | life and mailbox of a context | threads with stacks of activation records, one step per lock held or access outside a lock |
| `VMCIHashTable` | the table's operations on a set of linked entries | operators for the actions of the next two |
| `VMCIWellKnownMap` | requests, removals, look-ups and drains of well-known mappings | threads; a step is one lock |
| `VMCIDatagramProcess` | datagram processes of host files: creation, dispatch with its callback, blocking read, poll, close with its wait for the last reference; the resource table below | threads; a step is one lock, and the wait queue of an event or a process is the set of those that sleep |
| `VMCIQueue` | offsets and copies of the ring buffer of a queue pair | operators |
| `VSockNotify` | one direction of a connected stream: send, receive, peek and poll over the ring, and the notifications of `notify.c` | one process per end, a step per access to the other end's memory; packets between them in no order |
| `ByteStream` | what a stream promises: bytes in order, none lost or twice | abstract; `VSockNotify` refines it |
| `VSockHandshake` | how clients get connected to a listener, and how either end goes | packets arrive in order and are worked on at once or later; a child has a socket, its timer and its place in a list, each of which may hold a reference |
| `VNetPorts` | ports, jacks and hubs of vmnet through open, bind, bridge and close | files are processes under `vnetMutex`; the making and freeing of a hub is split where it holds no lock |
| `VNetSwitchboard` | what the connections promise: who is on a network hears those on it | abstract; `VNetPorts` refines it |
| `VNetEvent` | the event mechanism with references, senders, listeners, queues and readers | the mechanism's lock is explicit; its owner calls one handler a step |
| `EventFeed` | what listeners are promised: each event once, in order, the last one at the start | abstract; `VNetEvent` refines it |
| `VMMonMemory` | virtual machines, their numbers, admission, and locked pages with both trackers | a page operation is three steps: reserve, do, give back what was not used |
| `VMMonUserCall` | user calls of virtual processors and the poll, acknowledgements and completions of the VMX | one step per access to memory shared by the two |
| `UserCalls` | what a user call promises: it is made once, answered once and by the VMX | abstract; `VMMonUserCall` refines it |
| `VMBlock` | blocks, waiters and the control file | threads; atomics outside `blockedFilesLock` are steps |
| `FileGate` | what vmblock promises: who waits at a gate passes when that gate is lifted | abstract; `VMBlock` refines it |
| `..._proofs` | theorems about the module of that name (`VNet_proofs`: about `VNetPorts` and `VNetEvent`; `VSock_proofs`: about `VSockNotify` and `VSockHandshake`; `VMMon_proofs`: about `VMMonMemory` and `VMMonUserCall`) | TLAPS; see [Proofs](#proofs) |
| `MC...` | constants for TLC: small sets, symmetry | no definition is replaced |

The components meet where the code's do: `VMCIQueuePair` and `QueuePairDetach`
have the part of a context's life that detaches; `VMCIContext` the events that a
free sends to others; `VMCIWellKnownMap` and `VMCIDatagramProcess` extend
`VMCIHashTable`; `VSockNotify` is built on `VMCIQueue`.

Data that no property tells apart is left out: payloads, exact sizes, names,
domain names, logging. Control is kept: the order of tests and early returns
decides which error a call ends with only where an error changes state; an
error path that leaves the state alone is a stuttering step.

User processes are unconstrained: they may make any call in any order that the
ioctl's guards admit. A system call by a VMX and one by a guest that its VMX
forwards are one kind of call.

History variables exist for properties only: `attachTrusted` in `VMCIQueuePair`
(the flag the attacher passed), `touchedFreed` in `VMBlock`, `mistaken` in
`VMCIHashTable`, `leaked` in `VNetPorts`. `oops` and `panic` collect the faults a
kernel built with assertions would report.

*Memory model.* Steps are sequentially consistent. Where the code relies on a
wait queue or a lock this is justified by the barriers these have; where it
reads a flag without a lock (`VMCIContext_CheckAndSignalNotify`, the test in
`VMCISetupNotify`, the shared page of user calls) the reads are separate steps,
but their reordering is not modelled.

### Named environments

Some hazards depend on what the environment does. A constant names each, so
that the passing runs say under which environment a property holds:

| constant | meaning |
|---|---|
| `HostQPSupport` | versions of guests: all support host queue pairs, or both kinds exist |
| `Restrictions`, `Privileges` | privileges a guest can have been created with |
| `AppendMayFail`, `GupMayFault`, `AllocMayFail` | may an atomic allocation, may `get_user_pages` fail; may the cycle test of vmnet, or the handler of a listener, find no memory |
| `FreeAlone` | a context is freed only while no other call on the broker runs |
| `ReuseIds`, `ReuseMemory` | may an id, may memory of a context be used again |
| `OneSetNotify` | the VMX does not set up notification from two threads at once |
| `HasteFor` | sizes that a receive may ask for that does not wait |
| `InitAlone` | nobody connects or disconnects while `VNetHubAlloc` sets up a jack without a lock |
| `SeesAnnounced` | the VMX does not act on a request before the processor has noted that it waits |
| `May` of `VSockHandshake` | `give_up`: a connect times out or is interrupted at any time, `lapse`: only when the other end is connected already; `refuse`: a client does not like the offered size; `fail`: the listener has an error; `overtake`: an event of vmci is handled before an earlier packet; `brief`: a connection ends before its connect wakes up; `busy_close`: the listener closes with works queued |
| `May` of `VMCIDatagramProcess` | `copy_fails`: the user's memory cannot be written; `signal`: a signal comes while a handle is destroyed; `reuse`: an id is asked for whose handle is being destroyed |
| `Calls`, `Overlaps`, `Mappable`, `Lookers`, `ReadFrom` | restrict which calls are made, or overlap, to keep a run small |

In `VMMonMemory` no processor of a machine runs when the machine is released
(its threads hold the file open), `FreeLockedPages` names each page once, memory
for the trackers is found, and the limit that the host computes anew while it
runs is not set, as on Linux it never is.

## Runs

Properties hold in the *pass* runs. Each has a mutant (an operator with a
plausible bug, beside the definition it replaces) that violates it. The twelve
runs of `PROJECT.json`:

| run | what it asks |
|---|---|
| `qp_pairing` | three guests with two ids and the host, one handle. `RefCountsEnds`: the count of an entry is its attached ends. `PairsArePermitted`: who may meet. `PinsBalanced`: pages are pinned once for each live entry with a page store. `ImplementsPairing`: the broker refines `QueuePairPairing`. `OrphansAreFreed`: an entry whose ends are all closing leaves the list |
| `qpd_unlocked` | a violation of `PeerIsKnown`: a context is freed, without the list lock, beside other calls on its queue pair |
| `ctx_mailbox` | two contexts of every privilege, two threads. `RefCountIsHolders`, `RemovalsAreTrue` (a removal is announced once, and is true). `DatagramsRespectPrivileges`, `EventsRespectPrivileges`. `NotifyWhilePending`: with a datagram in the queue the notify flag is set, or about to be. `PollersAreWoken`: nobody sleeps in poll over a datagram that nobody is about to announce |
| `vmci_datagrams` | three threads use a file that becomes a datagram process, is closed, and opened again. `NoUseAfterFree`: who has an entry has its memory, and who calls back into a process has the process. `CallsReturn`: whoever releases the last reference, the destroyer is woken; a reader and a poller are woken by a datagram |
| `wkm_maps` | two contexts that may share an id; removals overlap, requests for a mapping still in use do not. `RefCountIsHolders`; `MappingsAreRecorded`: a mapping is in the array of the context that has to take it down |
| `vmblock` | two lookups, two threads that block, unblock and close. `NoUseAfterFree`; `ImplementsGate`; `LookupsReturn` |
| `vsock_notify` | a sender, a receiver, packets out of order. `WaitsAreAnsweredOnce`: a request to be told of data or space is under way, noted, or answered by a packet under way, exactly once. `HeldUpByWindow`: a sender that waits is held up by the window alone. `ImplementsStream`: the ring refines `ByteStream` although the ends move their offsets while the other one copies. `OneReturns`: a send and a receive never wait for each other |
| `vsock_handshake` | two clients, a listener with room for one. `RefCountIsHolders`: a child's count is the places that hold it. `BacklogCountsWaiting`. `HalfOpenIsNoticed`: an end that is connected has its peer, or learns that it has not. `ConnectsReturn`; `ChildrenAreFreed`: nothing stays behind a closed listener |
| `vnet_ports` | three files on two networks with one interface to bridge to. `PortsAreNotified`: the numbers of ports are true, and a bridge listens to its device while somebody is there to hear it. `HubsHaveJacks`: jacks, files and memory of hubs agree. `ImplementsSwitchboard` |
| `vnet_events` | two bridges, two listeners, two readers, a hub that goes at any time. `MechanismOutlivesUsers`; `ImplementsFeed`; `ReadersReturn` |
| `vmmon_memory` | two machines and a processor. `LockedPagesAccounted`: the counters are the pages that are locked or about to be. `TrackersHoldPages`: a page that is pinned is in a tracker, once. `AdmittedFit`: the machines that were admitted fit the limits under which they were |
| `vmmon_usercall` | two processors and the VMX. `PendingCountsCalls`: what poll looks at is the number of calls not acknowledged. `WakeupsAreNotLost`, between a look and a sleep on either side. `AssertionsHold`: the three assertions of the code. `ImplementsUserCalls`, with its liveness: a call that is made is answered |

Run by hand (`tlc -config X.cfg M`): `ctx_lifetime` (three contexts that take over
two ids: `RefCountIsHolders`, `RemovalsAreTrue`), `ctx_freed` (closed contexts are
freed), `qpd_locked` (the detach with `FreeAlone`: no use after free, and
`QueuePairPairing`) and `vmmon_admission` (three machines, no pages) pass;
`ctx_stale_get`, `qp_mixed_versions`, `vsock_reset` and `wkm_unlink` end with a counterexample and are in the table
[below](#disagreements-found). The modules state more than the runs ask, and each
can be added to a configuration: a type invariant `TypeOK` each, `ArraysMatchEntries`,
`ReleasedPagesWerePinned`, `QueueAccounting`, `NotifyPagePutBack`, `FreedOnceByOne`,
`UnlinksItsEntry`, `RefCountIsUsers`, `NothingLeaks`,
`ClosedBlockersBlockNothing`, `ReaderReturns`, `IdListsAreRight`, `CreatesReturn`.

## Bounds

- Contexts, slots of memory, entries, hubs and files are two or three: two ends
  and one that comes too late, or takes over an id. A slot is used once where
  `ReuseMemory` is FALSE, which bounds the runs; `CHECK_DEADLOCK FALSE` is there
  because the system then ends.
- Two threads suffice for check-then-act races; three are used where a third must
  come between (`wkm_maps`, `vmci_datagrams`: one closes, one sends, one reads or
  sends too), four in `vmblock` (two wait, two unblock).
- `MaxQueue` and `MaxQueueEvents` are a few bytes, sizes 1 and 2: a queue that is
  full, one byte short of full, full for datagrams and not for events.
- Sizes of a queue pair have two values where a mismatch matters.
  `ArrayCapacity = 1` where an array must grow.
- The ring has three bytes (two usable), a page two, a send at most two: the ring
  wraps, fills and empties, a send goes round its loop twice, a receive takes
  less than there is, and the window goes through all of its values: shrunk to
  the smallest one, raised by a receive, widened by a wait. Bytes are numbered modulo
  2, which is coprime with 3, so that a byte of the last round is told from one of
  this. Unsigned 64-bit arithmetic on the window is modulo `Word`.
- Stacks of activation records are bounded by the number of contexts: a free
  nests only for another context.
- `vsock_handshake`: `MaxBacklog = 1` with two clients, so that one is refused or
  waits; a client connects once (`MaxConnects`), and `vsock_reset` shows what a
  second call does. Two children are reused as they are freed.
- `vnet_events`: `MaxSends = 2` events a sender, the last one overwritten; only one
  of the two listeners is read from. `vnet_ports`: two jacks a hub, so that a third
  file finds none and makes another hub.
- `vmmon_memory`: limits of three pages and of none, two free frames and one page of
  the process, two pages a call, two tries: reservations that succeed, fail, wait
  and are given back in part. `MaxUsage` bounds what a machine asks for.

## Fairness

- `VMCIContext`, `VMCIWellKnownMap`, `VMCIDatagramProcess`: `WF_vars(Continue(t))`: a
  thread in the kernel is scheduled until its call returns or sleeps. No user
  process is assumed to call anything.
- `VMCIQueuePair`: a context whose file was closed is freed: the closing thread,
  or the one with the last reference, runs `VMCIContextFreeContext` to its end
  without waiting for anybody.
- `VMBlock`: threads in the kernel are scheduled; a process that blocks names
  ends some day (`WF`), and its control file is then closed by a thread that is
  not asleep in vmblock (`SF`, as that thread may be busy again and again). The
  wait cannot be interrupted (`os.h:85`): a process that looks up a name it
  blocked itself, and whose other threads do so too, never ends, and
  `LookupsReturn` does not hold for it; `Lookers` are therefore other threads.
- `VSockNotify`: a thread that is in a send or a receive and does not sleep
  runs (`WF`); a packet is handled although its socket may be locked again and
  again (`SF`), as the work queue waits for the lock of the socket. No signal or
  timeout is assumed to end a sleep. Datagrams are not lost, and each is handled.
- `VSockHandshake`: packets arrive, works are done, timers fire and a sleeper that
  was woken runs (`WF`); nobody has to accept, close or give up.
- `VNetEvent`: who is in the kernel, and readers that were woken, run (`WF`).
- `VMMonUserCall`: threads run; the VMX completes what it can although it polls in
  between, and a processor that is told again and again that its call is over goes
  on although signals come (`SF`).

`VMMonMemory` and `VNetPorts` have safety only.

## Proofs

Every theorem holds for all values of the constants that meet the assumptions of
its module (sets of any size, finite where something is counted); a hypothesis on
the environment is named, and the table of [disagreements](#disagreements-found)
has a row that shows why it cannot be dropped. Inductive invariants were checked
with TLC on the module's run before they were proved.

### Queue pairs

`VMCIQueuePair_proofs` proves, for any contexts, ids, handles and sizes:

| theorem | statement | environment |
|---|---|---|
| `TypeCorrect` | `Spec => []TypeOK` | any |
| `RefCounts` | `Spec => []RefCountsEnds` | any |
| `PairsPermitted` | `Spec => []PairsArePermitted` | any |
| `ArraysMatch` | `Spec => []ArraysMatchEntries` | `~AppendMayFail` |
| `PagesAreGivenBack` | `Spec => []PinsBalanced` | `AllSupportHostQP`: no guest without host queue pairs |
| `BrokerPairs` | `Spec => ImplementsPairing` | `~AppendMayFail` |

The inductive `Inv` is `TypeOK` with `EntryInv` (a count in `0..2` is that of the
ends), `PinsCover` (pins do not go below zero) and `FreeIsEmpty`; none is
inductive alone: the type of a pin count needs the pages that entries hold to
be covered, and the step of a detach needs the type of the entry.

`Rendezvous` adds who the ends of a handle are: `Shared` (who has the handle in
its array is an end, and no two with one id), `Agreed` (what the entry remembers of
privileges and of the peer it was made for still describes its ends) and, where
arrays can grow, `EndsRecorded` (the converse of `Shared`). `SameRendezvous` says
what a step does to all the other handles, so that each action is argued about
at its own handle. The lemmas also say what each action does to `Phase` and to the
members, which is the refinement: a create is `Open`, an attach `Join`, an undone
attach `JoinUndone`, a detach `Leave`, and the other steps stutter.

`PinsInv` is for the pages: where every context has the same version, whoever
detaches last is of the version that pinned.

### Streams

`VSock_proofs` proves, for queues, pages and receives of any size (small
queues and receives that do not wait are not excluded):

- `AnsweredOnce`: `Spec => []WaitsAreAnsweredOnce`;
- `TypeCorrect`: `Spec => []TypeOK`.

Assumptions: `QueueSizeAssumption`, and `NotifyAssumption` (a word is larger than
a queue and a page). The inductive `Inv` is the types of the two sides and of
the packets with the two halves of the property. Each half is a sum of packets
and flags, and the argument is that a handler moves one unit of it: the lemma
`NotifyWriterSum` says so of the writer's flag and the READ that is sent for it,
and `ReceiverStep` serves the three handlers that look for a writer. The types
rest on lemmas about the ring, which hold for every size: `AddPointerOffset`,
`FreeAndReady`, `CopyIn`, `CopyOut`; `CallsOK` adds to them that a send
publishes no more than it has and that a receive took less than the ring.

The second part proves `WindowHolds`: `Usable => (Spec => []HeldUpByWindow)`,
where `Usable` says that a queue has a page or more and that receives that do not
wait want less than a page. The last two rows of the table below show that neither
can be dropped. `HeldUpByWindow` speaks of the moments at which the receiving
socket is not locked and is not inductive; `Window` adds what holds in between.
`Fits`: the window is between its minimum and the queue, so that the unsigned
subtractions do not wrap. `Room`: what one end copies the other one does not
touch, from which publishing only adds to the bytes that are ready. `Blocks`: a
receive that may block wants less than the smallest window, so that over a
waiting sender it finds its bytes, or has raised the window and notifies before
it blocks. `Held` carries the property from the start of a receive up to the
step that frees its bytes.

The third part proves `BytesInOrder`: `Spec => ImplementsStream`, for queues of any
size. The stream of the abstract specification is what lies in the ring from the head
up to the tail, and a byte leaves it or joins it when an offset moves; between a copy
and the move of the offset nothing of it may change. `Copying` says what an end amid a
copy relies on: the sender has no more than there is room for (the receiver can only
add to the room), what it has written lies from the tail on (`Written`), and what the
receiver has taken is what lies from the head on (`Taken`), although the other offset
has moved in between. `WrapsOnce` and `PlaceIs` turn the two pieces of a copy that
wraps around into places counted from an offset, which no two bytes of the ring share.

### Handshake

`VSock_proofs` also proves, for any finite sets of clients and children and any backlog:

| theorem | statement | environment |
|---|---|---|
| `HandshakeTypeCorrect` | `HandshakeSpec => []HandshakeTypeOK` | any |
| `HalfOpenNoticed` | `HandshakeSpec => []HalfOpenIsNoticed` | any |
| `CountsAreExact` | `HandshakeSpec /\ []PendingConnect => []RefCountIsHolders` | no reset comes for a pending child |
| `PendingWaits` | `HandshakeSpec => []PendingConnect` | `Patient` |
| `PatientCounts` | `HandshakeSpec => []RefCountIsHolders` | `Patient` |
| `PatientBacklog` | `HandshakeSpec => []BacklogCountsWaiting` | `Patient`, `"fail" \notin May` |

`Patient` says that a client connects once, gives up only when the answer that
completes its connection is on its way, and likes the size that it is offered; each of
the three and the `fail` of the last theorem has a row in the table below that shows why
it cannot be dropped.

The inductive `HalfOpenInv` holds in every environment. `Family` says of a child what
its count is (those who have it, `HeldBy`, with the works on it as a cardinality `W`, or
-1 when it was put once too often, `Overput`), who may have it on which list, and that
only a child with a queue pair has works or is in a table; `WorksMatch` that a work is on
a child of the client that sent the packet, `Lists` that a child is on a list once and a
client has one pending child. `ClientEnds` and `ServerEnds` are the property. An action
enters the proof as a change of one child (`Moves`, `OneChildStep`) or of none, with one
work less or more (`FewerW`, `MoreW`), and what a step of the server's side does to
packets is `ServerStep`, of the client's side `ClientStep`.

For the counts the only step that puts too often is the timer of a child that a reset
has put already (`Stray`), and such a child is pending. That a reset does not come for a
patient client rests on `Stages`: between a client and the listener one packet or work is
under way at a time (`Fresh`, `Asked`, `Negotiated`, `Offered`), and once the client is
past that (`Beyond`) no child is pending for it, or the listener is closed. `BacklogInv`
is inductive on top of it.

### User calls

`VMMon_proofs` proves, for any finite number of processors
(`UserCallAssumption`):

- `CallsAreCounted`: `UserCallSpec => []PendingCountsCalls`, and `NoLostWakeup`:
  `UserCallSpec => []WakeupsAreNotLost`, wherever the VMX looks at requests;
- `Assertions`: `SeesAnnounced => (UserCallSpec => []AssertionsHold)`;
- `CallsAreAnsweredOnce`: every step of the user calls is a step of `UserCalls` or
  a stutter (its safety part; the liveness is checked by `vmmon_usercall`).

The inductive `UserCallInv` relates the two sides: `Exchange` says what a request in the
shared page, and an acknowledgement, tell of where the processor is;
`AwakenHasTarget` that an ioctl is about a processor; `Queued` that who sleeps is
in its queue. The count is a cardinality, and a processor that counts its call
or a VMX that acknowledges it moves one element in or out of the set, for which
`FS_AddElement` and `FS_RemoveElement` are cited. `Announced` is a second invariant,
of the runs in which `SeesAnnounced` holds.

### Blocks

`VMBlock_proofs` proves, for any finite number of threads and any control files,
names and blocks:

- `TypeCorrect`, `BlocksOutliveUsers` (`[]NoUseAfterFree`), `RefCounts`
  (`[]RefCountIsUsers`), `BlocksAreDropped` (`[]NothingLeaks`), `ReleaseLiftsAll`
  (`[]ClosedBlockersBlockNothing`);
- `WaitersWaitForTheirBlock`: `Spec => ImplementsGate`.

The count alone does not protect a block: who removes it drops its own reference
before it wakes the waiters. `Unfinished` says what does: until then no waiter has
returned, and whoever is about to wake finds at least one waiting. With
`OneRemover`, `FreedWhenUnused` and `Counts` it is the invariant of a block,
`SlotInv`; `UsersChange` says that a step of a thread changes the users of a block
by that thread at most, and the counts follow from it. For the refinement a gate
is lifted when its block leaves the list.

### Networks

`VNet_proofs` proves, for any number of files, ports, interfaces, hubs and numbers and
any `NUM_JACKS_PER_HUB`:

- `TypeCorrect`: `Spec => []TypeOK`;
- `SwitchboardImplemented`: `Spec => ImplementsSwitchboard`, also where memory is short
  and where jacks are filled in while others connect;
- `JacksHaveFiles`: `Spec => []HubsHaveJacks`, and `OpenFilesAreConnected`:
  `Spec => []FilesAreConnected`, if memory is never short (`~AllocMayFail`);
- `PortsKnow`: `Spec => []PortsAreNotified`, if nothing is connected while a jack is
  set up (`InitAlone`).

Neither hypothesis can be dropped. The inductive `Inv` holds without them: `FilesFit`
says what a file has at hand in each place of a call, `PortsFit` that a port is one
file's, `JacksFit` that a jack in use is on a listed hub and that the jack a port or
a file has is nobody else's, `HubsFit` that the memory of a hub is listed or has one
maker, and `NoLoops` that no interface is on a hub twice. The search for cycles in
`VNetConnect` is to see to that, and finds a cycle for certain where there would be
one. `Owned` and `Counted` are the two properties with the jacks and ports that are on
their way, and `Bound` says that a file whose network is to be changed keeps its
connection until the switch.
A step either moves no port (`Quiet`: what it leaves alone gives the invariant) or
it connects, switches, replaces or closes (`Connects`), as a disconnection
(`Disconnected`) and connections (`Plugged`) one after the other, each with its lemmas.
For the refinement a port is at the number of its hub (`Where`), and who receives what
it sends (`Receivers`) are the ports there.

### Events

`VNet_proofs` also proves, for any finite sets of senders and listeners,
`MechanismIsFreedLast` (`EventSpec => []MechanismOutlivesUsers`) and
`HandlersAreSerialized` (who calls handlers has the lock). The invariant is the property with `CallersLock` and
the types it depends on (`MechanismTypeOK`): a new sender or listener is made by
who has a jack of a hub that is still a user, and the last reference is dropped by
the only one left. The rest of the types, and `ImplementsFeed`, are about queues
filtered with `SelectSeq`, a recursive definition.

### Datagram processes

`VMCIDatagramProcess_proofs` proves under `Undisturbed`, that no signal ends the
wait for callbacks (`"signal" \notin May`) and no id is asked for whose handle is
being destroyed (`"reuse" \notin May`): `CallersHaveTheProcess`
(`[]NoUseAfterFree`), `TypeCorrect` and `EntriesUnlinkThemselves` (`[]~mistaken`);
copies to the user may fail. Each of the two has a row in the table below. The
invariant: `Entries` counts those who hold an entry and says that an entry in memory
has its process and that somebody will destroy it; `HandlesDiffer`, that no two
entries in memory have one handle; `Found`, that a process can be found until its
destroyer removes it; `ThreadsFit`, that each file has one thread that makes or
destroys its process, that this thread follows its own entry, and that it is woken
once, when nobody holds the entry (`WokenOnce`).

### Well-known mappings

`VMCIWellKnownMap_proofs` proves under `Apart` (`"request" \notin Overlaps`: no
request for a mapping that is being removed), for any contexts, ids and mappings
and finitely many threads, ids used again and removals that overlap included:

- `TypeCorrect`, `RefCounts` (`[]RefCountIsHolders`), `EntriesUnlinkThemselves`
  (`[]UnlinksItsEntry`);
- `MappingsGoWithTheirContext`: `[]MappingsAreRecorded`, where arrays can grow
  (`~AppendMayFail`).

`Table` says of entries what holds of datagram entries above, `Bound` that a call
works on the id of the entry that it holds, and that it has unlinked the entry
before it takes the id from an array; `Served` that the context of a call is there
and that who drains a context works alone. With these the last property is
inductive by itself.

### Contexts

`VMCIContext_proofs` proves, for any threads, contexts, ids and sizes, and stacks of
any depth:

| theorem | statement | environment |
|---|---|---|
| `SleepersAreWoken` | `Spec => []PollersAreWoken` | any |
| `FlagFollowsQueue` | `Spec => []NotifyWhilePending` | any |
| `CountsUntilStale` | `Spec => [](Sound => RefCountIsHolders)` | any |
| `FreedOnceUntilStale` | `Spec => [](Sound => FreedOnceByOne)` | any |
| `GetIsReferenced` | `Spec => []Sound` | `~ReuseMemory` |
| `CountsAreExact` | `Spec => []RefCountIsHolders` | `~ReuseMemory` |
| `RemovalsAreToldOnce` | `Spec => []RemovalsAreTrue` | `~ReuseMemory` |
| `DatagramsArePermitted` | `Spec => []DatagramsRespectPrivileges` | `~ReuseMemory`, `~ReuseIds` |
| `EventsArePermitted` | `Spec => []EventsRespectPrivileges` | `~ReuseMemory`, `~ReuseIds` |

`Sound` says that `VMCIContext_Get` has not returned a context that it took no
reference to, which its comparison after the unlock makes possible (`ctx_stale_get`).
`~ReuseMemory` rules that out: a slot then stands for one context, so a comparison can
read freed memory, but not find the wanted id there. That ids are used again makes the
last two false (the table below).

The inductive invariant is built in layers, each used by the next:

- `Prompt`: the types, that a record under another one waits for it (in `fire` or
  `get`), and that a mapped flag that owes a signal has a thread on its way to give it.
- `References`: the count of a context is the number of records that claim it plus one
  for the list (`CountFits`), memory that is no context has neither count nor queue, and a
  context whose count is zero has one record that frees it. A step replaces the record on
  top of one stack by others (`Becomes`), so what happens to a count is what one record
  gains or loses (`ClaimsGain`, `ClaimsLose`, `ClaimsStay`).
- `Lives`: ids and privileges are for good, who is dead stays so (`Grows`), and the
  context that a failed search has left behind is another than the wanted one.
- `Events`: an event lies on the record that fires it, whose list of ids left to tell
  no longer has the target (`EventsFollow`); an event in a queue is of a dead context
  whose free will not fire it there again (`DeliveredIsDone`), and one under way is not
  in the queue yet (`NotYetDelivered`). As a context has one freer (`OneFreer`), no two
  threads are under way with the same event.
- `Permits`: no two contexts have one id, and a dispatch past the look at the privileges
  is allowed to reach whoever has the id (`Allowed`), which is stable.

A step enters these proofs as one of some fifteen kinds (`Kind`), which say what it does
to records, list and one slot and forget the rest.

### Memory of virtual machines

`VMMon_proofs` also proves, for any finite sets of machines, processors and pages,
limits and requests of any size:

- `ReservationsAccounted`: `Spec => []LockedPagesAccounted`;
- `PagesHaveTrackers`: `Spec => []TrackersHoldPages`;
- `AdmissionHolds`: `Spec => []AdmittedFit`.

The inductive `Inv` has the types (`Typed`), `ThreadsFit` (a call is for a machine
that is not released under it), `Tracked` (each page is named by one tracker at most,
where it may be named once, and the driver's references are those names), `Accounted`
and `Fit`. The properties are sums over machines and threads, written with
`MapThenSumSet`, about which no theorem of the library can be used. The number of
members of the set of pairs `Units(f, S)` is the same sum, about which facts on finite
sets do say something (`SumAdd`, `SumWithout`, `SumSame`); `InFlightIs`, `LockedIs`
and `GlobalIs` show that the model's sums are these.

### What is not proved

- Liveness, and what rests on `ENABLED`: `OrphansAreFreed`, `CallsReturn`,
  `LookupsReturn`, `OneReturns`, `ConnectsReturn`, `ChildrenAreFreed`,
  `ReadersReturn`, the liveness of `ImplementsUserCalls`. The prover has no means.
- `ImplementsFeed`, whose queues are filtered with `SelectSeq`, a recursive definition
  that the prover does not have, and `IdListsAreRight` with the numbers of machines in
  `TypeOK` of `VMMonMemory`, about chains of lists: an induction that cannot be
  instantiated here.
- `TypeOK` and `QueueAccounting` of `VMCIContext`: that a queue's size is a natural number
  is the sum of its sizes, a fold; the proofs get by with `Typed`, where it is an
  integer. `QueuePairDetach`: its run is a violation. TLC checks them.

## Disagreements found

Where the code does not do what a comment, an assertion or a message of its own
says. `PROJECT.json` lists and quotes `qpd_unlocked`; the others are refuted by TLC
under a configuration of this directory, changed as the first column says, with
the property in its INVARIANTS or PROPERTIES.

| configuration | property | what happens |
|---|---|---|
| `qpd_unlocked` | `PeerIsKnown` | a freed context detaches without the list lock and meets an attach half-way (`vmciContext.c:478`) |
| `qp_mixed_versions` | `PinsBalanced`, `ReleasedPagesWerePinned` | whether the last detach releases the pages depends on the version of the end that detaches, not of the one that pinned them (`vmciQueuePair.c:1266`) |
| `qp_mixed_versions`; `qp_pairing` | `HostPartnerSupportsHostQP`; `ReleasedContextIsNotNull` | the host attaches: the creator is looked up by its id, which belongs to another context, or to none, by now (`vmciQueuePair.c:727`) |
| `qp_pairing`, `GupMayFault = TRUE` | `PageStoreIsPinned` | a negative error is compared as unsigned and taken for success (`vmciKernelIf.c:1503`) |
| `qp_pairing`, `AppendMayFail = TRUE`, `ArrayCapacity = 1`, `Handle = {h1, h2}` | `UndoDetachSucceeds` | an array that cannot grow drops the handle in silence (`vmci_handle_array.h:149`) |
| `wkm_maps`, `AppendMayFail = TRUE` | `MappingsAreRecorded` | the same, for a well-known mapping |
| `ctx_mailbox` | `NotifyOnlyWhilePending` | the notify flag is set for a datagram that has just been received (`vmciContext.c:155`) |
| `ctx_mailbox` | `NotifyPointerIsSet` | a context is on the list before its notify pointer is initialised (`vmciContext.c:366`) |
| `ctx_mailbox`, `OneSetNotify = FALSE` | `NotifyPagePutBack` | two threads set up notification; one page is never put back (`driver.c:1475`) |
| `ctx_mailbox`, `ReuseIds = TRUE`, three contexts | `DatagramsRespectPrivileges`, `EventsRespectPrivileges` | privileges are those of the context that had the id before (`vmciDatagram.c:1071`, `vmciContext.c:1319`) |
| `ctx_stale_get` | `GetReturnsLiveContexts` | `VMCIContext_Get` looks at a context again after it dropped the lock (`vmciContext.c:804`) |
| `vmci_datagrams`, `May = {"signal"}` | `NoUseAfterFree` | a signal ends the wait for running callbacks and the entry is freed under them; the comment in `VMCI_WaitOnEvent` asks whether the wait should be uninterruptible (`vmciKernelIf.c:722`) |
| `vmci_datagrams`, `May = {"reuse"}`, two files and two entries | `NoUseAfterFree` | an id that a user asks for while its handle is being destroyed: the destroyer's second look-up finds the new entry and takes it off the table |
| `vmci_datagrams` | `CreatesReturn` | a copy that fails leaves the ioctl without releasing the lock of the open file; the next call on it waits for good (`driver.c:675`) |
| `wkm_maps`, `Ids = {i1}` | `OnlyTheOwnerUnmaps` | a dying context takes down the mapping of one that has its id (`vmciDatagram.c:1315`) |
| `wkm_unlink` | `UnlinksItsEntry` | the last release of an old mapping finds the new one by its handle (`vmciHashtable.c:603`) |
| `vsock_handshake`, `May = {"give_up"}` | `BacklogCountsWaiting`, `RefCountIsHolders` | a client that gives up answers the listener with a reset; the pending child is destroyed, and the backlog still counts it (`af_vsock.c:1613`) |
| `vsock_handshake`, `May = {"fail"}` | `BacklogCountsWaiting` | a child that accept rejects has been taken off the backlog, and its timer takes it off again (`af_vsock.c:1300` and `3389`) |
| `vsock_handshake`, `May = {"brief"}` or `{"overtake"}` | `ConnectsReturn` | the connection is over before the connect that sleeps for it looks, and the connect sleeps on |
| `vsock_handshake`, `May = {"busy_close"}` | `ChildrenAreFreed` | a listener that closes with packets to be worked on leaves a child behind |
| `vsock_handshake`, `May = {"fail"}` | `RejectedAreCleanedUp` | a child that accept rejects after its timer has run is cleaned up by nobody |
| `vsock_reset`; `vsock_handshake`, `May = {"lapse", "refuse"}` | `RefCountIsHolders` | a client that was refused and calls connect again, or that does not like the offer, answers the negotiation with a reset; the pending child is put once too often (`af_vsock.c:1613`) |
| `vnet_ports` | `EmptyHubsAreFreed` | the proc entry of a new hub cannot be made: its jack is given back, and the hub stays on the list without one |
| `vnet_ports` | `MechanismsAreDestroyed` | two files make a hub for one number at once: the second frees its own and forgets the event mechanism of that |
| `vnet_ports`, `InitAlone = FALSE` | `PortCounts` | the jack of a new hub is filled in without a lock and overwrites what a notification has put there |
| `vnet_ports`, `AllocMayFail = TRUE` | `FilesAreConnected`, `HubsHaveJacks` | the cycle test finds no memory; the file is left without a connection, or its jack without an owner |
| `vnet_events`, `HandlerMayFail = TRUE` | `ImplementsFeed` | the handler of a user's listener drops an event in silence (`vnetUserListener.c:222`) |
| `vmmon_usercall`, `SeesAnnounced = FALSE` | `RepliesAreAwaited`, `CallsReturn` | the VMX completes a call before the processor has noted that it waits, and the processor waits for a reply that has been given (`moduleloop.c:141`) |
| `vsock_notify`, `HasteFor = {1, 2}`, `Numbers = 1`, `MaxSend = 1` | `OneReturns` | a receive that does not wait raises the window of the socket but tells the sender nothing; the next one of that size thinks the sender has been told, and neither end returns (`notify.c:740`) |
| `vsock_notify`, `PageSize = 4`, `Word = 16`, `Numbers = 1`, `MaxSend = 3`, `HasteFor = {}` | `OneReturns` | with a queue smaller than a page the unsigned window wraps around and the sender is not told of space (`notify.c:80`) |

## What is not modelled

- *vmci*: client lists and privileges of resources, groups, the discovery service,
  event subscriptions, handles and callbacks of kernel clients, domain names,
  checkpoints, module start and stop. The queue pair list lock held across
  `VMCIContext_Release` (a self-deadlock if that release is the last) is outside
  the broker's model, whose handlers are single steps.
- *vsock*: binding and the tables, datagram sockets, socket options, shutdown of
  one direction; in `VSockNotify` the failure and retry of datagrams, the
  generations a waiting end sends along (the other end does not look at them).
- *vmnet*: the bridge's device going up and down, the packets of the user and
  network interfaces, the packet filter and the translation of MAC addresses,
  whose substance is the layout of packets. The order of `vnetStructureMutex` and
  the rtnl lock, and sleeping under a spin lock, are listed as hazards.
- *vmmon*: `task.c`, `cpuid.c`, `comport.c` and the rest of `moduleloop.c` are machine
  state and port input and output, with no protocol a state machine would say
  anything about; semaphores and cross calls of processors, the timers and the
  pseudo-TSC of `vmx86.c`, the poll list, IOMMU, the tables behind the trackers.
- *vmblock*: the pass-through file operations, which are calls of the kernel.
- `procfs.c`, `driverLog.c` and `stats.c` format and count.

## Plan

The safety invariants of the passing runs are proved but for those named above. Next
would be vsock's tables and shutdown, lost datagrams in `VSockNotify`; the bridge's up
and down; resources with client privileges and the discovery service; event
subscriptions.
