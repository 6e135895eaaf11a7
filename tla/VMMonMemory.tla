----------------------------- MODULE VMMonMemory -----------------------------
(***************************************************************************)
(* Virtual machines and their locked memory in vmmon: common/vmx86.c, the  *)
(* page operations of linux/hostif.c, common/phystrack.c, memtrack.c.      *)
(*                                                                         *)
(* A page is locked in three steps: it is reserved in the counters of the  *)
(* virtual machine and of the host, taken by the host's operation, and the *)
(* reservation given back when that failed; unlocking is the last two.     *)
(* The global lock protects the counters, the limits, the list of machines *)
(* and their numbers, and the lock of a machine its trackers: no lock is   *)
(* held from one step to the next.  One ioctl runs at a time               *)
(* (linuxState.lock), but the processors of a machine run beside it, and   *)
(* allocate and free pages too.                                            *)
(***************************************************************************)
EXTENDS Integers, FiniteSets, FiniteSetsExt

CONSTANTS
  VMs, NoVM,
  MaxVMs,           \* MAX_VMS
  Driver,           \* the thread that has linuxState.lock
  VcpuThreads,      \* the threads of processors
  Vpns,             \* of the process
  UserPages,        \* machine pages its memory may be in
  Frames,           \* machine pages that are free at first
  NoPage,
  Limits,           \* that the user sets
  HostLimits,       \* that HostIF_EstimateLockedPageLimit finds
  Admissions,       \* what machines ask for: see MemInfoArgs
  Deltas,           \* by which they change it: <<paged, nonpaged>>
  MaxUsage,         \* bound: paged and nonpaged pages together
  MaxPages,         \* bound: pages in one call
  Retries           \* of a reservation

MemInfoArgs == [paged : Nat, nonpaged : Nat, mainMemSize : Nat,
                perVMOverhead : Nat, pct : 0..100]

ASSUME MemoryAssumption ==
         /\ MaxVMs \in Nat \ {0} /\ IsFiniteSet(VMs) /\ NoVM \notin VMs
         /\ Driver \notin VcpuThreads /\ IsFiniteSet(VcpuThreads) /\ IsFiniteSet(Vpns)
         /\ IsFiniteSet(UserPages) /\ IsFiniteSet(Frames) /\ UserPages \cap Frames = {}
         /\ NoPage \notin UserPages \cup Frames
         /\ Limits \subseteq Nat /\ HostLimits \subseteq Nat
         /\ Admissions \subseteq MemInfoArgs /\ Deltas \subseteq Int \X Int
         /\ MaxUsage \in Nat /\ MaxPages \in Nat \ {0} /\ Retries \in Nat \ {0}

Pages == UserPages \cup Frames
Threads == VcpuThreads \cup {Driver}

VARIABLES
  vmDriverList,     \* SUBSET VMs
  ids,              \* [next, allocated, unused]: vmIDList and its two heads
  vm,               \* [VMs -> VM]
  dying,            \* VMs \cup {NoVM}: off the list, its resources not yet freed
  numLockedPages,
  configured,       \* lockedPageLimit.configured
  minVmMemPct,
  physTracker,      \* SUBSET Pages: one for all machines
  pins,             \* [Pages -> Nat]: references the driver has
  panic,            \* a bit of a tracker was set twice, cleared twice or left
  thread            \* [Threads -> Thread]

admission == <<vmDriverList, ids, dying, configured, minVmMemPct>>
trackers == <<physTracker, pins, panic>>
vars == <<admission, vm, numLockedPages, trackers, thread>>

-----------------------------------------------------------------------------
\* memtracker gives the page that is locked for a page of the process.
VM == [userID : 0..MaxVMs,
       admitted : BOOLEAN, locked : Int,
       paged : Nat, nonpaged : Nat, mainMemSize : Nat, perVMOverhead : Nat,
       minAllocation : Nat, maxAllocation : Nat,
       memtracker : [Vpns -> UserPages \cup {NoPage}],
       lockedPages : SUBSET UserPages,
       AWEPages : SUBSET Frames]

NewVM == [userID |-> 0, admitted |-> FALSE, locked |-> 0,
          paged |-> 0, nonpaged |-> 0, mainMemSize |-> 0, perVMOverhead |-> 0,
          minAllocation |-> 0, maxAllocation |-> 0,
          memtracker |-> [n \in Vpns |-> NoPage], lockedPages |-> {}, AWEPages |-> {}]

\* num: pages reserved, or to give back.
Thread == [pc : {"idle", "reserve", "host", "unreserve", "free"},
           call : {"none", "lock", "lockNew", "alloc"},
           vm : VMs \cup {NoVM}, num : Nat, retries : 0..Retries]

Idle == [pc |-> "idle", call |-> "none", vm |-> NoVM, num |-> 0, retries |-> 0]

Init == /\ vmDriverList = {} /\ dying = NoVM
        /\ ids = [next |-> [i \in 0..(MaxVMs - 1) |-> IF i = MaxVMs - 1 THEN -1 ELSE i + 1],
                  allocated |-> -1, unused |-> 0]
        /\ vm = [m \in VMs |-> NewVM]
        /\ numLockedPages = 0 /\ configured = 0 /\ minVmMemPct = 0
        /\ physTracker = {} /\ pins = [p \in Pages |-> 0] /\ panic = FALSE
        /\ thread = [t \in Threads |-> Idle]

-----------------------------------------------------------------------------
\* The numbers of machines: two lists in one array.

Members(next, head) ==
  LET reach[n \in 0..MaxVMs] ==
        IF n = 0 THEN {head} \ {-1}
        ELSE reach[n - 1] \cup ({next[i] : i \in reach[n - 1]} \ {-1})
  IN  reach[MaxVMs]

AllocVMID(l) == [next |-> [l.next EXCEPT ![l.unused] = l.allocated],
                 allocated |-> l.unused,
                 unused |-> l.next[l.unused]]

FreeVMID(l, id) ==
  IF id = l.allocated
  THEN [next |-> [l.next EXCEPT ![id] = l.unused],
        allocated |-> l.next[id], unused |-> id]
  ELSE LET i == CHOOSE j \in Members(l.next, l.allocated) : l.next[j] = id
       IN  [l EXCEPT !.next = [@ EXCEPT ![i] = l.next[id], ![id] = l.unused],
                     !.unused = id]

-----------------------------------------------------------------------------
\* Limits and admission.

Least(a, b) == IF a < b THEN a ELSE b

\* A sum of unsigned integers that would be negative is out of any limit.
Fits(sum, limit) == 0 <= sum /\ sum <= limit

LockedPageLimit(host, overhead) ==
  LET extra == Cardinality(vmDriverList) * overhead
      limit == Least(configured, host)
  IN  IF extra < limit THEN limit - extra ELSE 0

\* Admission leaves the host's estimate out.
LimitForAdmission(overhead) == LockedPageLimit(configured, overhead)

MinAllocation(paged, nonpaged, mainMemSize, pct) ==
  LET swappable == Least(mainMemSize, paged)
  IN  (pct * swappable) \div 100 + (paged - swappable) + nonpaged

MinAllocationOf(r, pct) == MinAllocation(r.paged, r.nonpaged, r.mainMemSize, pct)

GlobalMinAllocation(pct) ==
  MapThenSumSet(LAMBDA m : MinAllocationOf(vm[m], pct),
                {m \in vmDriverList : vm[m].admitted})

SetMemoryUsage(r, paged, nonpaged, pct) ==
  [r EXCEPT !.paged = paged, !.nonpaged = nonpaged,
            !.minAllocation = MinAllocation(paged, nonpaged, r.mainMemSize, pct),
            !.maxAllocation = paged + nonpaged]

HasFreePages(m, n, host) == numLockedPages + n <= LockedPageLimit(host, vm[m].perVMOverhead)

VMHasFreePages(m, n) == vm[m].admitted => vm[m].locked + n <= vm[m].maxAllocation

-----------------------------------------------------------------------------
\* Ioctls that are over in one step: the driver's thread is in no other, and
\* the machine is the one of the open file.
DriverIsFree == thread[Driver].pc = "idle" /\ dying = NoVM

CreateVM(m) ==
  /\ DriverIsFree /\ m \notin vmDriverList
  /\ Cardinality(vmDriverList) < MaxVMs
  /\ vmDriverList' = vmDriverList \cup {m}
  /\ ids' = AllocVMID(ids)
  /\ vm' = [vm EXCEPT ![m] = [NewVM EXCEPT !.userID = ids.unused + 1]]
  /\ UNCHANGED <<dying, configured, minVmMemPct, numLockedPages, trackers, thread>>

SetConfiguredLockedPagesLimit(limit) ==
  /\ DriverIsFree /\ limit >= configured
  /\ configured' = limit
  /\ UNCHANGED <<vmDriverList, ids, dying, minVmMemPct, vm, numLockedPages, trackers, thread>>

\* Mutant: the others are not counted.
AdmitAlone(m, args) ==
  LET asked == SetMemoryUsage([vm[m] EXCEPT !.mainMemSize = args.mainMemSize,
                                            !.perVMOverhead = args.perVMOverhead],
                              args.paged, args.nonpaged, args.pct)
  IN  /\ DriverIsFree /\ m \in vmDriverList
      /\ vm' = [vm EXCEPT ![m] = [asked EXCEPT !.admitted =
                  asked.minAllocation <= LimitForAdmission(args.perVMOverhead)]]
      /\ minVmMemPct' = args.pct
      /\ UNCHANGED <<vmDriverList, ids, dying, configured, numLockedPages, trackers, thread>>

\* The machines admitted are brought to a new percentage if they fit under it.
Admit(m, args) ==
  LET old == GlobalMinAllocation(args.pct)
      allow == args.mainMemSize <= args.paged /\ old <= LimitForAdmission(0)
      updated == [k \in VMs |->
                    IF allow /\ k \in vmDriverList /\ vm[k].admitted
                    THEN [vm[k] EXCEPT !.minAllocation = MinAllocationOf(vm[k], args.pct)]
                    ELSE vm[k]]
      asked == SetMemoryUsage([vm[m] EXCEPT !.mainMemSize = args.mainMemSize,
                                            !.perVMOverhead = args.perVMOverhead],
                              args.paged, args.nonpaged, args.pct)
  IN  /\ DriverIsFree /\ m \in vmDriverList
      /\ minVmMemPct' = IF allow THEN args.pct ELSE minVmMemPct
      /\ vm' = [updated EXCEPT ![m] = [asked EXCEPT !.admitted =
                  /\ allow /\ args.mainMemSize > 0
                  /\ old + asked.minAllocation <= LimitForAdmission(args.perVMOverhead)]]
      /\ UNCHANGED <<vmDriverList, ids, dying, configured, numLockedPages, trackers, thread>>

\* A machine changes what it has asked for: if it still fits, or asks for less.
Readmit(m, delta, host) ==
  LET r == vm[m]
      paged == r.paged + delta[1]
      nonpaged == r.nonpaged + delta[2]
      sum == GlobalMinAllocation(minVmMemPct) - MinAllocationOf(r, minVmMemPct)
               + MinAllocation(paged, nonpaged, r.mainMemSize, minVmMemPct)
  IN  /\ DriverIsFree /\ m \in vmDriverList
      /\ nonpaged >= 0 /\ paged >= r.mainMemSize
      /\ paged + nonpaged <= MaxUsage
      /\ \/ Fits(sum, LockedPageLimit(host, r.perVMOverhead))
         \/ delta[1] <= 0 /\ delta[2] <= 0
      /\ vm' = [vm EXCEPT ![m] = SetMemoryUsage(r, paged, nonpaged, minVmMemPct)]
      /\ UNCHANGED <<admission, numLockedPages, trackers, thread>>

-----------------------------------------------------------------------------
\* The host's operations on pages, under the lock of the machine.

Holds(p, n) == pins' = [pins EXCEPT ![p] = @ + n]

Become(t, r) == thread' = [thread EXCEPT ![t] = r]
Unreserve(n) == [Idle EXCEPT !.pc = "unreserve", !.num = n]

\* HostIF_LockPage, for a page the process may name once ...
LockPage(t, n, p) ==
  LET m == thread[t].vm
      works == vm[m].memtracker[n] = NoPage /\ p \notin physTracker
  IN  /\ thread[t].pc = "host" /\ thread[t].call = "lock"
      /\ IF works
         THEN /\ vm' = [vm EXCEPT ![m].memtracker[n] = p]
              /\ physTracker' = physTracker \cup {p}
              /\ Holds(p, 1)
              /\ Become(t, Idle)
         ELSE /\ Become(t, [Unreserve(1) EXCEPT !.vm = m])
              /\ UNCHANGED <<vm, physTracker, pins>>
      /\ UNCHANGED <<admission, numLockedPages, panic>>

\* ... or as often as it finds another machine page there.
LockPageNew(t, p) ==
  LET m == thread[t].vm
      works == p \notin physTracker /\ p \notin vm[m].lockedPages
  IN  /\ thread[t].pc = "host" /\ thread[t].call = "lockNew"
      /\ IF works
         THEN /\ vm' = [vm EXCEPT ![m].lockedPages = @ \cup {p}]
              /\ Holds(p, 1)
              /\ Become(t, Idle)
         ELSE /\ Become(t, [Unreserve(1) EXCEPT !.vm = m])
              /\ UNCHANGED <<vm, pins>>
      /\ UNCHANGED <<admission, numLockedPages, physTracker, panic>>

\* HostIF_GetUserPage fails.
NoUserPage(t) ==
  /\ thread[t].pc = "host" /\ thread[t].call \in {"lock", "lockNew"}
  /\ Become(t, [Unreserve(1) EXCEPT !.vm = thread[t].vm])
  /\ UNCHANGED <<admission, vm, numLockedPages, trackers>>

\* Mutant: a part of the pages counts as all.
AllocLockedPagesShort(t, got) ==
  LET m == thread[t].vm IN
  /\ thread[t].pc = "host" /\ thread[t].call = "alloc"
  /\ thread[t].num >= Cardinality(got) /\ \A p \in got : pins[p] = 0
  /\ vm' = [vm EXCEPT ![m].AWEPages = @ \cup got]
  /\ pins' = [p \in Pages |-> IF p \in got THEN pins[p] + 1 ELSE pins[p]]
  /\ Become(t, IF got # {} THEN Idle ELSE [Unreserve(thread[t].num) EXCEPT !.vm = m])
  /\ UNCHANGED <<admission, numLockedPages, physTracker, panic>>

\* HostIF_AllocLockedPages: as many as there are, or none.
AllocLockedPages(t, got) ==
  LET m == thread[t].vm
      short == thread[t].num - Cardinality(got)
  IN  /\ thread[t].pc = "host" /\ thread[t].call = "alloc"
      /\ short >= 0 /\ \A p \in got : pins[p] = 0
      /\ vm' = [vm EXCEPT ![m].AWEPages = @ \cup got]
      /\ pins' = [p \in Pages |-> IF p \in got THEN pins[p] + 1 ELSE pins[p]]
      /\ Become(t, IF short = 0 THEN Idle ELSE [Unreserve(short) EXCEPT !.vm = m])
      /\ UNCHANGED <<admission, numLockedPages, physTracker, panic>>

-----------------------------------------------------------------------------
\* Locking: the reservation, which is tried again while the host has no room.

MayCall(t, m) == /\ m \in vmDriverList /\ thread[t].pc = "idle"
                 /\ t = Driver => dying = NoVM

Begin(t, m, call, n) ==
  /\ MayCall(t, m) /\ (t # Driver => call = "alloc" /\ n = 1)
  /\ call # "alloc" => n = 1
  /\ Become(t, [pc |-> "reserve", call |-> call, vm |-> m, num |-> n, retries |-> Retries])
  /\ UNCHANGED <<admission, vm, numLockedPages, trackers>>

ReserveFreePages(t, host) ==
  LET m == thread[t].vm  n == thread[t].num IN
  /\ thread[t].pc = "reserve"
  /\ IF VMHasFreePages(m, n) /\ HasFreePages(m, n, host)
     THEN /\ numLockedPages' = numLockedPages + n
          /\ vm' = [vm EXCEPT ![m].locked = @ + n]
          /\ Become(t, [thread[t] EXCEPT !.pc = "host", !.retries = 0])
     ELSE /\ Become(t, IF VMHasFreePages(m, n) /\ thread[t].retries > 1
                       THEN [thread[t] EXCEPT !.retries = @ - 1] ELSE Idle)
          /\ UNCHANGED <<numLockedPages, vm>>
  /\ UNCHANGED <<admission, trackers>>

UnreserveFreePages(t) ==
  LET m == thread[t].vm  n == thread[t].num IN
  /\ thread[t].pc = "unreserve"
  /\ numLockedPages' = numLockedPages - n
  /\ vm' = [vm EXCEPT ![m].locked = @ - n]
  /\ Become(t, Idle)
  /\ UNCHANGED <<admission, trackers>>

-----------------------------------------------------------------------------
\* Unlocking begins with the host's operation; a page that is not locked is
\* an error that changes nothing.

UnlockPage(t, m, n) ==
  LET p == vm[m].memtracker[n] IN
  /\ t = Driver /\ MayCall(t, m) /\ p # NoPage
  /\ vm' = [vm EXCEPT ![m].memtracker[n] = NoPage]
  /\ panic' = (panic \/ p \notin physTracker)
  /\ physTracker' = physTracker \ {p}
  /\ Holds(p, -1)
  /\ Become(t, [Unreserve(1) EXCEPT !.vm = m])
  /\ UNCHANGED <<admission, numLockedPages>>

UnlockPageByMPN(t, m, p) ==
  /\ t = Driver /\ MayCall(t, m) /\ p \in vm[m].lockedPages
  /\ vm' = [vm EXCEPT ![m].lockedPages = @ \ {p}]
  /\ Holds(p, -1)
  /\ Become(t, [Unreserve(1) EXCEPT !.vm = m])
  /\ UNCHANGED <<admission, numLockedPages, physTracker, panic>>

\* All the pages, each named once, or none.
FreeLockedPages(t, m, given) ==
  /\ MayCall(t, m) /\ given # {} /\ given \subseteq vm[m].AWEPages
  /\ vm' = [vm EXCEPT ![m].AWEPages = @ \ given]
  /\ pins' = [p \in Pages |-> IF p \in given THEN pins[p] - 1 ELSE pins[p]]
  /\ Become(t, [Unreserve(Cardinality(given)) EXCEPT !.vm = m])
  /\ UNCHANGED <<admission, numLockedPages, physTracker, panic>>

-----------------------------------------------------------------------------
\* Vmx86_ReleaseVM, when no processor of the machine is in the driver.

DeleteVMFromList(m) ==
  /\ DriverIsFree /\ m \in vmDriverList
  /\ \A t \in VcpuThreads : thread[t].vm # m
  /\ vmDriverList' = vmDriverList \ {m}
  /\ ids' = FreeVMID(ids, vm[m].userID - 1)
  /\ numLockedPages' = numLockedPages - vm[m].locked
  /\ configured' = IF vmDriverList = {m} THEN 0 ELSE configured
  /\ dying' = m
  /\ UNCHANGED <<minVmMemPct, vm, trackers, thread>>

\* Mutant: what the memtracker names stays locked.
FreeAllVMResourcesNamed ==
  /\ dying # NoVM
  /\ pins' = [p \in Pages |->
               pins[p] - (IF p \in vm[dying].lockedPages \cup vm[dying].AWEPages THEN 1 ELSE 0)]
  /\ panic' = (panic \/ (vmDriverList = {} /\ physTracker # {}))
  /\ vm' = [vm EXCEPT ![dying] = NewVM]
  /\ dying' = NoVM
  /\ UNCHANGED <<vmDriverList, ids, configured, minVmMemPct, physTracker, numLockedPages, thread>>

\* HostIF_FreeAllResources: the trackers of the machine, then what its
\* memtracker names, then the tracker of all if no machine uses it.
FreeAllVMResources ==
  LET r == vm[dying]
      named == {r.memtracker[n] : n \in Vpns} \ {NoPage}
      left == physTracker \ named
  IN  /\ dying # NoVM
      /\ pins' = [p \in Pages |->
                   pins[p] - (IF p \in r.lockedPages \cup r.AWEPages THEN 1 ELSE 0)
                           - (IF p \in named \cap physTracker THEN 1 ELSE 0)]
      /\ physTracker' = left
      /\ panic' = (panic \/ (vmDriverList = {} /\ left # {}))
      /\ vm' = [vm EXCEPT ![dying] = NewVM]
      /\ dying' = NoVM
      /\ UNCHANGED <<vmDriverList, ids, configured, minVmMemPct, numLockedPages, thread>>

-----------------------------------------------------------------------------
Manages(m) == \/ CreateVM(m) \/ DeleteVMFromList(m)
              \/ \E args \in Admissions : Admit(m, args)
              \/ \E delta \in Deltas, host \in HostLimits : Readmit(m, delta, host)

Locks(t) == \/ \E m \in VMs, call \in {"lock", "lockNew", "alloc"}, n \in 1..MaxPages :
                   Begin(t, m, call, n)
            \/ \E host \in HostLimits : ReserveFreePages(t, host)
            \/ \E n \in Vpns, p \in UserPages : LockPage(t, n, p)
            \/ \E p \in UserPages : LockPageNew(t, p)
            \/ NoUserPage(t)
            \/ \E got \in SUBSET Frames : AllocLockedPages(t, got)

Unlocks(t, m) == \/ \E n \in Vpns : UnlockPage(t, m, n)
                 \/ \E p \in UserPages : UnlockPageByMPN(t, m, p)
                 \/ \E given \in SUBSET Frames : FreeLockedPages(t, m, given)

Next == \/ \E m \in VMs : Manages(m)
        \/ \E limit \in Limits : SetConfiguredLockedPagesLimit(limit)
        \/ \E t \in Threads : Locks(t) \/ UnreserveFreePages(t)
        \/ \E t \in Threads, m \in VMs : Unlocks(t, m)
        \/ FreeAllVMResources

Spec == Init /\ [][Next]_vars

-----------------------------------------------------------------------------
\* Type invariant.
TypeOK == /\ vmDriverList \subseteq VMs /\ dying \in VMs \cup {NoVM}
          /\ vm \in [VMs -> VM] /\ thread \in [Threads -> Thread]
          /\ numLockedPages \in Int /\ configured \in Nat /\ minVmMemPct \in 0..100
          /\ physTracker \subseteq Pages /\ pins \in [Pages -> Nat] /\ panic \in BOOLEAN

\* What a machine has reserved and not, or no longer, locked.
InFlight(m) ==
  MapThenSumSet(LAMBDA t : thread[t].num,
                {t \in Threads : thread[t].vm = m /\ thread[t].pc \in {"host", "unreserve"}})

Named(m) == {n \in Vpns : vm[m].memtracker[n] # NoPage}

\* Whatever fails, and however the calls of its processors interleave, a
\* machine has reserved one page for each it has locked and for each a call is
\* about to lock or to give back; the host's count is the sum over its machines.
LockedPagesAccounted ==
  /\ numLockedPages = MapThenSumSet(LAMBDA m : vm[m].locked, vmDriverList)
  /\ \A m \in vmDriverList :
       vm[m].locked = Cardinality(Named(m)) + Cardinality(vm[m].lockedPages)
                        + Cardinality(vm[m].AWEPages) + InFlight(m)

\* The driver has one reference to a page for each tracker that names it, and
\* no tracker is ever found to disagree with what is done to it.
TrackersHoldPages ==
  /\ ~panic
  /\ \A p \in Pages :
       pins[p] = Cardinality({m \in VMs : \E n \in Vpns : vm[m].memtracker[n] = p})
                  + Cardinality({m \in VMs : p \in vm[m].lockedPages})
                  + Cardinality({m \in VMs : p \in vm[m].AWEPages})
  /\ physTracker = {vm[x[1]].memtracker[x[2]] : x \in VMs \X Vpns} \ {NoPage}

\* Room for the minimum of all machines admitted, at the percentage in force,
\* and for all the pages reserved, below the limit the user has set.
AdmittedFit ==
  /\ GlobalMinAllocation(minVmMemPct) <= configured
  /\ numLockedPages <= configured
  /\ \A m \in vmDriverList :
       vm[m].admitted => vm[m].minAllocation = MinAllocationOf(vm[m], minVmMemPct)

\* A number is on one of the two lists, and the numbers in use are those of
\* the machines, each its own.
IdListsAreRight ==
  LET inUse == {vm[m].userID - 1 : m \in vmDriverList} IN
  /\ Members(ids.next, ids.allocated) = inUse
  /\ Members(ids.next, ids.unused) = (0..(MaxVMs - 1)) \ inUse
  /\ Cardinality(inUse) = Cardinality(vmDriverList)
=============================================================================
