------------------------ MODULE VMCIDatagramProcess ------------------------
(***************************************************************************)
(* Datagram processes of vmci: vmciDatagram.c and the resource table of    *)
(* vmciResource.c, the ioctls, poll and close of linux/driver.c, and       *)
(* VMCI_WaitOnEvent and VMCIHost_WaitForCallLocked of linux/vmciKernelIf.c.*)
(*                                                                         *)
(* A host process makes its open file a datagram process: a queue behind a *)
(* handle.  Who sends to the handle looks its DatagramEntry up, calls back *)
(* into the process with a reference, and releases it.  The handle is      *)
(* destroyed when the file is closed: its entry is taken off the table and *)
(* the closing thread sleeps until the last reference is released, then    *)
(* frees the entry and the process.                                        *)
(*                                                                         *)
(* A step is what runs under one lock, that of the table or the process's. *)
(* The entries of VMCIHashTable are the hash entries inside DatagramEntry; *)
(* NoMemory there is one that is dead.  A file that has been closed is the *)
(* next one to be opened.  Well-known handles and the callbacks of kernel  *)
(* clients are left out, and the discovery service with its registrations. *)
(***************************************************************************)
EXTENDS VMCIHashTable, Sequences, SequencesExt

CONSTANTS
  Threads, Files, NoFile,
  Sizes,            \* of datagrams
  MaxQueue,         \* VMCI_MAX_DATAGRAM_QUEUE_SIZE
  May               \* what the environment does, see Environment

Environment ==
  {"copy_fails",    \* the user's memory cannot be written
   "signal",        \* a signal comes while a handle is destroyed
   "reuse"}         \* an id is asked for that a handle being destroyed had

ASSUME DatagramProcessAssumption ==
         /\ IsFiniteSet(Threads) /\ NoFile \notin Files
         /\ Sizes \subseteq Nat /\ MaxQueue \in Nat
         /\ May \subseteq Environment

VARIABLES
  memory,           \* SUBSET Entry: DatagramEntry objects that are allocated
  clientData,       \* [Entry -> Files \cup {NoFile}]: whose process they call
  file,             \* [Files -> File]
  thread,           \* [Threads -> the call a thread is in]
  interruptible     \* SUBSET Threads: those that sleep or are about to

vars == <<tableVars, memory, clientData, file, thread, interruptible>>

-----------------------------------------------------------------------------
\* isProcess: ctType and ct.dgmProc are set; allocated: the process's memory is.
File == [locked : BOOLEAN, isProcess : BOOLEAN, allocated : BOOLEAN,
         handle : Handle \cup {NoHandle}, queue : Seq(Sizes)]

Opened == [locked |-> FALSE, isProcess |-> FALSE, allocated |-> FALSE,
           handle |-> NoHandle, queue |-> <<>>]

Creating == {"lock", "copy"}
Reading == {"read", "read_asleep", "poll", "poll_asleep"}
Destroying == {"get", "remove", "unlink", "drop", "drop_signal", "wait", "release_cb",
               "cb_signal", "asleep", "free", "flush"}
Sending == {"callback", "release", "signal"}

\* entry: what a thread has a reference to, or has released last; found: what
\* VMCIResource_Remove has found.
Thread == [pc : {"idle"} \cup Creating \cup Reading \cup Destroying \cup Sending,
           file : Files \cup {NoFile},
           entry : Entry \cup {NoEntry}, found : Entry \cup {NoEntry}]

Idle == [pc |-> "idle", file |-> NoFile, entry |-> NoEntry, found |-> NoEntry]

Init ==
  /\ TableInit
  /\ memory = {}
  /\ clientData = [e \in Entry |-> NoFile]
  /\ file = [f \in Files |-> Opened]
  /\ thread = [t \in Threads |-> Idle]
  /\ interruptible = {}

At(t, pc) == thread[t].pc = pc
Goto(t, pc) == thread' = [thread EXCEPT ![t].pc = pc]
Return(t) == thread' = [thread EXCEPT ![t] = Idle]
Begin(t, pc, f) == At(t, "idle") /\ thread' = [thread EXCEPT ![t].pc = pc, ![t].file = f]

In(f, pcs) == {t \in Threads : thread[t].file = f /\ thread[t].pc \in pcs}
BeingDestroyed(h) ==
  \E t \in Threads : thread[t].pc \in Destroying /\ file[thread[t].file].handle = h

-----------------------------------------------------------------------------
(* IOCTL_VMCI_CREATE_DATAGRAM_PROCESS                                      *)

\* Who destroys the process of an open file has the lock of the file.
IsOpen(f) == In(f, Destroying) = {} \/ file[f].locked

CallCreate(t, f) ==
  /\ IsOpen(f)
  /\ Begin(t, "lock", f)
  /\ UNCHANGED <<tableVars, memory, clientData, file, interruptible>>

\* With the lock of the file, VMCIDatagramProcess_Create up to its
\* VMCIResource_Add ...
Create(t, h, e) ==
  LET f == thread[t].file
  IN  /\ At(t, "lock") /\ ~file[f].locked /\ ~file[f].isProcess
      /\ "reuse" \in May \/ ~BeingDestroyed(h)
      /\ e \notin memory /\ AddEntry(e, h)
      /\ memory' = memory \cup {e}
      /\ clientData' = [clientData EXCEPT ![e] = f]
      /\ file' = [file EXCEPT ![f].locked = TRUE, ![f].allocated = TRUE, ![f].handle = h]
      /\ Goto(t, "copy")
      /\ UNCHANGED interruptible

\* ... or an error: the file has a process, or the handle is taken.
CreateFails(t) ==
  /\ At(t, "lock") /\ ~file[thread[t].file].locked
  /\ file[thread[t].file].isProcess \/ \E h \in Handle : EntryExists(h)
  /\ Return(t)
  /\ UNCHANGED <<tableVars, memory, clientData, file, interruptible>>

CopyOut(t) ==
  /\ At(t, "copy")
  /\ file' = [file EXCEPT ![thread[t].file].isProcess = TRUE, ![thread[t].file].locked = FALSE]
  /\ Return(t)
  /\ UNCHANGED <<tableVars, memory, clientData, interruptible>>

\* The process is destroyed, and the lock kept.
CopyFails(t) ==
  /\ At(t, "copy") /\ "copy_fails" \in May
  /\ Goto(t, "get")
  /\ UNCHANGED <<tableVars, memory, clientData, file, interruptible>>

-----------------------------------------------------------------------------
(* VMCIDatagramProcess_Destroy                                             *)

\* LinuxDriver_Close, when no call on the file is in progress.
CloseUnused(f) ==
  /\ ~file[f].isProcess /\ \A u \in Threads : thread[u].file # f
  /\ file' = [file EXCEPT ![f] = Opened]
  /\ UNCHANGED <<tableVars, memory, clientData, thread, interruptible>>

Close(t, f) ==
  /\ file[f].isProcess /\ \A u \in Threads : thread[u].file # f
  /\ Begin(t, "get", f)
  /\ file' = [file EXCEPT ![f].isProcess = FALSE]
  /\ UNCHANGED <<tableVars, memory, clientData, interruptible>>

\* VMCIDatagramDestroyHndInt: without a resource there is nothing to wait for.
GetResource(t) ==
  LET h == file[thread[t].file].handle
  IN  /\ At(t, "get")
      /\ IF EntryExists(h)
         THEN \E e \in Entry :
                /\ GetEntry(e, h)
                /\ thread' = [thread EXCEPT ![t].pc = "remove", ![t].entry = e]
         ELSE Goto(t, "flush") /\ UNCHANGED tableVars
      /\ UNCHANGED <<memory, clientData, file, interruptible>>

\* VMCIResource_Remove looks the handle up again, unlinks what it has found and
\* releases it.
FindResource(t) ==
  LET h == file[thread[t].file].handle
  IN  /\ At(t, "remove")
      /\ IF EntryExists(h)
         THEN \E e \in Entry :
                /\ GetEntry(e, h)
                /\ thread' = [thread EXCEPT ![t].pc = "unlink", ![t].found = e]
         ELSE Goto(t, "wait") /\ UNCHANGED tableVars
      /\ UNCHANGED <<memory, clientData, file, interruptible>>

UnlinkResource(t) ==
  /\ At(t, "unlink")
  /\ RemoveEntry(thread[t].found)
  /\ Goto(t, "drop")
  /\ UNCHANGED <<memory, clientData, file, interruptible>>

\* VMCIResource_Release: who releases the last reference runs DatagramFreeCB.
Release(t, e, alive, dead) ==
  /\ ReleaseEntry(e)
  /\ Goto(t, IF entry[e].refCount = 1 THEN dead ELSE alive)
  /\ UNCHANGED <<memory, clientData, file, interruptible>>

DropResource(t) ==
  At(t, "drop") /\ Release(t, thread[t].found, "wait", "drop_signal")

\* Mutant: the task's state is not set, and schedule returns.
JoinEventRunning(t) ==
  /\ At(t, "wait")
  /\ Goto(t, "release_cb")
  /\ UNCHANGED <<tableVars, memory, clientData, file, interruptible>>

\* VMCI_WaitOnEvent: the thread is in the queue before it releases its own
\* reference.
JoinEvent(t) ==
  /\ At(t, "wait")
  /\ interruptible' = interruptible \cup {t}
  /\ Goto(t, "release_cb")
  /\ UNCHANGED <<tableVars, memory, clientData, file>>

DatagramReleaseCB(t) ==
  At(t, "release_cb") /\ Release(t, thread[t].entry, "asleep", "cb_signal")

EventComes(t) ==
  /\ At(t, "asleep") /\ (t \notin interruptible \/ "signal" \in May)
  /\ interruptible' = interruptible \ {t}
  /\ Goto(t, "free")
  /\ UNCHANGED <<tableVars, memory, clientData, file>>

FreeEntry(t) ==
  /\ At(t, "free")
  /\ memory' = memory \ {thread[t].entry}
  /\ Goto(t, "flush")
  /\ UNCHANGED <<tableVars, clientData, file, interruptible>>

\* The queue goes with the process.  After a close so does the file; after a
\* copy that failed the ioctl ends by a break before it unlocks the file.
Flush(t) ==
  LET f == thread[t].file
  IN  /\ At(t, "flush")
      /\ file' = [file EXCEPT ![f] = [Opened EXCEPT !.locked = file[f].locked]]
      /\ Return(t)
      /\ UNCHANGED <<tableVars, memory, clientData, interruptible>>

-----------------------------------------------------------------------------
(* VMCIDatagram_Dispatch to a host destination                             *)

\* The destination is called if privileges allow it; the source is looked up
\* for its privileges only.
Dispatch(t, e, h, permitted) ==
  /\ At(t, "idle")
  /\ GetEntry(e, h)
  /\ thread' = [thread EXCEPT ![t].pc = IF permitted THEN "callback" ELSE "release",
                              ![t].entry = e]
  /\ UNCHANGED <<memory, clientData, file, interruptible>>

\* Mutant: nobody is told of the datagram.
NotifyCBSilent(t, size) ==
  LET f == clientData[thread[t].entry]
  IN  /\ At(t, "callback")
      /\ FoldSeq(+, size, file[f].queue) < MaxQueue
      /\ file' = [file EXCEPT ![f].queue = Append(@, size)]
      /\ Goto(t, "release")
      /\ UNCHANGED <<tableVars, memory, clientData, interruptible>>

\* DatagramProcessNotifyCB: wake_up finds all who read or poll.
NotifyCB(t, size) ==
  LET f == clientData[thread[t].entry]
  IN  /\ At(t, "callback")
      /\ FoldSeq(+, size, file[f].queue) < MaxQueue
      /\ file' = [file EXCEPT ![f].queue = Append(@, size)]
      /\ interruptible' = interruptible \ In(f, Reading)
      /\ Goto(t, "release")
      /\ UNCHANGED <<tableVars, memory, clientData>>

\* The queue is full, or there is no memory.
NotifyCBFails(t) ==
  /\ At(t, "callback")
  /\ Goto(t, "release")
  /\ UNCHANGED <<tableVars, memory, clientData, file, interruptible>>

ReleaseResource(t) ==
  At(t, "release") /\ Release(t, thread[t].entry, "idle", "signal")

\* DatagramFreeCB wakes who destroys the handle.
AfterSignal == [signal |-> "idle", cb_signal |-> "asleep", drop_signal |-> "wait"]
Signalled(t) == IF At(t, "drop_signal") THEN thread[t].found ELSE thread[t].entry

DatagramFreeCB(t) ==
  /\ thread[t].pc \in DOMAIN AfterSignal
  /\ interruptible' =
       interruptible \ {u \in Threads : /\ thread[u].pc \in {"release_cb", "cb_signal", "asleep"}
                                        /\ thread[u].entry = Signalled(t)}
  /\ Goto(t, AfterSignal[thread[t].pc])
  /\ UNCHANGED <<tableVars, memory, clientData, file>>

-----------------------------------------------------------------------------
(* IOCTL_VMCI_DATAGRAM_RECEIVE and poll                                    *)

CallRead(t, f, pc) ==
  /\ pc \in {"read", "poll"}
  /\ file[f].isProcess
  /\ Begin(t, pc, f)
  /\ interruptible' = IF pc = "poll" THEN interruptible \cup {t} ELSE interruptible
  /\ UNCHANGED <<tableVars, memory, clientData, file>>

\* VMCIDatagramProcess_ReadCall finds nothing: it is in the queue, and its state
\* is set, before the lock of the process is released.
ReadCallWaits(t) ==
  /\ At(t, "read") /\ file[thread[t].file].queue = <<>>
  /\ interruptible' = interruptible \cup {t}
  /\ Goto(t, "read_asleep")
  /\ UNCHANGED <<tableVars, memory, clientData, file>>

ReadCallWoken(t) ==
  /\ At(t, "read_asleep") /\ t \notin interruptible
  /\ Goto(t, "read")
  /\ UNCHANGED <<tableVars, memory, clientData, file, interruptible>>

\* It takes the first datagram, or the buffer is too small for it.
ReadCall(t) ==
  LET f == thread[t].file
  IN  /\ At(t, "read") /\ file[f].queue # <<>>
      /\ \E q \in {file[f].queue, Tail(file[f].queue)} : file' = [file EXCEPT ![f].queue = q]
      /\ Return(t)
      /\ UNCHANGED <<tableVars, memory, clientData, interruptible>>

\* LinuxDriverPoll, which has joined the queue.
Poll(t) ==
  /\ At(t, "poll")
  /\ IF file[thread[t].file].queue = <<>>
     THEN Goto(t, "poll_asleep") /\ UNCHANGED interruptible
     ELSE Return(t) /\ interruptible' = interruptible \ {t}
  /\ UNCHANGED <<tableVars, memory, clientData, file>>

PollWoken(t) ==
  /\ At(t, "poll_asleep") /\ t \notin interruptible
  /\ interruptible' = interruptible \cup {t}
  /\ Goto(t, "poll")
  /\ UNCHANGED <<tableVars, memory, clientData, file>>

\* A signal, or the end of the time to poll.
Interrupted(t) ==
  /\ thread[t].pc \in {"read_asleep", "poll_asleep"}
  /\ interruptible' = interruptible \ {t}
  /\ Return(t)
  /\ UNCHANGED <<tableVars, memory, clientData, file>>

-----------------------------------------------------------------------------
Creates(t) == (\E h \in Handle, e \in Entry : Create(t, h, e)) \/ CreateFails(t) \/ CopyOut(t)
                \/ CopyFails(t)
Destroys(t) ==
  \/ GetResource(t) \/ FindResource(t) \/ UnlinkResource(t) \/ DropResource(t)
  \/ JoinEvent(t) \/ DatagramReleaseCB(t) \/ EventComes(t) \/ FreeEntry(t) \/ Flush(t)
Sends(t) == (\E size \in Sizes : NotifyCB(t, size)) \/ NotifyCBFails(t)
              \/ ReleaseResource(t) \/ DatagramFreeCB(t)
Reads(t) == ReadCallWaits(t) \/ ReadCallWoken(t) \/ ReadCall(t) \/ Poll(t) \/ PollWoken(t)

Continue(t) == Creates(t) \/ Destroys(t) \/ Sends(t) \/ Reads(t)

Call(t) ==
  \/ \E f \in Files : CallCreate(t, f) \/ Close(t, f) \/ \E pc \in Reading : CallRead(t, f, pc)
  \/ \E e \in Entry, h \in Handle, permitted \in BOOLEAN : Dispatch(t, e, h, permitted)

Next == \/ \E f \in Files : CloseUnused(f)
        \/ \E t \in Threads : Call(t) \/ Continue(t) \/ Interrupted(t)

Spec == Init /\ [][Next]_vars

\* A thread in the kernel is scheduled.
Fairness == \A t \in Threads : WF_vars(Continue(t))

FairSpec == Spec /\ Fairness

-----------------------------------------------------------------------------
(* Properties                                                              *)

\* Type invariant.
TypeOK ==
  /\ TableTypeOK
  /\ memory \subseteq Entry
  /\ clientData \in [Entry -> Files \cup {NoFile}]
  /\ file \in [Files -> File]
  /\ thread \in [Threads -> Thread]
  /\ interruptible \subseteq Threads

\* Who has a reference to an entry, or wakes its destroyer, has its memory, and
\* who calls back into a process has the process ("We know that we are now the
\* only reference to the above entry so can safely free it" and "We block in
\* destroy so we know that there can be no more callbacks", vmciDatagram.c).
NoUseAfterFree ==
  \A t \in Threads :
    /\ thread[t].pc \in Sending \cup (Destroying \ {"get", "flush"})
         => thread[t].entry \in memory
    /\ At(t, "callback") => file[clientData[thread[t].entry]].allocated

\* A call that destroys a handle returns, whoever has the last reference; a
\* call that reads or polls returns while there is a datagram.
CallsReturn ==
  \A t \in Threads :
    /\ thread[t].pc \in Destroying ~> thread[t].pc \notin Destroying
    /\ \A f \in Files :
         t \in In(f, Reading) /\ file[f].queue # <<>>
           ~> t \notin In(f, Reading) \/ file[f].queue = <<>>

\* A call that makes a file a datagram process returns.
CreatesReturn == \A t \in Threads : At(t, "lock") ~> ~At(t, "lock")
=============================================================================
