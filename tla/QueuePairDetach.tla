-------------------------- MODULE QueuePairDetach --------------------------
(***************************************************************************)
(* One queue pair of the broker, with QueuePair_Detach taken apart into    *)
(* its accesses to the entry.  VMCIQueuePair takes a handler for one step, *)
(* as queuePairList.lock makes it; VMCIContextFreeContext detaches without *)
(* that mutex, so its accesses may fall between those of a handler.        *)
(*                                                                         *)
(* The ends of the entry are context objects here; ids, privileges and     *)
(* pages are in VMCIQueuePair.                                             *)
(***************************************************************************)
EXTENDS Naturals, FiniteSets

CONSTANTS
  Contexts,
  Entries,          \* memory of QueuePairEntry objects
  NoContext, NoEntry,
  FreeAlone         \* are contexts only freed while nobody calls the broker

VARIABLES
  mutex,            \* who holds queuePairList.lock
  list,             \* entries on queuePairList
  entry,            \* [Entries -> QueuePairEntry]
  open,             \* contexts whose file is open
  attached,         \* contexts with the handle in their queuePairArray
  call,             \* [Contexts -> the call that is made for a context]
  oops              \* faults

vars == <<mutex, list, entry, open, attached, call, oops>>

-----------------------------------------------------------------------------
NoMemory == [allocated |-> FALSE, create |-> NoContext, attach |-> NoContext,
             refCount |-> 0, allowAttach |-> FALSE]

Idle == [pc |-> "idle", entry |-> NoEntry, peer |-> NoContext, count |-> 0]

Steps == {"idle", "alloc", "attach", "read_up", "count_up", "find", "drop", "read", "count_down",
          "test", "remove"}

Init ==
  /\ mutex = NoContext
  /\ list = {}
  /\ entry = [e \in Entries |-> NoMemory]
  /\ open = Contexts
  /\ attached = {}
  /\ call = [c \in Contexts |-> Idle]
  /\ oops = {}

Goto(c, pc) == call' = [call EXCEPT ![c].pc = pc]

\* An access to an entry that has been freed.
Touch(e) == oops' = IF entry[e].allocated THEN oops ELSE oops \cup {"freed"}

\* A call on the broker starts: QueuePairList_Lock.
Lock(c, pc) ==
  /\ call[c] = Idle
  /\ c \in open
  /\ mutex = NoContext
  /\ FreeAlone => \A d \in Contexts : call[d] = Idle
  /\ mutex' = c
  /\ Goto(c, pc)
  /\ UNCHANGED <<list, entry, open, attached, oops>>

\* Its end: the array of the context is brought up to date, QueuePairList_Unlock.
Return(c, arrayHasIt) ==
  /\ attached' = IF arrayHasIt THEN attached \cup {c} ELSE attached \ {c}
  /\ mutex' = IF mutex = c THEN NoContext ELSE mutex
  /\ call' = [call EXCEPT ![c] = Idle]

-----------------------------------------------------------------------------
(* QueuePairAllocHost *)

QueuePair_Alloc(c) == c \notin attached /\ Lock(c, "alloc")

\* The create case: the entry is complete when it is linked.
Create(c, e) ==
  /\ call[c].pc = "alloc"
  /\ list = {}
  /\ ~entry[e].allocated
  /\ entry' = [entry EXCEPT ![e] = [allocated |-> TRUE, create |-> c, attach |-> NoContext,
                                    refCount |-> 1, allowAttach |-> TRUE]]
  /\ list' = {e}
  /\ Return(c, TRUE)
  /\ UNCHANGED <<open, oops>>

\* The checks of the attach case; the creator must be there to be notified.
MayAttach(c, e) == entry[e].allowAttach /\ entry[e].create \in open \ {c}

Attach(c, e) ==
  /\ call[c].pc = "alloc"
  /\ e \in list
  /\ IF MayAttach(c, e)
     THEN /\ call' = [call EXCEPT ![c].pc = "attach", ![c].entry = e]
          /\ UNCHANGED <<attached, mutex>>
     ELSE Return(c, FALSE)
  /\ Touch(e)
  /\ UNCHANGED <<list, entry, open>>

AttachEnd(c) ==
  LET e == call[c].entry
  IN  /\ call[c].pc = "attach"
      /\ entry' = [entry EXCEPT ![e].attach = c]
      /\ Goto(c, "read_up")
      /\ Touch(e)
      /\ UNCHANGED <<mutex, list, open, attached>>

\* entry->refCount++ is a read and a write.
AttachRead(c) ==
  LET e == call[c].entry
  IN  /\ call[c].pc = "read_up"
      /\ call' = [call EXCEPT ![c].pc = "count_up", ![c].count = entry[e].refCount]
      /\ Touch(e)
      /\ UNCHANGED <<mutex, list, entry, open, attached>>

AttachCount(c) ==
  LET e == call[c].entry
  IN  /\ call[c].pc = "count_up"
      /\ entry' = [entry EXCEPT ![e].refCount = call[c].count + 1, ![e].allowAttach = FALSE]
      /\ Return(c, TRUE)
      /\ Touch(e)
      /\ UNCHANGED <<list, open>>

-----------------------------------------------------------------------------
(* QueuePair_Detach *)

\* From an ioctl or a kernel client, under the mutex.
Detach(c) == c \in attached /\ Lock(c, "find")

\* From VMCIContextFreeContext, which has no mutex.
FreeContextDetach(c) ==
  /\ call[c] = Idle
  /\ c \in open
  /\ FreeAlone => \A d \in Contexts : call[d] = Idle
  /\ open' = open \ {c}
  /\ IF c \in attached THEN Goto(c, "find") ELSE UNCHANGED call
  /\ UNCHANGED <<mutex, list, entry, attached, oops>>

\* QueuePairList_FindEntry and the check of the ends; peerId is read.
FindEntry(c) ==
  /\ call[c].pc = "find"
  /\ \/ /\ ~\E e \in list : c \in {entry[e].create, entry[e].attach}
        /\ Return(c, FALSE)
     \/ \E e \in list :
          /\ c \in {entry[e].create, entry[e].attach}
          /\ call' = [call EXCEPT ![c].pc = "drop", ![c].entry = e,
                                  ![c].peer = IF entry[e].create = c THEN entry[e].attach
                                              ELSE entry[e].create]
          /\ UNCHANGED <<mutex, attached>>
  /\ UNCHANGED <<list, entry, open, oops>>

DropEnd(c) ==
  LET e == call[c].entry
  IN  /\ call[c].pc = "drop"
      /\ entry' = IF entry[e].create = c THEN [entry EXCEPT ![e].create = NoContext]
                  ELSE [entry EXCEPT ![e].attach = NoContext]
      /\ Goto(c, "read")
      /\ Touch(e)
      /\ UNCHANGED <<mutex, list, open, attached>>

\* entry->refCount-- is a read and a write; for 2^32 - 1 any count that is not in
\* 0..2 will do.
Pred(n) == IF n = 0 THEN 3 ELSE n - 1

ReadCount(c) ==
  LET e == call[c].entry
  IN  /\ call[c].pc = "read"
      /\ call' = [call EXCEPT ![c].pc = "count_down", ![c].count = entry[e].refCount]
      /\ Touch(e)
      /\ UNCHANGED <<mutex, list, entry, open, attached>>

CountDown(c) ==
  LET e == call[c].entry
  IN  /\ call[c].pc = "count_down"
      /\ entry' = [entry EXCEPT ![e].refCount = Pred(call[c].count)]
      /\ Goto(c, "test")
      /\ Touch(e)
      /\ UNCHANGED <<mutex, list, open, attached>>

\* if (!entry->refCount), else ASSERT(peerId != VMCI_INVALID_ID).
TestCount(c) ==
  LET e == call[c].entry
      faults == (IF entry[e].allocated THEN {} ELSE {"freed"})
                \cup (IF entry[e].refCount # 0 /\ call[c].peer = NoContext
                      THEN {"peer"} ELSE {})
  IN  /\ call[c].pc = "test"
      /\ IF entry[e].refCount = 0
         THEN Goto(c, "remove") /\ UNCHANGED <<mutex, attached>>
         ELSE Return(c, FALSE)
      /\ oops' = oops \cup faults
      /\ UNCHANGED <<list, entry, open>>

\* QueuePairList_RemoveEntry and VMCI_FreeKernelMem.
RemoveEntry(c) ==
  LET e == call[c].entry
  IN  /\ call[c].pc = "remove"
      /\ list' = list \ {e}
      /\ entry' = [entry EXCEPT ![e] = NoMemory]
      /\ Return(c, FALSE)
      /\ Touch(e)
      /\ UNCHANGED open

-----------------------------------------------------------------------------
Next ==
  \E c \in Contexts :
    \/ QueuePair_Alloc(c) \/ Detach(c) \/ FreeContextDetach(c)
    \/ \E e \in Entries : Create(c, e) \/ Attach(c, e)
    \/ AttachEnd(c) \/ AttachRead(c) \/ AttachCount(c)
    \/ FindEntry(c) \/ DropEnd(c) \/ ReadCount(c) \/ CountDown(c)
    \/ TestCount(c) \/ RemoveEntry(c)

Spec == Init /\ [][Next]_vars

-----------------------------------------------------------------------------
(* Properties                                                              *)

\* Type correctness.
TypeOK ==
  /\ mutex \in Contexts \cup {NoContext}
  /\ list \in SUBSET Entries
  /\ entry \in [Entries -> [allocated : BOOLEAN, create : Contexts \cup {NoContext},
                            attach : Contexts \cup {NoContext}, refCount : 0..2,
                            allowAttach : BOOLEAN]]
  /\ open \in SUBSET Contexts
  /\ attached \in SUBSET Contexts
  /\ call \in [Contexts -> [pc : Steps, entry : Entries \cup {NoEntry},
                            peer : Contexts \cup {NoContext}, count : 0..2]]
  /\ oops \subseteq {"freed", "peer"}

\* No call reads, writes or frees an entry that was freed before.
NoUseAfterFree == "freed" \notin oops

\* A detach that leaves the other end behind knows who is there:
\* ASSERT(peerId != VMCI_INVALID_ID).
PeerIsKnown == "peer" \notin oops

\* Together the accesses of a handler make one step of QueuePairPairing: an end
\* that is given up is a party that left, whatever becomes of the count.
Ends == UNION {{entry[e].create, entry[e].attach} \ {NoContext} : e \in list}
Pairing == INSTANCE QueuePairPairing WITH
  Party <- Contexts,
  Name <- {"qp"},
  phase <- [n \in {"qp"} |->
              IF Ends = {} THEN "absent"
              ELSE IF \E e \in list : entry[e].allowAttach /\ entry[e].attach = NoContext
                   THEN "open" ELSE "closed"],
  parties <- [n \in {"qp"} |-> Ends]

ImplementsPairing == Pairing!Spec
=============================================================================
