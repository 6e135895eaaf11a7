------------------------- MODULE VMCIWellKnownMap -------------------------
(***************************************************************************)
(* Well-known datagram ids: the mappings of vmciDatagram.c from a          *)
(* well-known id to the context that serves it, kept in a VMCIHashTable,   *)
(* and the wellKnownArray in which a context keeps what it has to give up  *)
(* when it dies.                                                           *)
(*                                                                         *)
(* Threads run concurrently; a step is what runs under one lock, that of   *)
(* the table or that of a context.  A context is found by its id, so while *)
(* it is being freed another one may go by the same id.  Whoever runs      *)
(* VMCIContextFreeContext (see VMCIContext) is a thread of its own here.   *)
(* The host context is one that is never closed.                           *)
(***************************************************************************)
EXTENDS VMCIHashTable

CONSTANTS
  Threads,
  Contexts,         \* memory of VMCIContext objects
  Ids,              \* context ids
  NoId, NoContext,
  Mappable,         \* what VMCIWellKnownID_AllowMap and privileges allow:
                    \* pairs of a context and a well-known id, a Handle
  ReuseIds,         \* may the VMX ask for an id that a dead context had
  Overlaps,         \* changes that may start while a call works on the same
                    \* well-known id: "request", "remove"
  AppendMayFail     \* may a handle array fail to grow

ASSUME WellKnownMapAssumption ==
  /\ NoId \notin Ids /\ NoContext \notin Contexts
  /\ Mappable \subseteq Contexts \X Handle
  /\ {ReuseIds, AppendMayFail} \subseteq BOOLEAN
  /\ Overlaps \subseteq {"request", "remove"}
  /\ IsFiniteSet(Threads)

VARIABLES
  contextID,        \* [Entry -> wkMap->contextID]
  context,          \* [Contexts -> state, cid and wellKnownArray]
  call              \* [Threads -> the call that a thread is in]

vars == <<tableVars, contextID, context, call>>

-----------------------------------------------------------------------------
States == {"unused", "open", "closing", "gone"}

\* The array is a bag: how often it holds each well-known id.
EmptyArray == [w \in Handle |-> 0]

Idle == [pc |-> "idle", ctx |-> NoContext, wk |-> NoHandle, entry |-> NoEntry]

Call == [pc : {"idle", "add_well_known", "get", "check", "remove",
               "remove_well_known", "release", "drain"},
         ctx : Contexts \cup {NoContext},
         wk : Handle \cup {NoHandle},
         entry : Entry \cup {NoEntry}]

Init ==
  /\ TableInit
  /\ contextID = [e \in Entry |-> NoId]
  /\ context = [c \in Contexts |-> [state |-> "unused", cid |-> NoId, array |-> EmptyArray]]
  /\ call = [t \in Threads |-> Idle]

Goto(t, pc) == call' = [call EXCEPT ![t].pc = pc]

\* A call from the drain of a dying context goes back there, others return.
Return(t) ==
  call' = [call EXCEPT ![t] =
             IF context[@.ctx].state = "closing"
             THEN [Idle EXCEPT !.pc = "drain", !.ctx = call[t].ctx] ELSE Idle]

\* VMCIContext_Get: contexts on the list are the open ones.
Listed(i) == {c \in Contexts : context[c].state = "open" /\ context[c].cid = i}

Busy(w) == \E t \in Threads : call[t].wk = w
Requesting(w) == \E t \in Threads : call[t].wk = w /\ call[t].pc = "add_well_known"

-----------------------------------------------------------------------------
(* Contexts come and go.                                                   *)

\* VMCIContext_InitContext: the id is not that of a context on the list.
InitContext(c) ==
  /\ context[c].state = "unused"
  /\ \E i \in Ids :
       /\ Listed(i) = {}
       /\ ReuseIds \/ \A d \in Contexts : context[d].cid # i
       /\ context' = [context EXCEPT ![c].state = "open", ![c].cid = i]
  /\ UNCHANGED <<tableVars, contextID, call>>

\* VMCIContext_ReleaseContext, when no ioctl on the file is in progress, up to
\* the loop of VMCIContextFreeContext.
CloseContext(t, c) ==
  /\ call[t] = Idle
  /\ context[c].state = "open"
  /\ \A u \in Threads : call[u].ctx # c
  /\ context' = [context EXCEPT ![c].state = "closing"]
  /\ call' = [call EXCEPT ![t].pc = "drain", ![t].ctx = c]
  /\ UNCHANGED <<tableVars, contextID>>

\* Mutant: the drain takes one well-known id and leaves the others.
DrainOne(t) ==
  LET c == call[t].ctx
  IN  /\ call[t].pc = "drain"
      /\ context' = [context EXCEPT ![c].state = "gone", ![c].array = EmptyArray]
      /\ call' = [call EXCEPT ![t] = Idle]
      /\ UNCHANGED <<tableVars, contextID>>

\* VMCIContextFreeContext: VMCIHandleArray_RemoveTail and, for the id it takes,
\* VMCIDatagramRemoveWellKnownMap; with an empty array the context is freed.
Drain(t) ==
  LET c == call[t].ctx
  IN  /\ call[t].pc = "drain"
      /\ \/ \E w \in Handle :
              /\ context[c].array[w] > 0
              /\ context' = [context EXCEPT ![c].array[w] = @ - 1]
              /\ call' = [call EXCEPT ![t].pc = "get", ![t].wk = w]
         \/ /\ context[c].array = EmptyArray
            /\ context' = [context EXCEPT ![c].state = "gone"]
            /\ call' = [call EXCEPT ![t] = Idle]
      /\ UNCHANGED <<tableVars, contextID>>

-----------------------------------------------------------------------------
(* VMCIDatagramRequestWellKnownMap                                         *)

\* Up to VMCIHashTable_AddEntry; a duplicate or a failed allocation is an error.
Request(t, c, w, e) ==
  /\ call[t] = Idle
  /\ context[c].state = "open"
  /\ <<c, w>> \in Mappable
  /\ "request" \in Overlaps \/ ~Busy(w)
  /\ AddEntry(e, w)
  /\ contextID' = [contextID EXCEPT ![e] = context[c].cid]
  /\ call' = [call EXCEPT ![t] = [pc |-> "add_well_known", ctx |-> c, wk |-> w, entry |-> e]]
  /\ UNCHANGED context

\* VMCIContext_AddWellKnown with the VMCIContext_Get in it, which finds the
\* context while its ioctl runs; the array says nothing when it cannot grow.
AddWellKnown(t) ==
  /\ call[t].pc = "add_well_known"
  /\ \E c \in Listed(context[call[t].ctx].cid),
        n \in IF AppendMayFail THEN {0, 1} ELSE {1} :
       context' = [context EXCEPT ![c].array[call[t].wk] = @ + n]
  /\ call' = [call EXCEPT ![t] = Idle]
  /\ UNCHANGED <<tableVars, contextID>>

-----------------------------------------------------------------------------
(* VMCIDatagramRemoveWellKnownMap and the two lookups of a dispatch        *)

Remove(t, c, w) ==
  /\ call[t] = Idle
  /\ context[c].state = "open"
  /\ "remove" \in Overlaps \/ ~Requesting(w)
  /\ call' = [call EXCEPT ![t] = [pc |-> "get", ctx |-> c, wk |-> w, entry |-> NoEntry]]
  /\ UNCHANGED <<tableVars, contextID, context>>

\* DatagramGetWellKnownMap
GetWellKnownMap(t) ==
  /\ call[t].pc = "get"
  /\ \/ /\ ~EntryExists(call[t].wk)
        /\ Return(t)
        /\ UNCHANGED tableVars
     \/ \E e \in Entry :
          /\ GetEntry(e, call[t].wk)
          /\ call' = [call EXCEPT ![t].pc = "check", ![t].entry = e]
  /\ UNCHANGED <<contextID, context>>

\* The mapping must be the caller's; contextID does not change while it exists.
CheckOwner(t) ==
  /\ call[t].pc = "check"
  /\ Goto(t, IF contextID[call[t].entry] = context[call[t].ctx].cid
             THEN "remove" ELSE "release")
  /\ UNCHANGED <<tableVars, contextID, context>>

RemoveMapping(t) ==
  /\ call[t].pc = "remove"
  /\ RemoveEntry(call[t].entry)
  /\ Goto(t, "remove_well_known")
  /\ UNCHANGED <<contextID, context>>

\* VMCIContext_RemoveWellKnown of the context that has the id now.
RemoveWellKnown(t) ==
  /\ call[t].pc = "remove_well_known"
  /\ context' = [c \in Contexts |->
       IF c \in Listed(context[call[t].ctx].cid) /\ context[c].array[call[t].wk] > 0
       THEN [context[c] EXCEPT !.array[call[t].wk] = @ - 1] ELSE context[c]]
  /\ Goto(t, "release")
  /\ UNCHANGED <<tableVars, contextID>>

\* VMCIDatagram_Dispatch looks a well-known source or destination up; what it
\* reads from the mapping is fixed, so the lookup only has a reference.
Lookup(t, c, w) ==
  /\ call[t] = Idle
  /\ context[c].state = "open"
  /\ \E e \in Entry :
       /\ GetEntry(e, w)
       /\ call' = [call EXCEPT ![t] = [pc |-> "release", ctx |-> c, wk |-> w, entry |-> e]]
  /\ UNCHANGED <<contextID, context>>

\* DatagramReleaseWellKnownMap
ReleaseWellKnownMap(t) ==
  /\ call[t].pc = "release"
  /\ ReleaseEntry(call[t].entry)
  /\ Return(t)
  /\ UNCHANGED <<contextID, context>>

-----------------------------------------------------------------------------
Next ==
  \/ \E c \in Contexts : InitContext(c)
  \/ \E t \in Threads :
       \/ \E c \in Contexts :
            \/ CloseContext(t, c)
            \/ \E w \in Handle :
                 \/ \E e \in Entry : Request(t, c, w, e)
                 \/ Remove(t, c, w)
                 \/ Lookup(t, c, w)
       \/ Drain(t) \/ AddWellKnown(t)
       \/ GetWellKnownMap(t) \/ CheckOwner(t) \/ RemoveMapping(t)
       \/ RemoveWellKnown(t) \/ ReleaseWellKnownMap(t)

Spec == Init /\ [][Next]_vars

-----------------------------------------------------------------------------
(* Properties                                                              *)

\* Type correctness.
TypeOK ==
  /\ TableTypeOK
  /\ contextID \in [Entry -> Ids \cup {NoId}]
  /\ context \in [Contexts -> [state : States, cid : Ids \cup {NoId},
                               array : [Handle -> Nat]]]
  /\ call \in [Threads -> Call]

\* The count of an entry is the number of calls that hold it, and one for its
\* link in the table: it is freed when, and only when, it is in no use.
Holders(e) ==
  {t \in Threads : call[t].entry = e /\ call[t].pc # "add_well_known"}

RefCountIsHolders ==
  \A e \in Entry :
    /\ entry[e].allocated <=> (e \in linked \/ Holders(e) # {})
    /\ entry[e].refCount = Cardinality(Holders(e)) + (IF e \in linked THEN 1 ELSE 0)

\* HashTableUnlinkEntry finds an entry by its handle and must find the one it
\* was given: ASSERT(cur == entry).
UnlinksItsEntry == ~mistaken

\* A context that is gone has left no mapping: each mapping in the table is in
\* the array of a context that has the id, or in the hands of a call that is
\* about to put it there, or of the dying context's drain.
MappingsAreRecorded ==
  \A e \in linked :
    \/ \E c \in Contexts :
         /\ context[c].cid = contextID[e]
         /\ context[c].state \in {"open", "closing"}
         /\ context[c].array[entry[e].handle] > 0
    \/ \E t \in Threads :
         /\ call[t].wk = entry[e].handle
         /\ call[t].pc = "add_well_known"
              \/ /\ call[t].pc \in {"get", "check", "remove"}
                 /\ context[call[t].ctx].state = "closing"
         /\ context[call[t].ctx].cid = contextID[e]

\* A mapping leaves the table in a call of the context that requested it.
\* Contexts that share an id are told apart by who recorded the mapping.
OnlyTheOwnerUnmaps ==
  [][\A e \in linked \ linked' :
       \A c \in Contexts :
         /\ context[c].state = "open"
         /\ context[c].cid = contextID[e]
         /\ context[c].array[entry[e].handle] > 0
         => \E t \in Threads : call[t].ctx = c /\ call[t].entry = e]_vars
=============================================================================
