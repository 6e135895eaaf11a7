--------------------------- MODULE VMCIHashTable ---------------------------
(***************************************************************************)
(* The hash table of vmci objects, vmciHashtable.c: reference counted      *)
(* entries under handles.  Buckets and chains only serve to find an entry  *)
(* by its handle, so the table is the set of entries that are linked; all  *)
(* operations run under the table's lock.  Note that HashTableUnlinkEntry  *)
(* finds what it unlinks by its handle, too.                               *)
(*                                                                         *)
(* A module of clients, such as VMCIWellKnownMap, extends this one; every  *)
(* operator below gives the next value of all three variables.             *)
(***************************************************************************)
EXTENDS Naturals, FiniteSets

CONSTANTS
  Handle,
  Entry,            \* memory of entries
  NoHandle, NoEntry

ASSUME HashTableAssumption == NoHandle \notin Handle /\ NoEntry \notin Entry

VARIABLES
  linked,           \* SUBSET Entry: entries on the chains
  entry,            \* [Entry -> VMCIHashEntry], with the memory's allocation
  mistaken          \* ASSERT(cur == entry) of HashTableUnlinkEntry failed

tableVars == <<linked, entry, mistaken>>

-----------------------------------------------------------------------------
NoMemory == [allocated |-> FALSE, handle |-> NoHandle, refCount |-> 0]

TableInit ==
  /\ linked = {}
  /\ entry = [e \in Entry |-> NoMemory]
  /\ mistaken = FALSE

TableTypeOK ==
  /\ linked \in SUBSET Entry
  /\ entry \in [Entry -> [allocated : BOOLEAN, handle : Handle \cup {NoHandle},
                          refCount : Nat]]
  /\ mistaken \in BOOLEAN

Under(h) == {e \in linked : entry[e].handle = h}
EntryExists(h) == Under(h) # {}

\* HashTableUnlinkEntry of e takes what has its handle, be it e or not.
Unlinked(e) == linked \ Under(entry[e].handle)
Mistakes(e) == mistaken \/ Under(entry[e].handle) \ {e} # {}

\* VMCIHashTable_InitEntry and VMCIHashTable_AddEntry of fresh memory, for a
\* handle that is not in the table; a duplicate is freed at once by the caller.
AddEntry(e, h) ==
  /\ ~entry[e].allocated
  /\ ~EntryExists(h)
  /\ linked' = linked \cup {e}
  /\ entry' = [entry EXCEPT ![e] = [allocated |-> TRUE, handle |-> h, refCount |-> 1]]
  /\ UNCHANGED mistaken

\* VMCIHashTable_GetEntry
GetEntry(e, h) ==
  /\ e \in Under(h)
  /\ entry' = [entry EXCEPT ![e].refCount = @ + 1]
  /\ UNCHANGED <<linked, mistaken>>

\* Mutant: the reference of the table is kept when the entry is unlinked.
RemoveEntryKeepsCount(e) ==
  /\ linked' = Unlinked(e)
  /\ mistaken' = Mistakes(e)
  /\ UNCHANGED entry

\* VMCIHashTable_RemoveEntry: the table's own reference goes with the link, and
\* stays where nothing was found to unlink.
RemoveEntry(e) ==
  /\ linked' = Unlinked(e)
  /\ entry' = IF EntryExists(entry[e].handle)
              THEN [entry EXCEPT ![e].refCount = @ - 1] ELSE entry
  /\ mistaken' = Mistakes(e)

\* VMCIHashTable_ReleaseEntry and, when that says VMCI_SUCCESS_ENTRY_DEAD, the
\* caller's VMCI_FreeKernelMem.
ReleaseEntry(e) ==
  LET last == entry[e].refCount = 1
  IN  /\ linked' = IF last THEN Unlinked(e) ELSE linked
      /\ entry' = [entry EXCEPT ![e] = IF last THEN NoMemory
                                       ELSE [@ EXCEPT !.refCount = entry[e].refCount - 1]]
      /\ mistaken' = IF last THEN Mistakes(e) ELSE mistaken
=============================================================================
