------------------------ MODULE VMCIQueuePair_proofs ------------------------
(***************************************************************************)
(* Proofs about the queue pair broker, for any number of contexts, ids and *)
(* handles.                                                                *)
(*                                                                         *)
(* EntryInv is the invariant of the entries alone: it gives the reference  *)
(* counts.  Rendezvous, which builds on it, says who shares an entry, and  *)
(* gives the privileges and the refinement; PinsInv gives the pages.       *)
(***************************************************************************)
EXTENDS VMCIQueuePair, TLAPS

\* What an entry on the list always satisfies.
EndsOK(e) ==
  /\ e.refCount = (IF e.createId # NoId THEN 1 ELSE 0)
                + (IF e.attachId # NoId THEN 1 ELSE 0)
  /\ e.createId # e.attachId
  /\ e.allowAttach => e.attachId = NoId

EntryInv ==
  \A h \in Handle : IF h \in queuePairList THEN EndsOK(entry[h])
                                           ELSE entry[h] = Blank

\* Pages an entry points to have been pinned and not yet been given back.
PinsCover == \A h \in Handle : entry[h].pages = "pinned" => pins[h] # 0

\* A context off the list that has been freed, or was never made, is empty.
FreeIsEmpty ==
  \A c \in Context : /\ life[c] = "free" => queuePairArray[c] = {}
                     /\ life[c] # "free" => cid[c] \in Cid

Inv == TypeOK /\ EntryInv /\ PinsCover /\ FreeIsEmpty

-----------------------------------------------------------------------------
\* A freed entry is an entry.
LEMMA BlankType == Blank \in Entry
  BY DEF Blank, Entry, Id, Pages

\* The entry of the create case is well formed.
LEMMA NewEntryOK ==
  ASSUME TypeOK, NEW c \in Context, cid[c] \in Cid, NEW peer \in Id,
         NEW produce \in Size, NEW consume \in Size, NEW trusted \in BOOLEAN
  PROVE  LET e == NewEntry(c, peer, produce, consume, trusted)
         IN  /\ e \in Entry /\ EndsOK(e) /\ e.refCount = 1
             /\ e.pages = "none" /\ e.createId = cid[c] /\ e.attachId = NoId
  BY IdAssumption DEF TypeOK, NewEntry, Blank, Entry, EndsOK, Id, Pages

\* The assignments of the attach case keep an open entry well formed.
LEMMA AttachEntryOK ==
  ASSUME TypeOK, NEW c \in Context, cid[c] \in Cid,
         NEW e \in Entry, EndsOK(e), e.refCount # 0, e.allowAttach,
         cid[c] \notin {e.createId, e.attachId}
  PROVE  LET f == AttachEntry(e, c)
         IN  /\ f \in Entry /\ EndsOK(f) /\ f.refCount = 2
             /\ f.pages = e.pages /\ f.createId = e.createId
             /\ f.attachId = cid[c] /\ ~f.allowAttach
<1> DEFINE f == AttachEntry(e, c)
<1>1. e.attachId = NoId /\ e.createId # NoId /\ e.refCount = 1
  BY DEF EndsOK, Entry
<1>2. f = [e EXCEPT !.attachId = cid[c], !.refCount = 2, !.allowAttach = FALSE]
  BY <1>1 DEF AttachEntry, Entry
<1>3. f \in Entry
  <2>1. cid[c] \in Id /\ 2 \in 0..2
    BY DEF Id
  <2> QED
    BY <1>2, <2>1 DEF Entry
<1>4. /\ f.pages = e.pages /\ f.createId = e.createId /\ f.attachId = cid[c]
      /\ f.refCount = 2 /\ f.allowAttach = FALSE
  BY <1>2 DEF Entry
<1>5. EndsOK(f)
  BY <1>1, <1>4, IdAssumption DEF EndsOK, Id
<1> QED
  BY <1>3, <1>4, <1>5

\* Giving up an end keeps an entry well formed.
LEMMA DropEndOK ==
  ASSUME NEW e \in Entry, EndsOK(e), NEW i \in Cid, i \in {e.createId, e.attachId}
  PROVE  LET f == DropEnd(e, i)
         IN  /\ f \in Entry /\ (f.refCount # 0 => EndsOK(f))
             /\ f.pages = e.pages
             /\ {f.createId, f.attachId} \ {NoId} = {e.createId, e.attachId} \ {NoId, i}
             /\ f.refCount = 0 <=> (f.createId = NoId /\ f.attachId = NoId)
<1> DEFINE f == DropEnd(e, i)
<1>0. i # NoId /\ NoId \in Id
  BY IdAssumption DEF Id
<1>1. CASE e.createId = i
  <2>1. e.refCount - 1 = (IF e.attachId # NoId THEN 1 ELSE 0) /\ e.refCount - 1 \in 0..2
    BY <1>0, <1>1 DEF EndsOK
  <2>2. f = [e EXCEPT !.createId = NoId, !.refCount = e.refCount - 1]
    BY <1>1 DEF DropEnd
  <2>3. f \in Entry
    BY <1>0, <2>1, <2>2 DEF Entry
  <2>4. /\ f.pages = e.pages /\ f.createId = NoId /\ f.attachId = e.attachId
        /\ f.refCount = e.refCount - 1 /\ f.allowAttach = e.allowAttach
    BY <2>2 DEF Entry
  <2>5. f.refCount # 0 => EndsOK(f)
    BY <1>0, <1>1, <2>1, <2>4 DEF EndsOK
  <2>6. {f.createId, f.attachId} \ {NoId} = {e.createId, e.attachId} \ {NoId, i}
    BY <1>1, <2>4 DEF EndsOK
  <2>7. f.refCount = 0 <=> (f.createId = NoId /\ f.attachId = NoId)
    BY <2>1, <2>4
  <2> QED
    BY <2>3, <2>4, <2>5, <2>6, <2>7
<1>2. CASE e.createId # i
  <2>1. e.refCount - 1 = (IF e.createId # NoId THEN 1 ELSE 0) /\ e.refCount - 1 \in 0..2
    BY <1>0, <1>2 DEF EndsOK
  <2>2. f = [e EXCEPT !.attachId = NoId, !.refCount = e.refCount - 1]
    BY <1>2 DEF DropEnd
  <2>3. f \in Entry
    BY <1>0, <2>1, <2>2 DEF Entry
  <2>4. /\ f.pages = e.pages /\ f.attachId = NoId /\ f.createId = e.createId
        /\ f.refCount = e.refCount - 1 /\ f.allowAttach = e.allowAttach
    BY <2>2 DEF Entry
  <2>5. f.refCount # 0 => EndsOK(f)
    BY <1>0, <1>2, <2>1, <2>4 DEF EndsOK
  <2>6. {f.createId, f.attachId} \ {NoId} = {e.createId, e.attachId} \ {NoId, i}
    BY <1>2, <2>4
  <2>7. f.refCount = 0 <=> (f.createId = NoId /\ f.attachId = NoId)
    BY <2>1, <2>4
  <2> QED
    BY <2>3, <2>4, <2>5, <2>6, <2>7
<1> QED
  BY <1>1, <1>2

\* Whatever is put in the place of an entry, the entries stay well formed.
LEMMA PutOK ==
  ASSUME TypeOK, EntryInv, NEW h \in Handle, NEW e \in Entry,
         e.refCount # 0 => EndsOK(e), Put(h, e)
  PROVE  /\ queuePairList' \in SUBSET Handle
         /\ entry' \in [Handle -> Entry]
         /\ EntryInv'
         /\ entry' = [entry EXCEPT ![h] = IF e.refCount = 0 THEN Blank ELSE e]
         /\ \A g \in Handle \ {h} : (g \in queuePairList' <=> g \in queuePairList)
         /\ h \in queuePairList' <=> e.refCount # 0
<1>1. CASE e.refCount = 0
  <2>1. queuePairList' = queuePairList \ {h} /\ entry' = [entry EXCEPT ![h] = Blank]
    BY <1>1 DEF Put
  <2> QED
    BY <1>1, <2>1, BlankType DEF TypeOK, EntryInv
<1>2. CASE e.refCount # 0
  <2>1. queuePairList' = queuePairList \cup {h} /\ entry' = [entry EXCEPT ![h] = e]
    BY <1>2 DEF Put
  <2> QED
    BY <1>2, <2>1 DEF TypeOK, EntryInv
<1> QED
  BY <1>1, <1>2

\* Recording a handle in an array, or failing to, keeps the types.
LEMMA AppendOK ==
  ASSUME TypeOK, NEW c \in Context, NEW h \in Handle, NEW recorded \in BOOLEAN,
         Append(c, h, recorded)
  PROVE  /\ queuePairArray' \in [Context -> SUBSET Handle]
         /\ capacity' \in [Context -> Nat]
         /\ UNCHANGED <<life, cid, hostQP, restricted>>
         /\ \A d \in Context : d # c => queuePairArray'[d] = queuePairArray[d]
  BY DEF TypeOK, Append

\* The initial state satisfies the invariant.
LEMMA InitInv == Init => Inv
<1> SUFFICES ASSUME Init PROVE Inv
  OBVIOUS
<1>1. TypeOK
  BY BlankType, ContextAssumption, IdAssumption, CapacityAssumption
  DEF Init, TypeOK, Context, Cid, Id, Life, Oops
<1>2. EntryInv /\ PinsCover
  BY DEF Init, EntryInv, PinsCover, Blank
<1>3. FreeIsEmpty
  BY DEF Init, FreeIsEmpty, Cid, Context
<1> QED
  BY <1>1, <1>2, <1>3 DEF Inv

\* Creating a queue pair preserves the invariant.
LEMMA CreateInv ==
  ASSUME Inv, NEW c \in Context, NEW h \in Handle, NEW peer \in Id,
         NEW produce \in Size, NEW consume \in Size,
         NEW trusted \in BOOLEAN, NEW recorded \in BOOLEAN,
         Create(c, h, peer, produce, consume, trusted, recorded)
  PROVE  Inv'
<1> DEFINE e == NewEntry(c, peer, produce, consume, trusted)
<1>0. life[c] = "listed" /\ cid[c] \in Cid
  BY DEF Create, Inv, FreeIsEmpty
<1>1. e \in Entry /\ EndsOK(e) /\ e.refCount = 1 /\ e.pages = "none"
  BY <1>0, NewEntryOK DEF Inv
<1>2. /\ Put(h, e) /\ Append(c, h, recorded) /\ UNCHANGED <<pins, oops>>
      /\ attachTrusted' = [attachTrusted EXCEPT ![h] = FALSE]
  BY DEF Create
<1> HIDE DEF e
<1>3. /\ queuePairList' \in SUBSET Handle /\ entry' \in [Handle -> Entry] /\ EntryInv'
      /\ entry' = [entry EXCEPT ![h] = e]
  BY <1>1, <1>2, PutOK DEF Inv
<1>4. /\ queuePairArray' \in [Context -> SUBSET Handle] /\ capacity' \in [Context -> Nat]
      /\ UNCHANGED <<life, cid, hostQP, restricted>>
      /\ \A d \in Context : d # c => queuePairArray'[d] = queuePairArray[d]
  BY <1>2, AppendOK DEF Inv
<1>5. TypeOK'
  BY <1>2, <1>3, <1>4 DEF Inv, TypeOK
<1>6. PinsCover'
  BY <1>1, <1>2, <1>3 DEF Inv, PinsCover, TypeOK
<1>7. FreeIsEmpty'
  BY <1>0, <1>4 DEF Inv, FreeIsEmpty
<1> QED
  BY <1>3, <1>5, <1>6, <1>7 DEF Inv

\* An attach that is permitted finds an open entry on the list.
LEMMA MayAttachOK ==
  ASSUME Inv, NEW c \in Context, NEW h \in Handle, NEW trusted \in BOOLEAN,
         AttachPermitted(c, h, trusted)
  PROVE  /\ h \in queuePairList /\ entry[h] \in Entry /\ EndsOK(entry[h])
         /\ entry[h].refCount # 0 /\ entry[h].allowAttach
         /\ cid[c] \notin {entry[h].createId, entry[h].attachId}
<1>1. h \in queuePairList /\ entry[h].allowAttach
      /\ cid[c] \notin {entry[h].createId, entry[h].attachId}
  BY DEF AttachPermitted
<1>2. entry[h] \in Entry /\ EndsOK(entry[h])
  BY <1>1 DEF Inv, TypeOK, EntryInv
<1>3. entry[h].refCount # 0
  BY <1>2 DEF EndsOK
<1> QED
  BY <1>1, <1>2, <1>3

\* Attaching to a queue pair preserves the invariant.
LEMMA AttachInv ==
  ASSUME Inv, NEW c \in Context, NEW h \in Handle,
         NEW produce \in Size, NEW consume \in Size,
         NEW trusted \in BOOLEAN, NEW recorded \in BOOLEAN,
         Attach(c, h, produce, consume, trusted, recorded)
  PROVE  Inv'
<1> DEFINE e == AttachEntry(entry[h], c)
<1>0. life[c] = "listed" /\ cid[c] \in Cid /\ AttachPermitted(c, h, trusted)
  BY DEF Attach, Inv, FreeIsEmpty, MayAttach
<1>1. e \in Entry /\ EndsOK(e) /\ e.refCount = 2 /\ e.pages = entry[h].pages
  <2>1. /\ entry[h] \in Entry /\ EndsOK(entry[h])
        /\ entry[h].refCount # 0 /\ entry[h].allowAttach
        /\ cid[c] \notin {entry[h].createId, entry[h].attachId}
    BY <1>0, MayAttachOK
  <2>2. TypeOK /\ cid[c] \in Cid
    BY <1>0 DEF Inv
  <2> QED
    BY <2>1, <2>2, AttachEntryOK
<1>2. /\ Put(h, e) /\ Append(c, h, recorded) /\ UNCHANGED <<pins, oops>>
      /\ attachTrusted' = [attachTrusted EXCEPT ![h] = trusted]
  BY DEF Attach
<1> HIDE DEF e
<1>3. /\ queuePairList' \in SUBSET Handle /\ entry' \in [Handle -> Entry] /\ EntryInv'
      /\ entry' = [entry EXCEPT ![h] = e]
  BY <1>1, <1>2, PutOK DEF Inv
<1>4. /\ queuePairArray' \in [Context -> SUBSET Handle] /\ capacity' \in [Context -> Nat]
      /\ UNCHANGED <<life, cid, hostQP, restricted>>
      /\ \A d \in Context : d # c => queuePairArray'[d] = queuePairArray[d]
  BY <1>2, AppendOK DEF Inv
<1>5. TypeOK'
  BY <1>2, <1>3, <1>4 DEF Inv, TypeOK
<1>6. PinsCover'
  BY <1>1, <1>2, <1>3 DEF Inv, PinsCover, TypeOK
<1>7. FreeIsEmpty'
  BY <1>0, <1>4 DEF Inv, FreeIsEmpty
<1> QED
  BY <1>3, <1>5, <1>6, <1>7 DEF Inv

\* Undoing a creation preserves the invariant.
LEMMA UndoCreateInv ==
  ASSUME Inv, NEW c \in Context, NEW h \in Handle, NEW peer \in Id,
         NEW produce \in Size, NEW consume \in Size, NEW recorded \in BOOLEAN,
         UndoCreate(c, h, peer, produce, consume, recorded)
  PROVE  Inv'
<1> DEFINE e == NewEntry(c, peer, produce, consume, FALSE)
<1>0. life[c] = "listed" /\ cid[c] \in Cid
  BY DEF UndoCreate, Inv, FreeIsEmpty
<1>1. e \in Entry /\ EndsOK(e) /\ e.refCount = 1 /\ e.pages = "none"
  BY <1>0, NewEntryOK, ZenonT(120) DEF Inv
<1>2. UNCHANGED <<life, cid, hostQP, restricted, queuePairArray, pins>>
  BY DEF UndoCreate
<1>3. capacity' \in [Context -> Nat]
  <2>1. /\ recorded => capacity' = [capacity EXCEPT ![c] =
                         IF Cardinality(queuePairArray[c]) >= @ THEN 2 * @ ELSE @]
        /\ ~recorded => capacity' = capacity
    BY DEF UndoCreate
  <2>2. capacity \in [Context -> Nat]
    BY DEF Inv, TypeOK
  <2> QED
    BY <2>1, <2>2
<1>4. CASE recorded
  <2>1. UNCHANGED <<queuePairList, entry, attachTrusted, oops>>
    BY <1>4 DEF UndoCreate, qpVars
  <2>2. TypeOK'
    BY <1>2, <1>3, <2>1 DEF Inv, TypeOK
  <2>3. EntryInv' /\ PinsCover' /\ FreeIsEmpty'
    BY <1>2, <2>1 DEF Inv, EntryInv, PinsCover, FreeIsEmpty
  <2> QED
    BY <2>2, <2>3 DEF Inv
<1>5. CASE ~recorded
  <2>1. Put(h, e) /\ attachTrusted' = [attachTrusted EXCEPT ![h] = FALSE]
        /\ oops' = "assert_detach"
    BY <1>5 DEF UndoCreate
  <2> HIDE DEF e
  <2>2. /\ queuePairList' \in SUBSET Handle /\ entry' \in [Handle -> Entry] /\ EntryInv'
        /\ entry' = [entry EXCEPT ![h] = e]
    BY <1>1, <2>1, PutOK DEF Inv
  <2>3. TypeOK'
    BY <1>2, <1>3, <2>1, <2>2 DEF Inv, TypeOK, Oops
  <2>4. PinsCover'
    BY <1>1, <1>2, <2>2 DEF Inv, PinsCover, TypeOK
  <2>5. FreeIsEmpty'
    BY <1>2 DEF Inv, FreeIsEmpty
  <2> QED
    BY <2>2, <2>3, <2>4, <2>5 DEF Inv
<1> QED
  BY <1>4, <1>5

\* Undoing an attach preserves the invariant.
LEMMA UndoAttachInv ==
  ASSUME Inv, NEW c \in Context, NEW h \in Handle,
         NEW produce \in Size, NEW consume \in Size, NEW recorded \in BOOLEAN,
         UndoAttach(c, h, produce, consume, recorded)
  PROVE  Inv'
<1> DEFINE a == AttachEntry(entry[h], c)
<1> DEFINE e == IF recorded THEN DropEnd(a, cid[c]) ELSE a
<1>0. life[c] = "listed" /\ cid[c] \in Cid /\ AttachPermitted(c, h, FALSE)
  BY DEF UndoAttach, Inv, FreeIsEmpty, MayAttach
<1>1. /\ a \in Entry /\ EndsOK(a) /\ a.refCount = 2 /\ a.pages = entry[h].pages
      /\ cid[c] \in {a.createId, a.attachId}
  <2>1. /\ entry[h] \in Entry /\ EndsOK(entry[h])
        /\ entry[h].refCount # 0 /\ entry[h].allowAttach
        /\ cid[c] \notin {entry[h].createId, entry[h].attachId}
    BY <1>0, MayAttachOK
  <2>2. TypeOK /\ cid[c] \in Cid
    BY <1>0 DEF Inv
  <2>3. /\ a \in Entry /\ EndsOK(a) /\ a.refCount = 2
        /\ a.pages = entry[h].pages /\ a.attachId = cid[c]
    BY <2>1, <2>2, AttachEntryOK
  <2> QED
    BY <2>3
<1>2. /\ Put(h, e)
      /\ UNCHANGED <<life, cid, hostQP, restricted, queuePairArray, pins>>
      /\ attachTrusted' = [attachTrusted EXCEPT ![h] = FALSE]
      /\ oops' = IF recorded THEN oops ELSE "assert_detach"
  BY DEF UndoAttach
<1>3. capacity' \in [Context -> Nat]
  <2>1. /\ recorded => capacity' = [capacity EXCEPT ![c] =
                         IF Cardinality(queuePairArray[c]) >= @ THEN 2 * @ ELSE @]
        /\ ~recorded => capacity' = capacity
    BY DEF UndoAttach
  <2>2. capacity \in [Context -> Nat]
    BY DEF Inv, TypeOK
  <2> QED
    BY <2>1, <2>2
<1> HIDE DEF a
<1>4. e \in Entry /\ (e.refCount # 0 => EndsOK(e)) /\ e.pages = entry[h].pages
  BY <1>0, <1>1, DropEndOK
<1> HIDE DEF e
<1>5. /\ queuePairList' \in SUBSET Handle /\ entry' \in [Handle -> Entry] /\ EntryInv'
      /\ entry' = [entry EXCEPT ![h] = IF e.refCount = 0 THEN Blank ELSE e]
  BY <1>2, <1>4, PutOK DEF Inv
<1>6. TypeOK'
  BY <1>2, <1>3, <1>5 DEF Inv, TypeOK, Oops
<1>7. PinsCover'
  BY <1>2, <1>4, <1>5 DEF Inv, PinsCover, TypeOK, Blank
<1>8. FreeIsEmpty'
  BY <1>2 DEF Inv, FreeIsEmpty
<1> QED
  BY <1>5, <1>6, <1>7, <1>8 DEF Inv

\* Registering the pages preserves the invariant.
LEMMA SetPageStoreInv ==
  ASSUME Inv, NEW c \in Context, NEW h \in Handle, NEW pages \in Pages,
         SetPageStore(c, h, pages)
  PROVE  Inv'
<1> DEFINE e == [entry[h] EXCEPT !.pageStoreSet = TRUE, !.pages = pages]
<1>1. /\ h \in queuePairList
      /\ UNCHANGED <<life, cid, hostQP, restricted, queuePairArray, capacity,
                     queuePairList, attachTrusted, oops>>
      /\ pins' = IF pages = "pinned" THEN [pins EXCEPT ![h] = @ + 1] ELSE pins
  BY DEF SetPageStore, ctxVars
<1>2. entry[h] \in Entry /\ EndsOK(entry[h])
  BY <1>1 DEF Inv, TypeOK, EntryInv
<1>3. entry' = [entry EXCEPT ![h] = e]
  BY DEF SetPageStore
<1>4. e \in Entry
  BY <1>2 DEF Entry
<1>5. /\ e.pages = pages /\ e.createId = entry[h].createId /\ e.refCount = entry[h].refCount
      /\ e.attachId = entry[h].attachId /\ e.allowAttach = entry[h].allowAttach
  BY <1>2 DEF Entry
<1> HIDE DEF e
<1>6. EndsOK(e)
  BY <1>2, <1>5 DEF EndsOK
<1>7. TypeOK'
  BY <1>1, <1>3, <1>4 DEF Inv, TypeOK
<1>8. EntryInv'
  BY <1>1, <1>3, <1>6 DEF Inv, EntryInv, TypeOK
<1>9. PinsCover'
  BY <1>1, <1>3, <1>5 DEF Inv, PinsCover, TypeOK
<1>10. FreeIsEmpty'
  BY <1>1 DEF Inv, FreeIsEmpty
<1> QED
  BY <1>7, <1>8, <1>9, <1>10 DEF Inv

\* Giving up an end preserves the invariant.
LEMMA DetachEndInv ==
  ASSUME Inv, NEW c \in Context, NEW h \in Handle, cid[c] \in Cid,
         IsEnd(h, cid[c]), DetachEnd(c, h)
  PROVE  Inv'
<1> DEFINE e == DropEnd(entry[h], cid[c])
<1>1. /\ Put(h, e) /\ ReleasePages(c, h, e)
      /\ queuePairArray' = [queuePairArray EXCEPT ![c] = @ \ {h}]
      /\ UNCHANGED <<life, cid, hostQP, restricted, capacity, attachTrusted>>
  BY DEF DetachEnd
<1>2. entry[h] \in Entry /\ EndsOK(entry[h])
      /\ cid[c] \in {entry[h].createId, entry[h].attachId}
  BY DEF Inv, TypeOK, EntryInv, IsEnd
<1>3. e \in Entry /\ (e.refCount # 0 => EndsOK(e)) /\ e.pages = entry[h].pages
  BY <1>2, DropEndOK
<1> HIDE DEF e
<1>4. /\ queuePairList' \in SUBSET Handle /\ entry' \in [Handle -> Entry] /\ EntryInv'
      /\ entry' = [entry EXCEPT ![h] = IF e.refCount = 0 THEN Blank ELSE e]
  BY <1>1, <1>3, PutOK DEF Inv
<1>5. /\ pins' \in [Handle -> Nat] /\ oops' \in Oops
      /\ \A g \in Handle \ {h} : pins'[g] = pins[g]
      /\ e.refCount # 0 => pins'[h] = pins[h]
  <2>1. entry[h].pages = "pinned" => pins[h] - 1 \in Nat
    BY DEF Inv, TypeOK, PinsCover
  <2>2. pins \in [Handle -> Nat] /\ oops \in Oops
    BY DEF Inv, TypeOK
  <2> QED
    BY <1>1, <1>3, <2>1, <2>2 DEF ReleasePages, Oops
<1>6. TypeOK'
  BY <1>1, <1>4, <1>5 DEF Inv, TypeOK
<1>7. PinsCover'
  BY <1>3, <1>4, <1>5 DEF Inv, PinsCover, TypeOK, Blank
<1>8. FreeIsEmpty'
  BY <1>1 DEF Inv, FreeIsEmpty, TypeOK
<1> QED
  BY <1>4, <1>6, <1>7, <1>8 DEF Inv

\* The life of a context preserves the invariant.
LEMMA NextContextInv ==
  ASSUME Inv, NEW c \in Guest, NextContext(c)
  PROVE  Inv'
<1>0. c \in Context
  BY DEF Context
<1>1. ASSUME NEW i \in GuestCid, NEW h \in HostQPSupport, NEW r \in Restrictions,
             InitContext(c, i, h, r)
      PROVE  Inv'
  <2>1. UNCHANGED <<queuePairList, entry, attachTrusted, pins, oops>>
    BY <1>1 DEF InitContext, qpVars
  <2>2. i \in Cid /\ i \in Id /\ h \in BOOLEAN /\ r \in BOOLEAN /\ "listed" \in Life
    BY EnvironmentAssumption DEF Cid, Id, Life
  <2>3. TypeOK'
    BY <1>0, <1>1, <2>1, <2>2, CapacityAssumption DEF InitContext, Inv, TypeOK
  <2>4. EntryInv' /\ PinsCover'
    BY <2>1 DEF Inv, EntryInv, PinsCover
  <2>5. FreeIsEmpty'
    BY <1>0, <1>1, <2>2 DEF InitContext, Inv, TypeOK, FreeIsEmpty
  <2> QED
    BY <2>3, <2>4, <2>5 DEF Inv
<1>2. CASE ReleaseContext(c)
  <2>1. /\ UNCHANGED <<cid, hostQP, restricted, queuePairArray, capacity,
                       queuePairList, entry, attachTrusted, pins, oops>>
        /\ life[c] = "listed" /\ life' = [life EXCEPT ![c] = "dying"]
    BY <1>2 DEF ReleaseContext, qpVars
  <2>2. TypeOK'
    BY <1>0, <2>1 DEF Inv, TypeOK, Life
  <2>3. EntryInv' /\ PinsCover' /\ FreeIsEmpty'
    BY <1>0, <2>1 DEF Inv, TypeOK, EntryInv, PinsCover, FreeIsEmpty
  <2> QED
    BY <2>2, <2>3 DEF Inv
<1>3. ASSUME NEW h \in Handle, FreeContextDetach(c, h)
      PROVE  Inv'
  <2>1. CASE IsEnd(h, cid[c])
    <3>1. DetachEnd(c, h) /\ cid[c] \in Cid
      BY <1>0, <1>3, <2>1 DEF FreeContextDetach, Inv, FreeIsEmpty
    <3> QED
      BY <1>0, <2>1, <3>1, DetachEndInv
  <2>2. CASE ~IsEnd(h, cid[c])
    <3>1. /\ UNCHANGED <<life, cid, hostQP, restricted, capacity,
                         queuePairList, entry, attachTrusted, pins, oops>>
          /\ queuePairArray' = [queuePairArray EXCEPT ![c] = @ \ {h}]
      BY <1>3, <2>2 DEF FreeContextDetach, qpVars
    <3>2. TypeOK'
      BY <1>0, <3>1 DEF Inv, TypeOK
    <3>3. EntryInv' /\ PinsCover' /\ FreeIsEmpty'
      BY <1>0, <3>1 DEF Inv, TypeOK, EntryInv, PinsCover, FreeIsEmpty
    <3> QED
      BY <3>2, <3>3 DEF Inv
  <2> QED
    BY <2>1, <2>2
<1>4. CASE FreeContext(c)
  <2>1. /\ UNCHANGED <<queuePairArray, queuePairList, entry, attachTrusted, pins, oops>>
        /\ queuePairArray[c] = {} /\ life' = [life EXCEPT ![c] = "free"]
        /\ cid' = [cid EXCEPT ![c] = NoId]
    BY <1>4 DEF FreeContext, qpVars
  <2>2. TypeOK'
    BY <1>0, <1>4, <2>1, CapacityAssumption DEF FreeContext, Inv, TypeOK, Id, Life
  <2>3. EntryInv' /\ PinsCover' /\ FreeIsEmpty'
    BY <1>0, <2>1 DEF Inv, TypeOK, EntryInv, PinsCover, FreeIsEmpty
  <2> QED
    BY <2>2, <2>3 DEF Inv
<1> QED
  BY <1>1, <1>2, <1>3, <1>4 DEF NextContext

\* A detach, by ioctl or by a kernel client, preserves the invariant.
LEMMA DetachInv ==
  ASSUME Inv, NEW c \in Context, NEW h \in Handle, Detach(c, h)
  PROVE  Inv'
<1>1. DetachEnd(c, h) /\ IsEnd(h, cid[c]) /\ cid[c] \in Cid
  BY DEF Detach, Inv, FreeIsEmpty
<1> QED
  BY <1>1, DetachEndInv

\* The fault of a host attach preserves the invariant.
LEMMA HostAttachNullInv ==
  ASSUME Inv, NEW h \in Handle, NEW trusted \in BOOLEAN, HostAttachNull(h, trusted)
  PROVE  Inv'
<1>1. /\ UNCHANGED <<life, cid, hostQP, restricted, queuePairArray, capacity,
                     queuePairList, entry, attachTrusted, pins>>
      /\ oops' = "null_context"
  BY DEF HostAttachNull, ctxVars, qpVars
<1> QED
  BY <1>1 DEF Inv, TypeOK, EntryInv, PinsCover, FreeIsEmpty, Oops

\* Every step preserves the invariant.
LEMMA NextInv == Inv /\ [Next]_vars => Inv'
<1> SUFFICES ASSUME Inv, [Next]_vars PROVE Inv'
  OBVIOUS
<1>0. Guest \subseteq Context /\ Host \in Context
  BY DEF Context
<1>1. ASSUME NEW c \in Guest, NextContext(c) PROVE Inv'
  BY <1>1, NextContextInv
<1>2. ASSUME NEW c \in Guest, NEW h \in Handle, NextGuest(c, h) PROVE Inv'
  <2>1. c \in Context
    BY <1>0
  <2> QED
    BY <1>2, <2>1, CreateInv, UndoCreateInv, AttachInv, UndoAttachInv,
       SetPageStoreInv, DetachInv DEF NextGuest
<1>3. ASSUME NEW h \in Handle, NextHost(h) PROVE Inv'
  BY <1>0, <1>3, CreateInv, AttachInv, HostAttachNullInv, DetachInv DEF NextHost
<1>4. CASE UNCHANGED vars
  BY <1>4 DEF vars, ctxVars, qpVars, Inv, TypeOK, EntryInv, PinsCover, FreeIsEmpty
<1> QED
  BY <1>1, <1>2, <1>3, <1>4 DEF Next

\* The invariant holds in every reachable state.
THEOREM InvHolds == Spec => []Inv
<1> QED
  BY InitInv, NextInv, PTL DEF Spec

\* Every variable of the broker keeps its type; in particular no pin count
\* goes below zero and no reference count leaves 0..2.
THEOREM TypeCorrect == Spec => []TypeOK
<1>1. Inv => TypeOK
  BY DEF Inv
<1> QED
  BY <1>1, InvHolds, PTL

\* The reference count of a live entry is the number of its attached ends.
THEOREM RefCounts == Spec => []RefCountsEnds
<1>1. Inv => RefCountsEnds
  <2> SUFFICES ASSUME Inv, NEW h \in queuePairList
               PROVE  EndsOK(entry[h]) /\ entry[h].refCount # 0
    BY DEF RefCountsEnds, EndsOK
  <2>1. h \in Handle
    BY DEF Inv, TypeOK
  <2>2. EndsOK(entry[h])
    BY <2>1 DEF Inv, EntryInv
  <2> QED
    BY <2>2 DEF EndsOK
<1> QED
  BY <1>1, InvHolds, PTL
-----------------------------------------------------------------------------
(***************************************************************************)
(* Who shares a queue pair.  HandleInv is about one handle; a step changes *)
(* it for the handle that it is about, and SameRendezvous is what it does  *)
(* to the others.                                                          *)
(***************************************************************************)

\* Who is attached is an end, each one its own.
Shared(h) ==
  /\ \A c \in Members(h) : IsEnd(h, cid[c])
  /\ \A c, d \in Members(h) : cid[c] = cid[d] => c = d

\* What the entry remembers of the agreement between its ends.
Agreed(h) ==
  h \in queuePairList =>
    LET e == entry[h]
    IN  /\ \A c \in Members(h) : restricted[c] =>
             /\ cid[c] = e.attachId => e.createdByTrusted
             /\ cid[c] = e.createId => e.requireTrustedAttach
        /\ e.attachId # NoId =>
             /\ e.peer \in {NoId, e.attachId}
             /\ e.requireTrustedAttach => attachTrusted[h]
        /\ e.createId # NoId => HandleContext[h] \in {e.createId, e.peer}

\* An end has its handle in its array.
EndsRecorded(h) ==
  h \in queuePairList =>
    \A i \in {entry[h].createId, entry[h].attachId} \ {NoId} :
      \E c \in Members(h) : cid[c] = i

HandleInv(h) == Shared(h) /\ Agreed(h) /\ (AppendMayFail \/ EndsRecorded(h))

Rendezvous == \A h \in Handle : HandleInv(h)

\* What QueuePairPairing sees of a handle.
Phase(h) == IF h \notin queuePairList THEN "absent"
            ELSE IF entry[h].allowAttach THEN "open" ELSE "closed"

SameRendezvous(g) ==
  /\ g \in queuePairList' <=> g \in queuePairList
  /\ /\ entry'[g].peer = entry[g].peer
     /\ entry'[g].createId = entry[g].createId
     /\ entry'[g].attachId = entry[g].attachId
     /\ entry'[g].allowAttach <=> entry[g].allowAttach
     /\ entry'[g].requireTrustedAttach <=> entry[g].requireTrustedAttach
     /\ entry'[g].createdByTrusted <=> entry[g].createdByTrusted
  /\ attachTrusted'[g] <=> attachTrusted[g]
  /\ Members(g)' = Members(g)
  /\ \A c \in Members(g) : cid'[c] = cid[c] /\ (restricted'[c] <=> restricted[c])

\* A step that leaves a rendezvous alone keeps what is said of it.
LEMMA RendezvousKept ==
  ASSUME NEW g \in Handle, HandleInv(g), SameRendezvous(g)
  PROVE  HandleInv(g)'
<1>1. Shared(g)'
  BY DEF HandleInv, Shared, SameRendezvous, IsEnd
<1>2. Agreed(g)'
  BY DEF HandleInv, Agreed, SameRendezvous
<1>3. EndsRecorded(g) => EndsRecorded(g)'
  BY DEF EndsRecorded, SameRendezvous
<1> QED
  BY <1>1, <1>2, <1>3 DEF HandleInv

\* A handle joins the array of a context, or leaves it, alone.
LEMMA MembersChange ==
  ASSUME TypeOK, NEW c \in Context, NEW h \in Handle, NEW A \in SUBSET Handle,
         queuePairArray' = [queuePairArray EXCEPT ![c] = A],
         \A g \in Handle \ {h} : g \in A <=> g \in queuePairArray[c]
  PROVE  /\ \A g \in Handle \ {h} : Members(g)' = Members(g)
         /\ Members(h)' = IF h \in A THEN Members(h) \cup {c} ELSE Members(h) \ {c}
<1>1. \A d \in Context : queuePairArray'[d] = IF d = c THEN A ELSE queuePairArray[d]
  BY DEF TypeOK
<1> QED
  BY <1>1 DEF Members

\* Nobody is attached to a handle that is not on the list.
LEMMA AbsentIsEmpty ==
  ASSUME NEW h \in Handle, HandleInv(h), h \notin queuePairList
  PROVE  Members(h) = {}
  BY DEF HandleInv, Shared, IsEnd

\* What Append does to the members.
LEMMA AppendMembers ==
  ASSUME TypeOK, NEW c \in Context, NEW h \in Handle, NEW recorded \in BOOLEAN,
         Append(c, h, recorded)
  PROVE  /\ \A g \in Handle \ {h} : Members(g)' = Members(g)
         /\ Members(h)' = IF recorded THEN Members(h) \cup {c} ELSE Members(h)
         /\ UNCHANGED <<cid, restricted>>
         /\ recorded \/ AppendMayFail
<1>1. UNCHANGED <<cid, restricted>> /\ (recorded \/ AppendMayFail)
  BY DEF Append
<1>2. CASE recorded
  <2> DEFINE A == queuePairArray[c] \cup {h}
  <2>1. queuePairArray' = [queuePairArray EXCEPT ![c] = A]
    BY <1>2 DEF Append
  <2>2. A \in SUBSET Handle /\ h \in A
    BY DEF TypeOK
  <2>3. \A g \in Handle \ {h} : g \in A <=> g \in queuePairArray[c]
    OBVIOUS
  <2> HIDE DEF A
  <2> QED
    BY <1>1, <1>2, <2>1, <2>2, <2>3, MembersChange
<1>3. CASE ~recorded
  <2>1. queuePairArray' = queuePairArray
    BY <1>3 DEF Append
  <2> QED
    BY <1>1, <1>3, <2>1 DEF Members
<1> QED
  BY <1>2, <1>3

\* The other handles, when an entry is put in its place.
LEMMA OthersStay ==
  ASSUME TypeOK, NEW h \in Handle, NEW e, NEW trusted,
         entry' = [entry EXCEPT ![h] = e],
         \A g \in Handle \ {h} : (g \in queuePairList' <=> g \in queuePairList),
         attachTrusted' = [attachTrusted EXCEPT ![h] = trusted],
         \A g \in Handle \ {h} : Members(g)' = Members(g),
         UNCHANGED <<cid, restricted>>
  PROVE  \A g \in Handle \ {h} : SameRendezvous(g)
  BY DEF TypeOK, SameRendezvous

\* A creator is alone, and the handle is named after it or its peer.
LEMMA CreateRendezvous ==
  ASSUME Inv, Rendezvous, NEW c \in Context, NEW h \in Handle, NEW peer \in Id,
         NEW produce \in Size, NEW consume \in Size,
         NEW trusted \in BOOLEAN, NEW recorded \in BOOLEAN,
         Create(c, h, peer, produce, consume, trusted, recorded)
  PROVE  /\ Rendezvous' /\ \A g \in Handle \ {h} : SameRendezvous(g)
         /\ Phase(h) = "absent" /\ Phase(h)' = "open"
         /\ Members(h)' = IF recorded THEN {c} ELSE {}
<1> DEFINE e == NewEntry(c, peer, produce, consume, trusted)
<1>1. /\ TypeOK /\ EntryInv /\ cid[c] \in Cid /\ h \notin queuePairList
      /\ HandleContext[h] \in {cid[c], peer} /\ Put(h, e) /\ Append(c, h, recorded)
      /\ attachTrusted' = [attachTrusted EXCEPT ![h] = FALSE]
  BY DEF Create, Inv, FreeIsEmpty, MayCreate
<1>2. /\ e \in Entry /\ EndsOK(e) /\ e.refCount = 1
      /\ e.createId = cid[c] /\ e.attachId = NoId
  BY <1>1, NewEntryOK
<1>3. e.peer = peer /\ (e.requireTrustedAttach <=> restricted[c]) /\ e.allowAttach = TRUE
  BY DEF NewEntry
<1>4. Members(h) = {}
  BY <1>1, AbsentIsEmpty DEF Rendezvous
<1> HIDE DEF e
<1>5. /\ entry' = [entry EXCEPT ![h] = e] /\ h \in queuePairList'
      /\ \A g \in Handle \ {h} : (g \in queuePairList' <=> g \in queuePairList)
  BY <1>1, <1>2, PutOK
<1>6. /\ \A g \in Handle \ {h} : Members(g)' = Members(g)
      /\ Members(h)' = IF recorded THEN Members(h) \cup {c} ELSE Members(h)
      /\ UNCHANGED <<cid, restricted>> /\ (recorded \/ AppendMayFail)
  BY <1>1, AppendMembers
<1>7. \A g \in Handle \ {h} : SameRendezvous(g)
  BY <1>1, <1>5, <1>6, OthersStay
<1>8. entry'[h] = e
  BY <1>1, <1>5 DEF TypeOK
<1>9. Members(h)' \subseteq {c} /\ (recorded => c \in Members(h)')
  BY <1>4, <1>6
<1>10. cid[c] # NoId
  BY <1>1, IdAssumption
<1>11. Shared(h)'
  BY <1>2, <1>5, <1>6, <1>8, <1>9 DEF Shared, IsEnd
<1>12. Agreed(h)'
  BY <1>1, <1>2, <1>3, <1>6, <1>8, <1>9, <1>10 DEF Agreed
<1>13. recorded => EndsRecorded(h)'
  BY <1>2, <1>6, <1>8, <1>9 DEF EndsRecorded
<1>14. HandleInv(h)'
  BY <1>6, <1>11, <1>12, <1>13 DEF HandleInv
<1>15. Rendezvous'
  BY <1>7, <1>14, RendezvousKept DEF Rendezvous
<1>16. Phase(h) = "absent" /\ Phase(h)' = "open"
  BY <1>1, <1>3, <1>5, <1>8 DEF Phase
<1> QED
  BY <1>4, <1>6, <1>7, <1>15, <1>16

\* Who may attach finds an end that agreed to it, and is the other end then.
LEMMA JoinRendezvous ==
  ASSUME Inv, Rendezvous, NEW c \in Context, NEW h \in Handle, NEW trusted \in BOOLEAN,
         cid[c] \in Cid, AttachPermitted(c, h, trusted)
  PROVE  LET e == AttachEntry(entry[h], c)
         IN  /\ e \in Entry /\ EndsOK(e) /\ e.refCount = 2
             /\ e.createId = entry[h].createId /\ e.attachId = cid[c] /\ ~e.allowAttach
             /\ e.peer = entry[h].peer
             /\ e.requireTrustedAttach <=> entry[h].requireTrustedAttach
             /\ e.createdByTrusted <=> entry[h].createdByTrusted
             /\ restricted[c] => e.createdByTrusted
             /\ e.requireTrustedAttach => trusted
             /\ e.peer \in {NoId, cid[c]}
             /\ entry[h].attachId = NoId
             /\ \A d \in Members(h) : cid[d] # cid[c]
<1>1. /\ entry[h] \in Entry /\ EndsOK(entry[h]) /\ h \in queuePairList
      /\ entry[h].refCount # 0 /\ entry[h].allowAttach
      /\ cid[c] \notin {entry[h].createId, entry[h].attachId}
  BY MayAttachOK
<1>2. TypeOK /\ Shared(h)
  BY DEF Inv, Rendezvous, HandleInv
<1> DEFINE e == AttachEntry(entry[h], c)
<1>3. /\ e \in Entry /\ EndsOK(e) /\ e.refCount = 2
      /\ e.createId = entry[h].createId /\ e.attachId = cid[c] /\ ~e.allowAttach
  BY <1>1, <1>2, AttachEntryOK
<1>4. /\ e.peer = entry[h].peer
      /\ e.requireTrustedAttach <=> entry[h].requireTrustedAttach
      /\ e.createdByTrusted <=> entry[h].createdByTrusted
  BY <1>1 DEF AttachEntry, Entry
<1>5. \A d \in Members(h) : cid[d] # cid[c]
  BY <1>1, <1>2 DEF Shared, IsEnd
<1>6. /\ restricted[c] => entry[h].createdByTrusted
      /\ entry[h].requireTrustedAttach => trusted
      /\ entry[h].peer \in {NoId, cid[c]}
  BY DEF AttachPermitted
<1>7. entry[h].attachId = NoId
  BY <1>1 DEF EndsOK
<1> HIDE DEF e
<1> QED
  BY <1>3, <1>4, <1>5, <1>6, <1>7 DEF e

LEMMA AttachRendezvous ==
  ASSUME Inv, Rendezvous, NEW c \in Context, NEW h \in Handle,
         NEW produce \in Size, NEW consume \in Size,
         NEW trusted \in BOOLEAN, NEW recorded \in BOOLEAN,
         Attach(c, h, produce, consume, trusted, recorded)
  PROVE  /\ Rendezvous' /\ \A g \in Handle \ {h} : SameRendezvous(g)
         /\ Phase(h) = "open" /\ Phase(h)' = "closed"
         /\ c \notin Members(h)
         /\ Members(h)' = IF recorded THEN Members(h) \cup {c} ELSE Members(h)
<1> DEFINE e == AttachEntry(entry[h], c)
<1>1. /\ TypeOK /\ EntryInv /\ cid[c] \in Cid /\ AttachPermitted(c, h, trusted)
      /\ Put(h, e) /\ Append(c, h, recorded) /\ HandleInv(h)
      /\ attachTrusted' = [attachTrusted EXCEPT ![h] = trusted]
  BY DEF Attach, Inv, FreeIsEmpty, MayAttach, Rendezvous
<1>2. /\ e \in Entry /\ EndsOK(e) /\ e.refCount = 2
      /\ e.createId = entry[h].createId /\ e.attachId = cid[c] /\ ~e.allowAttach
      /\ e.peer = entry[h].peer
      /\ e.requireTrustedAttach <=> entry[h].requireTrustedAttach
      /\ e.createdByTrusted <=> entry[h].createdByTrusted
      /\ restricted[c] => e.createdByTrusted
      /\ e.requireTrustedAttach => trusted
      /\ e.peer \in {NoId, cid[c]}
      /\ entry[h].attachId = NoId
      /\ \A d \in Members(h) : cid[d] # cid[c]
  BY <1>1, JoinRendezvous
<1>3. h \in queuePairList
  BY <1>1 DEF AttachPermitted
<1> HIDE DEF e
<1>5. /\ entry' = [entry EXCEPT ![h] = e] /\ h \in queuePairList'
      /\ \A g \in Handle \ {h} : (g \in queuePairList' <=> g \in queuePairList)
  BY <1>1, <1>2, PutOK
<1>6. /\ \A g \in Handle \ {h} : Members(g)' = Members(g)
      /\ Members(h)' = IF recorded THEN Members(h) \cup {c} ELSE Members(h)
      /\ UNCHANGED <<cid, restricted>> /\ (recorded \/ AppendMayFail)
  BY <1>1, AppendMembers
<1>7. \A g \in Handle \ {h} : SameRendezvous(g)
  BY <1>1, <1>5, <1>6, OthersStay
<1>8. entry'[h] = e /\ attachTrusted'[h] = trusted
  BY <1>1, <1>5 DEF TypeOK
<1>9. cid[c] # NoId
  BY <1>1, IdAssumption
<1>10. \A d \in Members(h) : cid[d] = e.createId /\ cid[d] # NoId
  <2>1. \A d \in Members(h) : cid[d] \in {entry[h].createId, entry[h].attachId} /\ cid[d] # NoId
    <3> SUFFICES ASSUME NEW d \in Members(h)
                 PROVE  cid[d] \in {entry[h].createId, entry[h].attachId} /\ cid[d] # NoId
      OBVIOUS
    <3>1. h \in queuePairArray[d] /\ d \in Context
      BY DEF Members
    <3>2. cid[d] \in Cid
      BY <3>1 DEF Inv, FreeIsEmpty, TypeOK, Life
    <3> QED
      BY <1>1, <3>2, IdAssumption DEF HandleInv, Shared, IsEnd
  <2> QED
    BY <1>2, <2>1
<1>11. Shared(h)'
  <2>1. \A d \in Members(h)' : d = c \/ d \in Members(h)
    BY <1>6
  <2>2. \A d \in Members(h)' : IsEnd(h, cid[d])'
    BY <1>2, <1>5, <1>6, <1>8, <1>10, <2>1 DEF IsEnd
  <2>3. \A d, f \in Members(h)' : cid'[d] = cid'[f] => d = f
    BY <1>1, <1>2, <1>6, <2>1 DEF HandleInv, Shared
  <2> QED
    BY <2>2, <2>3 DEF Shared
<1>12. Agreed(h)'
  <2>1. Agreed(h)
    BY <1>1 DEF HandleInv
  <2>2. \A d \in Members(h)' : d = c \/ d \in Members(h)
    BY <1>6
  <2>3. ASSUME NEW d \in Members(h)', restricted'[d]
        PROVE  /\ cid'[d] = e.attachId => e.createdByTrusted
               /\ cid'[d] = e.createId => e.requireTrustedAttach
    <3>1. CASE d = c
      <4>1. cid[c] # e.createId
        BY <1>1, <1>2 DEF AttachPermitted
      <4> QED
        BY <1>2, <1>6, <2>3, <3>1, <4>1
    <3>2. CASE d \in Members(h)
      <4>1. cid[d] = entry[h].createId => entry[h].requireTrustedAttach
        BY <1>3, <1>6, <2>1, <2>3, <3>2 DEF Agreed
      <4> QED
        BY <1>2, <1>6, <3>2, <4>1
    <3> QED
      BY <2>2, <3>1, <3>2
  <2>4. e.createId # NoId => HandleContext[h] \in {e.createId, e.peer}
    BY <1>2, <1>3, <2>1 DEF Agreed
  <2>5. e.peer \in {NoId, e.attachId} /\ (e.requireTrustedAttach => attachTrusted'[h])
    BY <1>2, <1>8
  <2> QED
    BY <1>8, <2>3, <2>4, <2>5 DEF Agreed
<1>13. EndsRecorded(h) /\ recorded => EndsRecorded(h)'
  BY <1>2, <1>3, <1>6, <1>8 DEF EndsRecorded
<1>14. HandleInv(h)'
  BY <1>1, <1>6, <1>11, <1>12, <1>13 DEF HandleInv
<1>15. Rendezvous'
  BY <1>7, <1>14, RendezvousKept DEF Rendezvous
<1>16. Phase(h) = "open" /\ Phase(h)' = "closed" /\ c \notin Members(h)
  BY <1>1, <1>2, <1>5, <1>8 DEF Phase, AttachPermitted, Members
<1> QED
  BY <1>6, <1>7, <1>15, <1>16

\* The members have the ids of the ends.
LEMMA MemberIds ==
  ASSUME Inv, NEW h \in Handle, NEW c \in Members(h)
  PROVE  c \in Context /\ cid[c] \in Cid /\ cid[c] # NoId
<1>1. h \in queuePairArray[c] /\ c \in Context
  BY DEF Members
<1>2. cid[c] \in Cid
  BY <1>1 DEF Inv, FreeIsEmpty, TypeOK, Life
<1> QED
  BY <1>1, <1>2, IdAssumption

\* A creation that is undone leaves no trace, or an end that nobody knows.
LEMMA UndoCreateRendezvous ==
  ASSUME Inv, Rendezvous, NEW c \in Context, NEW h \in Handle, NEW peer \in Id,
         NEW produce \in Size, NEW consume \in Size, NEW recorded \in BOOLEAN,
         UndoCreate(c, h, peer, produce, consume, recorded)
  PROVE  /\ Rendezvous'
         /\ AppendMayFail \/ \A g \in Handle : SameRendezvous(g)
<1> DEFINE e == NewEntry(c, peer, produce, consume, FALSE)
<1>1. /\ TypeOK /\ EntryInv /\ cid[c] \in Cid /\ h \notin queuePairList
      /\ HandleContext[h] \in {cid[c], peer}
      /\ UNCHANGED <<cid, restricted, queuePairArray>>
      /\ recorded \/ AppendMayFail
  BY DEF UndoCreate, Inv, FreeIsEmpty, MayCreate
<1>2. /\ \A g \in Handle : Members(g)' = Members(g)
      /\ Members(h) = {}
  BY <1>1, AbsentIsEmpty DEF Rendezvous, Members
<1>3. CASE recorded
  <2>1. UNCHANGED qpVars
    BY <1>3 DEF UndoCreate
  <2>2. \A g \in Handle : SameRendezvous(g)
    BY <1>1, <1>2, <2>1 DEF SameRendezvous, qpVars
  <2>3. Rendezvous'
    BY <2>2, RendezvousKept DEF Rendezvous
  <2> QED
    BY <2>2, <2>3
<1>4. CASE ~recorded
  <2>1. Put(h, e) /\ attachTrusted' = [attachTrusted EXCEPT ![h] = FALSE]
    BY <1>4 DEF UndoCreate
  <2>2. /\ e \in Entry /\ EndsOK(e) /\ e.refCount = 1
        /\ e.createId = cid[c] /\ e.attachId = NoId /\ e.peer = peer
    BY <1>1, NewEntryOK DEF NewEntry
  <2> HIDE DEF e
  <2>3. /\ entry' = [entry EXCEPT ![h] = e] /\ h \in queuePairList'
        /\ \A g \in Handle \ {h} : (g \in queuePairList' <=> g \in queuePairList)
    BY <1>1, <2>1, <2>2, PutOK
  <2>4. \A g \in Handle \ {h} : SameRendezvous(g)
    BY <1>1, <1>2, <2>1, <2>3, OthersStay
  <2>5. entry'[h] = e
    BY <1>1, <2>3 DEF TypeOK
  <2>6. Shared(h)' /\ Agreed(h)'
    BY <1>1, <1>2, <2>2, <2>5 DEF Shared, Agreed
  <2>7. HandleInv(h)'
    BY <1>1, <1>4, <2>6 DEF HandleInv
  <2>8. Rendezvous'
    BY <2>4, <2>7, RendezvousKept DEF Rendezvous
  <2> QED
    BY <1>1, <1>4, <2>8
<1> QED
  BY <1>3, <1>4

\* Giving up an end leaves the other one, and what it agreed to.
LEMMA DropEndFields ==
  ASSUME NEW e \in Entry, EndsOK(e), NEW i \in Cid, i \in {e.createId, e.attachId}
  PROVE  LET f == DropEnd(e, i)
         IN  /\ f.peer = e.peer
             /\ f.requireTrustedAttach <=> e.requireTrustedAttach
             /\ f.createdByTrusted <=> e.createdByTrusted
             /\ f.allowAttach <=> e.allowAttach
             /\ f.createId = IF e.createId = i THEN NoId ELSE e.createId
             /\ f.attachId = IF e.createId = i THEN e.attachId ELSE NoId
  BY DEF DropEnd, Entry

\* An attach that is undone has used up the agreement.
LEMMA UndoAttachRendezvous ==
  ASSUME Inv, Rendezvous, NEW c \in Context, NEW h \in Handle,
         NEW produce \in Size, NEW consume \in Size, NEW recorded \in BOOLEAN,
         UndoAttach(c, h, produce, consume, recorded)
  PROVE  /\ Rendezvous' /\ \A g \in Handle \ {h} : SameRendezvous(g)
         /\ Phase(h) = "open" /\ Phase(h)' = "closed" /\ Members(h)' = Members(h)
<1> DEFINE a == AttachEntry(entry[h], c)
           e == IF recorded THEN DropEnd(a, cid[c]) ELSE a
<1>1. /\ TypeOK /\ EntryInv /\ cid[c] \in Cid /\ AttachPermitted(c, h, FALSE) /\ HandleInv(h)
      /\ attachTrusted' = [attachTrusted EXCEPT ![h] = FALSE]
      /\ UNCHANGED <<cid, restricted, queuePairArray>> /\ Put(h, e)
      /\ recorded \/ AppendMayFail
  BY DEF UndoAttach, Inv, FreeIsEmpty, MayAttach, Rendezvous
<1>2. /\ a \in Entry /\ EndsOK(a) /\ a.refCount = 2
      /\ a.createId = entry[h].createId /\ a.attachId = cid[c] /\ ~a.allowAttach
      /\ a.peer = entry[h].peer
      /\ a.requireTrustedAttach <=> entry[h].requireTrustedAttach
      /\ a.createdByTrusted <=> entry[h].createdByTrusted
      /\ a.requireTrustedAttach => FALSE
      /\ a.peer \in {NoId, cid[c]}
      /\ entry[h].attachId = NoId
      /\ \A d \in Members(h) : cid[d] # cid[c]
  BY <1>1, JoinRendezvous, ZenonT(120)
<1>3. h \in queuePairList /\ a.createId # a.attachId
  BY <1>1, <1>2 DEF AttachPermitted, EndsOK
<1> HIDE DEF a
<1>4. /\ e \in Entry /\ (e.refCount # 0 => EndsOK(e)) /\ e.refCount # 0
      /\ e.createId = a.createId /\ e.peer = a.peer
      /\ e.requireTrustedAttach <=> a.requireTrustedAttach
      /\ e.createdByTrusted <=> a.createdByTrusted
      /\ e.allowAttach <=> a.allowAttach
      /\ e.attachId = IF recorded THEN NoId ELSE cid[c]
  <2>1. CASE ~recorded
    BY <1>2, <2>1
  <2>2. CASE recorded
    <3> DEFINE f == DropEnd(a, cid[c])
    <3>1. /\ f \in Entry /\ (f.refCount # 0 => EndsOK(f))
          /\ f.refCount = 0 <=> (f.createId = NoId /\ f.attachId = NoId)
      BY <1>1, <1>2, DropEndOK
    <3>2. /\ f.peer = a.peer
          /\ f.requireTrustedAttach <=> a.requireTrustedAttach
          /\ f.createdByTrusted <=> a.createdByTrusted
          /\ f.allowAttach <=> a.allowAttach
          /\ f.createId = a.createId /\ f.attachId = NoId
      BY <1>1, <1>2, <1>3, DropEndFields
    <3>3. a.createId # NoId
      BY <1>2, <1>3 DEF EndsOK
    <3> HIDE DEF f
    <3> QED
      BY <2>2, <3>1, <3>2, <3>3 DEF f
  <2> QED
    BY <2>1, <2>2
<1> HIDE DEF e
<1>5. /\ entry' = [entry EXCEPT ![h] = e] /\ h \in queuePairList'
      /\ \A g \in Handle \ {h} : (g \in queuePairList' <=> g \in queuePairList)
  BY <1>1, <1>4, PutOK
<1>6. \A g \in Handle : Members(g)' = Members(g)
  BY <1>1 DEF Members
<1>7. \A g \in Handle \ {h} : SameRendezvous(g)
  BY <1>1, <1>5, <1>6, OthersStay
<1>8. entry'[h] = e
  BY <1>1, <1>5 DEF TypeOK
<1>9. \A d \in Members(h) : cid[d] = e.createId
  BY <1>1, <1>2, <1>4, MemberIds DEF HandleInv, Shared, IsEnd
<1>10. Shared(h)'
  BY <1>1, <1>5, <1>6, <1>8, <1>9 DEF HandleInv, Shared, IsEnd
<1>11. Agreed(h)'
  <2>1. \A d \in Members(h) : restricted[d] /\ cid[d] = e.createId => e.requireTrustedAttach
    BY <1>1, <1>2, <1>3, <1>4 DEF HandleInv, Agreed
  <2>2. \A d \in Members(h) : cid[d] # e.attachId
    BY <1>2, <1>4, MemberIds
  <2>3. e.createId # NoId => HandleContext[h] \in {e.createId, e.peer}
    BY <1>1, <1>2, <1>3, <1>4 DEF HandleInv, Agreed
  <2> QED
    BY <1>1, <1>2, <1>4, <1>6, <1>8, <2>1, <2>2, <2>3 DEF Agreed
<1>12. EndsRecorded(h) /\ recorded => EndsRecorded(h)'
  BY <1>1, <1>2, <1>3, <1>4, <1>6, <1>8 DEF EndsRecorded
<1>13. HandleInv(h)'
  BY <1>1, <1>10, <1>11, <1>12 DEF HandleInv
<1>14. Rendezvous'
  BY <1>7, <1>13, RendezvousKept DEF Rendezvous
<1>15. Phase(h) = "open" /\ Phase(h)' = "closed"
  BY <1>1, <1>2, <1>4, <1>5, <1>8 DEF Phase, AttachPermitted
<1> QED
  BY <1>6, <1>7, <1>14, <1>15

\* A step that changes no rendezvous.
LEMMA NothingMet ==
  ASSUME Rendezvous, \A g \in Handle : SameRendezvous(g)
  PROVE  Rendezvous'
  BY RendezvousKept DEF Rendezvous

\* Registering the pages changes none of it.
LEMMA SetPageStoreRendezvous ==
  ASSUME Inv, NEW c \in Context, NEW h \in Handle, NEW pages \in Pages,
         SetPageStore(c, h, pages)
  PROVE  \A g \in Handle : SameRendezvous(g)
<1>1. /\ UNCHANGED <<cid, restricted, queuePairArray, queuePairList, attachTrusted>>
      /\ entry' = [entry EXCEPT ![h].pageStoreSet = TRUE, ![h].pages = pages]
  BY DEF SetPageStore, ctxVars
<1>2. entry[h] \in Entry /\ TypeOK
  BY DEF Inv, TypeOK
<1>3. \A g \in Handle : Members(g)' = Members(g)
  BY <1>1 DEF Members
<1>4. ASSUME NEW g \in Handle
      PROVE  /\ entry'[g].peer = entry[g].peer
             /\ entry'[g].createId = entry[g].createId
             /\ entry'[g].attachId = entry[g].attachId
             /\ entry'[g].allowAttach <=> entry[g].allowAttach
             /\ entry'[g].requireTrustedAttach <=> entry[g].requireTrustedAttach
             /\ entry'[g].createdByTrusted <=> entry[g].createdByTrusted
  BY <1>1, <1>2 DEF TypeOK, Entry
<1> QED
  BY <1>1, <1>3, <1>4 DEF SameRendezvous

\* Who gives up its end leaves the other one as it was.
LEMMA DetachRendezvous ==
  ASSUME Inv, Rendezvous, NEW c \in Context, NEW h \in Handle, cid[c] \in Cid,
         h \in queuePairArray[c], DetachEnd(c, h)
  PROVE  /\ Rendezvous' /\ \A g \in Handle \ {h} : SameRendezvous(g)
         /\ c \in Members(h) /\ Members(h)' = Members(h) \ {c}
         /\ AppendMayFail \/ Phase(h)' = IF Members(h) = {c} THEN "absent" ELSE Phase(h)
<1> DEFINE e == DropEnd(entry[h], cid[c])
           b == IF e.refCount = 0 THEN Blank ELSE e
<1>1. /\ TypeOK /\ EntryInv /\ HandleInv(h) /\ Put(h, e)
      /\ queuePairArray' = [queuePairArray EXCEPT ![c] = queuePairArray[c] \ {h}]
      /\ UNCHANGED <<cid, restricted, attachTrusted>>
  BY DEF DetachEnd, Inv, Rendezvous
<1>2. c \in Members(h) /\ h \in queuePairList
      /\ cid[c] \in {entry[h].createId, entry[h].attachId}
  BY <1>1 DEF Members, HandleInv, Shared, IsEnd
<1>3. entry[h] \in Entry /\ EndsOK(entry[h])
  BY <1>2 DEF Inv, TypeOK, EntryInv
<1>4. /\ e \in Entry /\ (e.refCount # 0 => EndsOK(e))
      /\ e.refCount = 0 <=> (e.createId = NoId /\ e.attachId = NoId)
  BY <1>2, <1>3, DropEndOK
<1>5. /\ e.peer = entry[h].peer
      /\ e.requireTrustedAttach <=> entry[h].requireTrustedAttach
      /\ e.createdByTrusted <=> entry[h].createdByTrusted
      /\ e.allowAttach <=> entry[h].allowAttach
      /\ e.createId = IF entry[h].createId = cid[c] THEN NoId ELSE entry[h].createId
      /\ e.attachId = IF entry[h].createId = cid[c] THEN entry[h].attachId ELSE NoId
  BY <1>2, <1>3, DropEndFields
<1> HIDE DEF e
<1>6. /\ entry' = [entry EXCEPT ![h] = b]
      /\ \A g \in Handle \ {h} : (g \in queuePairList' <=> g \in queuePairList)
      /\ h \in queuePairList' <=> e.refCount # 0
  BY <1>1, <1>4, PutOK
<1>7. /\ \A g \in Handle \ {h} : Members(g)' = Members(g)
      /\ Members(h)' = Members(h) \ {c}
  <2> DEFINE A == queuePairArray[c] \ {h}
  <2>1. A \in SUBSET Handle /\ h \notin A
    BY <1>1 DEF TypeOK
  <2>2. \A g \in Handle \ {h} : g \in A <=> g \in queuePairArray[c]
    OBVIOUS
  <2>3. queuePairArray' = [queuePairArray EXCEPT ![c] = A]
    BY <1>1
  <2> HIDE DEF A
  <2> QED
    BY <1>1, <2>1, <2>2, <2>3, MembersChange
<1>8. attachTrusted' = [attachTrusted EXCEPT ![h] = attachTrusted[h]]
  BY <1>1 DEF TypeOK
<1>9. \A g \in Handle \ {h} : SameRendezvous(g)
  BY <1>1, <1>6, <1>7, <1>8, OthersStay
<1>10. entry'[h] = b
  BY <1>1, <1>6 DEF TypeOK
<1>11. \A d \in Members(h)' : /\ d \in Members(h) /\ cid[d] # cid[c] /\ cid[d] # NoId
                              /\ cid[d] \in {e.createId, e.attachId}
  <2>1. \A d \in Members(h) : cid[d] # NoId
    BY MemberIds
  <2> QED
    BY <1>1, <1>2, <1>5, <1>7, <2>1 DEF HandleInv, Shared, IsEnd
<1>12. Members(h)' # {} => e.refCount # 0
  BY <1>4, <1>11
<1>13. Shared(h)'
  <2>1. \A d \in Members(h)' : IsEnd(h, cid[d])'
    BY <1>1, <1>6, <1>10, <1>11, <1>12 DEF IsEnd
  <2>2. \A d, f \in Members(h)' : cid'[d] = cid'[f] => d = f
    BY <1>1, <1>11 DEF HandleInv, Shared
  <2> QED
    BY <2>1, <2>2 DEF Shared
<1>14. Agreed(h)'
  <2> SUFFICES ASSUME h \in queuePairList' PROVE Agreed(h)'
    BY DEF Agreed
  <2>1. b = e
    BY <1>6
  <2>2. Agreed(h)
    BY <1>1 DEF HandleInv
  <2>3. \A d \in Members(h)' : restricted'[d] =>
             /\ cid'[d] = e.attachId => e.createdByTrusted
             /\ cid'[d] = e.createId => e.requireTrustedAttach
    BY <1>1, <1>2, <1>5, <1>11, <2>2 DEF Agreed
  <2>4. e.attachId # NoId => /\ e.peer \in {NoId, e.attachId}
                             /\ e.requireTrustedAttach => attachTrusted'[h]
    BY <1>1, <1>2, <1>5, <2>2 DEF Agreed
  <2>5. e.createId # NoId => HandleContext[h] \in {e.createId, e.peer}
    BY <1>1, <1>2, <1>5, <2>2 DEF Agreed
  <2> QED
    BY <1>10, <2>1, <2>3, <2>4, <2>5 DEF Agreed
<1>15. EndsRecorded(h) => EndsRecorded(h)'
  <2> SUFFICES ASSUME h \in queuePairList', EndsRecorded(h),
                      NEW i \in {e.createId, e.attachId} \ {NoId}
               PROVE  \E d \in Members(h)' : cid'[d] = i
    BY <1>6, <1>10 DEF EndsRecorded
  <2>1. i # cid[c] /\ i \in {entry[h].createId, entry[h].attachId} \ {NoId}
    BY <1>2, <1>3, <1>5 DEF EndsOK
  <2>2. PICK d \in Members(h) : cid[d] = i
    BY <1>2, <2>1 DEF EndsRecorded
  <2> QED
    BY <1>1, <1>7, <2>1, <2>2
<1>16. HandleInv(h)'
  BY <1>1, <1>13, <1>14, <1>15 DEF HandleInv
<1>17. Rendezvous'
  BY <1>9, <1>16, RendezvousKept DEF Rendezvous
<1>18. ASSUME EndsRecorded(h)'
       PROVE  Phase(h)' = IF Members(h) = {c} THEN "absent" ELSE Phase(h)
  <2>1. e.refCount # 0 => Members(h)' # {}
    <3> SUFFICES ASSUME e.refCount # 0 PROVE Members(h)' # {}
      OBVIOUS
    <3>1. PICK i \in {e.createId, e.attachId} : i # NoId
      BY <1>4
    <3>2. i \in {entry'[h].createId, entry'[h].attachId} \ {NoId} /\ h \in queuePairList'
      BY <1>6, <1>10, <3>1
    <3> QED
      BY <1>18, <3>2 DEF EndsRecorded
  <2>2. e.refCount = 0 <=> Members(h) = {c}
    BY <1>2, <1>7, <1>12, <2>1
  <2> QED
    BY <1>2, <1>5, <1>6, <1>10, <2>2 DEF Phase
<1> QED
  BY <1>2, <1>7, <1>9, <1>16, <1>17, <1>18 DEF HandleInv

\* A context comes and goes without an end: it is in no rendezvous.
LEMMA ContextRendezvous ==
  ASSUME Inv, Rendezvous, NEW c \in Guest, NextContext(c)
  PROVE  /\ Rendezvous'
         /\ \/ \A g \in Handle : SameRendezvous(g)
            \/ \E h \in Handle : h \in queuePairArray[c] /\ cid[c] \in Cid /\ DetachEnd(c, h)
<1>0. c \in Context /\ TypeOK /\ FreeIsEmpty
  BY DEF Context, Inv
<1>1. ASSUME queuePairArray[c] = {}, UNCHANGED <<queuePairArray, qpVars>>,
             \A d \in Context \ {c} : cid'[d] = cid[d] /\ restricted'[d] = restricted[d]
      PROVE  Rendezvous' /\ \A g \in Handle : SameRendezvous(g)
  <2>1. \A g \in Handle : c \notin Members(g) /\ Members(g)' = Members(g)
    BY <1>1 DEF Members
  <2>2. \A g \in Handle : SameRendezvous(g)
    BY <1>1, <2>1 DEF SameRendezvous, Members, qpVars
  <2> QED
    BY <2>2, NothingMet
<1>2. ASSUME NEW i \in GuestCid, NEW h \in HostQPSupport, NEW r \in Restrictions,
             InitContext(c, i, h, r)
      PROVE  Rendezvous' /\ \A g \in Handle : SameRendezvous(g)
  <2>1. queuePairArray[c] = {}
    BY <1>0, <1>2 DEF InitContext, FreeIsEmpty
  <2>2. /\ queuePairArray' = [queuePairArray EXCEPT ![c] = {}]
        /\ cid' = [cid EXCEPT ![c] = i] /\ restricted' = [restricted EXCEPT ![c] = r]
        /\ UNCHANGED qpVars
    BY <1>2 DEF InitContext
  <2>3. queuePairArray' = queuePairArray
    BY <1>0, <2>1, <2>2 DEF TypeOK
  <2>4. \A d \in Context \ {c} : cid'[d] = cid[d] /\ restricted'[d] = restricted[d]
    BY <1>0, <2>2 DEF TypeOK
  <2> QED
    BY <1>1, <2>1, <2>2, <2>3, <2>4
<1>3. CASE ReleaseContext(c)
  <2>1. UNCHANGED <<cid, restricted, queuePairArray, qpVars>>
    BY <1>3 DEF ReleaseContext
  <2>2. \A g \in Handle : SameRendezvous(g)
    BY <2>1 DEF SameRendezvous, Members, qpVars
  <2> QED
    BY <2>2, NothingMet
<1>4. ASSUME NEW h \in Handle, FreeContextDetach(c, h)
      PROVE  Rendezvous' /\ h \in queuePairArray[c] /\ cid[c] \in Cid /\ DetachEnd(c, h)
  <2>1. h \in queuePairArray[c] /\ cid[c] \in Cid
    BY <1>0, <1>4 DEF FreeContextDetach, FreeIsEmpty
  <2>2. IsEnd(h, cid[c])
    BY <1>0, <2>1 DEF Rendezvous, HandleInv, Shared, Members
  <2>3. DetachEnd(c, h)
    BY <1>4, <2>2 DEF FreeContextDetach
  <2> QED
    BY <1>0, <2>1, <2>3, DetachRendezvous
<1>5. CASE FreeContext(c)
  <2>1. /\ queuePairArray[c] = {} /\ UNCHANGED <<queuePairArray, qpVars>>
        /\ cid' = [cid EXCEPT ![c] = NoId] /\ restricted' = [restricted EXCEPT ![c] = FALSE]
    BY <1>5 DEF FreeContext
  <2>2. \A d \in Context \ {c} : cid'[d] = cid[d] /\ restricted'[d] = restricted[d]
    BY <1>0, <2>1 DEF TypeOK
  <2> QED
    BY <1>1, <2>1, <2>2
<1> QED
  BY <1>2, <1>3, <1>4, <1>5 DEF NextContext

LEMMA DetachCallRendezvous ==
  ASSUME Inv, Rendezvous, NEW c \in Context, NEW h \in Handle, Detach(c, h)
  PROVE  Rendezvous'
<1>1. DetachEnd(c, h) /\ h \in queuePairArray[c] /\ cid[c] \in Cid
  BY DEF Detach, Inv, FreeIsEmpty
<1> QED
  BY <1>1, DetachRendezvous

LEMMA NextRendezvous == Inv /\ Rendezvous /\ [Next]_vars => Rendezvous'
<1> SUFFICES ASSUME Inv, Rendezvous, [Next]_vars PROVE Rendezvous'
  OBVIOUS
<1>0. Guest \subseteq Context /\ Host \in Context
  BY DEF Context
<1>1. ASSUME NEW c \in Guest, NextContext(c) PROVE Rendezvous'
  BY <1>1, ContextRendezvous
<1>2. ASSUME NEW c \in Guest, NEW h \in Handle, NextGuest(c, h) PROVE Rendezvous'
  <2>1. c \in Context
    BY <1>0
  <2>2. ASSUME NEW pages \in Pages, SetPageStore(c, h, pages) PROVE Rendezvous'
    BY <2>1, <2>2, SetPageStoreRendezvous, NothingMet
  <2> QED
    BY <1>2, <2>1, <2>2, CreateRendezvous, UndoCreateRendezvous, AttachRendezvous,
       UndoAttachRendezvous, DetachCallRendezvous DEF NextGuest
<1>3. ASSUME NEW h \in Handle, NextHost(h) PROVE Rendezvous'
  <2>1. ASSUME NEW trusted \in BOOLEAN, HostAttachNull(h, trusted) PROVE Rendezvous'
    <3>1. UNCHANGED <<cid, restricted, queuePairArray, qpVars>>
      BY <2>1 DEF HostAttachNull, ctxVars
    <3> QED
      BY <3>1, NothingMet DEF SameRendezvous, Members, qpVars
  <2> QED
    BY <1>0, <1>3, <2>1, CreateRendezvous, AttachRendezvous, DetachCallRendezvous DEF NextHost
<1>4. CASE UNCHANGED vars
  BY <1>4, NothingMet DEF vars, ctxVars, qpVars, SameRendezvous, Members
<1> QED
  BY <1>1, <1>2, <1>3, <1>4 DEF Next

LEMMA RendezvousHolds == Spec => [](Inv /\ Rendezvous)
<1>1. Init => Rendezvous
  BY DEF Init, Rendezvous, HandleInv, Shared, Agreed, EndsRecorded, Members
<1> QED
  BY <1>1, InvHolds, NextRendezvous, PTL DEF Spec

\* Two ends that share a queue pair may do so, whatever came and went on the
\* handle before.
THEOREM PairsPermitted == Spec => []PairsArePermitted
<1>1. Inv /\ Rendezvous => PairsArePermitted
  <2> SUFFICES ASSUME Inv, Rendezvous, NEW h \in queuePairList
               PROVE  LET e == entry[h]
                      IN  /\ \A c, d \in Members(h) : restricted[c] /\ c # d =>
                               \/ cid[d] = e.createId /\ e.createdByTrusted
                               \/ cid[d] = e.attachId /\ attachTrusted[h]
                          /\ e.createId # NoId /\ e.attachId # NoId =>
                               HandleContext[h] \in {e.createId, e.attachId}
    BY DEF PairsArePermitted
  <2>1. h \in Handle /\ EndsOK(entry[h]) /\ Shared(h) /\ Agreed(h)
    BY DEF Inv, TypeOK, EntryInv, Rendezvous, HandleInv
  <2>2. ASSUME NEW c \in Members(h), NEW d \in Members(h), restricted[c], c # d
        PROVE  \/ cid[d] = entry[h].createId /\ entry[h].createdByTrusted
               \/ cid[d] = entry[h].attachId /\ attachTrusted[h]
    <3>1. /\ cid[c] \in {entry[h].createId, entry[h].attachId}
          /\ cid[d] \in {entry[h].createId, entry[h].attachId} /\ cid[c] # cid[d]
      BY <2>1, <2>2 DEF Shared, IsEnd
    <3>2. cid[d] # NoId
      BY <2>1, MemberIds
    <3> QED
      BY <2>1, <2>2, <3>1, <3>2 DEF Agreed
  <2>3. ASSUME entry[h].createId # NoId, entry[h].attachId # NoId
        PROVE  HandleContext[h] \in {entry[h].createId, entry[h].attachId}
    <3>1. HandleContext[h] # NoId
      BY <2>1, HandleAssumption, IdAssumption
    <3> QED
      BY <2>1, <2>3, <3>1 DEF Agreed
  <2> QED
    BY <2>2, <2>3
<1> QED
  BY <1>1, RendezvousHolds, PTL

\* Where arrays can always grow, the entries and the contexts' own arrays tell
\* the same story even when ids are reused, so that whoever dies finds and
\* drops all its ends.
THEOREM ArraysMatch == ~AppendMayFail => (Spec => []ArraysMatchEntries)
<1> SUFFICES ASSUME ~AppendMayFail PROVE Spec => []ArraysMatchEntries
  OBVIOUS
<1>1. Inv /\ Rendezvous => ArraysMatchEntries
  <2> SUFFICES ASSUME Inv, Rendezvous PROVE ArraysMatchEntries
    OBVIOUS
  <2>1. ASSUME NEW c \in Context, NEW h \in queuePairArray[c] PROVE IsEnd(h, cid[c])
    BY DEF Inv, TypeOK, Rendezvous, HandleInv, Shared, Members
  <2>2. \A h \in queuePairList : EndsRecorded(h) /\ h \in Handle
    BY DEF Inv, TypeOK, Rendezvous, HandleInv
  <2>3. \A h \in Handle : \A c, d \in Members(h) : cid[c] = cid[d] => c = d
    BY DEF Rendezvous, HandleInv, Shared
  <2> QED
    BY <2>1, <2>2, <2>3 DEF ArraysMatchEntries, EndsRecorded
<1> QED
  BY <1>1, RendezvousHolds, PTL

-----------------------------------------------------------------------------
(***************************************************************************)
(* The pages.  Whether the last detach gives them back depends on the      *)
(* version of the context that detaches: all must support host queue pairs *)
(* (qp_mixed_versions shows what happens otherwise).                       *)
(***************************************************************************)
AllSupportHostQP == HostQPSupport \subseteq {TRUE}

Versions == \A c \in Context : life[c] # "free" => hostQP[c]

PagesOK(h) ==
  /\ entry[h].pages = "pinned" => entry[h].pageStoreSet
  /\ pins[h] = IF entry[h].pages = "pinned" THEN 1 ELSE 0

PinsInv == Versions /\ \A h \in Handle : PagesOK(h)

SamePages(g) ==
  /\ entry'[g].pages = entry[g].pages
  /\ entry'[g].pageStoreSet <=> entry[g].pageStoreSet
  /\ pins'[g] = pins[g]

\* The versions of the contexts change only when one comes or goes.
LEMMA VersionsKept ==
  ASSUME Versions, UNCHANGED <<life, hostQP>>
  PROVE  Versions'
  BY DEF Versions

\* The pages of one handle change, or none.
LEMMA PagesKept ==
  ASSUME NEW h \in Handle, \A g \in Handle : PagesOK(g), PagesOK(h)',
         \A g \in Handle \ {h} : SamePages(g)
  PROVE  \A g \in Handle : PagesOK(g)'
  BY DEF PagesOK, SamePages

\* An entry put in the place of another one, with its pages or with none.
LEMMA PutPages ==
  ASSUME TypeOK, EntryInv, PinsInv, NEW h \in Handle, NEW e \in Entry, Put(h, e),
         e.refCount # 0, EndsOK(e), UNCHANGED <<pins, life, hostQP>>,
         e.pages = entry[h].pages, e.pageStoreSet <=> entry[h].pageStoreSet
  PROVE  PinsInv'
<1>1. entry' = [entry EXCEPT ![h] = e]
  BY PutOK
<1>2. \A g \in Handle : SamePages(g)
  BY <1>1 DEF SamePages, TypeOK
<1> QED
  BY <1>2, VersionsKept DEF PinsInv, PagesOK, SamePages

\* Creating or attaching takes no pages.
LEMMA CreatePins ==
  ASSUME Inv, PinsInv, NEW c \in Context, NEW h \in Handle, NEW peer \in Id,
         NEW produce \in Size, NEW consume \in Size,
         NEW trusted \in BOOLEAN, cid[c] \in Cid, h \notin queuePairList,
         Put(h, NewEntry(c, peer, produce, consume, trusted)),
         UNCHANGED <<pins, life, hostQP>>
  PROVE  PinsInv'
<1> DEFINE e == NewEntry(c, peer, produce, consume, trusted)
<1>1. /\ e \in Entry /\ EndsOK(e) /\ e.refCount = 1 /\ e.pages = "none"
  BY NewEntryOK DEF Inv
<1>2. e.pageStoreSet = FALSE
  BY DEF NewEntry
<1>3. entry[h].pages = "none" /\ entry[h].pageStoreSet = FALSE
  BY DEF Inv, EntryInv, Blank
<1> HIDE DEF e
<1> QED
  BY <1>1, <1>2, <1>3, PutPages DEF Inv, e

LEMMA AttachPins ==
  ASSUME Inv, PinsInv, NEW c \in Context, NEW h \in Handle, NEW trusted \in BOOLEAN,
         cid[c] \in Cid, AttachPermitted(c, h, trusted), NEW undone \in BOOLEAN,
         Put(h, IF undone THEN DropEnd(AttachEntry(entry[h], c), cid[c])
                          ELSE AttachEntry(entry[h], c)),
         UNCHANGED <<pins, life, hostQP>>
  PROVE  PinsInv'
<1> DEFINE a == AttachEntry(entry[h], c)
           e == IF undone THEN DropEnd(a, cid[c]) ELSE a
<1>1. /\ entry[h] \in Entry /\ EndsOK(entry[h])
      /\ entry[h].refCount # 0 /\ entry[h].allowAttach
      /\ cid[c] \notin {entry[h].createId, entry[h].attachId}
  BY MayAttachOK
<1>2. TypeOK /\ EntryInv
  BY DEF Inv
<1>3. /\ a \in Entry /\ EndsOK(a) /\ a.refCount = 2
      /\ a.pages = entry[h].pages /\ a.createId = entry[h].createId /\ a.attachId = cid[c]
  BY <1>1, <1>2, AttachEntryOK
<1>4. a.pageStoreSet <=> entry[h].pageStoreSet
  BY <1>1 DEF AttachEntry, Entry
<1> HIDE DEF a
<1>5. /\ e \in Entry /\ EndsOK(e) /\ e.refCount # 0
      /\ e.pages = a.pages /\ (e.pageStoreSet <=> a.pageStoreSet)
  <2>1. CASE ~undone
    BY <1>3, <2>1
  <2>2. CASE undone
    <3> DEFINE f == DropEnd(a, cid[c])
    <3>1. /\ f \in Entry /\ (f.refCount # 0 => EndsOK(f)) /\ f.pages = a.pages
          /\ f.refCount = 0 <=> (f.createId = NoId /\ f.attachId = NoId)
      BY <1>3, DropEndOK
    <3>2. (f.pageStoreSet <=> a.pageStoreSet) /\ f.createId = a.createId
      BY <1>1, <1>3 DEF DropEnd, Entry
    <3>3. a.createId # NoId
      BY <1>1, <1>3 DEF EndsOK
    <3> HIDE DEF f
    <3> QED
      BY <2>2, <3>1, <3>2, <3>3 DEF f
  <2> QED
    BY <2>1, <2>2
<1>6. Put(h, e)
  BY DEF a
<1> HIDE DEF e
<1> QED
  BY <1>2, <1>3, <1>4, <1>5, <1>6, PutPages

\* The creator's pages are pinned once.
LEMMA SetPageStorePins ==
  ASSUME Inv, PinsInv, NEW c \in Context, NEW h \in Handle, NEW pages \in Pages,
         SetPageStore(c, h, pages)
  PROVE  PinsInv'
<1>1. /\ UNCHANGED <<life, hostQP>> /\ ~entry[h].pageStoreSet
      /\ entry' = [entry EXCEPT ![h].pageStoreSet = TRUE, ![h].pages = pages]
      /\ pins' = IF pages = "pinned" THEN [pins EXCEPT ![h] = @ + 1] ELSE pins
  BY DEF SetPageStore, ctxVars
<1>2. TypeOK /\ entry[h] \in Entry /\ PagesOK(h)
  BY DEF Inv, TypeOK, PinsInv
<1>3. pins[h] = 0
  BY <1>1, <1>2 DEF PagesOK
<1>4. entry'[h].pages = pages /\ entry'[h].pageStoreSet
      /\ pins'[h] = IF pages = "pinned" THEN 1 ELSE 0
  BY <1>1, <1>2, <1>3 DEF TypeOK, Entry
<1>5. \A g \in Handle \ {h} : SamePages(g)
  BY <1>1, <1>2 DEF SamePages, TypeOK
<1> QED
  BY <1>1, <1>4, <1>5, VersionsKept, PagesKept DEF PinsInv, PagesOK

\* The last end gives them back.
LEMMA DetachPins ==
  ASSUME Inv, PinsInv, NEW c \in Context, NEW h \in Handle, cid[c] \in Cid,
         life[c] # "free", IsEnd(h, cid[c]), DetachEnd(c, h)
  PROVE  PinsInv'
<1> DEFINE e == DropEnd(entry[h], cid[c])
           b == IF e.refCount = 0 THEN Blank ELSE e
<1>1. /\ TypeOK /\ EntryInv /\ Put(h, e) /\ ReleasePages(c, h, e)
      /\ UNCHANGED <<life, hostQP>> /\ hostQP[c] /\ PagesOK(h)
  BY DEF DetachEnd, Inv, PinsInv, Versions
<1>2. entry[h] \in Entry /\ EndsOK(entry[h])
      /\ cid[c] \in {entry[h].createId, entry[h].attachId}
  BY DEF Inv, TypeOK, EntryInv, IsEnd
<1>3. e \in Entry /\ (e.refCount # 0 => EndsOK(e)) /\ e.pages = entry[h].pages
  BY <1>2, DropEndOK
<1>4. e.pageStoreSet <=> entry[h].pageStoreSet
  BY <1>2 DEF DropEnd, Entry
<1> HIDE DEF e
<1>5. entry' = [entry EXCEPT ![h] = b]
  BY <1>1, <1>3, PutOK
<1>6. entry'[h] = b
  BY <1>1, <1>5 DEF TypeOK
<1>7. pins \in [Handle -> Nat]
  BY <1>1 DEF TypeOK
<1>8. PagesOK(h)'
  <2>1. CASE e.refCount = 0
    <3>1. b = Blank
      BY <2>1
    <3>2. pins'[h] = 0
      BY <1>1, <1>3, <1>4, <1>7, <2>1 DEF ReleasePages, PagesOK
    <3> QED
      BY <1>6, <3>1, <3>2 DEF PagesOK, Blank
  <2>2. CASE e.refCount # 0
    <3>1. b = e /\ pins' = pins
      BY <1>1, <2>2 DEF ReleasePages
    <3> QED
      BY <1>1, <1>3, <1>4, <1>6, <3>1 DEF PagesOK
  <2> QED
    BY <2>1, <2>2
<1>9. \A g \in Handle \ {h} : SamePages(g)
  <2>1. \A g \in Handle \ {h} : entry'[g] = entry[g]
    BY <1>1, <1>5 DEF TypeOK
  <2>2. \A g \in Handle \ {h} : pins'[g] = pins[g]
    BY <1>1, <1>7 DEF ReleasePages
  <2> QED
    BY <2>1, <2>2 DEF SamePages
<1> QED
  BY <1>1, <1>8, <1>9, VersionsKept, PagesKept DEF PinsInv

LEMMA NextPins == AllSupportHostQP /\ Inv /\ Rendezvous /\ PinsInv /\ [Next]_vars => PinsInv'
<1> SUFFICES ASSUME AllSupportHostQP, Inv, Rendezvous, PinsInv, [Next]_vars PROVE PinsInv'
  OBVIOUS
<1>0. Guest \subseteq Context /\ Host \in Context /\ FreeIsEmpty /\ TypeOK
  BY DEF Context, Inv
<1>1. ASSUME NEW c \in Context, NEW h \in Handle, h \in queuePairArray[c], life[c] # "free",
             DetachEnd(c, h)
      PROVE  PinsInv'
  <2>1. cid[c] \in Cid /\ IsEnd(h, cid[c])
    BY <1>0, <1>1 DEF FreeIsEmpty, Rendezvous, HandleInv, Shared, Members
  <2> QED
    BY <1>1, <2>1, DetachPins
<1>2. ASSUME UNCHANGED <<entry, pins>>, Versions' PROVE PinsInv'
  BY <1>2 DEF PinsInv, PagesOK
<1>3. ASSUME NEW c \in Context, life[c] = "listed" PROVE cid[c] \in Cid /\ life[c] # "free"
  BY <1>0, <1>3 DEF FreeIsEmpty
<1>4. ASSUME NEW c \in Guest, NextContext(c) PROVE PinsInv'
  <2>0. c \in Context
    BY <1>0
  <2>1. ASSUME NEW i \in GuestCid, NEW v \in HostQPSupport, NEW r \in Restrictions,
               InitContext(c, i, v, r)
        PROVE  PinsInv'
    <3>1. /\ UNCHANGED <<entry, pins>> /\ hostQP' = [hostQP EXCEPT ![c] = v]
          /\ life' = [life EXCEPT ![c] = "listed"] /\ v = TRUE
      BY <2>1 DEF InitContext, qpVars, AllSupportHostQP
    <3>2. Versions'
      BY <1>0, <2>0, <3>1 DEF PinsInv, Versions, TypeOK
    <3> QED
      BY <1>2, <3>1, <3>2
  <2>2. CASE ReleaseContext(c)
    <3>1. /\ UNCHANGED <<entry, pins, hostQP>> /\ life[c] = "listed"
          /\ life' = [life EXCEPT ![c] = "dying"]
      BY <2>2 DEF ReleaseContext, qpVars
    <3>2. Versions'
      BY <1>0, <2>0, <3>1 DEF PinsInv, Versions, TypeOK
    <3> QED
      BY <1>2, <3>1, <3>2
  <2>3. ASSUME NEW h \in Handle, FreeContextDetach(c, h) PROVE PinsInv'
    <3>1. h \in queuePairArray[c] /\ life[c] # "free"
      BY <2>3 DEF FreeContextDetach
    <3>2. IsEnd(h, cid[c])
      BY <2>0, <3>1 DEF Rendezvous, HandleInv, Shared, Members
    <3>3. DetachEnd(c, h)
      BY <2>3, <3>2 DEF FreeContextDetach
    <3> QED
      BY <1>1, <2>0, <3>1, <3>3
  <2>4. CASE FreeContext(c)
    <3>1. /\ UNCHANGED <<entry, pins>> /\ life' = [life EXCEPT ![c] = "free"]
          /\ hostQP' = [hostQP EXCEPT ![c] = FALSE]
      BY <2>4 DEF FreeContext, qpVars
    <3>2. Versions'
      BY <1>0, <2>0, <3>1 DEF PinsInv, Versions, TypeOK
    <3> QED
      BY <1>2, <3>1, <3>2
  <2> QED
    BY <1>4, <2>1, <2>2, <2>3, <2>4 DEF NextContext
<1>5. ASSUME NEW c \in Context, NEW h \in Handle, NEW peer \in Id, NEW produce \in Size,
             NEW consume \in Size, NEW trusted \in BOOLEAN, NEW recorded \in BOOLEAN,
             Create(c, h, peer, produce, consume, trusted, recorded)
      PROVE  PinsInv'
  <2>1. /\ life[c] = "listed" /\ h \notin queuePairList
        /\ Put(h, NewEntry(c, peer, produce, consume, trusted))
        /\ UNCHANGED <<pins, life, hostQP>>
    BY <1>5 DEF Create, MayCreate, Append
  <2> QED
    BY <1>3, <2>1, CreatePins
<1>6. ASSUME NEW c \in Context, NEW h \in Handle, NEW produce \in Size, NEW consume \in Size,
             NEW trusted \in BOOLEAN, NEW recorded \in BOOLEAN,
             Attach(c, h, produce, consume, trusted, recorded)
      PROVE  PinsInv'
  <2>1. /\ life[c] = "listed" /\ AttachPermitted(c, h, trusted)
        /\ Put(h, AttachEntry(entry[h], c))
        /\ UNCHANGED <<pins, life, hostQP>>
    BY <1>6 DEF Attach, MayAttach, Append
  <2>2. Put(h, IF FALSE THEN DropEnd(AttachEntry(entry[h], c), cid[c])
                        ELSE AttachEntry(entry[h], c))
    BY <2>1
  <2> QED
    BY <1>3, <2>1, <2>2, AttachPins
<1>7. ASSUME NEW c \in Guest, NEW h \in Handle, NextGuest(c, h) PROVE PinsInv'
  <2>0. c \in Context
    BY <1>0
  <2>1. ASSUME NEW peer \in Id, NEW produce \in Size, NEW consume \in Size,
               NEW recorded \in BOOLEAN, UndoCreate(c, h, peer, produce, consume, recorded)
        PROVE  PinsInv'
    <3>1. /\ life[c] = "listed" /\ h \notin queuePairList
          /\ UNCHANGED <<pins, life, hostQP>>
      BY <2>1 DEF UndoCreate, MayCreate
    <3>2. CASE recorded
      <4>1. entry' = entry
        BY <2>1, <3>2 DEF UndoCreate, qpVars
      <4> QED
        BY <1>2, <3>1, <4>1, VersionsKept DEF PinsInv
    <3>3. CASE ~recorded
      <4>1. Put(h, NewEntry(c, peer, produce, consume, FALSE))
        BY <2>1, <3>3 DEF UndoCreate
      <4> QED
        BY <1>3, <2>0, <3>1, <4>1, CreatePins
    <3> QED
      BY <3>2, <3>3
  <2>2. ASSUME NEW produce \in Size, NEW consume \in Size, NEW recorded \in BOOLEAN,
               UndoAttach(c, h, produce, consume, recorded)
        PROVE  PinsInv'
    <3>1. /\ life[c] = "listed" /\ AttachPermitted(c, h, FALSE)
          /\ Put(h, IF recorded THEN DropEnd(AttachEntry(entry[h], c), cid[c])
                                ELSE AttachEntry(entry[h], c))
          /\ UNCHANGED <<pins, life, hostQP>>
      BY <2>2 DEF UndoAttach, MayAttach
    <3> QED
      BY <1>3, <2>0, <3>1, AttachPins
  <2>3. ASSUME Detach(c, h) PROVE PinsInv'
    BY <1>1, <2>0, <2>3 DEF Detach
  <2> QED
    BY <1>5, <1>6, <1>7, <2>0, <2>1, <2>2, <2>3, SetPageStorePins DEF NextGuest
<1>8. ASSUME NEW h \in Handle, NextHost(h) PROVE PinsInv'
  <2>1. ASSUME NEW trusted \in BOOLEAN, HostAttachNull(h, trusted) PROVE PinsInv'
    BY <1>2, <2>1, VersionsKept DEF HostAttachNull, ctxVars, qpVars, PinsInv
  <2>2. ASSUME Detach(Host, h) PROVE PinsInv'
    BY <1>0, <1>1, <2>2 DEF Detach
  <2> QED
    BY <1>0, <1>5, <1>6, <1>8, <2>1, <2>2 DEF NextHost
<1>9. CASE UNCHANGED vars
  BY <1>2, <1>9, VersionsKept DEF vars, ctxVars, qpVars, PinsInv
<1> QED
  BY <1>4, <1>7, <1>8, <1>9 DEF Next

\* Where every guest supports host queue pairs, user pages are pinned once for
\* a live entry that holds them and are all given back when it is freed.
THEOREM PagesAreGivenBack == AllSupportHostQP => (Spec => []PinsBalanced)
<1> SUFFICES ASSUME AllSupportHostQP PROVE Spec => []PinsBalanced
  OBVIOUS
<1>1. Init => PinsInv
  <2> SUFFICES ASSUME Init PROVE PinsInv
    OBVIOUS
  <2>1. \A c \in Context : life[c] # "free" => c = Host
    BY DEF Init
  <2>2. hostQP[Host]
    BY DEF Init, Context
  <2> QED
    BY <2>1, <2>2 DEF Init, PinsInv, Versions, PagesOK, Blank
<1>2. Inv /\ PinsInv => PinsBalanced
  <2> SUFFICES ASSUME Inv, PinsInv, NEW h \in Handle
               PROVE  pins[h] = IF h \in queuePairList /\ entry[h].pages = "pinned" THEN 1 ELSE 0
    BY DEF PinsBalanced
  <2>1. h \notin queuePairList => entry[h].pages = "none"
    BY DEF Inv, EntryInv, Blank
  <2> QED
    BY <2>1 DEF PinsInv, PagesOK
<1>3. Inv /\ Rendezvous /\ PinsInv /\ [Next]_vars => PinsInv'
  BY NextPins
<1> QED
  BY <1>1, <1>2, <1>3, RendezvousHolds, PTL DEF Spec

-----------------------------------------------------------------------------
(***************************************************************************)
(* The broker implements QueuePairPairing, where arrays can always grow.   *)
(***************************************************************************)
PhaseVars == <<[h \in Handle |-> Phase(h)], [h \in Handle |-> Members(h)]>>

\* The rendezvous that a step of the broker is not about.
LEMMA PairingStays ==
  ASSUME NEW g \in Handle, SameRendezvous(g)
  PROVE  Phase(g)' = Phase(g) /\ Members(g)' = Members(g)
  BY DEF SameRendezvous, Phase

LEMMA PairingStutters ==
  ASSUME \A g \in Handle : SameRendezvous(g)
  PROVE  UNCHANGED PhaseVars
  BY PairingStays DEF PhaseVars

\* A rendezvous takes a step of its own.
LEMMA PairingSteps ==
  ASSUME NEW h \in Handle, \A g \in Handle \ {h} : SameRendezvous(g),
         \/ \E c \in Context :
              \/ Phase(h) = "absent" /\ Phase(h)' = "open" /\ Members(h)' = {c}
              \/ /\ Phase(h) = "open" /\ Phase(h)' = "closed"
                 /\ c \notin Members(h) /\ Members(h)' = Members(h) \cup {c}
              \/ /\ c \in Members(h) /\ Members(h)' = Members(h) \ {c}
                 /\ Phase(h)' = IF Members(h) = {c} THEN "absent" ELSE Phase(h)
         \/ Phase(h) = "open" /\ Phase(h)' = "closed" /\ Members(h)' = Members(h)
  PROVE  Pairing!Next
<1> DEFINE phase == [g \in Handle |-> Phase(g)]
           parties == [g \in Handle |-> Members(g)]
<1>1. phase' = [phase EXCEPT ![h] = Phase(h)'] /\ parties' = [parties EXCEPT ![h] = Members(h)']
  BY PairingStays
<1>2. phase[h] = Phase(h) /\ parties[h] = Members(h)
  OBVIOUS
<1>3. CASE Phase(h) = "open" /\ Phase(h)' = "closed" /\ Members(h)' = Members(h)
  <2>1. Pairing!JoinUndone(h)
    BY <1>1, <1>2, <1>3 DEF Pairing!JoinUndone, Phase
  <2> QED
    BY <2>1 DEF Pairing!Next
<1>4. ASSUME NEW c \in Context,
             Phase(h) = "absent" /\ Phase(h)' = "open" /\ Members(h)' = {c}
      PROVE  Pairing!Next
  <2>1. Pairing!Open(h, c)
    BY <1>1, <1>2, <1>4 DEF Pairing!Open, Phase
  <2> QED
    BY <2>1 DEF Pairing!Next
<1>5. ASSUME NEW c \in Context, Phase(h) = "open" /\ Phase(h)' = "closed",
             c \notin Members(h) /\ Members(h)' = Members(h) \cup {c}
      PROVE  Pairing!Next
  <2>1. Pairing!Join(h, c)
    BY <1>1, <1>2, <1>5 DEF Pairing!Join, Phase
  <2> QED
    BY <2>1 DEF Pairing!Next
<1>6. ASSUME NEW c \in Context, c \in Members(h) /\ Members(h)' = Members(h) \ {c},
             Phase(h)' = IF Members(h) = {c} THEN "absent" ELSE Phase(h)
      PROVE  Pairing!Next
  <2>1. Pairing!Leave(h, c)
    BY <1>1, <1>2, <1>6 DEF Pairing!Leave, Phase
  <2> QED
    BY <2>1 DEF Pairing!Next
<1> QED
  BY <1>3, <1>4, <1>5, <1>6

\* Every step of the broker is a step of the rendezvous of one handle, or none.
LEMMA PairingStep ==
  ~AppendMayFail /\ Inv /\ Rendezvous /\ [Next]_vars => Pairing!Next \/ UNCHANGED PhaseVars
<1> SUFFICES ASSUME ~AppendMayFail, Inv, Rendezvous, [Next]_vars
             PROVE  Pairing!Next \/ UNCHANGED PhaseVars
  OBVIOUS
<1>0. Guest \subseteq Context /\ Host \in Context /\ TypeOK
  BY DEF Context, Inv
<1>1. ASSUME \A g \in Handle : SameRendezvous(g) PROVE UNCHANGED PhaseVars
  BY <1>1, PairingStutters
<1>2. ASSUME NEW c \in Context, NEW h \in Handle, h \in queuePairArray[c], cid[c] \in Cid,
             DetachEnd(c, h)
      PROVE  Pairing!Next
  BY <1>2, DetachRendezvous, PairingSteps
<1>3. ASSUME NEW c \in Guest, NextContext(c) PROVE Pairing!Next \/ UNCHANGED PhaseVars
  BY <1>0, <1>1, <1>2, <1>3, ContextRendezvous
<1>4. ASSUME NEW c \in Context, NEW h \in Handle, NEW peer \in Id, NEW produce \in Size,
             NEW consume \in Size, NEW trusted \in BOOLEAN, NEW recorded \in BOOLEAN,
             Create(c, h, peer, produce, consume, trusted, recorded)
      PROVE  Pairing!Next
  <2>1. recorded
    BY <1>4 DEF Create, Append
  <2>2. /\ \A g \in Handle \ {h} : SameRendezvous(g)
        /\ Phase(h) = "absent" /\ Phase(h)' = "open" /\ Members(h)' = {c}
    <3>1. /\ \A g \in Handle \ {h} : SameRendezvous(g)
          /\ Phase(h) = "absent" /\ Phase(h)' = "open"
          /\ Members(h)' = IF recorded THEN {c} ELSE {}
      BY <1>4, CreateRendezvous
    <3> QED
      BY <2>1, <3>1
  <2> QED
    BY <2>2, PairingSteps
<1>5. ASSUME NEW c \in Context, NEW h \in Handle, NEW produce \in Size, NEW consume \in Size,
             NEW trusted \in BOOLEAN, NEW recorded \in BOOLEAN,
             Attach(c, h, produce, consume, trusted, recorded)
      PROVE  Pairing!Next
  <2>1. recorded
    BY <1>5 DEF Attach, Append
  <2>2. /\ \A g \in Handle \ {h} : SameRendezvous(g)
        /\ Phase(h) = "open" /\ Phase(h)' = "closed"
        /\ c \notin Members(h) /\ Members(h)' = Members(h) \cup {c}
    <3>1. /\ \A g \in Handle \ {h} : SameRendezvous(g)
          /\ Phase(h) = "open" /\ Phase(h)' = "closed" /\ c \notin Members(h)
          /\ Members(h)' = IF recorded THEN Members(h) \cup {c} ELSE Members(h)
      BY <1>5, AttachRendezvous
    <3> QED
      BY <2>1, <3>1
  <2> QED
    BY <2>2, PairingSteps
<1>6. ASSUME NEW c \in Context, NEW h \in Handle, Detach(c, h) PROVE Pairing!Next
  <2>1. DetachEnd(c, h) /\ h \in queuePairArray[c] /\ cid[c] \in Cid
    BY <1>6 DEF Detach, Inv, FreeIsEmpty
  <2> QED
    BY <1>2, <2>1
<1>7. ASSUME NEW c \in Guest, NEW h \in Handle, NextGuest(c, h)
      PROVE  Pairing!Next \/ UNCHANGED PhaseVars
  <2>0. c \in Context
    BY <1>0
  <2>1. ASSUME NEW peer \in Id, NEW produce \in Size, NEW consume \in Size,
               NEW recorded \in BOOLEAN, UndoCreate(c, h, peer, produce, consume, recorded)
        PROVE  UNCHANGED PhaseVars
    BY <1>1, <2>0, <2>1, UndoCreateRendezvous
  <2>2. ASSUME NEW produce \in Size, NEW consume \in Size, NEW recorded \in BOOLEAN,
               UndoAttach(c, h, produce, consume, recorded)
        PROVE  Pairing!Next
    <3>1. /\ \A g \in Handle \ {h} : SameRendezvous(g)
          /\ Phase(h) = "open" /\ Phase(h)' = "closed" /\ Members(h)' = Members(h)
      BY <2>0, <2>2, UndoAttachRendezvous
    <3> QED
      BY <3>1, PairingSteps
  <2>3. ASSUME NEW pages \in Pages, SetPageStore(c, h, pages) PROVE UNCHANGED PhaseVars
    BY <1>1, <2>0, <2>3, SetPageStoreRendezvous
  <2> QED
    BY <1>4, <1>5, <1>6, <1>7, <2>0, <2>1, <2>2, <2>3 DEF NextGuest
<1>8. ASSUME NEW h \in Handle, NextHost(h) PROVE Pairing!Next \/ UNCHANGED PhaseVars
  <2>1. ASSUME NEW trusted \in BOOLEAN, HostAttachNull(h, trusted) PROVE UNCHANGED PhaseVars
    <3>1. UNCHANGED <<cid, restricted, queuePairArray, qpVars>>
      BY <2>1 DEF HostAttachNull, ctxVars
    <3> QED
      BY <1>1, <3>1 DEF SameRendezvous, Members, qpVars
  <2> QED
    BY <1>0, <1>4, <1>5, <1>6, <1>8, <2>1 DEF NextHost
<1>9. CASE UNCHANGED vars
  BY <1>1, <1>9 DEF vars, ctxVars, qpVars, SameRendezvous, Members
<1> QED
  BY <1>3, <1>7, <1>8, <1>9 DEF Next

\* The broker implements the rendezvous: one attach per life of an entry, and
\* the handle is free again exactly when nobody is attached.
THEOREM BrokerPairs == ~AppendMayFail => (Spec => ImplementsPairing)
<1> SUFFICES ASSUME ~AppendMayFail PROVE Spec => ImplementsPairing
  OBVIOUS
<1>1. Init => Pairing!Init
  BY DEF Init, Pairing!Init, Members
<1>2. Inv /\ Rendezvous /\ [Next]_vars =>
        [Pairing!Next]_<<[h \in Handle |-> IF h \notin queuePairList THEN "absent"
                             ELSE IF entry[h].allowAttach THEN "open" ELSE "closed"],
                         [h \in Handle |-> Members(h)]>>
  BY PairingStep DEF PhaseVars, Phase
<1> QED
  BY <1>1, <1>2, RendezvousHolds, PTL DEF Spec, ImplementsPairing, Pairing!Spec
=============================================================================
