--------------------- MODULE VMCIDatagramProcess_proofs ---------------------
(***************************************************************************)
(* Nobody uses a datagram entry or a datagram process that has been freed, *)
(* however many processes, threads and senders there are.                  *)
(*                                                                         *)
(* The destroyer of a handle frees the entry when it is told that the last *)
(* reference is gone.  It is told once, by the one who releases the last   *)
(* reference, if the counts are right, if the entry it waits for is the    *)
(* one of its own process, and if nothing but that wakes it.  The proof    *)
(* needs the other two things the model can let happen to be excluded: a   *)
(* signal that ends the wait early, and a handle that is made again while  *)
(* it is being destroyed.                                                  *)
(***************************************************************************)
EXTENDS VMCIDatagramProcess, FiniteSetTheorems, TLAPS

Undisturbed == "signal" \notin May /\ "reuse" \notin May

-----------------------------------------------------------------------------
(* The inductive invariant                                                 *)

\* Those who make or destroy the process of their file; those of them for whom
\* its entry is in memory; those who are to wake a destroyer.
Owning == {"copy"} \cup Destroying
Keeping == Owning \ {"flush"}
Signalling == {"signal", "cb_signal"}

\* Those who have a reference in `entry`, and one in `found`.
Holding == {"callback", "release", "remove", "unlink", "drop", "wait", "release_cb"}
Finding == {"unlink", "drop"}

\* Destroyers who know their entry, before and after it is off the table.
Before == {"remove", "unlink"}
After == {"drop", "wait", "release_cb", "cb_signal", "asleep", "free"}

Holders(e) == {t \in Threads : thread[t].entry = e /\ thread[t].pc \in Holding}
Finders(e) == {t \in Threads : thread[t].found = e /\ thread[t].pc \in Finding}
Link(e) == IF e \in linked THEN 1 ELSE 0

EntryCounted(e) ==
  /\ entry[e].refCount = Link(e) + Cardinality(Holders(e)) + Cardinality(Finders(e))
  /\ entry[e].allocated <=> entry[e].refCount # 0
  /\ entry[e].allocated => e \in memory /\ entry[e].handle = file[clientData[e]].handle

\* The process of an entry in memory is there, and so is somebody to destroy it.
Kept(f) == file[f].isProcess \/ \E t \in Threads : thread[t].file = f /\ thread[t].pc \in Keeping
MemoryOwned(e) ==
  /\ clientData[e] \in Files
  /\ file[clientData[e]].allocated
  /\ file[clientData[e]].handle \in Handle
  /\ Kept(clientData[e])

HandlesDiffer ==
  \A d, e \in memory : file[clientData[d]].handle = file[clientData[e]].handle => d = e

\* The process can be found by its handle until its destroyer removes it.
Found(f) ==
  file[f].isProcess \/ In(f, {"copy", "get"}) # {} => \E e \in linked : clientData[e] = f

\* One thread makes or destroys the process of a file.  Nobody else makes one,
\* because the file is locked or because nobody can call for it.
OneOwner(t) ==
  /\ thread[t].pc \in Creating \cup Reading \cup Destroying => thread[t].file \in Files
  /\ thread[t].pc \in Owning =>
       /\ ~file[thread[t].file].isProcess
       /\ \A u \in Threads :
            thread[u].pc \in Owning /\ thread[u].file = thread[t].file => u = t
       /\ \/ file[thread[t].file].locked
          \/ /\ thread[t].pc # "copy"
             /\ \A u \in Threads : At(u, "lock") => thread[u].file # thread[t].file

\* A sender has an entry.  A destroyer has that of its own process, and found
\* the same one.
Follows(t) ==
  /\ ~At(t, "drop_signal")
  /\ thread[t].pc \in {"callback", "release"} => thread[t].entry \in Entry
  /\ thread[t].pc \in Before \cup After =>
       thread[t].entry \in memory /\ clientData[thread[t].entry] = thread[t].file
  /\ thread[t].pc \in Before => thread[t].entry \in linked
  /\ thread[t].pc \in After => thread[t].entry \notin linked
  /\ thread[t].pc \in Finding => thread[t].found = thread[t].entry

\* A destroyer is woken once, when nobody has a reference.
Alone(t) ==
  /\ ~entry[thread[t].entry].allocated
  /\ \A u \in Threads :
       thread[u].pc \in Signalling /\ thread[u].entry = thread[t].entry => u = t
WokenOnce(t) ==
  /\ thread[t].pc \in {"release_cb", "cb_signal"} => t \in interruptible
  /\ thread[t].pc \in Signalling => thread[t].entry \in memory /\ Alone(t)
  /\ At(t, "free") => Alone(t)
  /\ At(t, "asleep") /\ t \notin interruptible => Alone(t)

Entries == (\A e \in Entry : EntryCounted(e)) /\ (\A e \in memory : MemoryOwned(e))
ThreadsFit == \A t \in Threads : OneOwner(t) /\ Follows(t) /\ WokenOnce(t)

Inv == TypeOK /\ Entries /\ HandlesDiffer /\ (\A f \in Files : Found(f)) /\ ThreadsFit

-----------------------------------------------------------------------------
(* The step of a thread: where it goes, and with which file and entries.   *)

Moves(t, r) ==
  /\ r \in Thread
  /\ thread' \in [Threads -> Thread]
  /\ thread'[t] = r
  /\ \A u \in Threads \ {t} : thread'[u] = thread[u]

LEMMA MoveByExcept ==
  ASSUME thread \in [Threads -> Thread], NEW t \in Threads, NEW r \in Thread,
         thread' = [thread EXCEPT ![t] = r]
  PROVE  Moves(t, r)
  BY DEF Moves

\* The sets that are counted are finite, and a reference is a count.
LEMMA RefsFinite ==
  ASSUME NEW e
  PROVE  /\ IsFiniteSet(Holders(e)) /\ Cardinality(Holders(e)) \in Nat
         /\ IsFiniteSet(Finders(e)) /\ Cardinality(Finders(e)) \in Nat
<1>1. Holders(e) \subseteq Threads /\ Finders(e) \subseteq Threads
  BY DEF Holders, Finders
<1> QED
  BY <1>1, DatagramProcessAssumption, FS_Subset, FS_CardinalityType

LEMMA Referenced ==
  ASSUME Inv, NEW e \in Entry, e \in linked \/ Holders(e) # {} \/ Finders(e) # {}
  PROVE  entry[e].allocated /\ entry[e].refCount \in Nat \ {0} /\ e \in memory
<1>1. EntryCounted(e) /\ entry[e].refCount \in Nat
  BY DEF Inv, Entries, TypeOK, TableTypeOK
<1>2. Holders(e) # {} => Cardinality(Holders(e)) # 0
  BY RefsFinite, FS_EmptySet
<1>3. Finders(e) # {} => Cardinality(Finders(e)) # 0
  BY RefsFinite, FS_EmptySet
<1>4. Cardinality(Holders(e)) \in Nat /\ Cardinality(Finders(e)) \in Nat
  BY RefsFinite
<1>5. entry[e].refCount # 0
  <2>1. Link(e) \in Nat /\ (e \in linked => Link(e) = 1)
    BY DEF Link
  <2>2. Link(e) # 0 \/ Cardinality(Holders(e)) # 0 \/ Cardinality(Finders(e)) # 0
    BY <1>2, <1>3, <2>1
  <2>3. entry[e].refCount = Link(e) + Cardinality(Holders(e)) + Cardinality(Finders(e))
    BY <1>1 DEF EntryCounted
  <2> QED
    BY <1>4, <2>1, <2>2, <2>3
<1> QED
  BY <1>1, <1>5 DEF EntryCounted

\* Only one entry is under a handle, and it is that of its file.
LEMMA LinkedAlone ==
  ASSUME Inv, NEW d \in linked, NEW e \in memory,
         entry[d].handle = file[clientData[e]].handle
  PROVE  d = e
<1>1. d \in Entry
  BY DEF Inv, TypeOK, TableTypeOK
<1>2. d \in memory /\ entry[d].allocated
  BY <1>1, Referenced
<1>3. entry[d].handle = file[clientData[d]].handle
  BY <1>1, <1>2 DEF Inv, Entries, EntryCounted
<1> QED
  BY <1>2, <1>3 DEF Inv, HandlesDiffer

\* How the step of a thread counts.
LEMMA HoldersKept ==
  ASSUME NEW t \in Threads, NEW r, Moves(t, r), NEW e,
         (r.entry = e /\ r.pc \in Holding) <=> t \in Holders(e)
  PROVE  Holders(e)' = Holders(e)
  BY DEF Holders, Moves

LEMMA FindersKept ==
  ASSUME NEW t \in Threads, NEW r, Moves(t, r), NEW e,
         (r.found = e /\ r.pc \in Finding) <=> t \in Finders(e)
  PROVE  Finders(e)' = Finders(e)
  BY DEF Finders, Moves

LEMMA HoldersUp ==
  ASSUME NEW t \in Threads, NEW r, Moves(t, r), NEW e,
         r.entry = e, r.pc \in Holding, t \notin Holders(e)
  PROVE  Cardinality(Holders(e))' = Cardinality(Holders(e)) + 1
<1>1. Holders(e)' = Holders(e) \cup {t}
  BY DEF Holders, Moves
<1> QED
  BY <1>1, RefsFinite, FS_AddElement

LEMMA HoldersDown ==
  ASSUME NEW t \in Threads, NEW r, Moves(t, r), NEW e,
         r.pc \notin Holding, t \in Holders(e)
  PROVE  Cardinality(Holders(e))' = Cardinality(Holders(e)) - 1
<1>1. Holders(e)' = Holders(e) \ {t}
  BY DEF Holders, Moves
<1> QED
  BY <1>1, RefsFinite, FS_RemoveElement

LEMMA FindersUp ==
  ASSUME NEW t \in Threads, NEW r, Moves(t, r), NEW e,
         r.found = e, r.pc \in Finding, t \notin Finders(e)
  PROVE  Cardinality(Finders(e))' = Cardinality(Finders(e)) + 1
<1>1. Finders(e)' = Finders(e) \cup {t}
  BY DEF Finders, Moves
<1> QED
  BY <1>1, RefsFinite, FS_AddElement

LEMMA FindersDown ==
  ASSUME NEW t \in Threads, NEW r, Moves(t, r), NEW e,
         r.pc \notin Finding, t \in Finders(e)
  PROVE  Cardinality(Finders(e))' = Cardinality(Finders(e)) - 1
<1>1. Finders(e)' = Finders(e) \ {t}
  BY DEF Finders, Moves
<1> QED
  BY <1>1, RefsFinite, FS_RemoveElement

\* An entry that a step leaves alone.
LEMMA CountsKept ==
  ASSUME NEW e \in Entry, EntryCounted(e), Holders(e)' = Holders(e), Finders(e)' = Finders(e),
         entry'[e] = entry[e], e \in linked' <=> e \in linked,
         e \in memory => /\ e \in memory' /\ clientData'[e] = clientData[e]
                         /\ file'[clientData[e]].handle = file[clientData[e]].handle
  PROVE  EntryCounted(e)'
  BY DEF EntryCounted, Link

-----------------------------------------------------------------------------
(* Steps that leave the table and the memory of entries as they are.       *)

Still == {"idle", "lock"} \cup Reading

\* No more of a file than its queue changes.
QueuesChange ==
  /\ file' \in [Files -> File]
  /\ \A f \in Files : /\ file'[f].locked = file[f].locked
                      /\ file'[f].isProcess = file[f].isProcess
                      /\ file'[f].allocated = file[f].allocated
                      /\ file'[f].handle = file[f].handle

\* A call to make a process before it has, a call that reads or polls, and a
\* datagram that arrives.
LEMMA StillInv ==
  ASSUME Inv, NEW t \in Threads, NEW r, Moves(t, r),
         UNCHANGED <<tableVars, memory, clientData>>,
         QueuesChange,
         \/ thread[t].pc \in Still /\ r.pc \in Still
         \/ /\ thread[t].pc = "callback" /\ r.pc = "release"
            /\ r.entry = thread[t].entry,
         r.pc \in {"lock"} \cup Reading => r.file \in Files,
         r.pc = "lock" => IsOpen(r.file),
         interruptible' \subseteq Threads,
         \A u \in Threads : thread[u].pc \in Destroying
                              => (u \in interruptible' <=> u \in interruptible)
  PROVE  Inv'
<1> USE DEF QueuesChange
<1>1. TypeOK'
  BY DEF Inv, TypeOK, TableTypeOK, tableVars, Moves
<1>2. \A e \in Entry : EntryCounted(e)'
  <2> SUFFICES ASSUME NEW e \in Entry PROVE EntryCounted(e)'
    OBVIOUS
  <2>1. Holders(e)' = Holders(e)
    <3>1. (r.entry = e /\ r.pc \in Holding) <=> t \in Holders(e)
      BY DEF Holders, Holding, Still, Reading
    <3> QED
      BY <3>1, HoldersKept
  <2>2. Finders(e)' = Finders(e)
    <3>1. (r.found = e /\ r.pc \in Finding) <=> t \in Finders(e)
      BY DEF Finders, Finding, Still, Reading
    <3> QED
      BY <3>1, FindersKept
  <2>3. e \in memory => clientData[e] \in Files
    BY DEF Inv, Entries, MemoryOwned
  <2>4. EntryCounted(e)
    BY DEF Inv, Entries
  <2> QED
    BY <2>1, <2>2, <2>3, <2>4, CountsKept DEF tableVars
<1>3. \A f \in Files : Kept(f) => Kept(f)'
  BY DEF Kept, Keeping, Owning, Destroying, Still, Reading, Moves
<1>4. \A e \in memory' : MemoryOwned(e)'
  BY <1>3 DEF Inv, Entries, MemoryOwned
<1>5. HandlesDiffer'
  BY DEF Inv, Entries, MemoryOwned, HandlesDiffer
<1>6. \A f \in Files : Found(f)'
  <2> SUFFICES ASSUME NEW f \in Files, file'[f].isProcess \/ In(f, {"copy", "get"})' # {}
               PROVE  \E e \in linked' : clientData'[e] = f
    BY DEF Found
  <2>1. file[f].isProcess \/ In(f, {"copy", "get"}) # {}
    BY DEF In, Still, Reading, Moves
  <2> QED
    BY <2>1 DEF Inv, Found, tableVars
<1>7. ASSUME NEW u \in Threads PROVE OneOwner(u)'
  <2>1. OneOwner(u)
    BY DEF Inv, ThreadsFit
  <2>2. CASE u = t
    BY <2>2 DEF OneOwner, Moves, Still, Owning, Creating, Reading, Destroying
  <2>3. CASE u # t /\ r.pc # "lock"
    BY <2>1, <2>3
    DEF OneOwner, Moves, Still, Owning, Creating, Reading, Destroying, At
  <2>4. CASE u # t /\ r.pc = "lock"
    BY <2>1, <2>4
    DEF OneOwner, Moves, Still, Owning, Creating, Reading, Destroying, At, IsOpen, In
  <2> QED
    BY <2>2, <2>3, <2>4
<1>8. ASSUME NEW u \in Threads PROVE Follows(u)'
  <2>1. Follows(u)
    BY DEF Inv, ThreadsFit
  <2> QED
    BY <2>1 DEF Follows, Moves, Still, Reading, Before, After, Finding, At, tableVars
<1>9. ASSUME NEW u \in Threads PROVE WokenOnce(u)'
  <2>1. WokenOnce(u)
    BY DEF Inv, ThreadsFit
  <2>2. CASE u = t
    BY <2>2 DEF WokenOnce, Moves, Still, Reading, Signalling, At
  <2>3. CASE u # t
    BY <2>1, <2>3
    DEF WokenOnce, Alone, Moves, Still, Reading, Signalling, At, Destroying, tableVars
  <2> QED
    BY <2>2, <2>3
<1> QED
  BY <1>1, <1>2, <1>4, <1>5, <1>6, <1>7, <1>8, <1>9 DEF Inv, Entries, ThreadsFit

LEMMA BeginMoves ==
  ASSUME TypeOK, NEW t \in Threads, NEW f \in Files, NEW p \in {"lock", "get"} \cup Reading,
         Begin(t, p, f)
  PROVE  Moves(t, [thread[t] EXCEPT !.pc = p, !.file = f]) /\ thread[t].pc = "idle"
<1> DEFINE r == [thread[t] EXCEPT !.pc = p, !.file = f]
<1>1. thread \in [Threads -> Thread] /\ thread[t] \in Thread
  BY DEF TypeOK
<1>2. r \in Thread
  BY <1>1 DEF Thread, Creating, Destroying, Reading
<1>3. thread' = [thread EXCEPT ![t] = r] /\ thread[t].pc = "idle"
  BY DEF Begin, At
<1> QED
  BY <1>1, <1>2, <1>3, MoveByExcept

LEMMA GotoMoves ==
  ASSUME TypeOK, NEW t \in Threads, NEW p \in {"idle"} \cup Creating \cup Reading \cup Destroying \cup Sending,
         Goto(t, p)
  PROVE  Moves(t, [thread[t] EXCEPT !.pc = p])
<1> DEFINE r == [thread[t] EXCEPT !.pc = p]
<1>1. thread \in [Threads -> Thread] /\ thread[t] \in Thread
  BY DEF TypeOK
<1>2. r \in Thread
  BY <1>1 DEF Thread
<1>3. thread' = [thread EXCEPT ![t] = r]
  BY DEF Goto
<1> QED
  BY <1>1, <1>2, <1>3, MoveByExcept

LEMMA ReturnMoves ==
  ASSUME TypeOK, NEW t \in Threads, Return(t)
  PROVE  Moves(t, Idle)
<1>1. Idle \in Thread
  BY DEF Idle, Thread
<1> QED
  BY <1>1, MoveByExcept DEF TypeOK, Return

LEMMA CallsStill ==
  ASSUME Inv, NEW t \in Threads, NEW f \in Files,
         CallCreate(t, f) \/ \E pc \in Reading : CallRead(t, f, pc)
  PROVE  Inv'
<1>1. PICK p \in {"lock"} \cup Reading : /\ Begin(t, p, f)
                                         /\ p = "lock" => IsOpen(f)
                                         /\ interruptible' \in {interruptible, interruptible \cup {t}}
                                         /\ UNCHANGED <<tableVars, memory, clientData, file>>
  BY DEF CallCreate, CallRead
<1> DEFINE r == [thread[t] EXCEPT !.pc = p, !.file = f]
<1>2. TypeOK /\ thread[t] \in Thread
  BY DEF Inv, TypeOK
<1>3. Moves(t, r) /\ thread[t].pc = "idle"
  BY <1>1, <1>2, BeginMoves
<1>4. r.pc = p /\ r.file = f
  BY <1>2 DEF Thread
<1> HIDE DEF r
<1>5. interruptible' \subseteq Threads
  BY <1>1, <1>2 DEF TypeOK
<1>6. \A u \in Threads : thread[u].pc \in Destroying
                           => (u \in interruptible' <=> u \in interruptible)
  BY <1>1, <1>3 DEF Destroying
<1>7. thread[t].pc \in Still /\ r.pc \in Still
  BY <1>3, <1>4 DEF Still
<1> QED
  BY <1>1, <1>2, <1>3, <1>4, <1>5, <1>6, <1>7, StillInv DEF TypeOK, QueuesChange

\* Calls that return, or go on to read or poll.
LEMMA ReadsStill ==
  ASSUME Inv, NEW t \in Threads, CreateFails(t) \/ Reads(t) \/ Interrupted(t)
  PROVE  Inv'
<1>1. TypeOK /\ thread[t] \in Thread /\ thread \in [Threads -> Thread]
  BY DEF Inv, TypeOK
<1>2. /\ UNCHANGED <<tableVars, memory, clientData>>
      /\ thread[t].pc \in Still
      /\ interruptible' \in {interruptible, interruptible \cup {t}, interruptible \ {t}}
  BY DEF CreateFails, Reads, Interrupted, ReadCallWaits, ReadCallWoken, ReadCall, Poll,
         PollWoken, At, Still, Reading
<1>3. thread[t].pc \in Reading => thread[t].file \in Files
  BY DEF Inv, ThreadsFit, OneOwner
<1>4. \/ Moves(t, Idle)
      \/ /\ thread[t].pc \in Reading
         /\ \E p \in Reading : Moves(t, [thread[t] EXCEPT !.pc = p])
  <2>1. \/ Return(t)
        \/ thread[t].pc \in Reading /\ \E p \in Reading : Goto(t, p)
    BY DEF CreateFails, Reads, Interrupted, ReadCallWaits, ReadCallWoken, ReadCall, Poll,
           PollWoken, At, Reading
  <2> QED
    BY <1>1, <2>1, GotoMoves, ReturnMoves DEF Reading
<1>5. PICK r \in Thread : /\ Moves(t, r) /\ r.pc \in {"idle"} \cup Reading
                          /\ r.pc \in Reading => r.file \in Files
  <2>1. CASE Moves(t, Idle)
    BY <2>1 DEF Idle, Moves, Reading
  <2>2. CASE thread[t].pc \in Reading
             /\ \E p \in Reading : Moves(t, [thread[t] EXCEPT !.pc = p])
    <3>1. PICK p \in Reading : Moves(t, [thread[t] EXCEPT !.pc = p])
      BY <2>2
    <3> DEFINE s == [thread[t] EXCEPT !.pc = p]
    <3>2. s.pc = p /\ s.file = thread[t].file
      BY <1>1 DEF Thread
    <3>3. Moves(t, s) /\ s \in Thread
      BY <3>1 DEF Moves
    <3> QED
      BY <1>3, <2>2, <3>2, <3>3
  <2> QED
    BY <1>4, <2>1, <2>2
<1>6. QueuesChange
  <2>1. CASE file' = file
    BY <1>1, <2>1 DEF TypeOK, QueuesChange
  <2>2. CASE ReadCall(t)
    <3>1. PICK q \in {file[thread[t].file].queue, Tail(file[thread[t].file].queue)} :
            file' = [file EXCEPT ![thread[t].file].queue = q]
      BY <2>2 DEF ReadCall
    <3>2. thread[t].file \in Files /\ file \in [Files -> File]
      BY <1>1, <1>3, <2>2 DEF ReadCall, At, Reading, TypeOK
    <3>3. q \in Seq(Sizes)
      <4>1. file[thread[t].file].queue \in Seq(Sizes) /\ file[thread[t].file].queue # <<>>
        BY <2>2, <3>2 DEF ReadCall, File
      <4>2. \A z \in Seq(Sizes) : z # <<>> => Tail(z) \in Seq(Sizes)
        OBVIOUS
      <4> QED
        BY <3>1, <4>1, <4>2
    <3> QED
      BY <3>1, <3>2, <3>3 DEF File, QueuesChange
  <2> QED
    BY <2>1, <2>2 DEF CreateFails, Reads, Interrupted, ReadCallWaits, ReadCallWoken, Poll,
                      PollWoken
<1>7. /\ interruptible' \subseteq Threads
      /\ \A u \in Threads : thread[u].pc \in Destroying
                              => (u \in interruptible' <=> u \in interruptible)
  BY <1>1, <1>2 DEF TypeOK, Still, Reading, Destroying
<1>8. r.pc \in Still /\ r.pc # "lock"
  BY <1>5 DEF Still, Reading
<1> QED
  BY <1>2, <1>5, <1>6, <1>7, <1>8, StillInv

\* A datagram comes into the queue, or does not.
LEMMA NotifyInv ==
  ASSUME Inv, NEW t \in Threads, NotifyCBFails(t) \/ \E size \in Sizes : NotifyCB(t, size)
  PROVE  Inv'
<1>1. TypeOK /\ thread[t] \in Thread /\ thread \in [Threads -> Thread]
  BY DEF Inv, TypeOK
<1>2. /\ UNCHANGED <<tableVars, memory, clientData>>
      /\ thread[t].pc = "callback" /\ Goto(t, "release")
      /\ \/ interruptible' = interruptible
         \/ interruptible' = interruptible \ In(clientData[thread[t].entry], Reading)
  BY DEF NotifyCBFails, NotifyCB, At
<1> DEFINE r == [thread[t] EXCEPT !.pc = "release"]
<1>3. Moves(t, r)
  BY <1>1, <1>2, GotoMoves DEF Sending
<1>4. r.pc = "release" /\ r.entry = thread[t].entry
  BY <1>1 DEF Thread
<1>5. QueuesChange
  <2>1. CASE NotifyCBFails(t)
    BY <1>1, <2>1 DEF TypeOK, NotifyCBFails, QueuesChange
  <2>2. ASSUME NEW size \in Sizes, NotifyCB(t, size)
        PROVE  QueuesChange
    <3> DEFINE f == clientData[thread[t].entry]
    <3>1. file' = [file EXCEPT ![f].queue = Append(@, size)] /\ file \in [Files -> File]
      BY <1>1, <2>2 DEF NotifyCB, TypeOK
    <3>2. \A g \in Files : Append(file[g].queue, size) \in Seq(Sizes)
      BY <3>1 DEF File
    <3> HIDE DEF f
    <3> QED
      BY <3>1, <3>2 DEF File, QueuesChange
  <2> QED
    BY <2>1, <2>2
<1>6. /\ interruptible' \subseteq Threads
      /\ \A u \in Threads : thread[u].pc \in Destroying
                              => (u \in interruptible' <=> u \in interruptible)
  BY <1>1, <1>2 DEF TypeOK, In, Reading, Destroying
<1>7. r.pc \notin {"lock"} \cup Reading
  BY <1>4 DEF Reading
<1> HIDE DEF r
<1> QED
  BY <1>2, <1>3, <1>4, <1>5, <1>6, <1>7, StillInv

-----------------------------------------------------------------------------
(* Steps of owners and senders that leave the files as they are.           *)

\* An owner goes on with its file, or a sender goes on.
GoesOn(t, r) ==
  \/ /\ thread[t].pc \in Keeping /\ r.pc \in Keeping \ {"copy"} /\ r.file = thread[t].file
     /\ r.pc = "get" => thread[t].pc = "copy"
  \/ thread[t].pc \in {"idle"} \cup Sending /\ r.pc \in {"idle"} \cup Sending

LEMMA GoingOn ==
  ASSUME Inv, NEW t \in Threads, NEW r, Moves(t, r), GoesOn(t, r),
         UNCHANGED <<memory, clientData, file>>
  PROVE  /\ \A e \in memory' : MemoryOwned(e)'
         /\ HandlesDiffer'
         /\ \A u \in Threads : OneOwner(u)'
         /\ \A f \in Files : linked \subseteq linked' => Found(f)'
<1>1. \A f \in Files : Kept(f) => Kept(f)'
  BY DEF Kept, Moves, GoesOn, Keeping, Owning, Destroying, Sending
<1>2. \A e \in memory' : MemoryOwned(e)'
  BY <1>1 DEF Inv, Entries, MemoryOwned
<1>3. HandlesDiffer'
  BY DEF Inv, HandlesDiffer
<1>4. ASSUME NEW u \in Threads PROVE OneOwner(u)'
  <2>1. OneOwner(u) /\ OneOwner(t)
    BY DEF Inv, ThreadsFit
  <2>2. thread[t].pc \in Owning <=> r.pc \in Owning
    BY DEF GoesOn, Keeping, Owning, Destroying, Sending
  <2>3. thread[t].pc \in Owning => r.file = thread[t].file /\ r.pc # "copy"
    BY DEF GoesOn, Keeping, Owning, Destroying, Sending
  <2>4. r.pc # "lock" /\ (r.pc \in Creating \cup Reading \cup Destroying => r.pc \in Owning)
    BY DEF GoesOn, Keeping, Owning, Destroying, Sending, Creating, Reading
  <2>5. \A v \in Threads : /\ At(v, "lock")' => At(v, "lock") /\ thread'[v].file = thread[v].file
                           /\ thread'[v].pc \in Owning => /\ thread[v].pc \in Owning
                                                          /\ thread'[v].file = thread[v].file
    BY <2>2, <2>3, <2>4 DEF Moves, At
  <2>6. CASE u = t
    BY <2>1, <2>2, <2>3, <2>4, <2>5, <2>6 DEF OneOwner, Moves, Owning, Creating
  <2>7. CASE u # t
    BY <2>1, <2>5, <2>7 DEF OneOwner, Moves
  <2> QED
    BY <2>6, <2>7
<1>5. ASSUME NEW f \in Files, linked \subseteq linked' PROVE Found(f)'
  <2>1. In(f, {"copy", "get"})' # {} => In(f, {"copy", "get"}) # {}
    BY DEF In, Moves, GoesOn, Keeping, Sending
  <2> QED
    BY <1>5, <2>1 DEF Inv, Found
<1> QED
  BY <1>2, <1>3, <1>4, <1>5

\* The step does not change who has which references.
SameReferences(t, r) ==
  /\ thread[t].pc \in Holding <=> r.pc \in Holding
  /\ r.pc \in Holding => r.entry = thread[t].entry
  /\ thread[t].pc \in Finding <=> r.pc \in Finding
  /\ r.pc \in Finding => r.found = thread[t].found

LEMMA TableKept ==
  ASSUME Inv, NEW t \in Threads, NEW r, Moves(t, r), SameReferences(t, r),
         UNCHANGED <<linked, entry, memory, clientData>>,
         \A e \in memory : file'[clientData[e]].handle = file[clientData[e]].handle
  PROVE  \A e \in Entry : EntryCounted(e)'
<1> SUFFICES ASSUME NEW e \in Entry PROVE EntryCounted(e)'
  OBVIOUS
<1>1. Holders(e)' = Holders(e)
  <2>1. (r.entry = e /\ r.pc \in Holding) <=> t \in Holders(e)
    BY DEF Holders, SameReferences
  <2> QED
    BY <2>1, HoldersKept
<1>2. Finders(e)' = Finders(e)
  <2>1. (r.found = e /\ r.pc \in Finding) <=> t \in Finders(e)
    BY DEF Finders, SameReferences
  <2> QED
    BY <2>1, FindersKept
<1>3. EntryCounted(e)
  BY DEF Inv, Entries
<1> QED
  BY <1>1, <1>2, <1>3, CountsKept

\* The copy fails, and the process is destroyed.
LEMMA CopyFailsInv ==
  ASSUME Inv, NEW t \in Threads, CopyFails(t)
  PROVE  Inv'
<1> DEFINE r == [thread[t] EXCEPT !.pc = "get"]
<1>1. TypeOK /\ thread[t] \in Thread /\ thread \in [Threads -> Thread]
  BY DEF Inv, TypeOK
<1>2. /\ thread[t].pc = "copy" /\ Goto(t, "get")
      /\ UNCHANGED <<linked, entry, mistaken, memory, clientData, file, interruptible>>
  BY DEF CopyFails, At, tableVars
<1>3. Moves(t, r)
  BY <1>1, <1>2, GotoMoves DEF Destroying
<1>4. r.pc = "get" /\ r.file = thread[t].file
  BY <1>1 DEF Thread
<1> HIDE DEF r
<1>5. TypeOK'
  BY <1>1, <1>2, <1>3 DEF TypeOK, TableTypeOK, Moves
<1>6. GoesOn(t, r)
  BY <1>2, <1>4 DEF GoesOn, Keeping, Owning, Destroying
<1>7. \A e \in Entry : EntryCounted(e)'
  <2>1. SameReferences(t, r)
    BY <1>2, <1>4 DEF SameReferences, Holding, Finding
  <2> QED
    BY <1>2, <1>3, <2>1, TableKept
<1>8. ASSUME NEW u \in Threads PROVE Follows(u)' /\ WokenOnce(u)'
  <2>1. Follows(u) /\ WokenOnce(u)
    BY DEF Inv, ThreadsFit
  <2> QED
    BY <1>2, <1>3, <1>4, <2>1
    DEF Follows, WokenOnce, Alone, Moves, At, Before, After, Finding, Signalling
<1> QED
  BY <1>2, <1>3, <1>5, <1>6, <1>7, <1>8, GoingOn DEF Inv, Entries, ThreadsFit

\* The destroyer joins the event, before it releases its reference ...
LEMMA JoinEventInv ==
  ASSUME Inv, NEW t \in Threads, JoinEvent(t)
  PROVE  Inv'
<1> DEFINE r == [thread[t] EXCEPT !.pc = "release_cb"]
<1>1. TypeOK /\ thread[t] \in Thread /\ thread \in [Threads -> Thread]
  BY DEF Inv, TypeOK
<1>2. /\ thread[t].pc = "wait" /\ Goto(t, "release_cb")
      /\ UNCHANGED <<linked, entry, mistaken, memory, clientData, file>>
      /\ interruptible' = interruptible \cup {t}
  BY DEF JoinEvent, At, tableVars
<1>3. Moves(t, r)
  BY <1>1, <1>2, GotoMoves DEF Destroying
<1>4. /\ r.pc = "release_cb" /\ r.file = thread[t].file
      /\ r.entry = thread[t].entry /\ r.found = thread[t].found
  BY <1>1 DEF Thread
<1> HIDE DEF r
<1>5. TypeOK'
  BY <1>1, <1>2, <1>3 DEF TypeOK, TableTypeOK, Moves
<1>6. GoesOn(t, r)
  BY <1>2, <1>4 DEF GoesOn, Keeping, Owning, Destroying
<1>7. \A e \in Entry : EntryCounted(e)'
  <2>1. SameReferences(t, r)
    BY <1>2, <1>4 DEF SameReferences, Holding, Finding
  <2> QED
    BY <1>2, <1>3, <2>1, TableKept
<1>8. ASSUME NEW u \in Threads PROVE Follows(u)' /\ WokenOnce(u)'
  <2>1. Follows(u) /\ WokenOnce(u)
    BY DEF Inv, ThreadsFit
  <2> QED
    BY <1>2, <1>3, <1>4, <2>1
    DEF Follows, WokenOnce, Alone, Moves, At, Before, After, Finding, Signalling
<1> QED
  BY <1>2, <1>3, <1>5, <1>6, <1>7, <1>8, GoingOn DEF Inv, Entries, ThreadsFit

\* ... and goes on when it is woken.
LEMMA EventComesInv ==
  ASSUME Undisturbed, Inv, NEW t \in Threads, EventComes(t)
  PROVE  Inv'
<1> DEFINE r == [thread[t] EXCEPT !.pc = "free"]
<1>1. TypeOK /\ thread[t] \in Thread /\ thread \in [Threads -> Thread]
  BY DEF Inv, TypeOK
<1>2. /\ thread[t].pc = "asleep" /\ t \notin interruptible /\ Goto(t, "free")
      /\ UNCHANGED <<linked, entry, mistaken, memory, clientData, file>>
      /\ interruptible' = interruptible \ {t}
  BY DEF EventComes, At, tableVars, Undisturbed
<1>3. Moves(t, r)
  BY <1>1, <1>2, GotoMoves DEF Destroying
<1>4. /\ r.pc = "free" /\ r.file = thread[t].file
      /\ r.entry = thread[t].entry /\ r.found = thread[t].found
  BY <1>1 DEF Thread
<1> HIDE DEF r
<1>5. TypeOK'
  BY <1>1, <1>2, <1>3 DEF TypeOK, TableTypeOK, Moves
<1>6. GoesOn(t, r)
  BY <1>2, <1>4 DEF GoesOn, Keeping, Owning, Destroying
<1>7. \A e \in Entry : EntryCounted(e)'
  <2>1. SameReferences(t, r)
    BY <1>2, <1>4 DEF SameReferences, Holding, Finding
  <2> QED
    BY <1>2, <1>3, <2>1, TableKept
<1>8. ASSUME NEW u \in Threads PROVE Follows(u)' /\ WokenOnce(u)'
  <2>1. Follows(u) /\ WokenOnce(u)
    BY DEF Inv, ThreadsFit
  <2> QED
    BY <1>2, <1>3, <1>4, <2>1
    DEF Follows, WokenOnce, Alone, Moves, At, Before, After, Finding, Signalling
<1> QED
  BY <1>2, <1>3, <1>5, <1>6, <1>7, <1>8, GoingOn DEF Inv, Entries, ThreadsFit

\* The one who released the last reference wakes the destroyer, who may be
\* itself: nobody else is to wake it after that.
LEMMA FreeCBInv ==
  ASSUME Inv, NEW t \in Threads, DatagramFreeCB(t)
  PROVE  Inv'
<1> DEFINE p == AfterSignal[thread[t].pc]
           r == [thread[t] EXCEPT !.pc = p]
<1>1. TypeOK /\ thread[t] \in Thread /\ thread \in [Threads -> Thread]
  BY DEF Inv, TypeOK
<1>2. thread[t].pc \in {"signal", "cb_signal"}
  <2>1. ~At(t, "drop_signal")
    BY DEF Inv, ThreadsFit, Follows
  <2> QED
    BY <2>1 DEF DatagramFreeCB, AfterSignal, At
<1>3. p = IF thread[t].pc = "signal" THEN "idle" ELSE "asleep"
  BY <1>2 DEF AfterSignal
<1>4. /\ Goto(t, p)
      /\ UNCHANGED <<linked, entry, mistaken, memory, clientData, file>>
      /\ interruptible' = interruptible \
           {u \in Threads : /\ thread[u].pc \in {"release_cb", "cb_signal", "asleep"}
                            /\ thread[u].entry = thread[t].entry}
  BY <1>2 DEF DatagramFreeCB, At, tableVars, Signalled
<1>5. Moves(t, r)
  BY <1>1, <1>3, <1>4, GotoMoves DEF Destroying
<1>6. /\ r.pc = p /\ r.file = thread[t].file
      /\ r.entry = thread[t].entry /\ r.found = thread[t].found
  BY <1>1 DEF Thread
<1> HIDE DEF r, p
<1>7. TypeOK'
  BY <1>1, <1>4, <1>5 DEF TypeOK, TableTypeOK, Moves
<1>8. GoesOn(t, r)
  BY <1>2, <1>3, <1>6 DEF GoesOn, Keeping, Owning, Destroying, Sending
<1>9. \A e \in Entry : EntryCounted(e)'
  <2>1. SameReferences(t, r)
    BY <1>2, <1>3, <1>6 DEF SameReferences, Holding, Finding
  <2> QED
    BY <1>4, <1>5, <2>1, TableKept
<1>10. Alone(t) /\ thread[t].entry \in memory
  BY <1>2 DEF Inv, ThreadsFit, WokenOnce, Signalling
<1>11. \A u \in Threads : thread[u].entry = thread[t].entry => thread[u].pc # "release_cb"
  <2> SUFFICES ASSUME NEW u \in Threads, thread[u].entry = thread[t].entry,
                      thread[u].pc = "release_cb"
               PROVE  FALSE
    OBVIOUS
  <2>1. u \in Holders(thread[t].entry) /\ thread[t].entry \in Entry
    BY <1>1, <1>10 DEF Holders, Holding, TypeOK
  <2> QED
    BY <1>10, <2>1, Referenced DEF Alone
<1>12. ASSUME NEW u \in Threads PROVE Follows(u)'
  <2>1. Follows(u) /\ Follows(t)
    BY DEF Inv, ThreadsFit
  <2> QED
    BY <1>2, <1>3, <1>4, <1>5, <1>6, <2>1
    DEF Follows, Moves, At, Before, After, Finding
<1>13. ASSUME NEW u \in Threads PROVE WokenOnce(u)'
  <2>1. WokenOnce(u) /\ WokenOnce(t)
    BY DEF Inv, ThreadsFit
  <2>2. \A v \in Threads : thread'[v].pc \in Signalling =>
          v # t /\ thread[v].pc \in Signalling /\ thread'[v].entry = thread[v].entry
    BY <1>2, <1>3, <1>5, <1>6 DEF Moves, Signalling
  <2>3. \A v \in Threads : thread'[v].entry = thread[v].entry
    BY <1>5, <1>6 DEF Moves
  <2>4. Alone(t)'
    BY <1>4, <1>10, <2>2, <2>3 DEF Alone
  <2>5. CASE thread[u].entry = thread[t].entry
    <3>1. Alone(u)'
      BY <2>3, <2>4, <2>5, <2>2, <1>10 DEF Alone
    <3>2. thread'[u].pc \notin {"release_cb", "cb_signal"} \cup Signalling
      BY <1>2, <1>3, <1>5, <1>6, <1>10, <1>11, <2>5 DEF Alone, Moves, Signalling
    <3> QED
      BY <3>1, <3>2 DEF WokenOnce
  <2>6. CASE thread[u].entry # thread[t].entry
    <3>1. u # t /\ (u \in interruptible' <=> u \in interruptible)
      BY <1>4, <2>6
    <3>2. Alone(u) => Alone(u)'
      BY <1>4, <2>2, <2>3 DEF Alone
    <3> QED
      BY <1>4, <1>5, <2>1, <3>1, <3>2 DEF WokenOnce, Moves, At
  <2> QED
    BY <2>5, <2>6
<1> QED
  BY <1>4, <1>5, <1>7, <1>8, <1>9, <1>12, <1>13, GoingOn DEF Inv, Entries, ThreadsFit

-----------------------------------------------------------------------------
(* Steps that take and release references.                                 *)

\* What GetEntry does to the counts, for one who keeps the entry ...
LEMMA GetHolds ==
  ASSUME Inv, NEW t \in Threads, NEW r, Moves(t, r), NEW e \in Entry, NEW h, GetEntry(e, h),
         UNCHANGED <<memory, clientData, file>>,
         thread[t].pc \notin Holding \cup Finding,
         r.pc \in Holding \ Finding, r.entry = e
  PROVE  \A d \in Entry : EntryCounted(d)' /\ (entry'[d].allocated <=> entry[d].allocated)
<1>1. /\ entry \in [Entry -> [allocated : BOOLEAN, handle : Handle \cup {NoHandle},
                              refCount : Nat]]
      /\ e \in linked /\ linked' = linked
      /\ entry' = [entry EXCEPT ![e].refCount = @ + 1]
  BY DEF Inv, TypeOK, TableTypeOK, GetEntry, Under
<1>2. EntryCounted(e) /\ entry[e].allocated
  BY <1>1, Referenced DEF Inv, Entries
<1>3. \A d : t \notin Holders(d) /\ t \notin Finders(d)
  BY DEF Holders, Finders
<1>4. \A d : Finders(d)' = Finders(d)
  BY <1>3, FindersKept
<1>5. \A d : d # e => Holders(d)' = Holders(d)
  BY <1>3, HoldersKept
<1>6. Cardinality(Holders(e))' = Cardinality(Holders(e)) + 1
  BY <1>3, HoldersUp
<1>7. /\ entry'[e].refCount = entry[e].refCount + 1 /\ entry'[e].handle = entry[e].handle
      /\ entry'[e].allocated
      /\ \A d \in Entry \ {e} : entry'[d] = entry[d]
  BY <1>1, <1>2
<1>8. EntryCounted(e)'
  <2>1. /\ Cardinality(Holders(e)) \in Nat /\ Cardinality(Finders(e)) \in Nat
        /\ Link(e) \in Nat /\ Link(e)' = Link(e)
    BY <1>1, RefsFinite DEF Link
  <2>2. entry'[e].refCount = Link(e)' + Cardinality(Holders(e))' + Cardinality(Finders(e))'
    BY <1>2, <1>4, <1>6, <1>7, <2>1 DEF EntryCounted
  <2>3. entry'[e].refCount # 0
    BY <1>1, <1>7
  <2> QED
    BY <1>2, <1>7, <2>2, <2>3 DEF EntryCounted
<1>9. \A d \in Entry \ {e} : EntryCounted(d)'
  <2>1. \A d \in Entry : EntryCounted(d)
    BY DEF Inv, Entries
  <2> QED
    BY <1>1, <1>4, <1>5, <1>7, <2>1, CountsKept
<1> QED
  BY <1>2, <1>7, <1>8, <1>9

\* ... and for a destroyer, who finds it a second time.
LEMMA GetFinds ==
  ASSUME Inv, NEW t \in Threads, NEW r, Moves(t, r), NEW e \in Entry, NEW h, GetEntry(e, h),
         UNCHANGED <<memory, clientData, file>>,
         thread[t].pc = "remove", r.pc = "unlink", r.entry = thread[t].entry, r.found = e
  PROVE  \A d \in Entry : EntryCounted(d)' /\ (entry'[d].allocated <=> entry[d].allocated)
<1>1. /\ entry \in [Entry -> [allocated : BOOLEAN, handle : Handle \cup {NoHandle},
                              refCount : Nat]]
      /\ e \in linked /\ linked' = linked
      /\ entry' = [entry EXCEPT ![e].refCount = @ + 1]
  BY DEF Inv, TypeOK, TableTypeOK, GetEntry, Under
<1>2. EntryCounted(e) /\ entry[e].allocated
  BY <1>1, Referenced DEF Inv, Entries
<1>3. \A d : /\ t \notin Finders(d)
             /\ (r.entry = d /\ r.pc \in Holding) <=> t \in Holders(d)
  BY DEF Holders, Finders, Holding, Finding
<1>4. \A d : Holders(d)' = Holders(d)
  BY <1>3, HoldersKept
<1>5. \A d : d # e => Finders(d)' = Finders(d)
  BY <1>3, FindersKept
<1>6. Cardinality(Finders(e))' = Cardinality(Finders(e)) + 1
  <2>1. r.pc \in Finding
    BY DEF Finding
  <2> QED
    BY <1>3, <2>1, FindersUp
<1>7. /\ entry'[e].refCount = entry[e].refCount + 1 /\ entry'[e].handle = entry[e].handle
      /\ entry'[e].allocated
      /\ \A d \in Entry \ {e} : entry'[d] = entry[d]
  BY <1>1, <1>2
<1>8. EntryCounted(e)'
  <2>1. /\ Cardinality(Holders(e)) \in Nat /\ Cardinality(Finders(e)) \in Nat
        /\ Link(e) \in Nat /\ Link(e)' = Link(e)
    BY <1>1, RefsFinite DEF Link
  <2>2. entry'[e].refCount = Link(e)' + Cardinality(Holders(e))' + Cardinality(Finders(e))'
    BY <1>2, <1>4, <1>6, <1>7, <2>1 DEF EntryCounted
  <2>3. entry'[e].refCount # 0
    BY <1>1, <1>7
  <2> QED
    BY <1>2, <1>7, <2>2, <2>3 DEF EntryCounted
<1>9. \A d \in Entry \ {e} : EntryCounted(d)'
  <2>1. \A d \in Entry : EntryCounted(d)
    BY DEF Inv, Entries
  <2> QED
    BY <1>1, <1>4, <1>5, <1>7, <2>1, CountsKept
<1> QED
  BY <1>2, <1>7, <1>8, <1>9

\* A holder releases its reference.  If it was the last one the entry is dead;
\* it has long been off the table, and nothing else is under its handle.
LEMMA HolderReleases ==
  ASSUME Inv, NEW t \in Threads, NEW r, Moves(t, r), NEW e \in Entry, ReleaseEntry(e),
         UNCHANGED <<memory, clientData, file>>,
         thread[t].pc \in Holding \ Finding, thread[t].entry = e, r.pc \notin Holding \cup Finding
  PROVE  /\ \A d \in Entry : EntryCounted(d)' /\ (d # e => entry'[d] = entry[d])
         /\ linked' = linked /\ TableTypeOK'
         /\ entry'[e].allocated <=> entry[e].refCount # 1
<1>1. /\ entry \in [Entry -> [allocated : BOOLEAN, handle : Handle \cup {NoHandle},
                              refCount : Nat]]
      /\ entry' = [entry EXCEPT ![e] = IF entry[e].refCount = 1 THEN NoMemory
                                       ELSE [@ EXCEPT !.refCount = entry[e].refCount - 1]]
      /\ linked \subseteq Entry
  BY DEF Inv, TypeOK, TableTypeOK, ReleaseEntry
<1>2. t \in Holders(e) /\ \A d : (t \in Holders(d) => d = e) /\ t \notin Finders(d)
  BY DEF Holders, Finders
<1>3. EntryCounted(e) /\ entry[e].allocated /\ entry[e].refCount \in Nat \ {0} /\ e \in memory
  <2>1. Holders(e) # {}
    BY <1>2
  <2> QED
    BY <2>1, Referenced DEF Inv, Entries
<1>4. \A d : Finders(d)' = Finders(d)
  BY <1>2, FindersKept
<1>5. \A d : d # e => Holders(d)' = Holders(d)
  BY <1>2, HoldersKept
<1>6. Cardinality(Holders(e))' = Cardinality(Holders(e)) - 1
  BY <1>2, HoldersDown
<1>7. /\ Cardinality(Holders(e)) \in Nat \ {0} /\ Cardinality(Finders(e)) \in Nat
      /\ Link(e) \in Nat /\ (e \in linked <=> Link(e) # 0)
  <2>1. Holders(e) # {}
    BY <1>2
  <2> QED
    BY <2>1, RefsFinite, FS_EmptySet DEF Link
<1>8. entry[e].refCount = Link(e) + Cardinality(Holders(e)) + Cardinality(Finders(e))
  BY <1>3 DEF EntryCounted
<1>9. linked' = linked
  <2>1. CASE entry[e].refCount # 1
    BY <2>1 DEF ReleaseEntry
  <2>2. CASE entry[e].refCount = 1
    <3>1. e \notin linked
      BY <1>7, <1>8, <2>2
    <3>2. entry[e].handle = file[clientData[e]].handle
      BY <1>3 DEF EntryCounted
    <3>3. Under(entry[e].handle) = {}
      <4> SUFFICES ASSUME NEW d \in linked, entry[d].handle = entry[e].handle PROVE FALSE
        BY DEF Under
      <4> QED
        BY <1>3, <3>1, <3>2, LinkedAlone
    <3> QED
      BY <2>2, <3>3 DEF ReleaseEntry, Unlinked
  <2> QED
    BY <2>1, <2>2
<1>10. /\ entry'[e].refCount = entry[e].refCount - 1
       /\ entry'[e].allocated <=> entry[e].refCount # 1
       /\ entry'[e].allocated => entry'[e].handle = entry[e].handle
       /\ \A d \in Entry \ {e} : entry'[d] = entry[d]
  BY <1>1, <1>3 DEF NoMemory
<1>11. EntryCounted(e)'
  <2>1. Link(e)' = Link(e)
    BY <1>9 DEF Link
  <2>2. entry'[e].refCount = Link(e)' + Cardinality(Holders(e))' + Cardinality(Finders(e))'
    BY <1>4, <1>6, <1>7, <1>8, <1>10, <2>1
  <2>3. entry'[e].refCount # 0 <=> entry[e].refCount # 1
    BY <1>3, <1>10
  <2> QED
    BY <1>3, <1>10, <2>2, <2>3 DEF EntryCounted
<1>12. \A d \in Entry \ {e} : EntryCounted(d)'
  <2>1. \A d \in Entry : EntryCounted(d)
    BY DEF Inv, Entries
  <2> QED
    BY <1>4, <1>5, <1>9, <1>10, <2>1, CountsKept
<1>13. TableTypeOK'
  <2>1. entry'[e] \in [allocated : BOOLEAN, handle : Handle \cup {NoHandle}, refCount : Nat]
    <3>1. entry[e] \in [allocated : BOOLEAN, handle : Handle \cup {NoHandle}, refCount : Nat]
      BY <1>1
    <3> QED
      BY <1>1, <1>3, <3>1 DEF NoMemory
  <2>2. mistaken' \in BOOLEAN
    BY DEF ReleaseEntry, Mistakes, Inv, TypeOK, TableTypeOK
  <2>3. entry' \in [Entry -> [allocated : BOOLEAN, handle : Handle \cup {NoHandle},
                              refCount : Nat]]
    BY <1>1, <1>10, <2>1
  <2> QED
    BY <1>1, <1>9, <2>2, <2>3 DEF TableTypeOK
<1> QED
  BY <1>9, <1>10, <1>11, <1>12, <1>13

\* Sending: the destination is looked up ...
LEMMA DispatchInv ==
  ASSUME Inv, NEW t \in Threads, NEW e \in Entry, NEW h \in Handle, NEW permitted \in BOOLEAN,
         Dispatch(t, e, h, permitted)
  PROVE  Inv'
<1> DEFINE r == [thread[t] EXCEPT !.pc = IF permitted THEN "callback" ELSE "release",
                                  !.entry = e]
<1>1. TypeOK /\ thread[t] \in Thread /\ thread \in [Threads -> Thread]
  BY DEF Inv, TypeOK
<1>2. /\ thread[t].pc = "idle" /\ thread' = [thread EXCEPT ![t] = r] /\ GetEntry(e, h)
      /\ linked' = linked /\ mistaken' = mistaken
      /\ UNCHANGED <<memory, clientData, file, interruptible>>
  BY DEF Dispatch, At, GetEntry
<1>3. r.pc \in {"callback", "release"} /\ r.entry = e
  BY <1>1 DEF Thread
<1>4. Moves(t, r)
  <2>1. r \in Thread
    BY <1>1 DEF Thread, Sending
  <2> QED
    BY <1>1, <1>2, <2>1, MoveByExcept
<1> HIDE DEF r
<1>5. TypeOK'
  <2>1. entry' \in [Entry -> [allocated : BOOLEAN, handle : Handle \cup {NoHandle},
                              refCount : Nat]]
    BY <1>1, <1>2 DEF TypeOK, TableTypeOK, GetEntry
  <2> QED
    BY <1>1, <1>2, <1>4, <2>1 DEF TypeOK, TableTypeOK, Moves
<1>6. GoesOn(t, r)
  BY <1>2, <1>3 DEF GoesOn, Sending
<1>7. \A d \in Entry : EntryCounted(d)' /\ (entry'[d].allocated <=> entry[d].allocated)
  <2>1. thread[t].pc \notin Holding \cup Finding /\ r.pc \in Holding \ Finding
    BY <1>2, <1>3 DEF Holding, Finding
  <2> QED
    BY <1>2, <1>3, <1>4, <2>1, GetHolds
<1>8. ASSUME NEW u \in Threads PROVE Follows(u)' /\ WokenOnce(u)'
  <2>1. Follows(u) /\ WokenOnce(u)
    BY DEF Inv, ThreadsFit
  <2>2. CASE u = t
    BY <1>3, <1>4, <2>2
    DEF Follows, WokenOnce, Moves, At, Before, After, Finding, Signalling
  <2>3. CASE u # t
    <3>1. thread'[u] = thread[u]
      BY <1>4, <2>3 DEF Moves
    <3>2. Alone(u) /\ thread[u].entry \in Entry => Alone(u)'
      BY <1>3, <1>4, <1>7, <3>1 DEF Alone, Moves, Signalling
    <3>3. WokenOnce(u)'
      <4>1. thread[u].pc \in {"signal", "cb_signal", "free", "asleep"}
              => thread[u].entry \in Entry
        BY <1>1, <2>1 DEF WokenOnce, Signalling, Follows, After, TypeOK
      <4> QED
        BY <1>2, <2>1, <3>1, <3>2, <4>1 DEF WokenOnce, At, Signalling
    <3> QED
      BY <1>2, <2>1, <3>1, <3>3 DEF Follows, At
  <2> QED
    BY <2>2, <2>3
<1> QED
  BY <1>2, <1>4, <1>5, <1>6, <1>7, <1>8, GoingOn DEF Inv, Entries, ThreadsFit

\* ... and released, as a destroyer releases its own reference in the end.
LEMMA ReleaseInv ==
  ASSUME Inv, NEW t \in Threads, ReleaseResource(t) \/ DatagramReleaseCB(t)
  PROVE  Inv'
<1> DEFINE e == thread[t].entry
           p == IF thread[t].pc = "release"
                THEN IF entry[e].refCount = 1 THEN "signal" ELSE "idle"
                ELSE IF entry[e].refCount = 1 THEN "cb_signal" ELSE "asleep"
           r == [thread[t] EXCEPT !.pc = p]
<1>1. TypeOK /\ thread[t] \in Thread /\ thread \in [Threads -> Thread]
  BY DEF Inv, TypeOK
<1>2. /\ thread[t].pc \in {"release", "release_cb"} /\ Goto(t, p) /\ ReleaseEntry(e)
      /\ UNCHANGED <<memory, clientData, file, interruptible>>
  BY DEF ReleaseResource, DatagramReleaseCB, Release, At
<1>3. Moves(t, r)
  <2>1. p \in {"idle", "signal", "cb_signal", "asleep"}
    OBVIOUS
  <2> QED
    BY <1>1, <1>2, <2>1, GotoMoves DEF Destroying, Sending
<1>4. r.pc = p /\ r.file = thread[t].file /\ r.entry = e
  BY <1>1 DEF Thread
<1> HIDE DEF r
<1>5. PICK d \in Entry : d = e
  <2>1. Follows(t)
    BY DEF Inv, ThreadsFit
  <2> QED
    BY <1>1, <1>2, <2>1 DEF Follows, After, TypeOK
<1>6. t \in Holders(d)
  BY <1>2, <1>5 DEF Holders, Holding
<1>7. entry[d].allocated /\ d \in memory
  BY <1>6, Referenced
<1>8. /\ \A c \in Entry : EntryCounted(c)' /\ (c # d => entry'[c] = entry[c])
      /\ linked' = linked /\ TableTypeOK'
      /\ entry'[d].allocated <=> entry[d].refCount # 1
  <2>1. thread[t].pc \in Holding \ Finding /\ r.pc \notin Holding \cup Finding
    BY <1>2, <1>4 DEF Holding, Finding
  <2>2. ReleaseEntry(d) /\ thread[t].entry = d
    BY <1>2, <1>5
  <2> QED
    BY <1>2, <1>3, <2>1, <2>2, HolderReleases
<1>9. TypeOK'
  BY <1>1, <1>2, <1>3, <1>8 DEF TypeOK, Moves
<1>10. GoesOn(t, r)
  BY <1>2, <1>4 DEF GoesOn, Keeping, Owning, Destroying, Sending
<1>11. /\ r.entry = d /\ r.file = thread[t].file
       /\ r.pc \in {"signal", "cb_signal"} => ~entry'[d].allocated
       /\ \/ r.pc \in {"idle", "signal"} /\ thread[t].pc = "release"
          \/ r.pc \in {"asleep", "cb_signal"} /\ thread[t].pc = "release_cb"
  <2>1. r.entry = d /\ r.file = thread[t].file
    BY <1>4, <1>5
  <2>2. p \in {"signal", "cb_signal"} => entry[d].refCount = 1
    BY <1>5
  <2>3. thread[t].pc \in {"release", "release_cb"}
    BY <1>2
  <2>4. \/ p \in {"idle", "signal"} /\ thread[t].pc = "release"
        \/ p \in {"asleep", "cb_signal"} /\ thread[t].pc = "release_cb"
    BY <2>3
  <2> HIDE DEF p
  <2> QED
    BY <1>4, <1>8, <2>1, <2>2, <2>4
<1> HIDE DEF p, e
<1>12. ASSUME NEW u \in Threads PROVE Follows(u)'
  <2>1. Follows(u) /\ Follows(t)
    BY DEF Inv, ThreadsFit
  <2>2. CASE u = t
    BY <1>2, <1>3, <1>5, <1>8, <1>11, <2>1, <2>2
    DEF Follows, Moves, At, Before, After, Finding, e
  <2>3. CASE u # t
    BY <1>2, <1>3, <1>8, <2>1, <2>3 DEF Follows, Moves, At
  <2> QED
    BY <2>2, <2>3
<1>13. \A v \in Threads : thread[v].pc \in Signalling => thread[v].entry # d
  BY <1>7 DEF Inv, ThreadsFit, WokenOnce, Alone
<1>14. ASSUME NEW u \in Threads PROVE WokenOnce(u)'
  <2>1. WokenOnce(u) /\ WokenOnce(t)
    BY DEF Inv, ThreadsFit
  <2>2. CASE u = t
    <3>1. r.pc \in Signalling => Alone(u)'
      BY <1>3, <1>11, <1>13, <2>2 DEF Alone, Moves, Signalling
    <3>2. r.pc \in {"asleep", "cb_signal"} => t \in interruptible'
      BY <1>2, <1>11, <2>1, <2>2 DEF WokenOnce
    <3>3. thread'[u] = r /\ r.pc \in {"signal", "cb_signal", "asleep", "idle"}
      BY <1>3, <1>11, <2>2 DEF Moves
    <3> QED
      BY <1>2, <1>7, <1>11, <2>2, <3>1, <3>2, <3>3 DEF WokenOnce, At, Signalling
  <2>3. CASE u # t
    <3>1. thread'[u] = thread[u]
      BY <1>3, <2>3 DEF Moves
    <3>2. Alone(u) /\ thread[u].entry \in Entry => Alone(u)'
      <4> SUFFICES ASSUME Alone(u), thread[u].entry \in Entry PROVE Alone(u)'
        OBVIOUS
      <4>1. thread[u].entry # d
        BY <1>7 DEF Alone
      <4>2. \A v \in Threads : thread'[v].pc \in Signalling /\ thread'[v].entry = thread[u].entry
                                 => v = u
        BY <1>3, <1>11, <4>1 DEF Alone, Moves
      <4> QED
        BY <1>8, <3>1, <4>1, <4>2 DEF Alone
    <3>3. thread[u].pc \in {"signal", "cb_signal", "free", "asleep"}
            => thread[u].entry \in Entry
      <4>1. Follows(u)
        BY DEF Inv, ThreadsFit
      <4> QED
        BY <1>1, <2>1, <4>1 DEF WokenOnce, Signalling, Follows, After, TypeOK
    <3> QED
      BY <1>2, <2>1, <3>1, <3>2, <3>3 DEF WokenOnce, At, Signalling
  <2> QED
    BY <2>2, <2>3
<1> QED
  BY <1>2, <1>3, <1>8, <1>9, <1>10, <1>12, <1>14, GoingOn DEF Inv, Entries, ThreadsFit

-----------------------------------------------------------------------------
(* Taking the handle off the table.                                        *)

\* An entry that is linked under the handle of a file is that of the file.
LEMMA HandleFinds ==
  ASSUME Inv, NEW f \in Files, NEW d \in linked, clientData[d] = f
  PROVE  /\ d \in Under(file[f].handle) /\ d \in Entry /\ d \in memory
         /\ \A e \in Under(file[f].handle) : e = d
<1>1. d \in Entry /\ d \in memory
  <2>1. d \in Entry
    BY DEF Inv, TypeOK, TableTypeOK
  <2> QED
    BY <2>1, Referenced
<1>2. entry[d].handle = file[f].handle
  BY <1>1, Referenced DEF Inv, Entries, EntryCounted
<1>3. \A e \in Under(file[f].handle) : e = d
  BY <1>1, LinkedAlone DEF Under
<1> QED
  BY <1>1, <1>2, <1>3 DEF Under

\* The thread that has taken it follows it; the others are not disturbed.
LEMMA FollowOn ==
  ASSUME Inv, NEW t \in Threads, NEW r, Moves(t, r), NEW e \in linked, e \in memory,
         r.pc \in Before, r.entry = e, r.file = clientData[e],
         r.pc \in Finding => r.found = e,
         UNCHANGED <<linked, memory, clientData, interruptible>>,
         \A d \in Entry : entry'[d].allocated <=> entry[d].allocated,
         NEW u \in Threads
  PROVE  Follows(u)' /\ WokenOnce(u)'
<1>1. Follows(u) /\ WokenOnce(u) /\ thread[u] \in Thread /\ memory \subseteq Entry
  BY DEF Inv, ThreadsFit, TypeOK
<1>2. CASE u = t
  BY <1>2 DEF Follows, WokenOnce, Moves, At, Before, After, Finding, Signalling
<1>3. CASE u # t
  <2>1. thread'[u] = thread[u]
    BY <1>3 DEF Moves
  <2>2. Alone(u) /\ thread[u].entry \in Entry => Alone(u)'
    BY <2>1 DEF Alone, Moves, Signalling, Before
  <2>3. thread[u].pc \in {"signal", "cb_signal", "free", "asleep"}
          => thread[u].entry \in Entry
    BY <1>1 DEF WokenOnce, Signalling, Follows, After
  <2>4. WokenOnce(u)'
    BY <1>1, <2>1, <2>2, <2>3 DEF WokenOnce, At, Signalling
  <2> QED
    BY <1>1, <2>1, <2>4 DEF Follows, At
<1> QED
  BY <1>2, <1>3

\* The destroyer gets the entry of its process ...
LEMMA GetResourceInv ==
  ASSUME Inv, NEW t \in Threads, GetResource(t)
  PROVE  Inv'
<1>1. TypeOK /\ thread[t] \in Thread /\ thread \in [Threads -> Thread]
  BY DEF Inv, TypeOK
<1>2. thread[t].pc = "get" /\ UNCHANGED <<memory, clientData, file, interruptible>>
  BY DEF GetResource, At
<1>3. PICK f \in Files : f = thread[t].file
  BY <1>2 DEF Inv, ThreadsFit, OneOwner, Destroying
<1>4. PICK e \in linked : clientData[e] = f
  BY <1>2, <1>3 DEF Inv, Found, In
<1>5. /\ e \in Under(file[f].handle) /\ e \in Entry /\ e \in memory
      /\ \A d \in Under(file[f].handle) : d = e
  BY <1>4, HandleFinds
<1>6. /\ GetEntry(e, file[f].handle)
      /\ thread' = [thread EXCEPT ![t].pc = "remove", ![t].entry = e]
  <2>1. PICK d \in Entry : /\ GetEntry(d, file[f].handle)
                           /\ thread' = [thread EXCEPT ![t].pc = "remove", ![t].entry = d]
    BY <1>3, <1>5 DEF GetResource, EntryExists
  <2>2. d = e
    BY <1>5, <2>1 DEF GetEntry
  <2> QED
    BY <2>1, <2>2
<1> DEFINE r == [thread[t] EXCEPT !.pc = "remove", !.entry = e]
<1>7. r.pc = "remove" /\ r.entry = e /\ r.file = f
  BY <1>1, <1>3 DEF Thread
<1>8. Moves(t, r)
  <2>1. r \in Thread
    BY <1>1, <1>5 DEF Thread, Destroying
  <2>2. thread' = [thread EXCEPT ![t] = r]
    BY <1>6
  <2> QED
    BY <1>1, <2>1, <2>2, MoveByExcept
<1> HIDE DEF r
<1>9. TypeOK' /\ linked' = linked
  <2>1. entry' \in [Entry -> [allocated : BOOLEAN, handle : Handle \cup {NoHandle},
                              refCount : Nat]]
    BY <1>1, <1>6 DEF TypeOK, TableTypeOK, GetEntry
  <2> QED
    BY <1>1, <1>2, <1>6, <1>8, <2>1 DEF TypeOK, TableTypeOK, Moves, GetEntry
<1>10. GoesOn(t, r)
  BY <1>2, <1>3, <1>7 DEF GoesOn, Keeping, Owning, Destroying
<1>11. \A d \in Entry : EntryCounted(d)' /\ (entry'[d].allocated <=> entry[d].allocated)
  <2>1. thread[t].pc \notin Holding \cup Finding /\ r.pc \in Holding \ Finding
    BY <1>2, <1>7 DEF Holding, Finding
  <2> QED
    BY <1>2, <1>5, <1>6, <1>7, <1>8, <2>1, GetHolds
<1>12. ASSUME NEW u \in Threads PROVE Follows(u)' /\ WokenOnce(u)'
  <2>1. r.pc \in Before /\ (r.pc \in Finding => r.found = e)
    BY <1>7 DEF Before, Finding
  <2>2. r.entry = e /\ r.file = clientData[e]
    BY <1>4, <1>7
  <2> QED
    BY <1>2, <1>5, <1>8, <1>9, <1>11, <2>1, <2>2, FollowOn
<1> QED
  BY <1>2, <1>8, <1>9, <1>10, <1>11, <1>12, GoingOn DEF Inv, Entries, ThreadsFit

\* ... and finds it again.
LEMMA FindResourceInv ==
  ASSUME Inv, NEW t \in Threads, FindResource(t)
  PROVE  Inv'
<1>1. TypeOK /\ thread[t] \in Thread /\ thread \in [Threads -> Thread]
  BY DEF Inv, TypeOK
<1>2. thread[t].pc = "remove" /\ UNCHANGED <<memory, clientData, file, interruptible>>
  BY DEF FindResource, At
<1>3. PICK f \in Files : f = thread[t].file
  BY <1>2 DEF Inv, ThreadsFit, OneOwner, Destroying
<1>4. PICK e \in linked : clientData[e] = f /\ thread[t].entry = e
  BY <1>2, <1>3 DEF Inv, ThreadsFit, Follows, Before
<1>5. /\ e \in Under(file[f].handle) /\ e \in Entry /\ e \in memory
      /\ \A d \in Under(file[f].handle) : d = e
  BY <1>4, HandleFinds
<1>6. /\ GetEntry(e, file[f].handle)
      /\ thread' = [thread EXCEPT ![t].pc = "unlink", ![t].found = e]
  <2>1. PICK d \in Entry : /\ GetEntry(d, file[f].handle)
                           /\ thread' = [thread EXCEPT ![t].pc = "unlink", ![t].found = d]
    BY <1>3, <1>5 DEF FindResource, EntryExists
  <2>2. d = e
    BY <1>5, <2>1 DEF GetEntry
  <2> QED
    BY <2>1, <2>2
<1> DEFINE r == [thread[t] EXCEPT !.pc = "unlink", !.found = e]
<1>7. r.pc = "unlink" /\ r.entry = e /\ r.file = f /\ r.found = e
  BY <1>1, <1>3, <1>4 DEF Thread
<1>8. Moves(t, r)
  <2>1. r \in Thread
    BY <1>1, <1>5 DEF Thread, Destroying
  <2>2. thread' = [thread EXCEPT ![t] = r]
    BY <1>6
  <2> QED
    BY <1>1, <2>1, <2>2, MoveByExcept
<1> HIDE DEF r
<1>9. TypeOK' /\ linked' = linked
  <2>1. entry' \in [Entry -> [allocated : BOOLEAN, handle : Handle \cup {NoHandle},
                              refCount : Nat]]
    BY <1>1, <1>6 DEF TypeOK, TableTypeOK, GetEntry
  <2> QED
    BY <1>1, <1>2, <1>6, <1>8, <2>1 DEF TypeOK, TableTypeOK, Moves, GetEntry
<1>10. GoesOn(t, r)
  BY <1>2, <1>3, <1>7 DEF GoesOn, Keeping, Owning, Destroying
<1>11. \A d \in Entry : EntryCounted(d)' /\ (entry'[d].allocated <=> entry[d].allocated)
  BY <1>2, <1>4, <1>5, <1>6, <1>7, <1>8, GetFinds
<1>12. ASSUME NEW u \in Threads PROVE Follows(u)' /\ WokenOnce(u)'
  <2>1. r.pc \in Before /\ (r.pc \in Finding => r.found = e)
    BY <1>7 DEF Before, Finding
  <2>2. r.entry = e /\ r.file = clientData[e]
    BY <1>4, <1>7
  <2> QED
    BY <1>2, <1>5, <1>8, <1>9, <1>11, <2>1, <2>2, FollowOn
<1> QED
  BY <1>2, <1>8, <1>9, <1>10, <1>11, <1>12, GoingOn DEF Inv, Entries, ThreadsFit

\* It unlinks what it has found, which is the entry of its process ...
LEMMA UnlinkResourceInv ==
  ASSUME Inv, NEW t \in Threads, UnlinkResource(t)
  PROVE  Inv'
<1> DEFINE r == [thread[t] EXCEPT !.pc = "drop"]
<1>1. TypeOK /\ thread[t] \in Thread /\ thread \in [Threads -> Thread]
  BY DEF Inv, TypeOK
<1>2. /\ thread[t].pc = "unlink" /\ Goto(t, "drop") /\ RemoveEntry(thread[t].found)
      /\ UNCHANGED <<memory, clientData, file, interruptible>>
  BY DEF UnlinkResource, At
<1>3. PICK f \in Files : f = thread[t].file
  BY <1>2 DEF Inv, ThreadsFit, OneOwner, Destroying
<1>4. PICK e \in linked : clientData[e] = f /\ thread[t].entry = e /\ thread[t].found = e
  BY <1>2, <1>3 DEF Inv, ThreadsFit, Follows, Before, Finding
<1>5. /\ e \in Under(file[f].handle) /\ e \in Entry /\ e \in memory
      /\ \A d \in Under(file[f].handle) : d = e
  BY <1>4, HandleFinds
<1>6. Moves(t, r)
  BY <1>1, <1>2, GotoMoves DEF Destroying
<1>7. r.pc = "drop" /\ r.entry = e /\ r.file = f /\ r.found = e
  BY <1>1, <1>3, <1>4 DEF Thread
<1> HIDE DEF r
<1>8. entry[e].handle = file[f].handle
  BY <1>5 DEF Under
<1>9. /\ linked' = linked \ {e} /\ entry' = [entry EXCEPT ![e].refCount = @ - 1]
      /\ mistaken' \in BOOLEAN
  BY <1>1, <1>2, <1>4, <1>5, <1>8
  DEF RemoveEntry, Unlinked, EntryExists, Mistakes, TypeOK, TableTypeOK
<1>10. /\ entry[e].refCount = 1 + Cardinality(Holders(e)) + Cardinality(Finders(e))
       /\ Cardinality(Holders(e)) \in Nat \ {0} /\ Cardinality(Finders(e)) \in Nat
       /\ EntryCounted(e) /\ entry[e].allocated
  <2>1. t \in Holders(e)
    BY <1>2, <1>4 DEF Holders, Holding
  <2>2. Holders(e) # {}
    BY <2>1
  <2> QED
    BY <1>4, <1>5, <2>2, RefsFinite, Referenced, FS_EmptySet
    DEF Inv, Entries, EntryCounted, Link
<1>11. /\ entry'[e].refCount = entry[e].refCount - 1 /\ entry[e].refCount - 1 \in Nat \ {0}
       /\ entry'[e].allocated /\ entry'[e].handle = entry[e].handle
       /\ \A d \in Entry \ {e} : entry'[d] = entry[d]
  BY <1>1, <1>9, <1>10 DEF TypeOK, TableTypeOK
<1>12. TypeOK'
  <2>1. entry' \in [Entry -> [allocated : BOOLEAN, handle : Handle \cup {NoHandle},
                              refCount : Nat]]
    BY <1>1, <1>9, <1>11 DEF TypeOK, TableTypeOK
  <2> QED
    BY <1>1, <1>2, <1>6, <1>9, <2>1 DEF TypeOK, TableTypeOK, Moves
<1>13. GoesOn(t, r)
  BY <1>2, <1>3, <1>7 DEF GoesOn, Keeping, Owning, Destroying
<1>14. \A d : Holders(d)' = Holders(d) /\ Finders(d)' = Finders(d)
  <2>1. \A d : /\ (r.entry = d /\ r.pc \in Holding) <=> t \in Holders(d)
               /\ (r.found = d /\ r.pc \in Finding) <=> t \in Finders(d)
    BY <1>2, <1>4, <1>7 DEF Holders, Finders, Holding, Finding
  <2> QED
    BY <1>6, <2>1, HoldersKept, FindersKept
<1>15. EntryCounted(e)'
  <2>1. Link(e)' = 0
    BY <1>9 DEF Link
  <2>2. entry'[e].refCount = Link(e)' + Cardinality(Holders(e))' + Cardinality(Finders(e))'
    BY <1>10, <1>11, <1>14, <2>1
  <2> QED
    BY <1>2, <1>5, <1>10, <1>11, <2>2 DEF EntryCounted
<1>16. \A d \in Entry \ {e} : EntryCounted(d)'
  <2>1. \A d \in Entry : EntryCounted(d)
    BY DEF Inv, Entries
  <2> QED
    BY <1>2, <1>9, <1>11, <1>14, <2>1, CountsKept
<1>17. \A d \in Entry : EntryCounted(d)' /\ (entry'[d].allocated <=> entry[d].allocated)
  BY <1>10, <1>11, <1>15, <1>16
<1>18. \A g \in Files : Found(g)'
  <2> SUFFICES ASSUME NEW g \in Files, file'[g].isProcess \/ In(g, {"copy", "get"})' # {}
               PROVE  \E d \in linked' : clientData'[d] = g
    BY DEF Found
  <2>1. file[g].isProcess \/ In(g, {"copy", "get"}) # {}
    BY <1>2, <1>6, <1>7 DEF In, Moves
  <2>2. PICK d \in linked : clientData[d] = g
    BY <2>1 DEF Inv, Found
  <2>3. g # f
    BY <1>2, <1>3, <2>1 DEF Inv, ThreadsFit, OneOwner, Owning, Destroying, In
  <2> QED
    BY <1>2, <1>4, <1>9, <2>2, <2>3
<1>19. ASSUME NEW u \in Threads PROVE Follows(u)' /\ WokenOnce(u)'
  <2>1. Follows(u) /\ WokenOnce(u) /\ thread[u] \in Thread /\ memory \subseteq Entry
    BY <1>1 DEF Inv, ThreadsFit, TypeOK
  <2>2. CASE u = t
    BY <1>2, <1>4, <1>5, <1>6, <1>7, <1>9, <2>2
    DEF Follows, WokenOnce, Moves, At, Before, After, Finding, Signalling
  <2>3. CASE u # t
    <3>1. thread'[u] = thread[u]
      BY <1>6, <2>3 DEF Moves
    <3>2. Alone(u) /\ thread[u].entry \in Entry => Alone(u)'
      BY <1>6, <1>7, <1>17, <3>1 DEF Alone, Moves, Signalling
    <3>3. thread[u].pc \in {"signal", "cb_signal", "free", "asleep"}
            => thread[u].entry \in Entry
      BY <2>1 DEF WokenOnce, Signalling, Follows, After
    <3>4. WokenOnce(u)'
      BY <1>2, <2>1, <3>1, <3>2, <3>3 DEF WokenOnce, At, Signalling
    <3>5. thread[u].pc \in Before => thread[u].entry # e
      BY <1>2, <1>3, <1>4, <2>1, <2>3
      DEF Follows, Inv, ThreadsFit, OneOwner, Before, Owning, Destroying
    <3> QED
      BY <1>2, <1>9, <2>1, <3>1, <3>4, <3>5 DEF Follows, At
  <2> QED
    BY <2>2, <2>3
<1> QED
  BY <1>2, <1>6, <1>12, <1>13, <1>17, <1>18, <1>19, GoingOn DEF Inv, Entries, ThreadsFit

\* ... and releases that; it has another reference, so this is not the last.
LEMMA DropResourceInv ==
  ASSUME Inv, NEW t \in Threads, DropResource(t)
  PROVE  Inv'
<1> DEFINE r == [thread[t] EXCEPT !.pc = "wait"]
<1>1. TypeOK /\ thread[t] \in Thread /\ thread \in [Threads -> Thread]
  BY DEF Inv, TypeOK
<1>2. /\ thread[t].pc = "drop"
      /\ UNCHANGED <<memory, clientData, file, interruptible>>
      /\ ReleaseEntry(thread[t].found)
      /\ Goto(t, IF entry[thread[t].found].refCount = 1 THEN "drop_signal" ELSE "wait")
  BY DEF DropResource, Release, At
<1>3. PICK e \in memory : thread[t].entry = e /\ thread[t].found = e
  BY <1>2 DEF Inv, ThreadsFit, Follows, After, Finding
<1>4. e \in Entry
  BY <1>1 DEF TypeOK
<1>5. t \in Holders(e) /\ t \in Finders(e)
  BY <1>2, <1>3 DEF Holders, Finders, Holding, Finding
<1>6. /\ Cardinality(Holders(e)) \in Nat \ {0} /\ Cardinality(Finders(e)) \in Nat \ {0}
      /\ Link(e) \in Nat
  BY <1>5, RefsFinite, FS_EmptySet DEF Link
<1>7. EntryCounted(e) /\ entry[e].allocated
  <2>1. Holders(e) # {}
    BY <1>5
  <2> QED
    BY <1>4, <2>1, Referenced DEF Inv, Entries
<1>8. /\ entry[e].refCount = Link(e) + Cardinality(Holders(e)) + Cardinality(Finders(e))
      /\ entry[e].refCount # 1 /\ entry[e].refCount - 1 \in Nat \ {0}
  <2>1. entry[e].refCount = Link(e) + Cardinality(Holders(e)) + Cardinality(Finders(e))
    BY <1>7 DEF EntryCounted
  <2>2. \A l \in Nat, h, f \in Nat \ {0} : l + h + f # 1 /\ l + h + f - 1 \in Nat \ {0}
    OBVIOUS
  <2> QED
    BY <1>6, <2>1, <2>2
<1>9. /\ Goto(t, "wait") /\ linked' = linked /\ mistaken' = mistaken
      /\ entry' = [entry EXCEPT ![e] = [@ EXCEPT !.refCount = entry[e].refCount - 1]]
  BY <1>2, <1>3, <1>8 DEF ReleaseEntry
<1>10. Moves(t, r)
  BY <1>1, <1>9, GotoMoves DEF Destroying
<1>11. r.pc = "wait" /\ r.entry = e /\ r.file = thread[t].file
  BY <1>1, <1>3 DEF Thread
<1> HIDE DEF r
<1>12. /\ entry'[e].refCount = entry[e].refCount - 1
       /\ entry'[e].allocated /\ entry'[e].handle = entry[e].handle
       /\ \A d \in Entry \ {e} : entry'[d] = entry[d]
  BY <1>1, <1>4, <1>7, <1>9 DEF TypeOK, TableTypeOK
<1>13. TypeOK'
  <2>1. entry' \in [Entry -> [allocated : BOOLEAN, handle : Handle \cup {NoHandle},
                              refCount : Nat]]
    BY <1>1, <1>8, <1>9 DEF TypeOK, TableTypeOK
  <2> QED
    BY <1>1, <1>2, <1>9, <1>10, <2>1 DEF TypeOK, TableTypeOK, Moves
<1>14. GoesOn(t, r)
  BY <1>2, <1>11 DEF GoesOn, Keeping, Owning, Destroying
<1>15. \A d : Holders(d)' = Holders(d)
  <2>1. \A d : (r.entry = d /\ r.pc \in Holding) <=> t \in Holders(d)
    BY <1>2, <1>3, <1>11 DEF Holders, Holding
  <2> QED
    BY <1>10, <2>1, HoldersKept
<1>16. \A d : d # e => Finders(d)' = Finders(d)
  <2>1. \A d : d # e => ((r.found = d /\ r.pc \in Finding) <=> t \in Finders(d))
    BY <1>3, <1>11 DEF Finders, Finding
  <2> QED
    BY <1>10, <2>1, FindersKept
<1>17. Cardinality(Finders(e))' = Cardinality(Finders(e)) - 1
  <2>1. r.pc \notin Finding
    BY <1>11 DEF Finding
  <2> QED
    BY <1>5, <1>10, <2>1, FindersDown
<1>18. EntryCounted(e)'
  <2>1. Link(e)' = Link(e)
    BY <1>9 DEF Link
  <2>2. entry'[e].refCount = Link(e)' + Cardinality(Holders(e))' + Cardinality(Finders(e))'
    BY <1>6, <1>8, <1>12, <1>15, <1>17, <2>1
  <2> QED
    BY <1>2, <1>7, <1>8, <1>12, <2>2 DEF EntryCounted
<1>19. \A d \in Entry \ {e} : EntryCounted(d)'
  <2>1. \A d \in Entry : EntryCounted(d)
    BY DEF Inv, Entries
  <2> QED
    BY <1>2, <1>9, <1>12, <1>15, <1>16, <2>1, CountsKept
<1>20. \A d \in Entry : EntryCounted(d)' /\ (entry'[d].allocated <=> entry[d].allocated)
  BY <1>7, <1>12, <1>18, <1>19
<1>21. ASSUME NEW u \in Threads PROVE Follows(u)' /\ WokenOnce(u)'
  <2>1. Follows(u) /\ WokenOnce(u) /\ thread[u] \in Thread /\ memory \subseteq Entry
    BY <1>1 DEF Inv, ThreadsFit, TypeOK
  <2>2. CASE u = t
    BY <1>2, <1>3, <1>9, <1>10, <1>11, <2>1, <2>2
    DEF Follows, WokenOnce, Moves, At, Before, After, Finding, Signalling
  <2>3. CASE u # t
    <3>1. thread'[u] = thread[u]
      BY <1>10, <2>3 DEF Moves
    <3>2. Alone(u) /\ thread[u].entry \in Entry => Alone(u)'
      BY <1>10, <1>11, <1>20, <3>1 DEF Alone, Moves, Signalling
    <3>3. thread[u].pc \in {"signal", "cb_signal", "free", "asleep"}
            => thread[u].entry \in Entry
      BY <2>1 DEF WokenOnce, Signalling, Follows, After
    <3>4. WokenOnce(u)'
      BY <1>2, <2>1, <3>1, <3>2, <3>3 DEF WokenOnce, At, Signalling
    <3> QED
      BY <1>2, <1>9, <2>1, <3>1, <3>4 DEF Follows, At
  <2> QED
    BY <2>2, <2>3
<1> QED
  BY <1>2, <1>9, <1>10, <1>13, <1>14, <1>20, <1>21, GoingOn DEF Inv, Entries, ThreadsFit

-----------------------------------------------------------------------------
(* Steps that make and destroy the process of a file.                      *)

\* Nobody's process has no entry in memory.
LEMMA NotKept ==
  ASSUME Inv, NEW f, ~file[f].isProcess,
         \A t \in Threads : thread[t].file = f => thread[t].pc \notin Keeping
  PROVE  \A e \in memory : clientData[e] # f
  BY DEF Inv, Entries, MemoryOwned, Kept

\* The destroyer frees the entry.  Nobody has it: no reference is left, and the
\* one who released the last has woken the destroyer.
LEMMA FreeEntryInv ==
  ASSUME Inv, NEW t \in Threads, FreeEntry(t)
  PROVE  Inv'
<1> DEFINE r == [thread[t] EXCEPT !.pc = "flush"]
<1>1. TypeOK /\ thread[t] \in Thread /\ thread \in [Threads -> Thread]
  BY DEF Inv, TypeOK
<1>2. /\ thread[t].pc = "free" /\ Goto(t, "flush")
      /\ UNCHANGED <<linked, entry, mistaken, clientData, file, interruptible>>
      /\ memory' = memory \ {thread[t].entry}
  BY DEF FreeEntry, At, tableVars
<1>3. PICK e \in memory : thread[t].entry = e /\ clientData[e] = thread[t].file
  BY <1>2 DEF Inv, ThreadsFit, Follows, After
<1>4. e \in Entry /\ ~entry[e].allocated /\ e \notin linked
  BY <1>1, <1>2, <1>3 DEF Inv, ThreadsFit, Follows, After, WokenOnce, Alone, At, TypeOK
<1>5. Moves(t, r)
  BY <1>1, <1>2, GotoMoves DEF Destroying
<1>6. r.pc = "flush" /\ r.file = thread[t].file /\ r.file \in Files
  BY <1>1, <1>2 DEF Thread, Inv, ThreadsFit, OneOwner, Destroying
<1> HIDE DEF r
<1>7. TypeOK'
  BY <1>1, <1>2, <1>5 DEF TypeOK, TableTypeOK, Moves
<1>8. \A d \in Entry : EntryCounted(d)'
  <2> SUFFICES ASSUME NEW d \in Entry PROVE EntryCounted(d)'
    OBVIOUS
  <2>1. Holders(d)' = Holders(d) /\ Finders(d)' = Finders(d)
    BY <1>2, <1>5, <1>6 DEF Holders, Finders, Holding, Finding, Moves
  <2>2. EntryCounted(d) /\ Link(d)' = Link(d)
    BY <1>2 DEF Inv, Entries, Link
  <2> QED
    BY <1>2, <1>3, <1>4, <2>1, <2>2 DEF EntryCounted
<1>9. \A d \in memory' : MemoryOwned(d)'
  <2> SUFFICES ASSUME NEW d \in memory, d # e PROVE MemoryOwned(d)'
    BY <1>2, <1>3
  <2>1. MemoryOwned(d) /\ clientData[d] # thread[t].file
    BY <1>3 DEF Inv, Entries, HandlesDiffer
  <2>2. Kept(clientData[d])'
    BY <1>2, <1>5, <2>1 DEF Kept, MemoryOwned, Moves
  <2> QED
    BY <1>2, <2>1, <2>2 DEF MemoryOwned
<1>10. HandlesDiffer'
  BY <1>2 DEF Inv, HandlesDiffer
<1>11. \A f \in Files : Found(f)'
  BY <1>2, <1>5, <1>6 DEF Inv, Found, In, Moves
<1>12. ASSUME NEW u \in Threads PROVE OneOwner(u)'
  BY <1>2, <1>5, <1>6
  DEF Inv, ThreadsFit, OneOwner, Moves, Owning, Destroying, Creating, Reading, At
<1>13. ASSUME NEW u \in Threads PROVE Follows(u)' /\ WokenOnce(u)'
  <2>1. Follows(u) /\ WokenOnce(u) /\ OneOwner(t)
    BY DEF Inv, ThreadsFit
  <2>2. CASE u = t
    BY <1>5, <1>6, <2>2 DEF Follows, WokenOnce, Moves, At, Before, After, Finding, Signalling
  <2>3. CASE u # t
    <3>1. thread'[u] = thread[u]
      BY <1>5, <2>3 DEF Moves
    <3>2. Alone(u) => Alone(u)'
      BY <1>2, <1>5, <1>6, <3>1 DEF Alone, Moves, Signalling
    <3>3. thread[u].pc \in Before \cup After => thread[u].entry # e
      BY <1>2, <1>3, <2>1, <2>3
      DEF Follows, OneOwner, Before, After, Owning, Destroying
    <3>4. thread[u].pc \in Signalling => thread[u].entry # e
      BY <1>2, <1>3, <2>3 DEF Inv, ThreadsFit, WokenOnce, Alone, At
    <3>5. WokenOnce(u)'
      BY <1>2, <1>3, <2>1, <3>1, <3>2, <3>4 DEF WokenOnce, At
    <3>6. Follows(u)'
      BY <1>2, <1>3, <2>1, <3>1, <3>3 DEF Follows, At
    <3> QED
      BY <3>5, <3>6
  <2> QED
    BY <2>2, <2>3
<1> QED
  BY <1>7, <1>8, <1>9, <1>10, <1>11, <1>12, <1>13 DEF Inv, Entries, ThreadsFit

\* The process goes with the call that destroys it.
LEMMA FlushInv ==
  ASSUME Inv, NEW t \in Threads, Flush(t)
  PROVE  Inv'
<1>1. TypeOK /\ thread[t] \in Thread /\ thread \in [Threads -> Thread]
  BY DEF Inv, TypeOK
<1>2. PICK f \in Files : f = thread[t].file
  BY DEF Inv, ThreadsFit, OneOwner, Destroying, Flush, At
<1>3. /\ thread[t].pc = "flush" /\ Return(t)
      /\ UNCHANGED <<linked, entry, mistaken, memory, clientData, interruptible>>
      /\ file' = [file EXCEPT ![f] = [Opened EXCEPT !.locked = file[f].locked]]
  BY <1>2 DEF Flush, At, tableVars
<1>4. Moves(t, Idle)
  BY <1>1, <1>3, ReturnMoves
<1>5. \A e \in memory : clientData[e] # f
  <2>1. ~file[f].isProcess
    BY <1>2, <1>3 DEF Inv, ThreadsFit, OneOwner, Owning, Destroying
  <2>2. \A u \in Threads : thread[u].file = f => thread[u].pc \notin Keeping
    BY <1>2, <1>3 DEF Inv, ThreadsFit, OneOwner, Keeping, Owning, Destroying
  <2> QED
    BY <2>1, <2>2, NotKept
<1>6. /\ file' \in [Files -> File] /\ ~file'[f].isProcess
      /\ \A g \in Files \ {f} : file'[g] = file[g]
      /\ file'[f].locked = file[f].locked
  <2>1. file \in [Files -> File] /\ file[f] \in File
    BY <1>1 DEF TypeOK
  <2>2. [Opened EXCEPT !.locked = file[f].locked] \in File
    <3>1. file[f].locked \in BOOLEAN /\ <<>> \in Seq(Sizes)
      BY <2>1 DEF File
    <3>2. \A b \in BOOLEAN : [Opened EXCEPT !.locked = b] \in File
      BY <3>1 DEF Opened, File
    <3> QED
      BY <3>1, <3>2
  <2> QED
    BY <1>3, <2>1, <2>2 DEF Opened
<1>7. TypeOK'
  BY <1>1, <1>3, <1>4, <1>6 DEF TypeOK, TableTypeOK, Moves
<1>8. \A e \in memory : clientData[e] \in Files \ {f} /\ file'[clientData[e]] = file[clientData[e]]
  BY <1>5, <1>6 DEF Inv, Entries, MemoryOwned
<1>9. \A e \in Entry : EntryCounted(e)'
  <2>1. SameReferences(t, Idle)
    BY <1>3 DEF SameReferences, Holding, Finding, Idle
  <2> QED
    BY <1>3, <1>4, <1>8, <2>1, TableKept
<1>10. \A e \in memory' : MemoryOwned(e)'
  <2> SUFFICES ASSUME NEW e \in memory PROVE MemoryOwned(e)'
    BY <1>3
  <2>1. MemoryOwned(e)
    BY DEF Inv, Entries
  <2>2. Kept(clientData[e])'
    BY <1>2, <1>3, <1>4, <1>8, <2>1 DEF Kept, MemoryOwned, Moves
  <2> QED
    BY <1>3, <1>8, <2>1, <2>2 DEF MemoryOwned
<1>11. HandlesDiffer'
  BY <1>3, <1>8 DEF Inv, HandlesDiffer
<1>12. ASSUME NEW g \in Files PROVE Found(g)'
  <2>1. Found(g)
    BY DEF Inv
  <2>2. In(g, {"copy", "get"})' # {} => In(g, {"copy", "get"}) # {}
    BY <1>3, <1>4 DEF In, Moves, Idle
  <2> QED
    BY <1>3, <1>6, <2>1, <2>2 DEF Found
<1>13. ASSUME NEW u \in Threads PROVE OneOwner(u)'
  <2>1. OneOwner(u)
    BY DEF Inv, ThreadsFit
  <2>2. CASE u = t
    BY <1>4, <2>2 DEF OneOwner, Moves, Idle, Owning, Creating, Reading, Destroying
  <2>3. CASE u # t
    <3>1. thread'[u] = thread[u] /\ (thread[u].pc \in Owning => thread[u].file \in Files \ {f})
      BY <1>2, <1>3, <1>4, <2>1, <2>3 DEF Moves, OneOwner, Owning, Creating, Destroying
    <3>2. \A v \in Threads : thread'[v].pc \in Owning \cup {"lock"} => thread'[v] = thread[v]
      BY <1>4 DEF Moves, Idle, Owning, Destroying
    <3> QED
      BY <1>6, <2>1, <3>1, <3>2 DEF OneOwner, At
  <2> QED
    BY <2>2, <2>3
<1>14. ASSUME NEW u \in Threads PROVE Follows(u)' /\ WokenOnce(u)'
  <2>1. Follows(u) /\ WokenOnce(u)
    BY DEF Inv, ThreadsFit
  <2> QED
    BY <1>3, <1>4, <2>1
    DEF Follows, WokenOnce, Alone, Moves, At, Before, After, Finding, Signalling, Idle
<1> QED
  BY <1>7, <1>9, <1>10, <1>11, <1>12, <1>13, <1>14 DEF Inv, Entries, ThreadsFit

\* A file is closed that no process was made of, and no call is in progress on.
LEMMA CloseUnusedInv ==
  ASSUME Inv, NEW f \in Files, CloseUnused(f)
  PROVE  Inv'
<1>1. /\ ~file[f].isProcess /\ \A u \in Threads : thread[u].file # f
      /\ UNCHANGED <<linked, entry, mistaken, memory, clientData, thread, interruptible>>
      /\ file' = [file EXCEPT ![f] = Opened]
  BY DEF CloseUnused, tableVars
<1>2. \A e \in memory : clientData[e] # f
  BY <1>1, NotKept
<1>3. /\ file' \in [Files -> File] /\ ~file'[f].isProcess
      /\ \A g \in Files \ {f} : file'[g] = file[g]
  BY <1>1 DEF Inv, TypeOK, Opened, File
<1>4. TypeOK'
  BY <1>1, <1>3 DEF Inv, TypeOK, TableTypeOK
<1>5. \A e \in memory : clientData[e] \in Files \ {f} /\ file'[clientData[e]] = file[clientData[e]]
  BY <1>2, <1>3 DEF Inv, Entries, MemoryOwned
<1>6. \A e \in Entry : EntryCounted(e)'
  <2>1. \A e \in Entry : EntryCounted(e)
    BY DEF Inv, Entries
  <2>2. \A e : Holders(e)' = Holders(e) /\ Finders(e)' = Finders(e)
    BY <1>1 DEF Holders, Finders
  <2> QED
    BY <1>1, <1>5, <2>1, <2>2, CountsKept
<1>7. \A e \in memory' : MemoryOwned(e)'
  BY <1>1, <1>5 DEF Inv, Entries, MemoryOwned, Kept
<1>8. HandlesDiffer'
  BY <1>1, <1>5 DEF Inv, HandlesDiffer
<1>9. \A g \in Files : Found(g)'
  BY <1>1, <1>3 DEF Inv, Found, In
<1>10. ASSUME NEW u \in Threads PROVE OneOwner(u)' /\ Follows(u)' /\ WokenOnce(u)'
  <2>1. OneOwner(u) /\ Follows(u) /\ WokenOnce(u) /\ thread[u].file # f
    BY <1>1 DEF Inv, ThreadsFit
  <2>2. OneOwner(u)'
    BY <1>1, <1>3, <2>1 DEF OneOwner, At, Owning, Creating
  <2> QED
    BY <1>1, <2>1, <2>2 DEF Follows, WokenOnce, Alone, At
<1> QED
  BY <1>4, <1>6, <1>7, <1>8, <1>9, <1>10 DEF Inv, Entries, ThreadsFit

\* A file that is a process is closed: nobody is using it, and nobody can.
LEMMA CloseInv ==
  ASSUME Inv, NEW t \in Threads, NEW f \in Files, Close(t, f)
  PROVE  Inv'
<1> DEFINE r == [thread[t] EXCEPT !.pc = "get", !.file = f]
<1>1. TypeOK /\ thread[t] \in Thread /\ thread \in [Threads -> Thread]
  BY DEF Inv, TypeOK
<1>2. /\ file[f].isProcess /\ \A u \in Threads : thread[u].file # f
      /\ Begin(t, "get", f)
      /\ UNCHANGED <<linked, entry, mistaken, memory, clientData, interruptible>>
      /\ file' = [file EXCEPT ![f].isProcess = FALSE]
  BY DEF Close, tableVars
<1>3. Moves(t, r) /\ thread[t].pc = "idle"
  BY <1>1, <1>2, BeginMoves
<1>4. r.pc = "get" /\ r.file = f
  BY <1>1 DEF Thread
<1> HIDE DEF r
<1>5. /\ file' \in [Files -> File] /\ ~file'[f].isProcess
      /\ file'[f].handle = file[f].handle /\ file'[f].allocated = file[f].allocated
      /\ file'[f].locked = file[f].locked
      /\ \A g \in Files \ {f} : file'[g] = file[g]
  BY <1>1, <1>2 DEF TypeOK, File
<1>6. TypeOK'
  BY <1>1, <1>2, <1>3, <1>5 DEF TypeOK, TableTypeOK, Moves
<1>7. \A e \in memory : clientData[e] \in Files
  BY DEF Inv, Entries, MemoryOwned
<1>8. \A e \in Entry : EntryCounted(e)'
  <2>1. SameReferences(t, r)
    BY <1>3, <1>4 DEF SameReferences, Holding, Finding
  <2> QED
    BY <1>2, <1>3, <1>5, <1>7, <2>1, TableKept
<1>9. \A e \in memory' : MemoryOwned(e)'
  <2> SUFFICES ASSUME NEW e \in memory PROVE MemoryOwned(e)'
    BY <1>2
  <2>1. MemoryOwned(e)
    BY DEF Inv, Entries
  <2>2. Kept(clientData[e])'
    <3>1. CASE clientData[e] = f
      BY <1>2, <1>3, <1>4, <3>1 DEF Kept, Moves, Keeping, Owning, Destroying
    <3>2. CASE clientData[e] # f
      BY <1>2, <1>3, <1>5, <2>1, <3>2
      DEF Kept, MemoryOwned, Moves, Keeping, Owning, Destroying
    <3> QED
      BY <3>1, <3>2
  <2> QED
    BY <1>2, <1>5, <2>1, <2>2 DEF MemoryOwned
<1>10. HandlesDiffer'
  BY <1>2, <1>5, <1>7 DEF Inv, HandlesDiffer
<1>11. \A g \in Files : Found(g)'
  BY <1>2, <1>3, <1>4, <1>5 DEF Inv, Found, In, Moves
<1>12. ASSUME NEW u \in Threads PROVE OneOwner(u)'
  <2>1. OneOwner(u)
    BY DEF Inv, ThreadsFit
  <2>2. CASE u = t
    BY <1>2, <1>3, <1>4, <1>5, <2>2
    DEF OneOwner, Moves, Owning, Creating, Reading, Destroying, At
  <2>3. CASE u # t
    <3>1. thread'[u] = thread[u] /\ thread[u].file # f
      BY <1>2, <1>3, <2>3 DEF Moves
    <3>2. \A v \in Threads : thread'[v].file # f => thread'[v] = thread[v]
      BY <1>3, <1>4 DEF Moves
    <3> QED
      BY <1>5, <2>1, <3>1, <3>2 DEF OneOwner, At, Owning, Creating
  <2> QED
    BY <2>2, <2>3
<1>13. ASSUME NEW u \in Threads PROVE Follows(u)' /\ WokenOnce(u)'
  <2>1. Follows(u) /\ WokenOnce(u)
    BY DEF Inv, ThreadsFit
  <2> QED
    BY <1>2, <1>3, <1>4, <2>1
    DEF Follows, WokenOnce, Alone, Moves, At, Before, After, Finding, Signalling
<1> QED
  BY <1>6, <1>8, <1>9, <1>10, <1>11, <1>12, <1>13 DEF Inv, Entries, ThreadsFit

\* The file becomes a process when its handle has been copied out.
LEMMA CopyOutInv ==
  ASSUME Inv, NEW t \in Threads, CopyOut(t)
  PROVE  Inv'
<1>1. TypeOK /\ thread[t] \in Thread /\ thread \in [Threads -> Thread]
  BY DEF Inv, TypeOK
<1>2. PICK f \in Files : f = thread[t].file
  BY DEF Inv, ThreadsFit, OneOwner, Creating, CopyOut, At
<1>3. /\ thread[t].pc = "copy" /\ Return(t)
      /\ UNCHANGED <<linked, entry, mistaken, memory, clientData, interruptible>>
      /\ file' = [file EXCEPT ![f].isProcess = TRUE, ![f].locked = FALSE]
  BY <1>2 DEF CopyOut, At, tableVars
<1>4. Moves(t, Idle)
  BY <1>1, <1>3, ReturnMoves
<1>5. /\ file' \in [Files -> File] /\ file'[f].isProcess
      /\ file'[f].handle = file[f].handle /\ file'[f].allocated = file[f].allocated
      /\ \A g \in Files \ {f} : file'[g] = file[g]
  BY <1>1, <1>3 DEF TypeOK, File
<1>6. TypeOK'
  BY <1>1, <1>3, <1>4, <1>5 DEF TypeOK, TableTypeOK, Moves
<1>7. \A e \in memory : clientData[e] \in Files
  BY DEF Inv, Entries, MemoryOwned
<1>8. \A e \in Entry : EntryCounted(e)'
  <2>1. SameReferences(t, Idle)
    BY <1>3 DEF SameReferences, Holding, Finding, Idle
  <2> QED
    BY <1>3, <1>4, <1>5, <1>7, <2>1, TableKept
<1>9. \A e \in memory' : MemoryOwned(e)'
  <2> SUFFICES ASSUME NEW e \in memory PROVE MemoryOwned(e)'
    BY <1>3
  <2>1. MemoryOwned(e)
    BY DEF Inv, Entries
  <2>2. Kept(clientData[e])'
    <3>1. CASE clientData[e] = f
      BY <1>3, <1>5, <3>1 DEF Kept
    <3>2. CASE clientData[e] # f
      BY <1>2, <1>3, <1>4, <1>5, <2>1, <3>2 DEF Kept, MemoryOwned, Moves
    <3> QED
      BY <3>1, <3>2
  <2> QED
    BY <1>3, <1>5, <2>1, <2>2 DEF MemoryOwned
<1>10. HandlesDiffer'
  BY <1>3, <1>5, <1>7 DEF Inv, HandlesDiffer
<1>11. ASSUME NEW g \in Files PROVE Found(g)'
  <2>1. Found(g)
    BY DEF Inv
  <2>2. In(g, {"copy", "get"})' # {} => In(g, {"copy", "get"}) # {}
    BY <1>4 DEF In, Moves, Idle
  <2>3. g = f => In(g, {"copy", "get"}) # {}
    BY <1>2, <1>3 DEF In
  <2> QED
    BY <1>3, <1>5, <2>1, <2>2, <2>3 DEF Found
<1>12. ASSUME NEW u \in Threads PROVE OneOwner(u)'
  <2>1. OneOwner(u) /\ OneOwner(t)
    BY DEF Inv, ThreadsFit
  <2>2. CASE u = t
    BY <1>4, <2>2 DEF OneOwner, Moves, Idle, Owning, Creating, Reading, Destroying
  <2>3. CASE u # t
    <3>1. thread'[u] = thread[u] /\ (thread[u].pc \in Owning => thread[u].file \in Files \ {f})
      BY <1>2, <1>3, <1>4, <2>1, <2>3 DEF Moves, OneOwner, Owning, Creating, Destroying
    <3>2. \A v \in Threads : thread'[v].pc \in Owning \cup {"lock"} => thread'[v] = thread[v]
      BY <1>4 DEF Moves, Idle, Owning, Destroying
    <3> QED
      BY <1>5, <2>1, <3>1, <3>2 DEF OneOwner, At
  <2> QED
    BY <2>2, <2>3
<1>13. ASSUME NEW u \in Threads PROVE Follows(u)' /\ WokenOnce(u)'
  <2>1. Follows(u) /\ WokenOnce(u)
    BY DEF Inv, ThreadsFit
  <2> QED
    BY <1>3, <1>4, <2>1
    DEF Follows, WokenOnce, Alone, Moves, At, Before, After, Finding, Signalling, Idle
<1> QED
  BY <1>6, <1>8, <1>9, <1>10, <1>11, <1>12, <1>13 DEF Inv, Entries, ThreadsFit

\* A handle that nobody has, in the table or while its entry goes.
LEMMA FreshHandle ==
  ASSUME Inv, NEW h, ~EntryExists(h), ~BeingDestroyed(h)
  PROVE  \A d \in memory : file[clientData[d]].handle # h
<1> SUFFICES ASSUME NEW d \in memory, file[clientData[d]].handle = h PROVE FALSE
  OBVIOUS
<1>1. PICK f \in Files : f = clientData[d] /\ Kept(f) /\ file[f].handle = h
  BY DEF Inv, Entries, MemoryOwned
<1>2. CASE file[f].isProcess \/ In(f, {"copy", "get"}) # {}
  <2>1. PICK e \in linked : clientData[e] = f
    BY <1>2 DEF Inv, Found
  <2>2. e \in Under(file[f].handle)
    BY <2>1, HandleFinds
  <2> QED
    BY <1>1, <2>2 DEF EntryExists
<1>3. CASE ~(file[f].isProcess \/ In(f, {"copy", "get"}) # {})
  <2>1. PICK t \in Threads : thread[t].file = f /\ thread[t].pc \in Keeping
    BY <1>1, <1>3 DEF Kept
  <2>2. thread[t].pc # "copy"
    BY <1>3, <2>1 DEF In
  <2> QED
    BY <1>1, <2>1, <2>2 DEF BeingDestroyed, Keeping, Owning
<1> QED
  BY <1>2, <1>3

\* With the lock of the file, a thread makes a process that has none.
LEMMA CreateInv ==
  ASSUME Undisturbed, Inv, NEW t \in Threads, NEW h \in Handle, NEW e \in Entry, Create(t, h, e)
  PROVE  Inv'
<1> DEFINE r == [thread[t] EXCEPT !.pc = "copy"]
<1>1. TypeOK /\ thread[t] \in Thread /\ thread \in [Threads -> Thread]
  BY DEF Inv, TypeOK
<1>2. PICK f \in Files : f = thread[t].file
  BY DEF Inv, ThreadsFit, OneOwner, Creating, Create, At
<1>3. /\ thread[t].pc = "lock" /\ ~file[f].locked /\ ~file[f].isProcess /\ Goto(t, "copy")
      /\ ~BeingDestroyed(h) /\ ~EntryExists(h)
      /\ e \notin memory /\ ~entry[e].allocated
      /\ linked' = linked \cup {e} /\ mistaken' = mistaken
      /\ entry' = [entry EXCEPT ![e] = [allocated |-> TRUE, handle |-> h, refCount |-> 1]]
      /\ memory' = memory \cup {e}
      /\ clientData' = [clientData EXCEPT ![e] = f]
      /\ file' = [file EXCEPT ![f].locked = TRUE, ![f].allocated = TRUE, ![f].handle = h]
      /\ interruptible' = interruptible
  BY <1>2 DEF Create, At, AddEntry, Undisturbed
<1>4. Moves(t, r)
  BY <1>1, <1>3, GotoMoves DEF Creating
<1>5. r.pc = "copy" /\ r.file = f
  BY <1>1, <1>2 DEF Thread
<1> HIDE DEF r
<1>6. /\ file' \in [Files -> File] /\ ~file'[f].isProcess /\ file'[f].handle = h
      /\ file'[f].allocated /\ file'[f].locked
      /\ \A g \in Files \ {f} : file'[g] = file[g]
  BY <1>1, <1>3, ZenonT(120) DEF TypeOK, File
<1>7. /\ entry' \in [Entry -> [allocated : BOOLEAN, handle : Handle \cup {NoHandle},
                               refCount : Nat]]
      /\ entry'[e] = [allocated |-> TRUE, handle |-> h, refCount |-> 1]
      /\ \A d \in Entry \ {e} : entry'[d] = entry[d]
      /\ clientData' \in [Entry -> Files \cup {NoFile}] /\ clientData'[e] = f
      /\ \A d \in Entry \ {e} : clientData'[d] = clientData[d]
  BY <1>1, <1>3 DEF TypeOK, TableTypeOK
<1>8. TypeOK'
  BY <1>1, <1>3, <1>4, <1>6, <1>7 DEF TypeOK, TableTypeOK, Moves
<1>9. \A u \in Threads : thread[u].file = f => thread[u].pc \notin Owning
  BY <1>2, <1>3 DEF Inv, ThreadsFit, OneOwner, At
<1>10. \A d \in memory : /\ d \in Entry \ {e} /\ clientData[d] \in Files \ {f}
                         /\ file[clientData[d]].handle # h
  <2>1. \A d \in memory : clientData[d] # f
    BY <1>3, <1>9, NotKept DEF Keeping
  <2> QED
    BY <1>1, <1>3, <2>1, FreshHandle DEF TypeOK, Inv, Entries, MemoryOwned
<1>11. \A d : Holders(d)' = Holders(d) /\ Finders(d)' = Finders(d)
  BY <1>3, <1>4, <1>5 DEF Holders, Finders, Holding, Finding, Moves
<1>12. EntryCounted(e)'
  <2>1. Holders(e) = {} /\ Finders(e) = {}
    BY <1>3, Referenced
  <2>2. Cardinality(Holders(e))' = 0 /\ Cardinality(Finders(e))' = 0 /\ Link(e)' = 1
    BY <1>3, <1>11, <2>1, FS_EmptySet DEF Link
  <2>3. entry'[e].refCount = Link(e)' + Cardinality(Holders(e))' + Cardinality(Finders(e))'
    BY <1>7, <2>2
  <2> QED
    BY <1>3, <1>6, <1>7, <2>3 DEF EntryCounted
<1>13. \A d \in Entry \ {e} : EntryCounted(d)'
  <2> SUFFICES ASSUME NEW d \in Entry \ {e} PROVE EntryCounted(d)'
    OBVIOUS
  <2>1. EntryCounted(d)
    BY DEF Inv, Entries
  <2>2. d \in memory => file'[clientData[d]].handle = file[clientData[d]].handle
    BY <1>6, <1>10
  <2> QED
    BY <1>3, <1>7, <1>11, <2>1, <2>2, CountsKept
<1>14. \A d \in memory' : MemoryOwned(d)'
  <2>1. MemoryOwned(e)'
    <3>1. Kept(f)'
      BY <1>4, <1>5 DEF Kept, Moves, Keeping, Owning
    <3> QED
      BY <1>6, <1>7, <3>1 DEF MemoryOwned
  <2>2. ASSUME NEW d \in memory PROVE MemoryOwned(d)'
    <3>1. MemoryOwned(d)
      BY DEF Inv, Entries
    <3>2. Kept(clientData[d])'
      BY <1>2, <1>4, <1>6, <1>7, <1>10, <3>1 DEF Kept, MemoryOwned, Moves
    <3> QED
      BY <1>6, <1>7, <1>10, <3>1, <3>2 DEF MemoryOwned
  <2> QED
    BY <1>3, <2>1, <2>2
<1>15. HandlesDiffer'
  BY <1>3, <1>6, <1>7, <1>10 DEF Inv, HandlesDiffer
<1>16. ASSUME NEW g \in Files PROVE Found(g)'
  <2>1. CASE g = f
    BY <1>3, <1>7, <2>1 DEF Found
  <2>2. CASE g # f
    <3> SUFFICES ASSUME file'[g].isProcess \/ In(g, {"copy", "get"})' # {}
                 PROVE  \E d \in linked' : clientData'[d] = g
      BY DEF Found
    <3>1. file[g].isProcess \/ In(g, {"copy", "get"}) # {}
      BY <1>4, <1>5, <1>6, <2>2 DEF In, Moves
    <3>2. PICK d \in linked : clientData[d] = g
      BY <3>1 DEF Inv, Found
    <3>3. d \in Entry \ {e}
      <4>1. d \in Entry
        BY <1>1 DEF TypeOK, TableTypeOK
      <4> QED
        BY <1>3, <4>1, Referenced
    <3> QED
      BY <1>3, <1>7, <3>2, <3>3
  <2> QED
    BY <2>1, <2>2
<1>17. ASSUME NEW u \in Threads PROVE OneOwner(u)'
  <2>1. OneOwner(u)
    BY DEF Inv, ThreadsFit
  <2>2. CASE u = t
    BY <1>4, <1>5, <1>6, <1>9, <2>2 DEF OneOwner, Moves, Owning
  <2>3. CASE u # t
    <3>1. thread'[u] = thread[u] /\ (thread[u].pc \in Owning => thread[u].file \in Files \ {f})
      BY <1>4, <1>9, <2>1, <2>3 DEF Moves, OneOwner, Owning, Creating, Destroying
    <3>2. \A v \in Threads : thread'[v].file # f => thread'[v] = thread[v]
      BY <1>4, <1>5 DEF Moves
    <3> QED
      BY <1>6, <2>1, <3>1, <3>2 DEF OneOwner, At
  <2> QED
    BY <2>2, <2>3
<1>18. ASSUME NEW u \in Threads PROVE Follows(u)' /\ WokenOnce(u)'
  <2>1. Follows(u) /\ WokenOnce(u)
    BY DEF Inv, ThreadsFit
  <2>2. CASE u = t
    BY <1>4, <1>5, <2>2 DEF Follows, WokenOnce, Moves, At, Before, After, Finding, Signalling
  <2>3. CASE u # t
    <3>1. thread'[u] = thread[u]
      BY <1>4, <2>3 DEF Moves
    <3>2. thread[u].pc \in Before \cup After \cup Signalling => thread[u].entry \in memory
      BY <2>1 DEF Follows, WokenOnce
    <3>3. Follows(u)'
      BY <1>3, <1>7, <1>10, <2>1, <3>1, <3>2 DEF Follows, At
    <3>4. thread[u].entry \in memory /\ Alone(u) => Alone(u)'
      BY <1>4, <1>5, <1>7, <1>10, <3>1 DEF Alone, Moves, Signalling
    <3>5. WokenOnce(u)'
      BY <1>3, <2>1, <3>1, <3>2, <3>4 DEF WokenOnce, At, After, Signalling
    <3> QED
      BY <3>3, <3>5
  <2> QED
    BY <2>2, <2>3
<1> QED
  BY <1>8, <1>12, <1>13, <1>14, <1>15, <1>16, <1>17, <1>18 DEF Inv, Entries, ThreadsFit

-----------------------------------------------------------------------------
\* Initially there is nothing.
LEMMA InitInv == Init => Inv
<1> SUFFICES ASSUME Init PROVE Inv
  OBVIOUS
<1>1. \A t \in Threads : thread[t] = Idle
  BY DEF Init
<1>2. TypeOK
  <2>1. Opened \in File
    <3>1. <<>> \in Seq(Sizes)
      OBVIOUS
    <3> QED
      BY <3>1 DEF Opened, File
  <2>2. Idle \in Thread
    BY DEF Idle, Thread
  <2> QED
    BY <2>1, <2>2 DEF Init, TableInit, TypeOK, TableTypeOK, NoMemory
<1>3. \A e \in Entry : EntryCounted(e)
  <2> SUFFICES ASSUME NEW e \in Entry PROVE EntryCounted(e)
    OBVIOUS
  <2>1. Holders(e) = {} /\ Finders(e) = {}
    BY <1>1 DEF Holders, Finders, Idle, Holding, Finding
  <2>2. Cardinality(Holders(e)) = 0 /\ Cardinality(Finders(e)) = 0 /\ Link(e) = 0
    BY <2>1, FS_EmptySet DEF Init, TableInit, Link
  <2>3. entry[e].refCount = 0 /\ ~entry[e].allocated
    BY DEF Init, TableInit, NoMemory
  <2> QED
    BY <2>2, <2>3 DEF EntryCounted
<1>4. \A f \in Files : Found(f)
  BY <1>1 DEF Init, Found, In, Idle, Opened
<1>5. ThreadsFit
  BY <1>1
  DEF ThreadsFit, OneOwner, Follows, WokenOnce, Idle, At, Owning, Creating, Reading, Destroying,
      Before, After, Finding, Signalling
<1> QED
  BY <1>2, <1>3, <1>4, <1>5 DEF Inv, Entries, HandlesDiffer, Init

\* Every step preserves the invariant.
LEMMA NextInv == ASSUME Undisturbed PROVE Inv /\ [Next]_vars => Inv'
<1> SUFFICES ASSUME Inv, [Next]_vars PROVE Inv'
  OBVIOUS
<1>1. ASSUME NEW f \in Files, CloseUnused(f) PROVE Inv'
  BY <1>1, CloseUnusedInv
<1>2. ASSUME NEW t \in Threads, Call(t) PROVE Inv'
  <2>1. ASSUME NEW f \in Files, CallCreate(t, f) \/ \E pc \in Reading : CallRead(t, f, pc)
        PROVE  Inv'
    BY <2>1, CallsStill
  <2>2. ASSUME NEW f \in Files, Close(t, f) PROVE Inv'
    BY <2>2, CloseInv
  <2>3. ASSUME NEW e \in Entry, NEW h \in Handle, NEW permitted \in BOOLEAN,
               Dispatch(t, e, h, permitted)
        PROVE  Inv'
    BY <2>3, DispatchInv
  <2> QED
    BY <1>2, <2>1, <2>2, <2>3 DEF Call
<1>3. ASSUME NEW t \in Threads, Continue(t) PROVE Inv'
  <2>1. CASE Creates(t)
    BY <2>1, CreateInv, ReadsStill, CopyOutInv, CopyFailsInv DEF Creates
  <2>2. CASE Destroys(t)
    BY <2>2, GetResourceInv, FindResourceInv, UnlinkResourceInv, DropResourceInv, JoinEventInv,
       ReleaseInv, EventComesInv, FreeEntryInv, FlushInv
    DEF Destroys
  <2>3. CASE Sends(t)
    BY <2>3, NotifyInv, ReleaseInv, FreeCBInv DEF Sends
  <2>4. CASE Reads(t)
    BY <2>4, ReadsStill
  <2> QED
    BY <1>3, <2>1, <2>2, <2>3, <2>4 DEF Continue
<1>4. ASSUME NEW t \in Threads, Interrupted(t) PROVE Inv'
  BY <1>4, ReadsStill
<1>5. CASE UNCHANGED vars
  <2>1. /\ UNCHANGED <<linked, entry, mistaken, memory, clientData, file>>
        /\ UNCHANGED <<thread, interruptible>>
    BY <1>5 DEF vars, tableVars
  <2>2. TypeOK'
    BY <2>1 DEF Inv, TypeOK, TableTypeOK
  <2>3. Entries'
    BY <2>1 DEF Inv, Entries, EntryCounted, Link, Holders, Finders, MemoryOwned, Kept
  <2>4. HandlesDiffer' /\ \A f \in Files : Found(f)'
    BY <2>1 DEF Inv, HandlesDiffer, Found, In
  <2>5. ThreadsFit'
    BY <2>1 DEF Inv, ThreadsFit, OneOwner, Follows, WokenOnce, Alone, At
  <2> QED
    BY <2>2, <2>3, <2>4, <2>5 DEF Inv
<1> QED
  BY <1>1, <1>2, <1>3, <1>4, <1>5 DEF Next

LEMMA InvHolds == ASSUME Undisturbed PROVE Spec => []Inv
  BY InitInv, NextInv, PTL DEF Spec

-----------------------------------------------------------------------------
\* If no signal ends the wait for the callbacks, and no handle is made again
\* while it is being destroyed, then whoever has an entry has its memory and
\* whoever calls back into a process has the process, with any number of
\* processes, of senders and of closes; copies to the user may fail.
THEOREM CallersHaveTheProcess == ASSUME Undisturbed PROVE Spec => []NoUseAfterFree
<1>1. Inv => NoUseAfterFree
  <2> SUFFICES ASSUME Inv, NEW t \in Threads
               PROVE  /\ thread[t].pc \in Sending \cup (Destroying \ {"get", "flush"})
                           => thread[t].entry \in memory
                      /\ At(t, "callback") => file[clientData[thread[t].entry]].allocated
    BY DEF NoUseAfterFree
  <2>1. Follows(t) /\ WokenOnce(t)
    BY DEF Inv, ThreadsFit
  <2>2. thread[t].pc \in {"callback", "release"} => thread[t].entry \in memory
    <3> SUFFICES ASSUME thread[t].pc \in {"callback", "release"}
                 PROVE  thread[t].entry \in memory
      OBVIOUS
    <3>1. PICK e \in Entry : e = thread[t].entry
      BY <2>1 DEF Follows
    <3>2. t \in Holders(e)
      BY <3>1 DEF Holders, Holding
    <3> QED
      BY <3>1, <3>2, Referenced
  <2>3. thread[t].pc \in Sending \cup (Destroying \ {"get", "flush"}) => thread[t].entry \in memory
    BY <2>1, <2>2 DEF Follows, WokenOnce, Sending, Destroying, Before, After, Signalling, At
  <2> QED
    BY <2>3 DEF At, Sending, Inv, Entries, MemoryOwned
<1> QED
  BY <1>1, InvHolds, PTL

\* The state of the table, the files and the calls has its type.
THEOREM TypeCorrect == ASSUME Undisturbed PROVE Spec => []TypeOK
<1>1. Inv => TypeOK
  BY DEF Inv
<1> QED
  BY <1>1, InvHolds, PTL

\* Only this entry is under the handle of an entry that is alive.
LEMMA UnderOnly ==
  ASSUME Inv, NEW e \in Entry, entry[e].allocated
  PROVE  Under(entry[e].handle) \ {e} = {}
<1>1. e \in memory /\ entry[e].handle = file[clientData[e]].handle
  BY DEF Inv, Entries, EntryCounted
<1> QED
  BY <1>1, LinkedAlone DEF Under

LEMMA StepUnlinksItself ==
  ASSUME Inv, ~mistaken, [Next]_vars
  PROVE  ~mistaken'
<1>1. ASSUME NEW t \in Threads, UnlinkResource(t) \/ DropResource(t) PROVE ~mistaken'
  <2>1. PICK e \in Entry : e = thread[t].found /\ t \in Holders(e)
    BY <1>1
    DEF Inv, TypeOK, ThreadsFit, Follows, Before, After, Finding, Holders, Holding, UnlinkResource,
        DropResource, At
  <2>2. Under(entry[e].handle) \ {e} = {}
    BY <2>1, Referenced, UnderOnly
  <2> QED
    BY <1>1, <2>1, <2>2
    DEF UnlinkResource, DropResource, RemoveEntry, Release, ReleaseEntry, Mistakes
<1>2. ASSUME NEW t \in Threads, ReleaseResource(t) \/ DatagramReleaseCB(t) PROVE ~mistaken'
  <2>1. PICK e \in Entry : e = thread[t].entry /\ t \in Holders(e)
    BY <1>2
    DEF Inv, TypeOK, ThreadsFit, Follows, After, Holders, Holding, ReleaseResource,
        DatagramReleaseCB, At
  <2>2. Under(entry[e].handle) \ {e} = {}
    BY <2>1, Referenced, UnderOnly
  <2> QED
    BY <1>2, <2>1, <2>2
    DEF ReleaseResource, DatagramReleaseCB, Release, ReleaseEntry, Mistakes
<1>3. ASSUME NEW t \in Threads, Call(t) \/ Creates(t) \/ Reads(t) \/ Interrupted(t)
      PROVE  mistaken' = mistaken
  BY <1>3
  DEF Call, CallCreate, CallRead, Close, Dispatch, GetEntry, Creates, Create, AddEntry,
      CreateFails, CopyOut, CopyFails, Reads, ReadCallWaits, ReadCallWoken, ReadCall, Poll,
      PollWoken, Interrupted, tableVars
<1>4. ASSUME NEW t \in Threads, GetResource(t) \/ FindResource(t) \/ JoinEvent(t)
             \/ EventComes(t) \/ FreeEntry(t) \/ Flush(t) \/ NotifyCBFails(t)
             \/ DatagramFreeCB(t) \/ \E size \in Sizes : NotifyCB(t, size)
      PROVE  mistaken' = mistaken
  BY <1>4
  DEF GetResource, FindResource, GetEntry, JoinEvent, EventComes, FreeEntry, Flush,
      NotifyCB, NotifyCBFails, DatagramFreeCB, tableVars
<1>5. ASSUME NEW f \in Files, CloseUnused(f) PROVE mistaken' = mistaken
  BY <1>5 DEF CloseUnused, tableVars
<1>6. UNCHANGED vars => mistaken' = mistaken
  BY DEF vars, tableVars
<1> QED
  BY <1>1, <1>2, <1>3, <1>4, <1>5, <1>6 DEF Next, Continue, Destroys, Sends

\* What is taken off the table is the entry that was to be, though it is looked
\* for by its handle: ASSERT(cur == entry) of HashTableUnlinkEntry holds.
THEOREM EntriesUnlinkThemselves == ASSUME Undisturbed PROVE Spec => []~mistaken
<1>1. Init => ~mistaken
  BY DEF Init, TableInit
<1>2. Inv /\ ~mistaken /\ [Next]_vars => ~mistaken'
  BY StepUnlinksItself
<1> QED
  BY <1>1, <1>2, InvHolds, PTL DEF Spec
=============================================================================
